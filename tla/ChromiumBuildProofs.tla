------------------------ MODULE ChromiumBuildProofs ------------------------
(***************************************************************************)
(* Proofs about ChromiumBuild, for any files, edits and bounds. What the   *)
(* driver does to the tree's edits are steps of the Patcher, so that what  *)
(* PatcherProofs says of those holds of a build.                           *)
(***************************************************************************)
EXTENDS ChromiumBuild, PatcherProofs

\* Every step of a build is one of the Patcher, or leaves its state alone.
LEMMA BuildStepsPatcher ==
  ASSUME [Next]_vars
  PROVE  [PatcherNext]_patcherState
<1> DEFINE Goal == [PatcherNext]_patcherState
<1> USE DEF patcherVars, patcherState, treeVars, jobVars, history
<1>1. CASE Start \/ SyncStep \/ BuildStep \/ HooksFail \/ SourceVanished
  <2>1. UNCHANGED patcherVars
    BY <1>1 DEF Start, SyncStep, BuildStep, HooksFail, SourceVanished, Goes, LibraryStays,
       FileIsSame, OpenTarget, WriteTarget, remove_danglers, NoDanglers, BuildFileIsSame,
       WriteBuildFile, TouchUpdated, LibraryIsThere, ExtractSome, ExtractRest, RenameLibrary,
       GnGen, NoGnGen, Ninja
  <2> QED
    BY <2>1
<1>2. CASE SetUpStep
  <2>1. UNCHANGED patcherVars
    BY <1>2 DEF SetUpStep, MakeSrc, MarkFresh, FindSrc, Fetch, OnTargetBranch, SwitchBranch,
       GclientSync, RunHooks, CheckLandmines, Goes
  <2> QED
    BY <2>1
<1>3. CASE PatchStep
  <2>1. PatcherNext
    BY <1>3 DEF PatchStep, PatcherNext, ApplyStep
  <2> QED
    BY <2>1
<1>4. CASE CutShort
  BY <1>4 DEF CutShort, PatcherNext
<1>5. CASE RecordStep
  BY <1>5 DEF RecordStep, PatcherNext
<1>6. ASSUME NEW f \in Source, NEW t \in Text \cup {"none"}, EditSource(f, t) PROVE Goal
  BY <1>6 DEF EditSource
<1>7. ASSUME NEW t \in Text, EditTemplate(t) PROVE Goal
  BY <1>7 DEF EditTemplate
<1>8. CASE EditTree \/ NewTree
  BY <1>8 DEF EditTree, NewTree, PatcherNext, DevStep
<1>9. CASE UNCHANGED vars
  BY <1>9 DEF vars
<1> QED
  BY <1>1, <1>2, <1>3, <1>4, <1>5, <1>6, <1>7, <1>8, <1>9 DEF Next

(* A build implements the Patcher: whatever the driver, its deaths and the *)
(* edits of this repository do in between, what becomes of the tree, of    *)
(* chromium_edits and of the scripts is what steps of the Patcher do.      *)
THEOREM BuildIsPatcher == Spec => Uncounted
<1>1. BuildInit => PatcherInit
  BY DEF BuildInit
<1>2. [Next]_vars => [PatcherNext]_patcherState
  BY BuildStepsPatcher
<1> QED
  BY <1>1, <1>2, PTL DEF Spec, Uncounted

LEMMA PatcherInBuild == Spec => [](PatcherInv /\ BackInv /\ RerunInv)
BY BuildIsPatcher, PatcherSound, PTL

(* A finished apply has left every edit of its version in effect but for   *)
(* those that PassedOver names, in builds that are killed and run again at *)
(* will: edits that glob does not list, removals, torn records, files with *)
(* a .skip or altered otherwise, and files that Chromium changed since and *)
(* that look edited as it has them (Patcher.apply).                        *)
THEOREM EditsInEffect == Spec => []FinishedMeansInEffect
BY PatcherInBuild, EffectFromInv, PTL

(* Applying edits, in a build that is killed and run again at will, takes  *)
(* nothing from a file that has a text of its own (Patcher.check_patch).   *)
THEOREM WorkIsKept == Spec => ApplyKeepsWork
<1>1. ASSUME PatcherInv, [Next]_vars
      PROVE  [doing = "apply" =>
                \A p \in files : text[p] # {} => p \in files' /\ text[p] \subseteq text'[p]]_patcherVars
  BY <1>1, BuildStepsPatcher, StepKeepsWork
<1> QED
  BY <1>1, PatcherInBuild, PTL DEF Spec, ApplyKeepsWork

(* Applying a record to an unaltered checkout brings back the tree that    *)
(* was recorded, in builds that are killed and run again at will, but for  *)
(* what Unrecorded names: committed removals, unversioned directories,     *)
(* files with a .skip, and paths whose names keep them from being recorded *)
(* or, begun with a dot, from being applied (create_patch_file,            *)
(* patch.py:89-138, and glob, patch.py:161).                               *)
THEOREM RecordingsComeBack == Spec => []RecordingComesBack
BY PatcherInBuild, BackFromInv, PTL

(* The apply of every later target changes no file of a tree that an apply *)
(* has finished with, until a developer does, or records (Patcher.apply).  *)
THEOREM RerunsChangeNothing == Spec => RerunChangesNothing
<1>1. ASSUME PatcherInv, RerunInv, [Next]_vars
      PROVE  [settled /\ settled' => UNCHANGED <<files, text, skips>>]_patcherVars
  BY <1>1, BuildStepsPatcher, RerunStep
<1> QED
  BY <1>1, PatcherInBuild, PTL DEF Spec, RerunChangesNothing
----------------------------------------------------------------------------
(* The library *)

Archived == lib # "part" /\ (at = "rename" => extracted = "whole")

(* third_party/ipfs_client is never a part of what was extracted, wherever *)
(* the extraction was killed (chromium.py:270).                            *)
THEOREM LibraryStaysWhole == Spec => []LibraryIsWhole
<1>1. BuildInit => Archived
  BY DEF BuildInit, Archived
<1>2. Archived /\ [Next]_vars => Archived'
  <2> SUFFICES ASSUME Archived, [Next]_vars PROVE Archived'
    OBVIOUS
  <2> USE DEF Archived, libVars, treeSync, runVars
  <2>1. CASE Start \/ SetUpStep \/ HooksFail
    BY <2>1 DEF Start, SetUpStep, HooksFail, MakeSrc, MarkFresh, FindSrc, Fetch, OnTargetBranch,
       SwitchBranch, GclientSync, RunHooks, CheckLandmines, Goes
  <2>2. CASE PatchStep \/ SourceVanished \/ CutShort
    BY <2>2 DEF PatchStep, SourceVanished, CutShort
  <2>3. CASE SyncStep
    BY <2>3 DEF SyncStep, Goes, FileIsSame, OpenTarget, WriteTarget, remove_danglers, NoDanglers,
       BuildFileIsSame, WriteBuildFile, TouchUpdated
  <2>4. CASE BuildStep
    BY <2>4 DEF BuildStep, LibraryStays, LibraryIsThere, ExtractSome, ExtractRest, RenameLibrary,
       GnGen, NoGnGen, Ninja, Goes
  <2>5. CASE RecordStep \/ EditTree \/ NewTree
    BY <2>5 DEF RecordStep, EditTree, NewTree, buildVars
  <2>6. CASE (\E f \in Source, t \in Text \cup {"none"} : EditSource(f, t)) \/ \E t \in Text : EditTemplate(t)
    BY <2>6 DEF EditSource, EditTemplate
  <2>7. CASE UNCHANGED vars
    BY <2>7 DEF vars, buildVars
  <2> QED
    BY <2>1, <2>2, <2>3, <2>4, <2>5, <2>6, <2>7 DEF Next
<1>3. Archived => LibraryIsWhole
  BY DEF Archived, LibraryIsWhole
<1> QED
  BY <1>1, <1>2, <1>3, PTL DEF Spec
----------------------------------------------------------------------------
(* Types *)

CountersOK == devs \in 0..MaxDev /\ kills \in 0..MaxKills

\* Files are listed for copying, and one is open, during that step only.
DriverOK ==
  /\ at \in Step /\ disk \subseteq SetUp \cup {"fresh"}
  /\ repo \in [Source -> FileText] /\ template \in Text
  /\ target \in [Source -> FileText \cup {"torn"}]
  /\ {buildFile, known} \subseteq [list : SUBSET Source, template : FileText]
  /\ newer \in BOOLEAN
  /\ pending \subseteq Source /\ writing \subseteq pending /\ listed \subseteq Source
  /\ lib \in {"none", "part", "whole"} /\ extracted \in {"none", "part", "whole"}
  /\ edited \subseteq Source /\ raced \subseteq Source /\ cut \subseteq {"mark", "sync"}
  /\ at # "copy" => pending = {} /\ writing = {}

LEMMA CountersInductive == CountersOK /\ [Next]_vars => CountersOK'
<1> SUFFICES ASSUME CountersOK, [Next]_vars PROVE CountersOK'
  OBVIOUS
<1> USE PatcherAssumption DEF PatcherAssumption, CountersOK
<1>1. ASSUME UNCHANGED <<devs, kills>> PROVE CountersOK'
  BY <1>1
<1>2. ASSUME devs < MaxDev /\ devs' = devs + 1 /\ kills' = kills PROVE CountersOK'
  BY <1>2
<1>3. ASSUME kills < MaxKills /\ kills' = kills + 1 /\ devs' = devs PROVE CountersOK'
  BY <1>3
<1>4. CASE Start \/ SetUpStep \/ SyncStep \/ BuildStep \/ HooksFail \/ SourceVanished \/ UNCHANGED vars
  BY <1>1, <1>4 DEF vars, patcherVars, Start, SetUpStep, SyncStep, BuildStep, HooksFail, SourceVanished,
     Goes, LibraryStays, MakeSrc, MarkFresh, FindSrc, Fetch, OnTargetBranch, SwitchBranch, GclientSync,
     RunHooks, CheckLandmines, FileIsSame, OpenTarget, WriteTarget, remove_danglers, NoDanglers,
     BuildFileIsSame, WriteBuildFile, TouchUpdated, LibraryIsThere, ExtractSome, ExtractRest,
     RenameLibrary, GnGen, NoGnGen, Ninja
<1>5. CASE PatchStep \/ RecordBegin \/ RecordEnds \/ \E e \in todo : RecordEdit(e)
  BY <1>1, <1>5 DEF PatchStep, ApplyBegin, ApplyStep, ApplyStops, ApplyEnds, check_patch, ApplyRemoval,
     LeaveCopy, CopyOpens, CopyWrites, CopySkip, Taken, RecordBegin, RecordEnds, RecordEdit
<1>6. ASSUME CutShort \/ Kill \/ KilledClearing \/ \E e \in todo : KilledWriting(e)
      PROVE  CountersOK'
  BY <1>3, <1>6 DEF CutShort, Kill, Killed, KilledClearing, KilledWriting
<1>7. CASE EditTree \/ NewTree
  BY <1>2, <1>7 DEF EditTree, NewTree, DevStep, DevEdit, DevAdd, DevRemove, DevSkip, Pull, Checkout, Develop
<1>8. CASE (\E f \in Source, t \in Text \cup {"none"} : EditSource(f, t)) \/ \E t \in Text : EditTemplate(t)
  BY <1>2, <1>8 DEF EditSource, EditTemplate
<1> QED
  BY <1>4, <1>5, <1>6, <1>7, <1>8 DEF Next, RecordStep

LEMMA DriverInductive == DriverOK /\ [Next]_vars => DriverOK'
<1> SUFFICES ASSUME DriverOK, [Next]_vars PROVE DriverOK'
  OBVIOUS
<1> USE DEF DriverOK, inputs, treeSync, runVars, libVars, buildHistory
<1>1. CASE Start
  BY <1>1 DEF Start, Step
<1>2. CASE SetUpStep \/ HooksFail
  BY <1>2 DEF SetUpStep, HooksFail, Goes, MakeSrc, MarkFresh, FindSrc, Fetch, OnTargetBranch,
     SwitchBranch, GclientSync, RunHooks, CheckLandmines, Step, SetUp
<1>3. CASE PatchStep
  BY <1>3 DEF PatchStep, Step
<1>4. ASSUME NEW f \in Source, FileIsSame(f) PROVE DriverOK'
  BY <1>4 DEF FileIsSame, Compares
<1>5. ASSUME NEW f \in Source, OpenTarget(f) PROVE DriverOK'
  BY <1>5 DEF OpenTarget, Compares
<1>6. ASSUME NEW f \in Source, WriteTarget(f) PROVE DriverOK'
  <2>1. PICK t \in FileText : target' = [target EXCEPT ![f] = t]
    BY <1>6 DEF WriteTarget, FileText
  <2>2. target' \in [Source -> FileText \cup {"torn"}]
    BY <2>1
  <2> QED
    BY <1>6, <2>2 DEF WriteTarget
<1>7. ASSUME NEW f \in Source, remove_danglers(f) PROVE DriverOK'
  BY <1>7 DEF remove_danglers, FileText
<1>8. CASE NoDanglers \/ BuildFileIsSame \/ TouchUpdated
  BY <1>8 DEF NoDanglers, BuildFileIsSame, TouchUpdated, Goes, Step
<1>9. CASE WriteBuildFile
  BY <1>9 DEF WriteBuildFile, NewBuildFile, Step, FileText
<1>10. CASE BuildStep
  BY <1>10 DEF BuildStep, LibraryStays, LibraryIsThere, ExtractSome, ExtractRest, RenameLibrary,
     GnGen, NoGnGen, Ninja, Goes, Step
<1>11. CASE CutShort \/ SourceVanished
  BY <1>11 DEF CutShort, SourceVanished, Compares, Step
<1>12. CASE RecordStep \/ EditTree
  BY <1>12 DEF RecordStep, EditTree, buildVars
<1>13. CASE NewTree
  <2>1. NoFile \in [list : SUBSET Source, template : FileText]
    BY DEF NoFile, FileText
  <2>2. target' \in [Source -> FileText \cup {"torn"}]
    BY <1>13 DEF NewTree, FileText
  <2> QED
    BY <1>13, <2>1, <2>2 DEF NewTree
<1>14. ASSUME NEW f \in Source, NEW t \in Text \cup {"none"}, EditSource(f, t) PROVE DriverOK'
  BY <1>14 DEF EditSource, FileText
<1>15. ASSUME NEW t \in Text, EditTemplate(t) PROVE DriverOK'
  BY <1>15 DEF EditTemplate
<1>16. CASE UNCHANGED vars
  BY <1>16 DEF vars, buildVars
<1> QED
  BY <1>1, <1>2, <1>3, <1>4, <1>5, <1>6, <1>7, <1>8, <1>9, <1>10, <1>11, <1>12, <1>13, <1>14, <1>15,
     <1>16 DEF Next, SyncStep

LEMMA DriverSound == Spec => [](DriverOK /\ CountersOK)
<1>1. BuildInit => CountersOK
  BY PatcherAssumption DEF PatcherAssumption, BuildInit, PatcherInit, CountersOK
<1>2. ASSUME BuildInit PROVE DriverOK
  <2> USE <1>2 DEF BuildInit
  <2>1. NoFile \in [list : SUBSET Source, template : FileText]
    BY DEF NoFile, FileText
  <2>2. repo \in [Source -> FileText] /\ template \in Text
    BY BuildAssumption DEF BuildAssumption, FileText
  <2>3. target \in [Source -> FileText \cup {"torn"}]
    BY DEF FileText
  <2>4. at \in Step /\ disk \subseteq SetUp \cup {"fresh"}
    BY DEF Step
  <2> QED
    BY <2>1, <2>2, <2>3, <2>4 DEF DriverOK
<1> QED
  BY <1>1, <1>2, DriverInductive, CountersInductive, PTL DEF Spec

(* Every variable keeps its type; copyfile writes a file of the list. *)
THEOREM TypeCorrect == Spec => []TypeOK
<1>1. PatcherInv /\ DriverOK /\ CountersOK => TypeOK
  BY DEF PatcherInv, StateOK, DriverOK, CountersOK, TypeOK, PatcherTypeOK
<1> QED
  BY <1>1, PatcherInBuild, DriverSound, PTL
----------------------------------------------------------------------------
(* Setting up *)

HasGit == "git" \in disk \/ "mark" \in cut
HasSynced == "synced" \in disk \/ cut \cap {"mark", "sync"} # {}
Past == Step \ {"off", "dirs", "mark", "fetch", "branch", "sync", "hooks"}

\* What the steps of the set-up tell of what is on disk.
SetUpInv ==
  /\ at = "mark" => "src" \in disk
  /\ at = "fetch" => {"src", "fresh"} \subseteq disk
  /\ at \in {"branch", "sync", "hooks"} => {"src", "git"} \subseteq disk
  /\ at = "hooks" => "synced" \in disk
  /\ "branch" \in disk => {"src", "git"} \subseteq disk /\ at # "mark"
  /\ "branch" \in disk /\ at # "sync" => "synced" \in disk \/ "sync" \in cut
  /\ "src" \in disk /\ "fresh" \notin disk /\ at # "mark" => HasGit /\ HasSynced
  /\ at \in Past => HasGit /\ HasSynced

(* A run that goes past the set-up without a checkout, or without what its *)
(* branch depends on, follows one that ended in one of two steps           *)
(* (chromium.py:140, :156).                                                *)
THEOREM SetUpGaps == Spec => []SetUpGapsAreCuts
<1>1. BuildInit => SetUpInv
  BY DEF BuildInit, SetUpInv, HasGit, HasSynced, Past, SetUp
<1>2. SetUpInv /\ [Next]_vars => SetUpInv'
  <2> SUFFICES ASSUME SetUpInv, [Next]_vars PROVE SetUpInv'
    OBVIOUS
  <2> USE DEF SetUpInv, HasGit, HasSynced, Past, Step, buildHistory
  <2>1. CASE Start
    BY <2>1 DEF Start
  <2>2. CASE MakeSrc \/ MarkFresh \/ FindSrc \/ Fetch
    <3>1. CASE MakeSrc
      BY <3>1 DEF Goes, MakeSrc
    <3>2. CASE MarkFresh
      BY <3>2 DEF Goes, MarkFresh
    <3>3. CASE FindSrc
      BY <3>3 DEF Goes, FindSrc
    <3>4. CASE Fetch
      BY <3>4 DEF Goes, Fetch
    <3> QED
      BY <2>2, <3>1, <3>2, <3>3, <3>4
  <2>3. CASE OnTargetBranch \/ SwitchBranch
    BY <2>3 DEF Goes, OnTargetBranch, SwitchBranch
  <2>4. CASE GclientSync \/ RunHooks \/ CheckLandmines \/ HooksFail
    BY <2>4 DEF Goes, GclientSync, RunHooks, CheckLandmines, HooksFail
  <2>5. CASE PatchStep \/ SourceVanished
    <3>1. CASE PatchStep
      <4>1. UNCHANGED <<disk, cut>> /\ at = "patch" /\ at' \in {"patch", "off", "copy"}
        BY <3>1 DEF PatchStep
      <4> QED
        BY <4>1
    <3>2. CASE SourceVanished
      <4>1. UNCHANGED <<disk, cut>> /\ at = "copy" /\ at' = "off"
        BY <3>2 DEF SourceVanished, Compares
      <4> QED
        BY <4>1
    <3> QED
      BY <2>5, <3>1, <3>2
  <2>6. CASE CutShort
    BY <2>6 DEF CutShort
  <2>7. CASE SyncStep
    BY <2>7 DEF SyncStep, Goes, FileIsSame, OpenTarget, WriteTarget, remove_danglers, NoDanglers,
       BuildFileIsSame, WriteBuildFile, TouchUpdated
  <2>8. CASE BuildStep
    BY <2>8 DEF BuildStep, LibraryStays, LibraryIsThere, ExtractSome, ExtractRest, RenameLibrary,
       GnGen, NoGnGen, Ninja, Goes
  <2>9. CASE RecordStep \/ EditTree \/ UNCHANGED vars
    BY <2>9 DEF RecordStep, EditTree, vars, buildVars
  <2>10. CASE NewTree
    BY <2>10 DEF NewTree
  <2>11. CASE (\E f \in Source, t \in Text \cup {"none"} : EditSource(f, t)) \/ \E t \in Text : EditTemplate(t)
    BY <2>11 DEF EditSource, EditTemplate
  <2> QED
    BY <2>1, <2>2, <2>3, <2>4, <2>5, <2>6, <2>7, <2>8, <2>9, <2>10, <2>11 DEF Next, SetUpStep
<1>3. SetUpInv => SetUpGapsAreCuts
  BY DEF SetUpInv, HasGit, HasSynced, Past, SetUpGapsAreCuts
<1> QED
  BY <1>1, <1>2, <1>3, PTL DEF Spec
----------------------------------------------------------------------------
(* The sources *)

Before == {"dirs", "mark", "fetch", "branch", "sync", "hooks", "landmines", "patch"}
After == {"touch", "library", "extract", "rename", "gn", "ninja"}

\* What copy_missing_and_changed_files has seen to, of files not edited meanwhile.
Copied(f) ==
  /\ f \in pending => repo[f] # "none"
  /\ f \notin pending /\ repo[f] # "none" => target[f] = repo[f] /\ f \in listed
  /\ repo[f] = "none" => f \notin listed

CopyInv ==
  /\ at \in Before => edited = {}
  /\ at # "off" => edited \subseteq raced
  /\ writing \subseteq listed /\ \A f \in writing : target[f] = "torn"
  /\ at = "copy" => \A f \in Source \ edited : Copied(f)
  /\ at = "buildfile" => \A f \in Source \ edited :
       target[f] = repo[f] /\ (f \in listed <=> repo[f] # "none")
  /\ at \in After => \A f \in Source \ edited :
       target[f] = repo[f] /\ (f \in buildFile.list <=> repo[f] # "none")

\* A file that came or went since gn read the list has touched UPDATED.
ListInv ==
  /\ \A f \in Source \ raced :
       newer \/ known = NoFile \/ (f \in known.list <=> target[f] # "none")
  /\ GnKnowsTheList

BuildInv == DriverOK /\ CopyInv /\ ListInv

\* Steps that leave sources, lists and files alone.
Elsewhere ==
  /\ UNCHANGED <<repo, target, buildFile, newer, known, pending, writing, listed, edited, raced>>
  /\ at' \in {at, "off"} \/ (at \in Before /\ at' \in Before)

LEMMA ElsewhereInv == ASSUME BuildInv, Elsewhere, DriverOK' PROVE BuildInv'
<1> USE DEF BuildInv, Elsewhere
<1>1. CASE at' = at
  BY <1>1 DEF CopyInv, Copied, ListInv, GnKnowsTheList
<1>2. CASE at' = "off"
  BY <1>2 DEF CopyInv, ListInv, GnKnowsTheList, Before, After
<1>3. CASE at \in Before /\ at' \in Before
  BY <1>3 DEF CopyInv, ListInv, GnKnowsTheList, Before, After
<1> QED
  BY <1>1, <1>2, <1>3

LEMMA CopyBeginsInv == ASSUME BuildInv, PatchStep, DriverOK' PROVE BuildInv'
<1>1. CASE UNCHANGED runVars /\ at' \in {at, "off"}
  BY <1>1, ElsewhereInv DEF PatchStep, Elsewhere, inputs, treeSync, runVars, buildHistory
<1>2. CASE /\ at' = "copy" /\ pending' = {f \in Source : repo[f] # "none"} /\ listed' = {}
           /\ UNCHANGED writing
  <2>1. /\ at = "patch" /\ UNCHANGED <<repo, target, buildFile, newer, known, edited, raced>>
    BY <1>2 DEF PatchStep, inputs, treeSync, buildHistory
  <2>2. writing = {}
    BY <2>1 DEF BuildInv, DriverOK
  <2> QED
    BY <1>2, <2>1, <2>2 DEF BuildInv, CopyInv, Copied, ListInv, GnKnowsTheList, Before, After
<1> QED
  BY <1>1, <1>2 DEF PatchStep

LEMMA FileIsSameInv ==
  ASSUME BuildInv, NEW f \in Source, FileIsSame(f), DriverOK' PROVE BuildInv'
<1> USE DEF BuildInv
<1>1. /\ at = "copy" /\ at' = "copy" /\ writing = {} /\ f \in pending /\ repo[f] = target[f]
      /\ pending' = pending \ {f} /\ listed' = listed \cup {f}
      /\ UNCHANGED <<repo, target, buildFile, newer, known, writing, edited, raced>>
  BY DEF FileIsSame, Compares, inputs, treeSync, buildHistory
<1>2. \A g \in Source \ edited : Copied(g) => Copied(g)'
  BY <1>1 DEF Copied
<1>3. CopyInv'
  BY <1>1, <1>2 DEF CopyInv, Before, After
<1>4. ListInv'
  BY <1>1 DEF ListInv, GnKnowsTheList
<1> QED
  BY <1>3, <1>4

LEMMA OpenTargetInv ==
  ASSUME BuildInv, NEW f \in Source, OpenTarget(f), DriverOK' PROVE BuildInv'
<1> USE DEF BuildInv
<1>1. /\ at = "copy" /\ at' = "copy" /\ writing = {} /\ f \in pending /\ repo[f] # "none"
      /\ newer' = TRUE /\ target' = [target EXCEPT ![f] = "torn"]
      /\ writing' = {f} /\ listed' = listed \cup {f}
      /\ UNCHANGED <<repo, buildFile, known, pending, edited, raced>>
  BY DEF OpenTarget, Compares, inputs, buildHistory
<1>2. target'[f] = "torn" /\ \A g \in Source : g # f => target'[g] = target[g]
  BY <1>1 DEF DriverOK
<1>3. \A g \in Source \ edited : Copied(g) => Copied(g)'
  BY <1>1, <1>2 DEF Copied
<1>4. CopyInv'
  BY <1>1, <1>2, <1>3 DEF CopyInv, Before, After
<1>5. ListInv'
  BY <1>1 DEF ListInv, GnKnowsTheList
<1> QED
  BY <1>4, <1>5

LEMMA WriteTargetInv ==
  ASSUME BuildInv, NEW f \in Source, WriteTarget(f), DriverOK' PROVE BuildInv'
<1> USE DEF BuildInv
<1>1. PICK t \in (IF repo[f] = "none" THEN Text ELSE {repo[f]}) : target' = [target EXCEPT ![f] = t]
  BY DEF WriteTarget
<1>2. /\ f \in writing /\ target'[f] = t /\ \A g \in Source : g # f => target'[g] = target[g]
      /\ writing' = {} /\ pending' = pending \ {f}
      /\ UNCHANGED <<at, repo, buildFile, newer, known, listed, edited, raced>>
  BY <1>1 DEF WriteTarget, DriverOK, inputs, buildHistory
<1>3. at = "copy" /\ f \in listed /\ f \in pending
  BY <1>2 DEF DriverOK, CopyInv
<1>4. f \notin edited => target'[f] = repo[f] /\ repo[f] # "none"
  BY <1>1, <1>3, <1>2 DEF CopyInv, Copied
<1>5. \A g \in Source \ edited : Copied(g) => Copied(g)'
  BY <1>3, <1>4, <1>2 DEF Copied
<1>6. CopyInv'
  BY <1>3, <1>5, <1>2 DEF CopyInv, Before, After
<1>7. ListInv'
  <2>1. \A g \in Source \ raced : target'[g] = "none" <=> target[g] = "none"
    <3> SUFFICES ASSUME NEW g \in Source, g \notin raced
                 PROVE  target'[g] = "none" <=> target[g] = "none"
      OBVIOUS
    <3>1. CASE g # f
      BY <1>2, <3>1
    <3>2. CASE g = f
      <4>1. g \notin edited
        BY <1>3 DEF CopyInv
      <4>2. target'[g] # "none"
        BY <1>4, <3>2, <4>1
      <4>3. target[g] = "torn"
        BY <1>2, <3>2 DEF CopyInv
      <4> QED
        BY <4>2, <4>3
    <3> QED
      BY <3>1, <3>2
  <2> QED
    BY <1>3, <1>2, <2>1 DEF ListInv, GnKnowsTheList
<1> QED
  BY <1>6, <1>7

LEMMA RemoveDanglersInv ==
  ASSUME BuildInv, NEW f \in Source, remove_danglers(f), DriverOK' PROVE BuildInv'
<1> USE DEF BuildInv
<1>1. /\ at = "copy" /\ at' = "copy" /\ pending = {} /\ f \notin listed /\ repo[f] = "none"
      /\ newer' = TRUE /\ target' = [target EXCEPT ![f] = "none"]
      /\ UNCHANGED <<repo, buildFile, known, pending, writing, listed, edited, raced>>
  BY DEF remove_danglers, Dangling, inputs, runVars, buildHistory
<1>2. \A g \in Source : g # f => target'[g] = target[g]
  BY <1>1 DEF DriverOK
<1>3. \A g \in Source \ edited : Copied(g) => Copied(g)'
  BY <1>1, <1>2 DEF Copied
<1>4. writing = {}
  BY <1>1 DEF DriverOK
<1>5. CopyInv'
  BY <1>1, <1>3, <1>4 DEF CopyInv, Before, After
<1>6. ListInv'
  BY <1>1 DEF ListInv, GnKnowsTheList
<1> QED
  BY <1>5, <1>6

LEMMA BuildFileInv ==
  ASSUME BuildInv, NoDanglers \/ BuildFileIsSame \/ WriteBuildFile \/ TouchUpdated, DriverOK'
  PROVE  BuildInv'
<1> USE DEF BuildInv, inputs, treeSync, runVars, buildHistory, Before, After
<1>1. CASE NoDanglers
  <2>1. /\ at = "copy" /\ at' = "buildfile" /\ pending = {} /\ Dangling = {}
        /\ UNCHANGED <<repo, target, buildFile, newer, known, pending, writing, listed, edited, raced>>
    BY <1>1 DEF NoDanglers, Goes
  <2>2. \A f \in Source \ edited : target[f] = repo[f] /\ (f \in listed <=> repo[f] # "none")
    BY <2>1 DEF CopyInv, Copied, Dangling
  <2> QED
    BY <2>1, <2>2 DEF CopyInv, ListInv, GnKnowsTheList
<1>2. CASE BuildFileIsSame
  BY <1>2 DEF BuildFileIsSame, NewBuildFile, Goes, CopyInv, ListInv, GnKnowsTheList
<1>3. CASE WriteBuildFile
  BY <1>3 DEF WriteBuildFile, NewBuildFile, CopyInv, ListInv, GnKnowsTheList
<1>4. CASE TouchUpdated
  BY <1>4 DEF TouchUpdated, CopyInv, ListInv, GnKnowsTheList
<1> QED
  BY <1>1, <1>2, <1>3, <1>4

LEMMA BuildStepInv == ASSUME BuildInv, BuildStep, DriverOK' PROVE BuildInv'
<1> USE DEF BuildInv, inputs, treeSync, runVars, buildHistory
<1>1. CASE LibraryIsThere \/ ExtractSome \/ ExtractRest \/ RenameLibrary
  <2>1. /\ at \in After /\ at' \in After \ {"ninja"}
        /\ UNCHANGED <<repo, target, buildFile, newer, known, pending, writing, listed, edited, raced>>
    BY <1>1 DEF LibraryIsThere, ExtractSome, ExtractRest, RenameLibrary, LibraryStays, After
  <2> QED
    BY <2>1 DEF CopyInv, ListInv, GnKnowsTheList, Before, After
<1>2. CASE GnGen
  <2>1. /\ at = "gn" /\ at' = "ninja" /\ known' = buildFile
        /\ UNCHANGED <<repo, target, buildFile, pending, writing, listed, edited, raced>>
    BY <1>2 DEF GnGen
  <2>2. CopyInv'
    BY <2>1 DEF CopyInv, Before, After
  <2>3. \A f \in Source \ raced : f \in buildFile.list <=> target[f] # "none"
    BY <2>1 DEF CopyInv, After
  <2> QED
    BY <2>1, <2>2, <2>3 DEF ListInv, GnKnowsTheList
<1>3. CASE NoGnGen
  <2>1. /\ at = "gn" /\ at' = "ninja" /\ known # NoFile /\ ~newer
        /\ UNCHANGED <<repo, target, buildFile, newer, known, pending, writing, listed, edited, raced>>
    BY <1>3 DEF NoGnGen, Goes
  <2>2. CopyInv'
    BY <2>1 DEF CopyInv, Before, After
  <2>3. \A f \in Source \ raced : f \in buildFile.list <=> target[f] # "none"
    BY <2>1 DEF CopyInv, After
  <2>4. \A f \in Source \ raced : f \in known.list <=> target[f] # "none"
    BY <2>1 DEF ListInv
  <2> QED
    BY <2>1, <2>2, <2>3, <2>4 DEF ListInv, GnKnowsTheList
<1>4. CASE Ninja
  BY <1>4, ElsewhereInv DEF Ninja, Goes, Elsewhere
<1> QED
  BY <1>1, <1>2, <1>3, <1>4 DEF BuildStep

LEMMA EditSourceInv ==
  ASSUME BuildInv, NEW f \in Source, NEW t \in Text \cup {"none"}, EditSource(f, t), DriverOK'
  PROVE  BuildInv'
<1> USE DEF BuildInv
<1>1. /\ at \in {"off", "copy"} /\ at' = at /\ repo' = [repo EXCEPT ![f] = t]
      /\ edited' = edited \cup {f} /\ raced' = (IF at = "off" THEN raced ELSE raced \cup {f})
      /\ UNCHANGED <<target, buildFile, newer, known, pending, writing, listed>>
  BY DEF EditSource, treeSync, runVars
<1>2. \A g \in Source : g # f => repo'[g] = repo[g]
  BY <1>1 DEF DriverOK
<1>3. \A g \in Source \ edited' : Copied(g) => Copied(g)'
  BY <1>1, <1>2 DEF Copied
<1>4. CopyInv'
  BY <1>1, <1>3 DEF CopyInv, Before, After
<1>5. ListInv'
  BY <1>1 DEF ListInv, GnKnowsTheList
<1> QED
  BY <1>4, <1>5

LEMMA BuildInductive == ASSUME BuildInv, [Next]_vars PROVE BuildInv'
<1>1. DriverOK'
  BY DriverInductive DEF BuildInv
<1> USE <1>1
<1>2. CASE Start
  BY <1>2 DEF Start, BuildInv, CopyInv, ListInv, GnKnowsTheList, inputs, treeSync, runVars,
     Before, After
<1>3. CASE SetUpStep \/ HooksFail
  <2>1. UNCHANGED <<repo, target, buildFile, newer, known, pending, writing, listed, edited, raced>>
    BY <1>3 DEF SetUpStep, HooksFail, MakeSrc, MarkFresh, FindSrc, Fetch, OnTargetBranch, SwitchBranch,
       GclientSync, RunHooks, CheckLandmines, Goes, inputs, treeSync, runVars, buildHistory
  <2>2. at \in Before /\ at' \in Before \cup {"off"}
    BY <1>3 DEF SetUpStep, HooksFail, MakeSrc, MarkFresh, FindSrc, Fetch, OnTargetBranch, SwitchBranch,
       GclientSync, RunHooks, CheckLandmines, Goes, Before
  <2> QED
    BY <2>1, <2>2, ElsewhereInv DEF Elsewhere
<1>4. CASE PatchStep
  BY <1>4, CopyBeginsInv
<1>5. CASE SyncStep
  BY <1>5, FileIsSameInv, OpenTargetInv, WriteTargetInv, RemoveDanglersInv, BuildFileInv DEF SyncStep
<1>6. CASE BuildStep
  BY <1>6, BuildStepInv
<1>7. CASE CutShort \/ SourceVanished
  <2>1. /\ at' = "off" /\ writing' = {} /\ (newer => newer')
        /\ UNCHANGED <<repo, target, buildFile, known, edited, raced>>
    <3>1. CASE CutShort
      BY <3>1 DEF CutShort, inputs, treeSync
    <3>2. CASE SourceVanished
      BY <3>2 DEF SourceVanished, Compares, inputs, buildHistory
    <3> QED
      BY <1>7, <3>1, <3>2
  <2> QED
    BY <2>1 DEF BuildInv, CopyInv, ListInv, GnKnowsTheList, Before, After
<1>8. CASE RecordStep \/ EditTree \/ UNCHANGED vars
  <2>1. UNCHANGED buildVars
    BY <1>8 DEF RecordStep, EditTree, vars
  <2> QED
    BY <2>1, ElsewhereInv DEF buildVars, Elsewhere, inputs, treeSync, runVars, buildHistory
<1>9. ASSUME NEW t \in Text, EditTemplate(t) PROVE BuildInv'
  BY <1>9, ElsewhereInv DEF EditTemplate, Elsewhere, treeSync, runVars, buildHistory
<1>10. CASE NewTree
  <2>1. at = "off" /\ at' = "off" /\ known' = NoFile /\ UNCHANGED <<writing, listed>>
    BY <1>10 DEF NewTree, runVars
  <2>2. writing = {}
    BY <2>1 DEF BuildInv, DriverOK
  <2> QED
    BY <2>1, <2>2 DEF BuildInv, CopyInv, ListInv, GnKnowsTheList, Before, After
<1> QED
  BY <1>2, <1>3, <1>4, <1>5, <1>6, <1>7, <1>8, <1>9, <1>10, EditSourceInv DEF Next

LEMMA BuildSound == Spec => []BuildInv
<1>1. BuildInit => CopyInv /\ ListInv
  BY DEF BuildInit, CopyInv, ListInv, GnKnowsTheList, Before, After
<1>2. CopyInv /\ ListInv /\ DriverOK /\ [Next]_vars => (CopyInv /\ ListInv)'
  BY BuildInductive DEF BuildInv
<1>3. CopyInv /\ ListInv /\ DriverOK => BuildInv
  BY DEF BuildInv
<1> QED
  BY <1>1, <1>2, <1>3, DriverSound, PTL DEF Spec

(* What is compiled is what this repository has, each file and the list of *)
(* them, whatever earlier runs did and wherever they ended, but for files  *)
(* that were edited while the run went on (chromium.py:232).               *)
THEOREM SourcesSeen == Spec => []BuildSeesSources
<1>1. BuildInv => BuildSeesSources
  BY DEF BuildInv, CopyInv, BuildSeesSources, Synced, After
<1> QED
  BY <1>1, BuildSound, PTL

(* Ninja runs on a list of sources that gn has read (chromium.py:213, :228). *)
THEOREM ListKnown == Spec => []GnKnowsTheList
<1>1. BuildInv => GnKnowsTheList
  BY DEF BuildInv, ListInv
<1> QED
  BY <1>1, BuildSound, PTL
=============================================================================
