--------------------------- MODULE ChromiumBuild ---------------------------
(***************************************************************************)
(* The build driver cmake/chromium.py, which every in-tree target runs     *)
(* anew: it sets a Chromium tree up, has the Patcher apply the edits,      *)
(* synchronises this repository's sources into the tree and has gn and     *)
(* ninja build them. A run ends early when it is killed or when a command  *)
(* it runs fails; the next one goes by what it finds on disk.              *)
(***************************************************************************)
EXTENDS Patcher

CONSTANTS
  Source,  \* source files of a directory that sync_dir synchronises
  Text,    \* what may be in one
  FirstText \* what is in them at first

ASSUME BuildAssumption == FirstText \in Text

VARIABLES
  at,        \* the step the run has come to, "off" when none runs
  disk,      \* what the set-up left: "src", "fresh", "git", "branch", "synced", "landmines"
  repo,      \* the files in this repository
  template,  \* BUILD.gn.in
  target,    \* the files in the tree
  buildFile, \* BUILD.gn: its list of sources and the template it was made from
  newer,     \* UPDATED has a later time than ipfs.ninja
  known,     \* the BUILD.gn that ipfs.ninja was generated from
  pending,   \* files that glob listed and that are still to be compared
  writing,   \* the file that copyfile has opened and not written
  listed,    \* `sources', as far as collected
  lib, extracted, \* third_party/ipfs_client, and the directory it is extracted to
  edited,    \* history: what was edited since the run began
  raced,     \* history: what was ever edited during a run
  cut        \* history: which of the steps "mark" and "sync" runs ended early at

runVars == <<pending, writing, listed>>
treeSync == <<target, buildFile, newer, known>>
libVars == <<lib, extracted>>
inputs == <<repo, template>>
buildHistory == <<edited, raced, cut>>
buildVars == <<at, disk, inputs, treeSync, runVars, libVars, buildHistory>>
vars == <<patcherVars, buildVars>>

SetUp == {"src", "git", "branch", "synced", "landmines"}
Step == {"off", "dirs", "mark", "fetch", "branch", "sync", "hooks", "landmines", "patch",
         "copy", "buildfile", "touch", "library", "extract", "rename", "gn", "ninja"}
NoFile == [list |-> {}, template |-> "none"]

\* The tree is the developer's own, or is to be fetched.
BuildInit ==
  /\ PatcherInit
  /\ at = "off" /\ disk \in {{}, SetUp}
  /\ repo = [f \in Source |-> FirstText] /\ template = FirstText
  /\ target = [f \in Source |-> "none"] /\ buildFile = NoFile
  /\ newer = FALSE /\ known = NoFile
  /\ pending = {} /\ writing = {} /\ listed = {}
  /\ lib = "none" /\ extracted = "none"
  /\ edited = {} /\ raced = {} /\ cut = {}
----------------------------------------------------------------------------
(* Setting up the tree *)

Goes(from, to) ==
  /\ at = from /\ at' = to
  /\ UNCHANGED <<patcherVars, inputs, treeSync, runVars, libVars, buildHistory>>

Start ==
  /\ at = "off" /\ doing = "none" /\ at' = "dirs" /\ edited' = {}
  /\ UNCHANGED <<patcherVars, disk, inputs, treeSync, runVars, libVars, raced, cut>>

MakeSrc == "src" \notin disk /\ Goes("dirs", "mark") /\ disk' = disk \cup {"src"}

MarkFresh == Goes("mark", "fetch") /\ disk' = disk \cup {"fresh"}

FindSrc ==
  /\ "src" \in disk /\ UNCHANGED disk
  /\ Goes("dirs", IF "fresh" \in disk THEN "fetch" ELSE "landmines")

\* Nothing is fetched where there is a .git.
Fetch == Goes("fetch", "branch") /\ disk' = disk \cup {"git"}

OnTargetBranch == "branch" \in disk /\ Goes("branch", "landmines") /\ disk' = disk \ {"fresh"}

\* Variant: the branch is switched and what it depends on is not fetched.
SwitchOnly == "branch" \notin disk /\ Goes("branch", "hooks") /\ disk' = disk \cup {"branch"}

SwitchBranch == "branch" \notin disk /\ Goes("branch", "sync") /\ disk' = disk \cup {"branch"}

GclientSync == Goes("sync", "hooks") /\ disk' = disk \cup {"synced"}

RunHooks == Goes("hooks", "landmines") /\ disk' = disk \cup {"landmines"}

\* gclient has nothing to run hooks of in an empty directory.
CheckLandmines == "git" \in disk /\ Goes("landmines", "patch") /\ disk' = disk \cup {"landmines"}

SetUpStep ==
  \/ MakeSrc \/ MarkFresh \/ FindSrc \/ Fetch \/ OnTargetBranch \/ SwitchBranch
  \/ GclientSync \/ RunHooks \/ CheckLandmines
----------------------------------------------------------------------------
(* patcher.apply(), and then the first half of sync_dir *)

PatchStep ==
  /\ at = "patch" /\ UNCHANGED <<disk, inputs, treeSync, libVars, buildHistory>>
  /\ \/ /\ ApplyBegin \/ \E e \in todo : ApplyStep(e) /\ ~ApplyStops(e)
        /\ UNCHANGED <<at, runVars>>
     \/ (\E e \in todo : ApplyStops(e)) /\ at' = "off" /\ UNCHANGED runVars
     \/ /\ ApplyEnds /\ at' = "copy"
        /\ pending' = {f \in Source : repo[f] # "none"} /\ listed' = {} /\ UNCHANGED writing

\* What copy_missing_and_changed_files does with the next file of the list.
Compares(f) == at = "copy" /\ writing = {} /\ f \in pending

\* Variant: files are told apart by their names only.
FileIsThere(f) ==
  /\ Compares(f) /\ (repo[f] = "none" <=> target[f] = "none")
  /\ pending' = pending \ {f} /\ listed' = listed \cup {f}
  /\ UNCHANGED <<patcherVars, at, disk, inputs, treeSync, writing, libVars, buildHistory>>

FileIsSame(f) ==
  /\ Compares(f) /\ repo[f] = target[f]
  /\ pending' = pending \ {f} /\ listed' = listed \cup {f}
  /\ UNCHANGED <<patcherVars, at, disk, inputs, treeSync, writing, libVars, buildHistory>>

\* Variant: a copy does not touch UPDATED.
OpenUntouched(f) ==
  /\ Compares(f) /\ repo[f] # target[f] /\ repo[f] # "none"
  /\ target' = [target EXCEPT ![f] = "torn"]
  /\ writing' = {f} /\ listed' = listed \cup {f}
  /\ UNCHANGED <<patcherVars, at, disk, inputs, buildFile, newer, known, pending, libVars, buildHistory>>

\* Variant: a file is taken off the list before it is copied.
OpenTakesOff(f) ==
  /\ Compares(f) /\ repo[f] # target[f] /\ repo[f] # "none"
  /\ newer' = TRUE /\ target' = [target EXCEPT ![f] = "torn"]
  /\ writing' = {f} /\ listed' = listed \cup {f} /\ pending' = pending \ {f}
  /\ UNCHANGED <<patcherVars, at, disk, inputs, buildFile, known, libVars, buildHistory>>

\* touch_update comes before copyfile.
OpenTarget(f) ==
  /\ Compares(f) /\ repo[f] # target[f] /\ repo[f] # "none"
  /\ newer' = TRUE /\ target' = [target EXCEPT ![f] = "torn"]
  /\ writing' = {f} /\ listed' = listed \cup {f}
  /\ UNCHANGED <<patcherVars, at, disk, inputs, buildFile, known, pending, libVars, buildHistory>>

\* copyfile has the source open: one that is removed by now is still copied.
WriteTarget(f) ==
  /\ f \in writing
  /\ \E t \in (IF repo[f] = "none" THEN Text ELSE {repo[f]}) : target' = [target EXCEPT ![f] = t]
  /\ writing' = {} /\ pending' = pending \ {f}
  /\ UNCHANGED <<patcherVars, at, disk, inputs, buildFile, newer, known, listed, libVars, buildHistory>>

Dangling == {f \in Source : target[f] # "none" /\ f \notin listed /\ repo[f] = "none"}

remove_danglers(f) ==
  /\ at = "copy" /\ pending = {} /\ f \in Dangling
  /\ newer' = TRUE /\ target' = [target EXCEPT ![f] = "none"]
  /\ UNCHANGED <<patcherVars, at, disk, inputs, buildFile, known, runVars, libVars, buildHistory>>

NoDanglers ==
  /\ pending = {} /\ Dangling = {}
  /\ Goes("copy", "buildfile") /\ UNCHANGED disk

NewBuildFile == [list |-> listed, template |-> template]

BuildFileIsSame ==
  /\ buildFile = NewBuildFile
  /\ Goes("buildfile", "library") /\ UNCHANGED disk

WriteBuildFile ==
  /\ at = "buildfile" /\ at' = "touch"
  /\ buildFile # NewBuildFile /\ buildFile' = NewBuildFile
  /\ UNCHANGED <<patcherVars, disk, inputs, target, newer, known, runVars, libVars, buildHistory>>

TouchUpdated ==
  /\ at = "touch" /\ at' = "library" /\ newer' = TRUE
  /\ UNCHANGED <<patcherVars, disk, inputs, target, buildFile, known, runVars, libVars, buildHistory>>

SyncStep ==
  \/ \E f \in Source :
       FileIsSame(f) \/ OpenTarget(f) \/ WriteTarget(f) \/ remove_danglers(f)
  \/ NoDanglers \/ BuildFileIsSame \/ WriteBuildFile \/ TouchUpdated
----------------------------------------------------------------------------
(* The library, gn and ninja *)

LibraryStays(to) ==
  /\ at' = to
  /\ UNCHANGED <<patcherVars, disk, inputs, treeSync, runVars, buildHistory>>

LibraryIsThere == at = "library" /\ lib # "none" /\ LibraryStays("gn") /\ UNCHANGED libVars

\* Variant: the archive is extracted to where the library belongs.
ExtractInPlace ==
  at = "library" /\ lib = "none" /\ LibraryStays("rename") /\ lib' = "part" /\ extracted' = "whole"

ExtractSome ==
  at = "library" /\ lib = "none" /\ LibraryStays("extract") /\ extracted' = "part" /\ UNCHANGED lib

ExtractRest ==
  at = "extract" /\ LibraryStays("rename") /\ extracted' = "whole" /\ UNCHANGED lib

RenameLibrary ==
  at = "rename" /\ LibraryStays("gn") /\ lib' = extracted /\ extracted' = "none"

\* gn writes only what differs, so ipfs.ninja may keep its time.
GnGen ==
  /\ at = "gn" /\ at' = "ninja"
  /\ known = NoFile \/ newer
  /\ known' = buildFile
  /\ newer' \in {FALSE, newer /\ known = buildFile}
  /\ UNCHANGED <<patcherVars, disk, inputs, target, buildFile, runVars, libVars, buildHistory>>

NoGnGen == known # NoFile /\ ~newer /\ Goes("gn", "ninja") /\ UNCHANGED disk

Ninja == Goes("ninja", "off") /\ UNCHANGED disk

BuildStep ==
  \/ LibraryIsThere \/ ExtractSome \/ ExtractRest \/ RenameLibrary \/ GnGen \/ NoGnGen \/ Ninja
----------------------------------------------------------------------------
\* The run is killed, or the command of its step fails.
CutShort ==
  /\ at # "off" /\ at' = "off" /\ cut' = cut \cup ({at} \cap {"mark", "sync"})
  /\ pending' = {} /\ writing' = {} /\ listed' = {}
  /\ IF doing = "none"
     THEN kills < MaxKills /\ kills' = kills + 1 /\ UNCHANGED <<treeVars, edits, jobVars, devs, history>>
     ELSE Kill
  /\ UNCHANGED <<disk, inputs, treeSync, libVars, edited, raced>>

\* gclient runhooks fails without a checkout.
HooksFail ==
  /\ "git" \notin disk /\ Goes("landmines", "off") /\ UNCHANGED disk

\* A file that vanished after it was listed cannot be copied, which comes out after
\* touch_update.
SourceVanished ==
  /\ \E f \in pending : Compares(f) /\ repo[f] = "none" /\ target[f] # "none"
  /\ at' = "off" /\ pending' = {} /\ listed' = {} /\ newer' = TRUE
  /\ UNCHANGED <<patcherVars, disk, inputs, target, buildFile, known, writing, libVars, buildHistory>>

\* record_edits runs on its own.
RecordStep ==
  /\ at = "off"
  /\ \/ RecordBegin \/ RecordEnds \/ (\E e \in todo : RecordEdit(e) \/ KilledWriting(e))
     \/ KilledClearing
     \/ doing = "record" /\ Kill
  /\ UNCHANGED buildVars

\* This repository is edited, at any time. The steps before "copy" do not read it,
\* nor do those after "buildfile", so an edit during them is one before or after.
EditSource(f, t) ==
  /\ at \in {"off", "copy"} /\ devs < MaxDev /\ devs' = devs + 1
  /\ repo[f] # t /\ repo' = [repo EXCEPT ![f] = t]
  /\ edited' = edited \cup {f}
  /\ raced' = IF at = "off" THEN raced ELSE raced \cup {f}
  /\ UNCHANGED <<treeVars, edits, jobVars, kills, history, at, disk, template, treeSync, runVars, libVars, cut>>

EditTemplate(t) ==
  /\ at \in {"off", "copy"} /\ devs < MaxDev /\ devs' = devs + 1
  /\ template # t /\ template' = t
  /\ UNCHANGED <<treeVars, edits, jobVars, kills, history, at, disk, repo, treeSync, runVars, libVars,
                 buildHistory>>

\* The tree is edited, between runs.
EditTree ==
  /\ at = "off" /\ "branch" \in disk
  /\ DevStep /\ ~Checkout
  /\ UNCHANGED buildVars

\* The tree is removed. Its build directory may keep the mark.
NewTree ==
  /\ at = "off" /\ Checkout
  /\ disk' = disk \cap {"fresh"}
  /\ target' = [f \in Source |-> "none"] /\ buildFile' = NoFile
  /\ newer' = FALSE /\ known' = NoFile
  /\ lib' = "none" /\ extracted' = "none" /\ cut' = {}
  /\ UNCHANGED <<at, inputs, runVars, edited, raced>>

Next ==
  \/ Start \/ SetUpStep \/ PatchStep \/ SyncStep \/ BuildStep
  \/ CutShort \/ HooksFail \/ SourceVanished \/ RecordStep
  \/ \E f \in Source, t \in Text \cup {"none"} : EditSource(f, t)
  \/ \E t \in Text : EditTemplate(t)
  \/ EditTree \/ NewTree

Spec == BuildInit /\ [][Next]_vars
----------------------------------------------------------------------------
FileText == Text \cup {"none"}

TypeOK ==
  /\ PatcherTypeOK
  /\ at \in Step /\ disk \subseteq SetUp \cup {"fresh"}
  /\ repo \in [Source -> FileText] /\ template \in Text
  /\ target \in [Source -> FileText \cup {"torn"}]
  /\ {buildFile, known} \subseteq [list : SUBSET Source, template : FileText]
  /\ newer \in BOOLEAN
  /\ pending \subseteq Source /\ writing \subseteq pending /\ listed \subseteq Source
  /\ lib \in {"none", "part", "whole"} /\ extracted \in {"none", "part", "whole"}
  /\ edited \subseteq Source /\ raced \subseteq Source /\ cut \subseteq {"mark", "sync"}

Synced == at \in {"library", "extract", "rename", "gn", "ninja"}

\* What gn and ninja are given is what this repository has: each file as it is,
\* none that was removed, and a BUILD.gn that lists them all, however earlier
\* runs ended (sync_dir, chromium.py:232). Files edited during the run are excepted.
BuildSeesSources ==
  Synced =>
    \A f \in Source \ edited :
      target[f] = repo[f] /\ (f \in buildFile.list <=> repo[f] # "none")

\* Ninja is not run on a list of sources that gn has not read: UPDATED is
\* touched before the file whose copying or removal changes the list
\* (chromium.py:213, :228), so that a killed run cannot hide the change. A file
\* that vanished in the middle of a run may be listed without having been copied.
GnKnowsTheList ==
  at = "ninja" =>
    \A f \in Source \ raced : f \in known.list <=> f \in buildFile.list

\* The library is never taken for there when only part of it was extracted
\* (chromium.py:275).
LibraryIsWhole == lib # "part"

\* A run that goes on to hooks and patches without a checkout, or with one whose
\* dependencies are not those of its branch, follows one that ended between creating
\* the directory and marking it fresh (chromium.py:140), or within gclient sync
\* on the branch it had just switched to (chromium.py:156). In no other way
\* is the set-up left unfinished.
SetUpGapsAreCuts ==
  at \in Step \ {"off", "dirs", "mark", "fetch", "branch", "sync", "hooks"} =>
    /\ "git" \in disk \/ "mark" \in cut
    /\ "synced" \in disk \/ cut \cap {"mark", "sync"} # {}

\* What building.md:73 says of a tree the build has fetched, that it will
\* "do all your setup for you", even if failure is ignored (building.md:90):
\* ninja does not run on a branch whose dependencies were not fetched.
SetUpIsDone == at = "ninja" => "synced" \in disk
=============================================================================
