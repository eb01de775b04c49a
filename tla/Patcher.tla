------------------------------ MODULE Patcher ------------------------------
(***************************************************************************)
(* The Patcher of cmake/patch.py: `apply' brings the recorded edits of the *)
(* nearest version into a Chromium tree, `create_patch_file' records the   *)
(* edits of a tree under its tag. Both are sequential scripts that may be  *)
(* killed, run again, and find what a developer did to the tree meanwhile. *)
(*                                                                         *)
(* The text of a file is the set of changes it has over Chromium's own, so *)
(* that {} is the file as it is in the tag (or an empty file, if the tag   *)
(* has none of this name). A patch is the set of changes it makes.         *)
(***************************************************************************)
EXTENDS Naturals

CONSTANTS
  Tracked,    \* files of the tag
  Added,      \* files the tag does not have
  NewDir,     \* those of Added whose directory the tag does not have
  Drifted,    \* files that differ between the tag and the shipped versions
  Hidden,     \* paths with a name that begins with a dot: glob does not list their edits
  Unnamed,    \* names that are not recorded: .gz, .info, and those without a dot
  Foreign,    \* paths that are not recorded: this component's, the library's, electron's, branding
  Hunk,       \* changes
  Telltale,   \* changes in whose text edit_evidence finds a token
  Telling,    \* files in whose text it finds one although they are as in the tag
  Version,    \* what may be in chromium_edits
  Tag,        \* the version of the tree
  Distance,   \* commits between HEAD and a version
  NameLength, \* of a version
  Listed,     \* its place in the listing of chromium_edits, which is taken to stay the same
  Shipped,    \* the edits the repository has for the other versions
  Upstream,   \* the edits for Tag that a colleague may commit
  MaxDev,     \* bound on what developers do
  MaxKills    \* bound on killed scripts

Path == Tracked \cup Added

\* What is under chromium_edits. A .patch is a "patch", a "deletion" when its
\* diff removes the file, or "torn" when it ends within a change. A "dir" is a
\* directory in which there is no file.
Edit == [kind : {"patch", "deletion", "torn", "copy", "rm", "skip", "dir"},
         path : Path, text : SUBSET Hunk]

ASSUME PatcherAssumption ==
  /\ Tracked \cap Added = {} /\ NewDir \subseteq Added /\ Drifted \subseteq Tracked
  /\ Hidden \subseteq Path /\ Unnamed \subseteq Path /\ Foreign \subseteq Path
  /\ Telltale \subseteq Hunk /\ Telling \subseteq Tracked
  /\ Tag \in Version
  /\ Distance \in [Version -> Nat] /\ NameLength \in [Version -> Nat]
  /\ Listed \in [Version -> Nat] /\ \A v, w \in Version : Listed[v] = Listed[w] => v = w
  /\ Shipped \in [Version \ {Tag} -> SUBSET Edit]
  /\ Upstream \in SUBSET Edit
  /\ MaxDev \in Nat /\ MaxKills \in Nat

\* What is done about the text of a file.
Content == {"patch", "deletion", "torn", "copy"}

\* There is one such edit of a file, and files are copied to where the tag has none.
Regular(es) ==
  /\ \A d, e \in es : d.kind \in Content /\ e.kind \in Content /\ d.path = e.path => d = e
  /\ \A e \in es : e.kind = "copy" => e.path \in Added

ASSUME EditsAssumption ==
  Regular(Upstream) /\ \A v \in Version \ {Tag} : Regular(Shipped[v])

VARIABLES
  files,  \* paths of the tree at which there is a file
  text,   \* their text
  skips,  \* paths beside which there is a .skip file
  head,   \* tracked files that HEAD has: commits may remove some
  staged, \* files of NewDir that git knows of
  edits,  \* chromium_edits
  doing,  \* the script that runs
  todo,   \* what it has not come to yet; glob and git give no order
  ver,    \* the version whose edits are applied, or were last
  open,   \* the edit whose target copyfile has opened and not written
  result, \* how the last apply ended
  devs, kills,
  altered, \* history: paths changed by anything but the edits of one version since the
           \* checkout, or whose edit was cut short
  settled, \* history: apply has finished and only scripts ran since
  record   \* history: the tree that edits[Tag] records

treeVars == <<files, text, skips, head, staged>>
jobVars == <<doing, todo, ver, open, result>>
history == <<altered, settled, record>>
patcherVars == <<treeVars, edits, jobVars, devs, kills, history>>

NoRecord == [whole |-> FALSE, files |-> {}, text |-> [p \in Path |-> {}], lost |-> {}]

PristineTree ==
  /\ files' = Tracked /\ text' = [p \in Path |-> {}]
  /\ skips' = {} /\ head' = Tracked /\ staged' = {}

PatcherInit ==
  /\ files = Tracked /\ text = [p \in Path |-> {}] /\ skips = {}
  /\ head = Tracked /\ staged = {}
  /\ edits = [v \in Version |-> IF v = Tag THEN {} ELSE Shipped[v]]
  /\ doing = "none" /\ todo = {} /\ ver = Tag /\ open = {} /\ result = "none"
  /\ devs = 0 /\ kills = 0
  /\ altered = {} /\ settled = FALSE /\ record = NoRecord
----------------------------------------------------------------------------
(* apply *)

\* A version is a directory of chromium_edits, which is there while anything is in it.
Available == {v \in Version : edits[v] # {}}

\* The versions git does not know are all as far.
Closer(v, w) ==
  \/ Distance[v] < Distance[w]
  \/ /\ Distance[v] = Distance[w]
     /\ \/ NameLength[v] < NameLength[w]
        \/ NameLength[v] = NameLength[w] /\ Listed[v] <= Listed[w]

Closest == {v \in Available : \A w \in Available : Closer(v, w)}

\* Where there is no version the name is empty, and so is what is listed.
Chosen == IF Available = {} THEN {ver} ELSE Closest

\* glob passes over names that begin with a dot, and isfile over directories.
Listing(v) == {e \in edits[v] : e.path \notin Hidden /\ e.kind # "dir"}

\* Paths at which the tree is not as it was checked out.
Differs == {p \in Path : text[p] # {} \/ (p \in files <=> p \in Added)}
Changed == Differs \cup skips

ApplyBegin ==
  /\ doing = "none" /\ doing' = "apply"
  /\ \E v \in Chosen :
       /\ ver' = v /\ todo' = Listing(v)
       /\ altered' = IF v = ver THEN altered ELSE altered \cup Changed
  /\ result' = "none"
  /\ UNCHANGED <<treeVars, edits, open, devs, kills, settled, record>>

\* The lines around a change are those the patch was made from.
Matches(e) == ver = Tag \/ e.path \notin Drifted

\* git apply --check --reverse succeeds. A deletion is taken back into an empty place.
Reverses(e) ==
  \/ /\ e.kind = "patch" /\ Matches(e)
     /\ e.path \in files /\ e.text \subseteq text[e.path]
  \/ e.kind = "deletion" /\ e.path \notin files

\* git apply succeeds.
Applies(e) ==
  /\ Matches(e) /\ e.path \in files
  /\ \/ e.kind = "patch" /\ e.text \cap text[e.path] = {}
     \/ e.kind = "deletion" /\ text[e.path] = {}

\* Variant: every file counts as edited by hand.
AnyEvidence(p) == TRUE

edit_evidence(p) == p \in Telling \/ text[p] \cap Telltale # {}

IsPatch(e) == e.kind \in {"patch", "deletion", "torn"}

\* check_patch leaves the file: overridden, applied already, or edited by hand.
LeavesPatch(e) ==
  \/ e.path \in skips
  \/ Reverses(e)
  \/ ~Applies(e) /\ e.path \in files /\ edit_evidence(e.path)

\* check_patch exits with 8, or cannot read a file that is not there.
PatchFails(e) == IsPatch(e) /\ ~LeavesPatch(e) /\ ~Applies(e)

\* copyfile does not make the directory of its target.
CopyFails(e) == e.kind = "copy" /\ e.path \notin files /\ e.path \in NewDir

Take(e) == doing = "apply" /\ open = {} /\ e \in todo

Taken(e) ==
  /\ todo' = todo \ {e}
  /\ UNCHANGED <<skips, head, staged, edits, doing, ver, open, result, devs, kills, history>>

\* Variant: the reverse application is made and not only checked.
UnpatchIfApplied(e) ==
  /\ Take(e) /\ IsPatch(e)
  /\ \/ LeavesPatch(e) /\ ~Reverses(e) /\ UNCHANGED <<files, text>>
     \/ /\ Reverses(e) /\ e.kind = "patch" /\ e.path \notin skips
        /\ text' = [text EXCEPT ![e.path] = @ \ e.text] /\ UNCHANGED files
     \/ /\ ~LeavesPatch(e) /\ Applies(e) /\ e.kind = "patch"
        /\ text' = [text EXCEPT ![e.path] = @ \cup e.text] /\ UNCHANGED files
  /\ Taken(e)

check_patch(e) ==
  /\ Take(e) /\ IsPatch(e)
  /\ \/ LeavesPatch(e) /\ UNCHANGED <<files, text>>
     \/ /\ ~LeavesPatch(e) /\ Applies(e) /\ e.kind = "patch"
        /\ text' = [text EXCEPT ![e.path] = @ \cup e.text] /\ UNCHANGED files
     \/ /\ ~LeavesPatch(e) /\ Applies(e) /\ e.kind = "deletion"
        /\ files' = files \ {e.path} /\ UNCHANGED text
  /\ Taken(e)

\* A .rm looks for a file whose name ends in .rm as its own does. The tree has none.
ApplyRemoval(e) ==
  /\ Take(e) /\ e.kind = "rm"
  /\ UNCHANGED <<files, text>>
  /\ Taken(e)

\* Variant: a file that differs is overwritten.
Overwrite(e) ==
  /\ Take(e) /\ e.kind = "copy" /\ e.path \in files
  /\ text' = [text EXCEPT ![e.path] = e.text] /\ UNCHANGED files
  /\ Taken(e)

\* The target is there. Nothing is done, with a warning if its content differs.
LeaveCopy(e) ==
  /\ Take(e) /\ e.kind = "copy" /\ e.path \in files
  /\ UNCHANGED <<files, text>>
  /\ Taken(e)

\* copyfile creates its target empty, and writes it then.
CopyOpens(e) ==
  /\ Take(e) /\ e.kind = "copy" /\ e.path \notin files /\ ~CopyFails(e)
  /\ files' = files \cup {e.path} /\ text' = [text EXCEPT ![e.path] = {}]
  /\ open' = {e}
  /\ UNCHANGED <<skips, head, staged, edits, doing, todo, ver, result, devs, kills, history>>

CopyWrites(e) ==
  /\ e \in open
  /\ text' = [text EXCEPT ![e.path] = e.text]
  /\ open' = {} /\ todo' = todo \ {e}
  /\ UNCHANGED <<files, skips, head, staged, edits, doing, ver, result, devs, kills, history>>

\* A recorded .skip is an edit like any other file: copied unless there is one.
CopySkip(e) ==
  /\ Take(e) /\ e.kind = "skip"
  /\ skips' = skips \cup {e.path} /\ todo' = todo \ {e}
  /\ UNCHANGED <<files, text, head, staged, edits, doing, ver, open, result, devs, kills, history>>

ApplyStops(e) ==
  /\ Take(e) /\ (PatchFails(e) \/ CopyFails(e))
  /\ doing' = "none" /\ todo' = {} /\ result' = "stopped"
  /\ UNCHANGED <<treeVars, edits, ver, open, devs, kills, history>>

ApplyEnds ==
  /\ doing = "apply" /\ todo = {}
  /\ doing' = "none" /\ result' = "done" /\ settled' = TRUE
  /\ UNCHANGED <<treeVars, edits, todo, ver, open, devs, kills, altered, record>>

ApplyStep(e) ==
  \/ check_patch(e) \/ ApplyRemoval(e) \/ LeaveCopy(e)
  \/ CopyOpens(e) \/ CopyWrites(e) \/ CopySkip(e) \/ ApplyStops(e)
----------------------------------------------------------------------------
(* create_patch_file *)

Recorded(kind, paths) == {[kind |-> kind, path |-> p, text |-> text[p]] : p \in paths}

\* What git diff and git status list: not the files of an unversioned directory.
Unversioned == {p \in files \cap Added : p \notin NewDir \/ p \in staged}

\* Paths whose name keeps nothing of them from being recorded.
Recordable == Path \ (Foreign \cup Unnamed)

\* Variant: a file that is gone from the work tree is passed over.
RecordsOfFilesThere ==
  Recorded("copy", Unversioned \cap Recordable)
    \cup Recorded("rm", (Tracked \ head) \cap Recordable)
    \cup Recorded("patch", {p \in head \cap files : text[p] # {}} \cap Recordable)
    \cup Recorded("skip", skips \ Foreign)

\* The name of a .skip has a dot, whatever it is beside.
Records ==
  Recorded("copy", Unversioned \cap Recordable)
    \cup Recorded("rm", (Tracked \ head) \cap Recordable)
    \cup Recorded("deletion", (head \ files) \cap Recordable)
    \cup Recorded("patch", {p \in head \cap files : text[p] # {}} \cap Recordable)
    \cup Recorded("skip", skips \ Foreign)

\* rmtree
ClearRecords(es) == {}

RecordBegin ==
  /\ doing = "none" /\ doing' = "record"
  /\ edits' = [edits EXCEPT ![Tag] = ClearRecords(@)]
  /\ todo' = Records
  /\ result' = "none" /\ settled' = FALSE
  /\ record' = NoRecord
  /\ UNCHANGED <<treeVars, ver, open, devs, kills, altered>>

RecordEdit(e) ==
  /\ doing = "record" /\ e \in todo
  /\ edits' = [edits EXCEPT ![Tag] = @ \cup {e}]
  /\ todo' = todo \ {e}
  /\ UNCHANGED <<treeVars, doing, ver, open, result, devs, kills, history>>

\* What a recording cannot bring back: removals that were committed, files of
\* directories git does not know, files whose patch a recorded .skip may come
\* before, changes whose names keep them from being recorded, and those recorded
\* under a name that apply does not list.
Unrecorded ==
  (Tracked \ head) \cup ((files \cap NewDir) \ staged) \cup skips
    \cup (Differs \cap (Hidden \cup Foreign \cup Unnamed))

\* `git add' of url/url_canon_ipfs.cc comes last. It changes no list of git's, and when
\* it fails everything is recorded.
RecordEnds ==
  /\ doing = "record" /\ todo = {}
  /\ doing' = "none"
  /\ record' = [whole |-> TRUE, files |-> files, text |-> text, lost |-> Unrecorded]
  /\ UNCHANGED <<treeVars, edits, todo, ver, open, result, devs, kills, altered, settled>>
----------------------------------------------------------------------------
Killed ==
  /\ kills < MaxKills /\ kills' = kills + 1
  /\ doing' = "none" /\ todo' = {} /\ open' = {}
  /\ UNCHANGED <<treeVars, ver, devs>>

\* A script is killed. A copy that it was making stays as it is.
Kill ==
  /\ doing # "none" /\ Killed
  /\ altered' = altered \cup {e.path : e \in open}
  /\ UNCHANGED <<edits, result, settled, record>>

\* The directory of an edit whose file is not there.
Emptied(e) == [e EXCEPT !.kind = "dir", !.text = {}]

\* The edit when the writing of its file was cut short.
Torn(e) == [e EXCEPT !.kind = IF IsPatch(e) THEN "torn" ELSE @, !.text = {}]

\* Recording is killed when it writes e.
KilledWriting(e) ==
  /\ doing = "record" /\ Killed
  /\ \E left \in {Emptied(e), Torn(e)} : edits' = [edits EXCEPT ![Tag] = @ \cup {left}]
  /\ altered' = altered \cup {e.path}
  /\ UNCHANGED <<result, settled, record>>

\* Recording is killed in rmtree, which goes from file to file.
KilledClearing ==
  /\ doing = "none" /\ edits[Tag] # {} /\ Killed
  /\ \E rest \in SUBSET edits[Tag] :
       edits' = [edits EXCEPT ![Tag] = rest \cup {Emptied(e) : e \in @ \ rest}]
  /\ result' = "none" /\ settled' = FALSE /\ record' = NoRecord
  /\ UNCHANGED altered

\* What developers do, between scripts.
Develop(changed) ==
  /\ doing = "none" /\ devs < MaxDev /\ devs' = devs + 1
  /\ result' = "none" /\ settled' = FALSE
  /\ altered' = altered \cup changed
  /\ UNCHANGED <<doing, todo, ver, open, kills>>

DevEdit(p, h) ==
  /\ p \in files /\ h \notin text[p] /\ text' = [text EXCEPT ![p] = @ \cup {h}]
  /\ UNCHANGED <<files, skips, head, staged, edits, record>>
  /\ Develop({p})

DevAdd(p, h) ==
  /\ p \in Added \ files
  /\ files' = files \cup {p} /\ text' = [text EXCEPT ![p] = {h}]
  /\ staged' \in {staged, staged \cup ({p} \cap NewDir)}
  /\ UNCHANGED <<skips, head, edits, record>>
  /\ Develop({p})

DevRemove(p) ==
  /\ p \in files
  /\ files' = files \ {p} /\ text' = [text EXCEPT ![p] = {}]
  /\ head' \in {head, head \ {p}} /\ staged' = staged \ {p}
  /\ UNCHANGED <<skips, edits, record>>
  /\ Develop({p})

DevSkip(p) ==
  /\ p \in Tracked \ skips /\ skips' = skips \cup {p}
  /\ UNCHANGED <<files, text, head, staged, edits, record>>
  /\ Develop({p})

\* Another clone of Chromium, at the same tag.
Checkout ==
  /\ doing = "none" /\ devs < MaxDev /\ devs' = devs + 1
  /\ PristineTree
  /\ result' = "none" /\ settled' = FALSE /\ altered' = {}
  /\ UNCHANGED <<edits, doing, todo, ver, open, kills, record>>

\* A newer commit of this repository brings other edits for the same tag.
Pull ==
  /\ edits[Tag] # Upstream /\ edits' = [edits EXCEPT ![Tag] = Upstream]
  /\ record' = NoRecord
  /\ UNCHANGED treeVars
  /\ Develop(Changed)

DevStep ==
  \/ \E p \in Path, h \in Hunk : DevEdit(p, h) \/ DevAdd(p, h)
  \/ \E p \in Path : DevRemove(p) \/ DevSkip(p)
  \/ Checkout \/ Pull

PatcherNext ==
  \/ ApplyBegin \/ ApplyEnds \/ RecordBegin \/ RecordEnds
  \/ \E e \in todo : ApplyStep(e) \/ RecordEdit(e) \/ KilledWriting(e)
  \/ Kill \/ KilledClearing \/ DevStep

PatcherSpec == PatcherInit /\ [][PatcherNext]_patcherVars
----------------------------------------------------------------------------
PatcherTypeOK ==
  /\ files \subseteq Path /\ text \in [Path -> SUBSET Hunk]
  /\ skips \subseteq Path /\ head \subseteq Tracked /\ staged \subseteq NewDir
  /\ edits \in [Version -> SUBSET Edit]
  /\ doing \in {"none", "apply", "record"}
  /\ todo \subseteq Edit /\ open \subseteq todo /\ ver \in Version
  /\ result \in {"none", "done", "stopped"}
  /\ devs \in 0..MaxDev /\ kills \in 0..MaxKills
  /\ altered \subseteq Path /\ settled \in BOOLEAN
  /\ record \in [whole : BOOLEAN, files : SUBSET Path, text : [Path -> SUBSET Hunk],
                 lost : SUBSET Path]

InEffect(e) ==
  \/ e.kind = "patch" /\ e.path \in files /\ e.text \subseteq text[e.path]
  \/ e.kind = "deletion" /\ e.path \notin files
  \/ e.kind = "copy" /\ e.path \in files /\ text[e.path] = e.text
  \/ e.kind = "skip" /\ e.path \in skips

\* Edits that apply may pass over in silence: those it does not list, removals,
\* files with a .skip or altered by something else since the checkout, and a
\* patch that does not fit a file which looks edited as Chromium has it.
PassedOver(e) ==
  \/ e.path \in Hidden \cup skips \cup altered
  \/ e.kind \in {"rm", "torn", "dir"}
  \/ e.path \in Telling /\ ~Matches(e)

\* An apply that finishes leaves every edit of the version it chose in effect
\* but for those that PassedOver names, whatever was applied before and wherever
\* earlier runs of apply and of create_patch_file were killed (patch.py:157).
FinishedMeansInEffect ==
  result = "done" => \A e \in edits[ver] : PassedOver(e) \/ InEffect(e)

\* Applying edits never takes away what a file has beyond Chromium's own text,
\* be it a developer's work or an earlier version's edits: check_patch
\* (patch.py:198) and the branch that warns "is not being overwritten".
ApplyKeepsWork ==
  [][doing = "apply" =>
       \A p \in files : text[p] # {} => p \in files' /\ text[p] \subseteq text'[p]]_patcherVars

\* Once an apply has finished, further ones change nothing until a developer
\* does: every target of the build runs the script again, and a file that
\* changed would be compiled again.
RerunChangesNothing ==
  [][settled /\ settled' => UNCHANGED <<files, text, skips>>]_patcherVars

\* A tree that was recorded comes back when the record is applied to an
\* unaltered checkout, but for what Unrecorded names: create_patch_file
\* (patch.py:89) and apply are inverse to each other.
RecordingComesBack ==
  result = "done" /\ ver = Tag /\ record.whole /\ altered = {} =>
    \A p \in Path \ record.lost :
      /\ p \in files <=> p \in record.files
      /\ text[p] = record.text[p]
=============================================================================
