--------------------------- MODULE PatcherProofs ---------------------------
(***************************************************************************)
(* Proofs about the Patcher, for any tree, edits, versions and distances.  *)
(* They are about the scripts alone. The counters that bound a run are of  *)
(* no account, so the steps are those of the state without them.           *)
(***************************************************************************)
EXTENDS Patcher, WellFoundedInduction, TLAPS

patcherState == <<treeVars, edits, jobVars, history>>

Uncounted == PatcherInit /\ [][PatcherNext]_patcherState

StateOK ==
  /\ files \subseteq Path /\ text \in [Path -> SUBSET Hunk]
  /\ skips \subseteq Path /\ head \subseteq Tracked /\ staged \subseteq NewDir
  /\ edits \in [Version -> SUBSET Edit]
  /\ doing \in {"none", "apply", "record"}
  /\ todo \subseteq Edit /\ open \subseteq todo /\ ver \in Version
  /\ result \in {"none", "done", "stopped"}
  /\ altered \subseteq Path /\ settled \in BOOLEAN
  /\ record \in [whole : BOOLEAN, files : SUBSET Path, text : [Path -> SUBSET Hunk],
                 lost : SUBSET Path]

\* What a script has in hand.
JobInv ==
  /\ doing = "none" => todo = {}
  /\ doing # "apply" => open = {}
  /\ doing # "none" => result = "none"
  /\ doing = "apply" => todo \subseteq Listing(ver)
  /\ doing = "record" => todo \cap edits[Tag] = {}
  /\ \A e \in open : open = {e} /\ e.kind = "copy" /\ e.path \in files /\ text[e.path] = {}

\* What is recorded has one edit of a file, as what is shipped does.
NamesInv ==
  /\ \A v \in Version : Regular(edits[v])
  /\ doing = "record" => Regular(edits[Tag] \cup todo)

\* While a tree is recorded it is as the record says.
RecordInv == doing = "record" => \A e \in edits[Tag] \cup todo : e.kind = "rm" \/ InEffect(e)

Pristine(p) == text[p] = {} /\ (p \in files <=> p \in Tracked)

Fits(e) == PassedOver(e) \/ InEffect(e)

\* A file that nothing but the chosen edits has altered is as the tag has it, or as they do.
ApplyInv ==
  /\ \A e \in edits[ver] : e.kind \in Content => Fits(e) \/ Pristine(e.path) \/ e \in open
  /\ doing = "apply" => \A e \in edits[ver] \ todo : Fits(e)
  /\ result = "done" => \A e \in edits[ver] : Fits(e)

PatcherInv == StateOK /\ JobInv /\ NamesInv /\ RecordInv /\ ApplyInv

LEMMA EditType == ASSUME NEW e \in Edit
                  PROVE  /\ e.path \in Path /\ e.text \in SUBSET Hunk
                         /\ e.kind \in {"patch", "deletion", "torn", "copy", "rm", "skip", "dir"}
BY DEF Edit

LEMMA RecordsOK == ASSUME StateOK PROVE Records \subseteq Edit
<1> USE DEF StateOK
<1>1. ASSUME NEW k \in {"patch", "deletion", "copy", "rm", "skip"}, NEW S \in SUBSET Path
      PROVE  Recorded(k, S) \subseteq Edit
  BY DEF Recorded, Edit
<1>2. /\ Unversioned \subseteq Path /\ Tracked \ head \subseteq Path /\ head \ files \subseteq Path
      /\ {p \in head \cap files : text[p] # {}} \subseteq Path /\ skips \subseteq Path
  BY DEF Unversioned, Path
<1> QED
  BY <1>1, <1>2 DEF Records, Recordable

LEMMA RecordsRegular == ASSUME StateOK
                        PROVE  /\ Regular(Records)
                               /\ \A e \in Records : e.kind = "rm" \/ InEffect(e)
<1> USE DEF StateOK
<1>1. \A e \in Records :
        /\ e.text = text[e.path]
        /\ \/ e.kind = "copy" /\ e.path \in files \cap Added
           \/ e.kind = "rm"
           \/ e.kind = "deletion" /\ e.path \in head /\ e.path \notin files
           \/ e.kind = "patch" /\ e.path \in head \cap files
           \/ e.kind = "skip" /\ e.path \in skips
  BY DEF Records, Recorded, Unversioned, Recordable
<1>2. Records \subseteq Edit
  BY RecordsOK
<1>3. ASSUME NEW d \in Records, NEW e \in Records,
             d.kind \in Content, e.kind \in Content, d.path = e.path
      PROVE  d = e
  <2>1. d.kind = e.kind /\ d.text = e.text
    BY <1>1, <1>3, PatcherAssumption DEF Content, PatcherAssumption
  <2> QED
    BY <1>2, <1>3, <2>1 DEF Edit
<1>4. \A e \in Records : e.kind = "copy" => e.path \in Added
  BY <1>1
<1>5. \A e \in Records : e.kind = "rm" \/ InEffect(e)
  BY <1>1 DEF InEffect
<1> QED
  BY <1>3, <1>4, <1>5 DEF Regular

LEMMA RegularSubset ==
  ASSUME NEW es, NEW ds \in SUBSET es, Regular(es)
  PROVE  Regular(ds)
BY DEF Regular

LEMMA PatcherInitInv == PatcherInit => PatcherInv
<1> SUFFICES ASSUME PatcherInit PROVE PatcherInv
  OBVIOUS
<1> USE DEF PatcherInit
<1>1. NoRecord \in [whole : BOOLEAN, files : SUBSET Path, text : [Path -> SUBSET Hunk],
                    lost : SUBSET Path]
  BY DEF NoRecord
<1>2. edits \in [Version -> SUBSET Edit] /\ edits[Tag] = {}
  BY PatcherAssumption DEF PatcherAssumption
<1>3. StateOK
  BY <1>1, <1>2, PatcherAssumption DEF StateOK, PatcherAssumption, Path
<1>4. JobInv /\ RecordInv
  BY DEF JobInv, Listing, RecordInv
<1>5. NamesInv
  BY EditsAssumption, PatcherAssumption DEF EditsAssumption, PatcherAssumption, NamesInv, Regular
<1>6. ApplyInv
  BY <1>2 DEF ApplyInv
<1> QED
  BY <1>3, <1>4, <1>5, <1>6 DEF PatcherInv
----------------------------------------------------------------------------
(* apply *)

LEMMA ApplyBeginInv == ASSUME PatcherInv, ApplyBegin PROVE PatcherInv'
<1> USE DEF PatcherInv
<1>1. PICK v \in Chosen :
        /\ ver' = v /\ todo' = Listing(v)
        /\ altered' = IF v = ver THEN altered ELSE altered \cup Changed
  BY DEF ApplyBegin
<1>2. /\ doing = "none" /\ doing' = "apply" /\ result' = "none"
      /\ UNCHANGED <<files, text, skips, head, staged, edits, open, settled, record>>
  BY DEF ApplyBegin, treeVars
<1>3. v \in Version /\ open = {} /\ edits[v] \subseteq Edit /\ Changed \subseteq Path
  BY <1>1, <1>2 DEF Chosen, Closest, Available, Changed, Differs, JobInv, StateOK
<1>4. StateOK'
  BY <1>1, <1>2, <1>3 DEF StateOK, Listing
<1>5. JobInv' /\ RecordInv' /\ NamesInv'
  BY <1>1, <1>2, <1>3 DEF JobInv, Listing, RecordInv, NamesInv
<1>6. ASSUME NEW e \in edits[v], e.kind \in Content
      PROVE  Fits(e)' \/ Pristine(e.path)' \/ e \in open'
  <2>1. CASE v = ver
    BY <2>1, <1>1, <1>2, <1>6 DEF ApplyInv, Fits, PassedOver, Matches, Pristine, InEffect
  <2>2. CASE v # ver /\ e.path \notin Changed
    <3>1. e.path \in Path
      BY <1>3, <1>6, EditType
    <3>2. Pristine(e.path)
      BY <2>2, <3>1, PatcherAssumption DEF Changed, Differs, Pristine, Path, PatcherAssumption
    <3> QED
      BY <3>2, <1>2 DEF Pristine
  <2>3. CASE v # ver /\ e.path \in Changed
    BY <2>3, <1>1 DEF Fits, PassedOver, Matches
  <2> QED
    BY <2>1, <2>2, <2>3
<1>7. \A e \in edits[v] \ Listing(v) : Fits(e)'
  BY DEF Listing, Fits, PassedOver
<1>8. ApplyInv'
  BY <1>1, <1>2, <1>6, <1>7 DEF ApplyInv
<1> QED
  BY <1>4, <1>5, <1>8

\* A step of apply that is done with e, and has changed the file of e at most.
LEMMA TakenInv ==
  ASSUME PatcherInv, NEW e \in todo, doing = "apply", doing' = "apply",
         open \subseteq {e}, open' = {}, todo' = todo \ {e},
         UNCHANGED <<head, staged, edits, ver, result, history>>,
         files' \subseteq Path, text' \in [Path -> SUBSET Hunk], skips \subseteq skips',
         skips' \subseteq Path,
         \A p \in Path : p # e.path => (p \in files' <=> p \in files) /\ text'[p] = text[p],
         e.kind \notin Content => files' = files /\ text' = text,
         Fits(e)'
  PROVE  PatcherInv'
<1> USE DEF PatcherInv, history
<1>1. StateOK'
  BY DEF StateOK
<1>2. JobInv' /\ RecordInv' /\ NamesInv'
  BY DEF JobInv, Listing, RecordInv, NamesInv
<1>3. e \in Edit /\ e \in edits[ver] /\ edits[ver] \subseteq Edit
  BY DEF StateOK, JobInv, Listing
<1>4. ASSUME NEW d \in edits[ver], d # e
      PROVE  /\ Fits(d) => Fits(d)'
             /\ d.kind \in Content /\ Pristine(d.path) => Pristine(d.path)'
  <2>1. d.path \in Path /\ e.path \in Path
    BY <1>3, <1>4, EditType
  <2>2. CASE e.kind \in Content /\ d.kind \in Content
    <3>1. d.path # e.path
      BY <1>3, <1>4, <2>2 DEF NamesInv, Regular, StateOK
    <3>2. (d.path \in files' <=> d.path \in files) /\ text'[d.path] = text[d.path]
      BY <2>1, <3>1
    <3> QED
      BY <3>2 DEF Fits, PassedOver, Matches, Pristine, InEffect
  <2>3. CASE e.kind \notin Content
    BY <2>3 DEF Fits, PassedOver, Matches, Pristine, InEffect
  <2>4. CASE d.kind \notin Content
    <3>1. d.kind \in {"rm", "skip", "dir"}
      BY <2>4, <1>3, <1>4, EditType DEF Content
    <3> QED
      BY <2>4, <3>1 DEF Fits, PassedOver, Matches, InEffect
  <2> QED
    BY <2>2, <2>3, <2>4
<1>5. ASSUME NEW d \in edits[ver], d.kind \in Content
      PROVE  Fits(d)' \/ Pristine(d.path)' \/ d \in open'
  <2>1. CASE d = e
    BY <2>1
  <2>2. CASE d # e
    <3>1. Fits(d) \/ Pristine(d.path)
      BY <2>2, <1>5 DEF ApplyInv
    <3> QED
      BY <3>1, <2>2, <1>4, <1>5
  <2> QED
    BY <2>1, <2>2
<1>6. ASSUME NEW d \in edits[ver] \ todo'
      PROVE  Fits(d)'
  <2>1. CASE d = e
    BY <2>1
  <2>2. CASE d # e
    BY <2>2, <1>4, <1>6 DEF ApplyInv
  <2> QED
    BY <2>1, <2>2
<1>7. result' # "done"
  BY DEF JobInv, Listing
<1>8. ApplyInv'
  BY <1>5, <1>6, <1>7 DEF ApplyInv
<1> QED
  BY <1>1, <1>2, <1>8

\* A file that nobody has altered is as the tag has it, or the edit is in effect.
LEMMA Untouched ==
  ASSUME PatcherInv, NEW e, Take(e), e.kind \in Content
  PROVE  Fits(e) \/ Pristine(e.path)
BY DEF Take, PatcherInv, ApplyInv, JobInv, Listing

LEMMA CheckPatchInv == ASSUME PatcherInv, NEW e \in todo, check_patch(e) PROVE PatcherInv'
<1> USE DEF PatcherInv
<1>1. /\ doing = "apply" /\ doing' = "apply" /\ open = {} /\ open' = {} /\ todo' = todo \ {e}
      /\ UNCHANGED <<skips, head, staged, edits, ver, result, history>>
  BY DEF check_patch, Take, Taken
<1>2. e \in Edit /\ e.path \in Path /\ e.text \in SUBSET Hunk
  BY EditType DEF StateOK
<1>3. e.kind \in {"patch", "deletion", "torn"} /\ e.kind \in Content /\ Take(e)
  BY DEF check_patch, IsPatch, Content
<1>4. CASE LeavesPatch(e) /\ UNCHANGED <<files, text>>
  <2>1. Fits(e)
    <3>1. CASE e.path \in skips
      BY <3>1 DEF Fits, PassedOver, Matches
    <3>2. CASE Reverses(e)
      BY <3>2 DEF Reverses, Fits, PassedOver, Matches, InEffect
    <3>3. CASE ~Applies(e) /\ e.path \in files /\ edit_evidence(e.path)
      <4>1. CASE e.path \in Telling /\ e.kind # "torn" /\ Matches(e)
        <5>1. ~Pristine(e.path)
          BY <1>3, <3>3, <4>1 DEF Applies, Pristine
        <5> QED
          BY <5>1, <1>3, Untouched
      <4>2. CASE e.path \in Telling /\ (e.kind = "torn" \/ ~Matches(e))
        BY <4>2 DEF Fits, PassedOver
      <4>3. CASE e.path \notin Telling
        <5>1. ~Pristine(e.path)
          BY <3>3, <4>3 DEF edit_evidence, Pristine
        <5> QED
          BY <5>1, <1>3, Untouched
      <4> QED
        BY <4>1, <4>2, <4>3
    <3> QED
      BY <1>4, <3>1, <3>2, <3>3 DEF LeavesPatch
  <2>2. Fits(e)'
    BY <2>1, <1>1, <1>4 DEF Fits, PassedOver, Matches, InEffect, history
  <2>3. files' \subseteq Path /\ text' \in [Path -> SUBSET Hunk] /\ skips \subseteq Path
    BY <1>4 DEF StateOK
  <2> QED
    BY <1>1, <1>3, <1>4, <2>2, <2>3, TakenInv
<1>5. CASE /\ Applies(e) /\ e.kind = "patch"
           /\ text' = [text EXCEPT ![e.path] = @ \cup e.text] /\ UNCHANGED files
  <2>1. text \in [Path -> SUBSET Hunk] /\ files \subseteq Path /\ skips \subseteq Path
    BY DEF StateOK
  <2>2. /\ text' \in [Path -> SUBSET Hunk] /\ text'[e.path] = text[e.path] \cup e.text
        /\ \A p \in Path : p # e.path => text'[p] = text[p]
    BY <1>2, <1>5, <2>1
  <2>3. Fits(e)'
    BY <1>5, <2>2 DEF Fits, PassedOver, Matches, InEffect, Applies
  <2> QED
    BY <1>1, <1>3, <1>5, <2>1, <2>2, <2>3, TakenInv
<1>6. CASE e.kind = "deletion" /\ files' = files \ {e.path} /\ UNCHANGED text
  <2>1. text' \in [Path -> SUBSET Hunk] /\ files' \subseteq Path /\ skips \subseteq Path
    BY <1>6 DEF StateOK
  <2>2. Fits(e)'
    BY <1>6 DEF Fits, PassedOver, Matches, InEffect
  <2> QED
    BY <1>1, <1>3, <1>6, <2>1, <2>2, TakenInv
<1> QED
  BY <1>4, <1>5, <1>6 DEF check_patch

LEMMA OtherEditInv ==
  ASSUME PatcherInv, NEW e \in todo, ApplyRemoval(e) \/ LeaveCopy(e) \/ CopySkip(e)
  PROVE  PatcherInv'
<1> USE DEF PatcherInv
<1>1. /\ doing = "apply" /\ doing' = "apply" /\ open = {} /\ open' = {} /\ todo' = todo \ {e}
      /\ UNCHANGED <<files, text, head, staged, edits, ver, result, history>>
  BY DEF ApplyRemoval, LeaveCopy, CopySkip, Take, Taken
<1>2. e \in Edit /\ e.path \in Path
  BY EditType DEF StateOK
<1>3. skips \subseteq skips' /\ skips' \subseteq Path
  BY <1>2 DEF ApplyRemoval, LeaveCopy, CopySkip, Taken, StateOK
<1>4. Fits(e)'
  <2>1. CASE ApplyRemoval(e)
    BY <2>1 DEF ApplyRemoval, Fits, PassedOver, Matches
  <2>2. CASE LeaveCopy(e)
    <3>1. e \in edits[ver] /\ e.kind = "copy" /\ e.path \in files /\ Take(e)
      BY <2>2 DEF LeaveCopy, Take, JobInv, Listing
    <3>2. e.path \notin Tracked
      BY <3>1, PatcherAssumption DEF PatcherAssumption, NamesInv, Regular, StateOK
    <3>3. Fits(e)
      BY <3>1, <3>2, Untouched DEF Content, Pristine
    <3> QED
      BY <3>3, <1>1, <1>3 DEF Fits, PassedOver, Matches, InEffect, history
  <2>3. CASE CopySkip(e)
    BY <2>3 DEF CopySkip, Fits, PassedOver, Matches
  <2> QED
    BY <2>1, <2>2, <2>3
<1>5. files' \subseteq Path /\ text' \in [Path -> SUBSET Hunk]
  BY <1>1 DEF StateOK
<1> QED
  BY <1>1, <1>3, <1>4, <1>5, TakenInv

LEMMA CopyOpensInv == ASSUME PatcherInv, NEW e \in todo, CopyOpens(e) PROVE PatcherInv'
<1> USE DEF PatcherInv
<1>1. /\ doing = "apply" /\ open = {} /\ e.kind = "copy" /\ e.path \notin files
      /\ files' = files \cup {e.path} /\ text' = [text EXCEPT ![e.path] = {}] /\ open' = {e}
      /\ UNCHANGED <<skips, head, staged, edits, doing, todo, ver, result, history>>
  BY DEF CopyOpens, Take
<1>2. e \in Edit /\ e.path \in Path /\ e \in edits[ver] /\ edits[ver] \subseteq Edit
  BY EditType DEF StateOK, JobInv, Listing, CopyOpens, Take
<1>3. /\ text' \in [Path -> SUBSET Hunk] /\ text'[e.path] = {}
      /\ \A p \in Path : p # e.path => text'[p] = text[p]
  BY <1>1, <1>2 DEF StateOK
<1>4. StateOK'
  BY <1>1, <1>2, <1>3 DEF StateOK, history
<1>5. JobInv' /\ RecordInv' /\ NamesInv'
  BY <1>1, <1>3 DEF JobInv, Listing, RecordInv, NamesInv
<1>6. ASSUME NEW d \in edits[ver], d # e
      PROVE  /\ Fits(d) => Fits(d)'
             /\ d.kind \in Content /\ Pristine(d.path) => Pristine(d.path)'
  <2>1. d.path \in Path
    BY <1>2, <1>6, EditType
  <2>2. CASE d.kind \in Content
    <3>1. d.path # e.path
      BY <1>1, <1>2, <1>6, <2>2 DEF NamesInv, Regular, StateOK, Content
    <3>2. (d.path \in files' <=> d.path \in files) /\ text'[d.path] = text[d.path]
      BY <2>1, <3>1, <1>1, <1>3
    <3> QED
      BY <3>2, <1>1 DEF Fits, PassedOver, Matches, Pristine, InEffect, history
  <2>3. CASE d.kind \notin Content
    <3>1. d.kind \in {"rm", "skip", "dir"}
      BY <2>3, <1>2, <1>6, EditType DEF Content
    <3> QED
      BY <2>3, <3>1, <1>1 DEF Fits, PassedOver, Matches, InEffect, history
  <2> QED
    BY <2>2, <2>3
<1>7. \A d \in edits[ver] : d.kind \in Content => Fits(d)' \/ Pristine(d.path)' \/ d \in open'
  BY <1>1, <1>6 DEF ApplyInv
<1>8. \A d \in edits[ver] \ todo : Fits(d)'
  BY <1>1, <1>6 DEF ApplyInv
<1>9. ApplyInv'
  BY <1>1, <1>7, <1>8 DEF ApplyInv, JobInv, Listing
<1> QED
  BY <1>4, <1>5, <1>9

LEMMA CopyWritesInv == ASSUME PatcherInv, NEW e \in todo, CopyWrites(e) PROVE PatcherInv'
<1> USE DEF PatcherInv
<1>1. /\ e \in open /\ open' = {} /\ todo' = todo \ {e}
      /\ text' = [text EXCEPT ![e.path] = e.text]
      /\ UNCHANGED <<files, skips, head, staged, edits, doing, ver, result, history>>
  BY DEF CopyWrites
<1>2. doing = "apply" /\ open = {e} /\ e.kind = "copy" /\ e.path \in files
  BY <1>1 DEF JobInv, Listing
<1>3. e \in Edit /\ e.path \in Path /\ e.text \in SUBSET Hunk
  BY EditType DEF StateOK
<1>4. /\ text' \in [Path -> SUBSET Hunk] /\ text'[e.path] = e.text
      /\ \A p \in Path : p # e.path => text'[p] = text[p]
  BY <1>1, <1>3 DEF StateOK
<1>5. Fits(e)'
  BY <1>1, <1>2, <1>4 DEF Fits, PassedOver, Matches, InEffect
<1>6. files' \subseteq Path /\ skips \subseteq Path /\ e.kind \in Content
  BY <1>1, <1>2 DEF StateOK, Content
<1> QED
  BY <1>1, <1>2, <1>4, <1>5, <1>6, TakenInv

\* A script ends, or is killed with the file it was copying.
LEMMA JobEndsInv ==
  ASSUME PatcherInv, doing # "none", doing' = "none", todo' = {}, open' = {},
         result' \in {"none", "done", "stopped"}, settled' \in BOOLEAN,
         record' \in [whole : BOOLEAN, files : SUBSET Path, text : [Path -> SUBSET Hunk],
                      lost : SUBSET Path],
         altered' = altered \cup {e.path : e \in open},
         UNCHANGED <<treeVars, edits, ver>>,
         result' = "done" => doing = "apply" /\ todo = {}
  PROVE  PatcherInv'
<1> USE DEF PatcherInv, treeVars
<1>1. {e.path : e \in open} \subseteq Path
  <2>1. open \subseteq Edit
    BY DEF StateOK
  <2> QED
    BY <2>1, EditType
<1>2. StateOK'
  BY <1>1 DEF StateOK
<1>3. JobInv' /\ RecordInv' /\ NamesInv'
  BY DEF JobInv, Listing, RecordInv, NamesInv
<1>4. \A e : Fits(e) => Fits(e)'
  BY DEF Fits, PassedOver, Matches, InEffect
<1>5. \A e \in open : Fits(e)'
  BY DEF Fits, PassedOver, Matches
<1>6. ApplyInv'
  BY <1>4, <1>5 DEF ApplyInv, Pristine
<1> QED
  BY <1>2, <1>3, <1>6

LEMMA ApplyStopsInv == ASSUME PatcherInv, NEW e, ApplyStops(e) PROVE PatcherInv'
BY JobEndsInv DEF ApplyStops, Take, history, PatcherInv, StateOK

LEMMA ApplyEndsInv == ASSUME PatcherInv, ApplyEnds PROVE PatcherInv'
<1>1. open = {}
  BY DEF ApplyEnds, PatcherInv, StateOK
<1> QED
  BY <1>1, JobEndsInv DEF ApplyEnds, PatcherInv, StateOK

LEMMA KillInv == ASSUME PatcherInv, Kill PROVE PatcherInv'
BY JobEndsInv DEF Kill, Killed, PatcherInv, StateOK, JobInv
----------------------------------------------------------------------------
(* create_patch_file *)

LEMMA RecordBeginInv == ASSUME PatcherInv, RecordBegin PROVE PatcherInv'
<1> USE DEF PatcherInv
<1>1. /\ doing = "none" /\ doing' = "record" /\ result' = "none" /\ settled' = FALSE
      /\ edits' = [edits EXCEPT ![Tag] = {}] /\ todo' = Records /\ record' = NoRecord
      /\ UNCHANGED <<files, text, skips, head, staged, ver, open, altered>>
  BY DEF RecordBegin, ClearRecords, treeVars
<1>2. Tag \in Version /\ open = {} /\ Records \subseteq Edit
  BY <1>1, PatcherAssumption, RecordsOK DEF PatcherAssumption, JobInv, Listing
<1>3. /\ edits' \in [Version -> SUBSET Edit] /\ edits'[Tag] = {}
      /\ \A v \in Version : v # Tag => edits'[v] = edits[v]
  BY <1>1, <1>2 DEF StateOK
<1>4. NoRecord \in [whole : BOOLEAN, files : SUBSET Path, text : [Path -> SUBSET Hunk],
                    lost : SUBSET Path]
  BY DEF NoRecord
<1>5. StateOK'
  BY <1>1, <1>2, <1>3, <1>4 DEF StateOK
<1>6. JobInv'
  BY <1>1, <1>2, <1>3 DEF JobInv
<1>7. NamesInv'
  <2>1. Regular({})
    BY DEF Regular
  <2>2. edits'[Tag] \cup todo' = Records
    BY <1>1, <1>3
  <2> QED
    BY <2>1, <2>2, <1>1, <1>3, RecordsRegular DEF NamesInv
<1>8. RecordInv'
  <2>1. \A e : InEffect(e) <=> InEffect(e)'
    BY <1>1 DEF InEffect
  <2> QED
    BY <2>1, <1>1, <1>3, RecordsRegular DEF RecordInv
<1>9. ApplyInv'
  <2>1. \A e \in edits'[ver] : e \in edits[ver]
    BY <1>2, <1>3 DEF StateOK
  <2> QED
    BY <2>1, <1>1 DEF ApplyInv, Fits, PassedOver, Matches, Pristine, InEffect
<1> QED
  BY <1>5, <1>6, <1>7, <1>8, <1>9

LEMMA RecordEditInv == ASSUME PatcherInv, NEW e \in todo, RecordEdit(e) PROVE PatcherInv'
<1> USE DEF PatcherInv
<1>1. /\ doing = "record" /\ doing' = "record" /\ todo' = todo \ {e}
      /\ edits' = [edits EXCEPT ![Tag] = edits[Tag] \cup {e}]
      /\ UNCHANGED <<files, text, skips, head, staged, ver, open, result, altered, settled, record>>
  BY DEF RecordEdit, treeVars, history
<1>2. Tag \in Version /\ e \in Edit /\ open = {} /\ result = "none"
  BY <1>1, PatcherAssumption DEF PatcherAssumption, JobInv, Listing, StateOK
<1>3. /\ edits' \in [Version -> SUBSET Edit] /\ edits'[Tag] = edits[Tag] \cup {e}
      /\ \A v \in Version : v # Tag => edits'[v] = edits[v]
  BY <1>1, <1>2 DEF StateOK
<1>4. StateOK'
  BY <1>1, <1>2, <1>3 DEF StateOK
<1>5. JobInv'
  BY <1>1, <1>2 DEF JobInv, Listing
<1>6. NamesInv'
  <2>1. edits'[Tag] \cup todo' = edits[Tag] \cup todo
    BY <1>1, <1>3
  <2>2. Regular(edits[Tag] \cup todo)
    BY <1>1 DEF NamesInv
  <2>3. Regular(edits'[Tag])
    BY <2>2, <1>3, RegularSubset
  <2> QED
    BY <2>1, <2>2, <2>3, <1>3 DEF NamesInv
<1>7. \A d : InEffect(d) <=> InEffect(d)'
  BY <1>1 DEF InEffect
<1>8. RecordInv'
  BY <1>1, <1>3, <1>7 DEF RecordInv
<1>9. ApplyInv'
  <2>1. Fits(e)'
    BY <1>1, <1>7 DEF RecordInv, Fits, PassedOver, Matches
  <2>2. \A d \in edits'[ver] : d = e \/ d \in edits[ver]
    BY <1>2, <1>3 DEF StateOK
  <2>3. \A d : Fits(d) => Fits(d)'
    BY <1>1, <1>7 DEF Fits, PassedOver, Matches
  <2> QED
    BY <2>1, <2>2, <2>3, <1>1, <1>2 DEF ApplyInv, Pristine
<1> QED
  BY <1>4, <1>5, <1>6, <1>8, <1>9

LEMMA RecordEndsInv == ASSUME PatcherInv, RecordEnds PROVE PatcherInv'
<1> USE DEF PatcherInv
<1>1. Unrecorded \subseteq Path
  BY DEF Unrecorded, Differs, StateOK, Path
<1>2. record' \in [whole : BOOLEAN, files : SUBSET Path, text : [Path -> SUBSET Hunk],
                   lost : SUBSET Path]
  BY <1>1 DEF RecordEnds, StateOK
<1>3. doing = "record" /\ open = {} /\ todo = {} /\ result # "done"
  BY DEF RecordEnds, JobInv, Listing
<1> QED
  BY <1>2, <1>3, JobEndsInv DEF RecordEnds, StateOK
\* What is left of an edit is one that promises nothing, or a copy.
LEMMA LeftOver ==
  ASSUME NEW e \in Edit, NEW left \in {Emptied(e), Torn(e)}
  PROVE  /\ left \in Edit /\ left.path = e.path
         /\ left.kind \in Content => e.kind \in Content
         /\ left.kind = "copy" => e.kind = "copy"
BY DEF Emptied, Torn, Edit, IsPatch, Content

LEMMA KilledWritingInv == ASSUME PatcherInv, NEW e \in todo, KilledWriting(e) PROVE PatcherInv'
<1> USE DEF PatcherInv
<1>1. PICK left \in {Emptied(e), Torn(e)} : edits' = [edits EXCEPT ![Tag] = edits[Tag] \cup {left}]
  BY DEF KilledWriting
<1>2. /\ doing = "record" /\ doing' = "none" /\ todo' = {} /\ open' = {}
      /\ altered' = altered \cup {e.path}
      /\ UNCHANGED <<files, text, skips, head, staged, ver, result, settled, record>>
  BY DEF KilledWriting, Killed, treeVars
<1>3. /\ Tag \in Version /\ e \in Edit /\ e.path \in Path /\ open = {} /\ result = "none"
      /\ left \in Edit /\ left.path = e.path
      /\ left.kind \in Content => e.kind \in Content
      /\ left.kind = "copy" => e.kind = "copy"
  BY <1>2, PatcherAssumption, EditType, LeftOver DEF PatcherAssumption, JobInv, StateOK
<1>4. /\ edits' \in [Version -> SUBSET Edit] /\ edits'[Tag] = edits[Tag] \cup {left}
      /\ \A v \in Version : v # Tag => edits'[v] = edits[v]
  BY <1>1, <1>3 DEF StateOK
<1>5. StateOK'
  BY <1>2, <1>3, <1>4 DEF StateOK
<1>6. JobInv' /\ RecordInv'
  BY <1>2, <1>3 DEF JobInv, RecordInv
<1>7. NamesInv'
  <2>1. Regular(edits[Tag] \cup todo) /\ e \notin edits[Tag]
    BY <1>2 DEF NamesInv, JobInv
  <2>2. \A d \in edits[Tag] : d.kind \in Content /\ left.kind \in Content => d.path # left.path
    BY <1>3, <2>1 DEF Regular
  <2>3. left.kind = "copy" => left.path \in Added
    BY <1>3, <2>1 DEF Regular
  <2>4. Regular(edits[Tag])
    BY <2>1, RegularSubset
  <2>5. Regular(edits'[Tag])
    BY <1>4, <2>2, <2>3, <2>4 DEF Regular
  <2> QED
    BY <1>2, <1>4, <2>5 DEF NamesInv
<1>8. ApplyInv'
  <2>1. Fits(left)'
    BY <1>2, <1>3 DEF Fits, PassedOver
  <2>2. \A d \in edits'[ver] : d = left \/ d \in edits[ver]
    BY <1>3, <1>4 DEF StateOK
  <2>3. \A d : Fits(d) => Fits(d)'
    BY <1>2 DEF Fits, PassedOver, Matches, InEffect
  <2> QED
    BY <2>1, <2>2, <2>3, <1>2, <1>3 DEF ApplyInv, Pristine
<1> QED
  BY <1>5, <1>6, <1>7, <1>8

LEMMA KilledClearingInv == ASSUME PatcherInv, KilledClearing PROVE PatcherInv'
<1> USE DEF PatcherInv
<1>1. PICK rest \in SUBSET edits[Tag] :
        edits' = [edits EXCEPT ![Tag] = rest \cup {Emptied(e) : e \in edits[Tag] \ rest}]
  BY DEF KilledClearing
<1> DEFINE left == rest \cup {Emptied(e) : e \in edits[Tag] \ rest}
<1>2. /\ doing = "none" /\ doing' = "none" /\ todo' = {} /\ open' = {} /\ result' = "none"
      /\ settled' = FALSE /\ record' = NoRecord
      /\ UNCHANGED <<files, text, skips, head, staged, ver, altered>>
  BY DEF KilledClearing, Killed, treeVars
<1>3. Tag \in Version /\ open = {} /\ edits[Tag] \subseteq Edit
  BY <1>2, PatcherAssumption DEF PatcherAssumption, JobInv, StateOK
<1>4. left \subseteq Edit /\ \A d \in left : d \in edits[Tag] \/ d.kind = "dir"
  <2>1. \A e \in edits[Tag] : Emptied(e) \in Edit /\ Emptied(e).kind = "dir"
    BY <1>3 DEF Emptied, Edit
  <2> QED
    BY <1>3, <2>1
<1>5. /\ edits' \in [Version -> SUBSET Edit] /\ edits'[Tag] = left
      /\ \A v \in Version : v # Tag => edits'[v] = edits[v]
  BY <1>1, <1>3, <1>4 DEF StateOK
<1> HIDE DEF left
<1>6. NoRecord \in [whole : BOOLEAN, files : SUBSET Path, text : [Path -> SUBSET Hunk],
                    lost : SUBSET Path]
  BY DEF NoRecord
<1>7. StateOK'
  BY <1>2, <1>3, <1>5, <1>6 DEF StateOK
<1>8. JobInv' /\ RecordInv'
  BY <1>2, <1>3 DEF JobInv, RecordInv
<1>9. NamesInv'
  <2>1. \A d \in left : d.kind \in Content => d \in edits[Tag]
    BY <1>4 DEF Content
  <2>2. Regular(left)
    BY <1>3, <2>1 DEF NamesInv, Regular, Content
  <2> QED
    BY <1>2, <1>5, <2>2 DEF NamesInv
<1>10. ApplyInv'
  <2>1. \A d \in edits'[ver] : d \in edits[ver] \/ d.kind = "dir"
    BY <1>3, <1>4, <1>5 DEF StateOK
  <2>2. \A d : Fits(d) => Fits(d)'
    BY <1>2 DEF Fits, PassedOver, Matches, InEffect
  <2>3. \A d : d.kind = "dir" => Fits(d)'
    BY DEF Fits, PassedOver
  <2> QED
    BY <2>1, <2>2, <2>3, <1>2, <1>3 DEF ApplyInv, Pristine
<1> QED
  BY <1>7, <1>8, <1>9, <1>10
----------------------------------------------------------------------------
(* Developers *)

\* What a developer does to the tree is to the files in `changed'.
LEMMA DevelopInv ==
  ASSUME PatcherInv, NEW changed \in SUBSET Path, doing = "none",
         result' = "none", altered' = altered \cup changed, skips \subseteq skips',
         UNCHANGED <<doing, todo, ver, open, edits>>, StateOK',
         \A p \in Path : p \notin changed => (p \in files' <=> p \in files) /\ text'[p] = text[p]
  PROVE  PatcherInv'
<1> USE DEF PatcherInv
<1>1. open = {} /\ edits[ver] \subseteq Edit
  BY DEF JobInv, Listing, StateOK
<1>2. JobInv' /\ RecordInv' /\ NamesInv'
  BY <1>1 DEF JobInv, Listing, RecordInv, NamesInv
<1>3. ASSUME NEW e \in edits[ver], e.kind \in Content
      PROVE  Fits(e)' \/ Pristine(e.path)'
  <2>1. e.path \in Path
    BY <1>1, <1>3, EditType
  <2>2. CASE e.path \in changed
    BY <2>2 DEF Fits, PassedOver, Matches
  <2>3. CASE e.path \notin changed
    <3>1. (e.path \in files' <=> e.path \in files) /\ text'[e.path] = text[e.path]
      BY <2>1, <2>3
    <3>2. Fits(e) \/ Pristine(e.path)
      BY <1>1, <1>3 DEF ApplyInv
    <3> QED
      BY <3>1, <3>2 DEF Fits, PassedOver, Matches, Pristine, InEffect
  <2> QED
    BY <2>2, <2>3
<1>4. ApplyInv'
  BY <1>3 DEF ApplyInv
<1> QED
  BY <1>2, <1>4

LEMMA DevEditInv ==
  ASSUME PatcherInv, NEW p \in Path, NEW h \in Hunk, DevEdit(p, h) PROVE PatcherInv'
<1>1. StateOK'
  BY DEF DevEdit, Develop, PatcherInv, StateOK
<1>2. \A q \in Path : q \notin {p} => (q \in files' <=> q \in files) /\ text'[q] = text[q]
  BY DEF DevEdit, PatcherInv, StateOK
<1> QED
  BY <1>1, <1>2, DevelopInv DEF DevEdit, Develop

LEMMA DevAddInv ==
  ASSUME PatcherInv, NEW p \in Path, NEW h \in Hunk, DevAdd(p, h) PROVE PatcherInv'
<1>1. StateOK'
  BY DEF DevAdd, Develop, PatcherInv, StateOK
<1>2. \A q \in Path : q \notin {p} => (q \in files' <=> q \in files) /\ text'[q] = text[q]
  BY DEF DevAdd, PatcherInv, StateOK
<1> QED
  BY <1>1, <1>2, DevelopInv DEF DevAdd, Develop

LEMMA DevRemoveInv == ASSUME PatcherInv, NEW p \in Path, DevRemove(p) PROVE PatcherInv'
<1>1. StateOK'
  BY DEF DevRemove, Develop, PatcherInv, StateOK
<1>2. \A q \in Path : q \notin {p} => (q \in files' <=> q \in files) /\ text'[q] = text[q]
  BY DEF DevRemove, PatcherInv, StateOK
<1> QED
  BY <1>1, <1>2, DevelopInv DEF DevRemove, Develop

LEMMA DevSkipInv == ASSUME PatcherInv, NEW p \in Path, DevSkip(p) PROVE PatcherInv'
<1>1. StateOK'
  BY DEF DevSkip, Develop, PatcherInv, StateOK
<1> QED
  BY <1>1, DevelopInv DEF DevSkip, Develop

LEMMA CheckoutInv == ASSUME PatcherInv, Checkout PROVE PatcherInv'
<1> USE DEF PatcherInv
<1>1. /\ doing = "none" /\ files' = Tracked /\ text' = [p \in Path |-> {}] /\ result' = "none"
      /\ skips' = {} /\ head' = Tracked /\ staged' = {} /\ settled' = FALSE /\ altered' = {}
      /\ UNCHANGED <<edits, doing, todo, ver, open, record>>
  BY DEF Checkout, PristineTree
<1>2. StateOK'
  BY <1>1 DEF StateOK, Path
<1>3. JobInv' /\ RecordInv' /\ NamesInv'
  BY <1>1 DEF JobInv, Listing, RecordInv, NamesInv
<1>4. \A e \in edits'[ver'] : Pristine(e.path)'
  <2>1. edits[ver] \subseteq Edit
    BY DEF StateOK
  <2> QED
    BY <2>1, <1>1, EditType DEF Pristine
<1>5. ApplyInv'
  BY <1>1, <1>4 DEF ApplyInv
<1> QED
  BY <1>2, <1>3, <1>5

LEMMA PullInv == ASSUME PatcherInv, Pull PROVE PatcherInv'
<1> USE DEF PatcherInv
<1>1. /\ doing = "none" /\ edits' = [edits EXCEPT ![Tag] = Upstream] /\ record' = NoRecord
      /\ result' = "none" /\ settled' = FALSE /\ altered' = altered \cup Changed
      /\ UNCHANGED <<files, text, skips, head, staged, doing, todo, ver, open>>
  BY DEF Pull, Develop, treeVars
<1>2. /\ edits' \in [Version -> SUBSET Edit] /\ edits'[Tag] = Upstream
      /\ \A v \in Version : v # Tag => edits'[v] = edits[v]
  BY <1>1, PatcherAssumption DEF PatcherAssumption, StateOK
<1>3. NoRecord \in [whole : BOOLEAN, files : SUBSET Path, text : [Path -> SUBSET Hunk],
                    lost : SUBSET Path]
  BY DEF NoRecord
<1>4. Changed \subseteq Path
  BY DEF Changed, Differs, StateOK
<1>5. StateOK'
  BY <1>1, <1>2, <1>3, <1>4 DEF StateOK
<1>6. JobInv' /\ RecordInv'
  BY <1>1 DEF JobInv, Listing, RecordInv
<1>7. NamesInv'
  BY <1>1, <1>2, EditsAssumption DEF EditsAssumption, NamesInv
<1>8. \A e \in edits'[ver'] : Fits(e)' \/ Pristine(e.path)'
  <2>1. ASSUME NEW p \in Path PROVE p \in Changed \/ Pristine(p)
    BY PatcherAssumption DEF Changed, Differs, Pristine, Path, PatcherAssumption
  <2>2. \A e \in edits'[ver'] : e.path \in Path
    BY <1>5, EditType DEF StateOK
  <2> QED
    BY <2>1, <2>2, <1>1 DEF Fits, PassedOver, Matches, Pristine
<1>9. ApplyInv'
  BY <1>1, <1>8 DEF ApplyInv
<1> QED
  BY <1>5, <1>6, <1>7, <1>9
----------------------------------------------------------------------------

LEMMA PatcherInductive == PatcherInv /\ [PatcherNext]_patcherState => PatcherInv'
<1> SUFFICES ASSUME PatcherInv, [PatcherNext]_patcherState PROVE PatcherInv'
  OBVIOUS
<1>1. CASE ApplyBegin
  BY <1>1, ApplyBeginInv
<1>2. CASE ApplyEnds
  BY <1>2, ApplyEndsInv
<1>3. ASSUME NEW e \in todo, ApplyStep(e) PROVE PatcherInv'
  BY <1>3, CheckPatchInv, OtherEditInv, CopyOpensInv, CopyWritesInv, ApplyStopsInv DEF ApplyStep
<1>4. CASE RecordBegin
  BY <1>4, RecordBeginInv
<1>5. ASSUME NEW e \in todo, RecordEdit(e) PROVE PatcherInv'
  BY <1>5, RecordEditInv
<1>6. CASE RecordEnds
  BY <1>6, RecordEndsInv
<1>7. ASSUME Kill \/ KilledClearing \/ \E e \in todo : KilledWriting(e) PROVE PatcherInv'
  BY <1>7, KillInv, KilledClearingInv, KilledWritingInv
<1>8. CASE DevStep
  BY <1>8, DevEditInv, DevAddInv, DevRemoveInv, DevSkipInv, CheckoutInv, PullInv DEF DevStep
<1>9. CASE UNCHANGED patcherState
  <2>1. UNCHANGED <<files, text, skips, head, staged, edits, doing, todo, ver, open, result,
                    altered, settled, record>>
    BY <1>9 DEF patcherState, treeVars, jobVars, history
  <2> QED
    BY <2>1 DEF PatcherInv, StateOK, JobInv, Listing, NamesInv, RecordInv, ApplyInv, Fits, PassedOver, Matches, Pristine, InEffect
<1> QED
  BY <1>1, <1>2, <1>3, <1>4, <1>5, <1>6, <1>7, <1>8, <1>9 DEF PatcherNext

LEMMA EffectFromInv == PatcherInv => FinishedMeansInEffect
BY DEF PatcherInv, ApplyInv, FinishedMeansInEffect, Fits, PassedOver, Matches

\* A step while edits are applied takes nothing from a file that has a text.
LEMMA StepKeepsWork ==
  ASSUME PatcherInv, [PatcherNext]_patcherState, doing = "apply", NEW p \in files, text[p] # {}
  PROVE  p \in files' /\ text[p] \subseteq text'[p]
<1> USE DEF PatcherInv
<1>1. text \in [Path -> SUBSET Hunk] /\ p \in Path
  BY DEF StateOK
<1>2. ASSUME NEW e \in todo, check_patch(e) PROVE p \in files' /\ text[p] \subseteq text'[p]
  <2>1. CASE UNCHANGED <<files, text>>
    BY <2>1
  <2>2. CASE text' = [text EXCEPT ![e.path] = @ \cup e.text] /\ UNCHANGED files
    BY <2>2, <1>1
  <2>3. CASE Applies(e) /\ e.kind = "deletion" /\ files' = files \ {e.path} /\ UNCHANGED text
    BY <2>3 DEF Applies
  <2> QED
    BY <1>2, <2>1, <2>2, <2>3 DEF check_patch
<1>3. ASSUME NEW e \in todo, CopyOpens(e) PROVE p \in files' /\ text[p] \subseteq text'[p]
  BY <1>1, <1>3 DEF CopyOpens
<1>4. ASSUME NEW e \in todo, CopyWrites(e) PROVE p \in files' /\ text[p] \subseteq text'[p]
  <2>1. e.path # p
    BY <1>4 DEF CopyWrites, JobInv, Listing
  <2> QED
    BY <2>1, <1>1, <1>4 DEF CopyWrites
<1>5. ASSUME NEW e \in todo, ApplyRemoval(e) \/ LeaveCopy(e) \/ CopySkip(e) \/ ApplyStops(e)
      PROVE  p \in files' /\ text[p] \subseteq text'[p]
  BY <1>5 DEF ApplyRemoval, LeaveCopy, CopySkip, ApplyStops, treeVars
<1>6. CASE ApplyEnds \/ Kill \/ UNCHANGED patcherState
  BY <1>6 DEF ApplyEnds, Kill, Killed, patcherState, treeVars
<1>7. /\ ~ApplyBegin /\ ~RecordBegin /\ ~RecordEnds /\ ~DevStep /\ ~KilledClearing
      /\ ~\E e \in todo : RecordEdit(e) \/ KilledWriting(e)
  BY DEF ApplyBegin, RecordBegin, RecordEnds, RecordEdit, KilledClearing, KilledWriting, DevStep, DevEdit, DevAdd, DevRemove,
         DevSkip, Pull, Checkout, Develop
<1> QED
  BY <1>2, <1>3, <1>4, <1>5, <1>6, <1>7 DEF PatcherNext, ApplyStep
----------------------------------------------------------------------------
(* A recording comes back *)

\* Where there is no file there is no text.
TreeInv == \A p \in Path \ files : text[p] = {}

\* While the tree is recorded nothing is forgotten and nothing comes to it.
WhileRecording == doing = "record" => edits[Tag] \cup todo = Records /\ ~record.whole

RecordedPristine(p) == record.text[p] = {} /\ (p \in record.files <=> p \in Tracked)

\* What an edit is to the tree that was recorded.
OfRecord(e) ==
  \/ e.kind \in {"rm", "skip"} /\ e.path \in record.lost
  \/ e.kind \in {"patch", "copy"} /\ e.path \in record.files /\ e.text = record.text[e.path]
  \/ e.kind = "deletion" /\ e.path \notin record.files

\* The edits of the tag are those of the tree that was recorded.
EditsOfRecord ==
  /\ \A p \in Path \ record.files : record.text[p] = {}
  /\ record.whole =>
       /\ \A e \in edits[Tag] : OfRecord(e)
       /\ \A p \in Path \ record.lost :
            \/ RecordedPristine(p)
            \/ p \notin Hidden /\ \E e \in edits[Tag] : e.kind \in Content /\ e.path = p

Same(p) == text[p] = record.text[p] /\ (p \in files <=> p \in record.files)

\* A tree that only these edits have changed is on its way from the tag to what was recorded.
OnTheWay ==
  record.whole /\ ver = Tag /\ altered = {} =>
    /\ skips \subseteq record.lost
    /\ \A p \in Path \ record.lost : Pristine(p) \/ Same(p) \/ \E e \in open : e.path = p

BackInv == TreeInv /\ WhileRecording /\ EditsOfRecord /\ OnTheWay

LEMMA RecordsOfTree ==
  ASSUME UNCHANGED treeVars
  PROVE  Records' = Records
BY DEF Records, Recorded, Recordable, Unversioned, treeVars

\* What Records has, and has not, of the tree.
LEMMA RecordsComplete ==
  ASSUME StateOK, TreeInv
  PROVE  /\ \A e \in Records :
              \/ e.kind \in {"rm", "skip"} /\ e.path \in Unrecorded
              \/ e.kind \in {"patch", "copy"} /\ e.path \in files /\ e.text = text[e.path]
              \/ e.kind = "deletion" /\ e.path \notin files
         /\ \A p \in Path \ Unrecorded :
              \/ Pristine(p)
              \/ p \notin Hidden /\ \E e \in Records : e.kind \in Content /\ e.path = p
<1> USE DEF StateOK
<1>1. \A e \in Records :
        \/ e.kind \in {"rm", "skip"} /\ e.path \in Unrecorded
        \/ e.kind \in {"patch", "copy"} /\ e.path \in files /\ e.text = text[e.path]
        \/ e.kind = "deletion" /\ e.path \notin files
  BY DEF Records, Recorded, Recordable, Unversioned, Unrecorded
<1>2. ASSUME NEW p \in Path \ Unrecorded, ~Pristine(p)
      PROVE  p \notin Hidden /\ \E e \in Records : e.kind \in Content /\ e.path = p
  <2> DEFINE edit(k) == [kind |-> k, path |-> p, text |-> text[p]]
  <2>3. p \in Differs
    BY <1>2, PatcherAssumption DEF Differs, Pristine, Path, PatcherAssumption
  <2>4. p \notin Hidden /\ p \in Recordable
    BY <1>2, <2>3 DEF Unrecorded, Recordable
  <2>1. CASE p \in Added
    <3>1. p \notin Tracked
      BY <2>1, PatcherAssumption DEF PatcherAssumption
    <3>2. p \in files
      BY <1>2, <3>1 DEF TreeInv, Pristine
    <3>3. p \in Unversioned
      BY <1>2, <2>1, <3>2 DEF Unversioned, Unrecorded
    <3>4. edit("copy") \in Records
      BY <2>4, <3>3 DEF Records, Recorded
    <3> QED
      BY <2>4, <3>4 DEF Content
  <2>2. CASE p \notin Added
    <3>1. p \in Tracked /\ p \in head
      BY <1>2, <2>2 DEF Unrecorded, Path
    <3>2. CASE p \notin files
      <4>1. edit("deletion") \in Records
        BY <2>4, <3>1, <3>2 DEF Records, Recorded
      <4> QED
        BY <2>4, <4>1 DEF Content
    <3>3. CASE p \in files
      <4>1. text[p] # {}
        BY <1>2, <3>1, <3>3 DEF Pristine
      <4>2. edit("patch") \in Records
        BY <2>4, <3>1, <3>3, <4>1 DEF Records, Recorded
      <4> QED
        BY <2>4, <4>2 DEF Content
    <3> QED
      BY <3>2, <3>3
  <2> QED
    BY <2>1, <2>2
<1> QED
  BY <1>1, <1>2

LEMMA BackInit == PatcherInit => BackInv
BY DEF PatcherInit, NoRecord, BackInv, TreeInv, WhileRecording, EditsOfRecord, OnTheWay

\* Nothing but the job has changed.
LEMMA BackUnchanged ==
  ASSUME BackInv, UNCHANGED <<treeVars, edits, ver, record>>,
         doing' # "record" \/ (doing = "record" /\ todo' = todo),
         altered \subseteq altered',
         altered' # {} \/ open \subseteq open'
  PROVE  BackInv'
<1> USE DEF BackInv, treeVars
<1>1. TreeInv' /\ EditsOfRecord'
  BY DEF TreeInv, EditsOfRecord, OfRecord, RecordedPristine
<1>2. WhileRecording'
  BY RecordsOfTree DEF WhileRecording
<1>3. OnTheWay'
  BY DEF OnTheWay, Pristine, Same
<1> QED
  BY <1>1, <1>2, <1>3

LEMMA BackApplyBegin == ASSUME PatcherInv, BackInv, ApplyBegin PROVE BackInv'
<1> USE DEF PatcherInv, BackInv
<1>1. PICK v \in Chosen :
        ver' = v /\ altered' = IF v = ver THEN altered ELSE altered \cup Changed
  BY DEF ApplyBegin
<1>2. doing' = "apply" /\ UNCHANGED <<treeVars, edits, open, record>>
  BY DEF ApplyBegin
<1>3. CASE v = ver
  BY <1>1, <1>2, <1>3, BackUnchanged
<1>4. CASE v # ver
  <2>1. TreeInv' /\ WhileRecording' /\ EditsOfRecord'
    BY <1>2 DEF TreeInv, EditsOfRecord, OfRecord, RecordedPristine, WhileRecording, treeVars
  <2>2. ASSUME altered' = {} PROVE skips' = {} /\ \A p \in Path : Pristine(p)'
    <3>1. Changed = {}
      BY <1>1, <1>4, <2>2
    <3>2. skips = {} /\ \A p \in Path : text[p] = {} /\ ~(p \in files <=> p \in Added)
      BY <3>1 DEF Changed, Differs
    <3> QED
      BY <1>2, <3>2, PatcherAssumption DEF PatcherAssumption, Pristine, Path, treeVars
  <2>3. OnTheWay'
    BY <1>2, <2>2 DEF OnTheWay
  <2> QED
    BY <2>1, <2>3
<1> QED
  BY <1>3, <1>4

\* A step of apply that is about the file of e.
LEMMA BackTaken ==
  ASSUME PatcherInv, BackInv, NEW e \in edits[ver], e.path \in Path, doing' = "apply",
         UNCHANGED <<edits, ver, altered, record>>, TreeInv',
         \A p \in Path : p # e.path => (p \in files' <=> p \in files) /\ text'[p] = text[p],
         skips' \subseteq skips \cup (IF e.kind = "skip" THEN {e.path} ELSE {}),
         open \subseteq {e}, open' \subseteq {e},
         OfRecord(e) /\ (Pristine(e.path) \/ Same(e.path) \/ e \in open) =>
            Pristine(e.path)' \/ Same(e.path)' \/ e \in open' \/ e.kind \in {"rm", "skip"}
  PROVE  BackInv'
<1> USE DEF BackInv
<1>1. EditsOfRecord' /\ WhileRecording'
  BY DEF EditsOfRecord, OfRecord, RecordedPristine, WhileRecording
<1>2. OnTheWay'
  <2> SUFFICES ASSUME record.whole, ver = Tag, altered = {}
               PROVE  /\ skips' \subseteq record.lost
                      /\ \A p \in Path \ record.lost :
                           Pristine(p)' \/ Same(p)' \/ \E d \in open' : d.path = p
    BY DEF OnTheWay
  <2>1. OfRecord(e)
    BY DEF EditsOfRecord
  <2>2. skips' \subseteq record.lost
    BY <2>1 DEF OnTheWay, OfRecord
  <2>3. ASSUME NEW p \in Path \ record.lost
        PROVE  Pristine(p)' \/ Same(p)' \/ \E d \in open' : d.path = p
    <3>1. Pristine(p) \/ Same(p) \/ \E d \in open : d.path = p
      BY DEF OnTheWay
    <3>2. CASE p = e.path
      <4>1. e.kind \notin {"rm", "skip"}
        BY <2>1, <2>3, <3>2 DEF OfRecord
      <4> QED
        BY <2>1, <3>1, <3>2, <4>1
    <3>3. CASE p # e.path
      BY <3>1, <3>3 DEF Pristine, Same
    <3> QED
      BY <3>2, <3>3
  <2> QED
    BY <2>2, <2>3
<1> QED
  BY <1>1, <1>2

LEMMA BackCheckPatch == ASSUME PatcherInv, BackInv, NEW e \in todo, check_patch(e) PROVE BackInv'
<1>1. /\ doing = "apply" /\ doing' = "apply" /\ open = {} /\ open' = {}
      /\ UNCHANGED <<skips, head, staged, edits, ver, altered, record>>
  BY DEF check_patch, Take, Taken, history
<1>2. e \in edits[ver] /\ e.path \in Path /\ e.text \in SUBSET Hunk
  BY <1>1, EditType DEF PatcherInv, JobInv, Listing, StateOK
<1>3. text \in [Path -> SUBSET Hunk] /\ TreeInv /\ e.kind \in {"patch", "deletion", "torn"}
  BY DEF PatcherInv, StateOK, BackInv, check_patch, IsPatch
<1>4. CASE UNCHANGED <<files, text>>
  BY <1>1, <1>4, BackUnchanged DEF treeVars
<1>5. CASE /\ Applies(e) /\ e.kind = "patch"
           /\ text' = [text EXCEPT ![e.path] = @ \cup e.text] /\ UNCHANGED files
  <2>1. /\ text'[e.path] = text[e.path] \cup e.text /\ e.path \in files /\ e.path \in files'
        /\ \A p \in Path : p # e.path => text'[p] = text[p]
    BY <1>2, <1>3, <1>5 DEF Applies
  <2>2. TreeInv'
    BY <1>3, <1>5, <2>1 DEF TreeInv
  <2>3. OfRecord(e) /\ (Pristine(e.path) \/ Same(e.path)) => Same(e.path)'
    BY <1>1, <1>5, <2>1 DEF OfRecord, Pristine, Same
  <2> QED
    BY <1>1, <1>2, <1>5, <2>1, <2>2, <2>3, BackTaken
<1>6. CASE Applies(e) /\ e.kind = "deletion" /\ files' = files \ {e.path} /\ UNCHANGED text
  <2>1. text[e.path] = {} /\ e.path \notin files'
    BY <1>6 DEF Applies
  <2>2. TreeInv'
    BY <1>3, <1>6, <2>1 DEF TreeInv
  <2>3. OfRecord(e) => Same(e.path)'
    BY <1>1, <1>2, <1>6, <2>1 DEF OfRecord, Same, BackInv, EditsOfRecord
  <2> QED
    BY <1>1, <1>2, <1>6, <2>2, <2>3, BackTaken
<1> QED
  BY <1>4, <1>5, <1>6 DEF check_patch

LEMMA BackOtherEdit ==
  ASSUME PatcherInv, BackInv, NEW e \in todo, ApplyRemoval(e) \/ LeaveCopy(e) \/ CopySkip(e)
  PROVE  BackInv'
<1>1. /\ doing = "apply" /\ doing' = "apply" /\ open = {} /\ open' = {}
      /\ UNCHANGED <<files, text, head, staged, edits, ver, altered, record>>
      /\ skips' \subseteq skips \cup (IF e.kind = "skip" THEN {e.path} ELSE {})
  BY DEF ApplyRemoval, LeaveCopy, CopySkip, Take, Taken, history
<1>2. e \in edits[ver] /\ e.path \in Path
  BY <1>1, EditType DEF PatcherInv, JobInv, Listing, StateOK
<1>3. TreeInv'
  BY <1>1 DEF BackInv, TreeInv
<1>4. /\ Pristine(e.path) => Pristine(e.path)'
      /\ Same(e.path) => Same(e.path)'
  BY <1>1 DEF Pristine, Same
<1> QED
  BY <1>1, <1>2, <1>3, <1>4, BackTaken

LEMMA BackCopy ==
  ASSUME PatcherInv, BackInv, NEW e \in todo, CopyOpens(e) \/ CopyWrites(e)
  PROVE  BackInv'
<1>1. CASE CopyOpens(e)
  <2>1. /\ doing = "apply" /\ doing' = "apply" /\ open = {} /\ open' = {e}
        /\ files' = files \cup {e.path} /\ text' = [text EXCEPT ![e.path] = {}]
        /\ UNCHANGED <<skips, edits, ver, altered, record>>
    BY <1>1 DEF CopyOpens, Take, history
  <2>2. e \in edits[ver] /\ e.path \in Path
    BY <2>1, EditType DEF PatcherInv, JobInv, Listing, StateOK
  <2>3. text'[e.path] = {} /\ \A p \in Path : p # e.path => text'[p] = text[p]
    BY <2>1, <2>2 DEF PatcherInv, StateOK
  <2>4. TreeInv'
    BY <2>1, <2>3 DEF BackInv, TreeInv
  <2> QED
    BY <2>1, <2>2, <2>3, <2>4, BackTaken
<1>2. CASE CopyWrites(e)
  <2>1. /\ e \in open /\ open' = {} /\ text' = [text EXCEPT ![e.path] = e.text]
        /\ UNCHANGED <<files, skips, edits, doing, ver, altered, record>>
    BY <1>2 DEF CopyWrites, history
  <2>2. doing = "apply" /\ open = {e} /\ e.kind = "copy" /\ e.path \in files
    BY <2>1 DEF PatcherInv, JobInv, Listing
  <2>3. e \in edits[ver] /\ e.path \in Path
    BY <2>2, EditType DEF PatcherInv, JobInv, Listing, StateOK
  <2>4. text'[e.path] = e.text /\ \A p \in Path : p # e.path => text'[p] = text[p]
    BY <2>1, <2>3 DEF PatcherInv, StateOK
  <2>5. TreeInv'
    BY <2>1, <2>2, <2>4 DEF BackInv, TreeInv
  <2>6. OfRecord(e) => Same(e.path)'
    BY <2>1, <2>2, <2>4 DEF OfRecord, Same
  <2> QED
    BY <2>1, <2>2, <2>3, <2>4, <2>5, <2>6, BackTaken
<1> QED
  BY <1>1, <1>2

LEMMA BackJobEnds ==
  ASSUME PatcherInv, BackInv, (\E e : ApplyStops(e)) \/ ApplyEnds \/ Kill PROVE BackInv'
<1>1. UNCHANGED <<treeVars, edits, ver, record>> /\ doing' = "none"
  BY DEF ApplyStops, ApplyEnds, Kill, Killed, history
<1>2. altered \subseteq altered' /\ (altered' # {} \/ open \subseteq open')
  BY DEF ApplyStops, ApplyEnds, Kill, history
<1> QED
  BY <1>1, <1>2, BackUnchanged

\* A recording that is cut short is none.
LEMMA BackKilledRecording ==
  ASSUME PatcherInv, BackInv, KilledClearing \/ \E e \in todo : KilledWriting(e) PROVE BackInv'
<1>1. UNCHANGED treeVars /\ doing' = "none"
  BY DEF KilledClearing, KilledWriting, Killed
<1>2. ~record'.whole
  BY DEF KilledClearing, KilledWriting, NoRecord, BackInv, WhileRecording
<1>3. \A p \in Path \ record'.files : record'.text[p] = {}
  BY DEF KilledClearing, KilledWriting, NoRecord, BackInv, EditsOfRecord
<1> QED
  BY <1>1, <1>2, <1>3 DEF BackInv, TreeInv, treeVars, WhileRecording, EditsOfRecord, OnTheWay

LEMMA BackRecording ==
  ASSUME PatcherInv, BackInv, RecordBegin \/ RecordEnds \/ \E e \in todo : RecordEdit(e)
  PROVE  BackInv'
<1> USE DEF BackInv
<1>1. Tag \in Version /\ edits \in [Version -> SUBSET Edit] /\ StateOK
  BY PatcherAssumption DEF PatcherAssumption, PatcherInv, StateOK
<1>2. UNCHANGED treeVars /\ TreeInv'
  BY DEF RecordBegin, RecordEnds, RecordEdit, treeVars, TreeInv
<1>3. Records' = Records
  BY <1>2, RecordsOfTree
<1>4. CASE RecordBegin
  <2>1. edits'[Tag] = {} /\ todo' = Records /\ record' = NoRecord
    BY <1>1, <1>4 DEF RecordBegin, ClearRecords
  <2> QED
    BY <1>2, <1>3, <2>1 DEF NoRecord, WhileRecording, EditsOfRecord, OnTheWay
<1>5. ASSUME NEW e \in todo, RecordEdit(e) PROVE BackInv'
  <2>1. /\ doing = "record" /\ edits'[Tag] = edits[Tag] \cup {e} /\ todo' = todo \ {e}
        /\ UNCHANGED record
    BY <1>1, <1>5 DEF RecordEdit, history
  <2>2. edits'[Tag] \cup todo' = edits[Tag] \cup todo
    BY <2>1
  <2> QED
    BY <1>2, <1>3, <2>1, <2>2 DEF WhileRecording, EditsOfRecord, OnTheWay
<1>6. CASE RecordEnds
  <2>1. /\ doing' = "none" /\ edits' = edits /\ edits[Tag] = Records
        /\ record' = [whole |-> TRUE, files |-> files, text |-> text, lost |-> Unrecorded]
    BY <1>6 DEF RecordEnds, WhileRecording
  <2>2. /\ record'.files = files' /\ record'.text = text' /\ record'.lost = Unrecorded
        /\ skips' \subseteq record'.lost
    BY <1>2, <2>1 DEF treeVars, Unrecorded
  <2>3. WhileRecording' /\ OnTheWay'
    BY <2>1, <2>2 DEF WhileRecording, OnTheWay, Same
  <2>4. EditsOfRecord'
    <3>1. /\ record'.files = files /\ record'.text = text /\ record'.lost = Unrecorded
          /\ edits'[Tag] = Records
      BY <2>1
    <3>2. ASSUME NEW e \in Records PROVE OfRecord(e)'
      <4>1. \/ e.kind \in {"rm", "skip"} /\ e.path \in Unrecorded
            \/ e.kind \in {"patch", "copy"} /\ e.path \in files /\ e.text = text[e.path]
            \/ e.kind = "deletion" /\ e.path \notin files
        BY <1>1, RecordsComplete
      <4> QED
        BY <3>1, <4>1 DEF OfRecord
    <3>3. ASSUME NEW p \in Path \ Unrecorded
          PROVE  \/ RecordedPristine(p)'
                 \/ p \notin Hidden /\ \E e \in Records : e.kind \in Content /\ e.path = p
      <4>1. \/ Pristine(p)
            \/ p \notin Hidden /\ \E e \in Records : e.kind \in Content /\ e.path = p
        BY <1>1, RecordsComplete
      <4> QED
        BY <3>1, <4>1 DEF RecordedPristine, Pristine
    <3>4. \A p \in Path \ record'.files : record'.text[p] = {}
      BY <3>1 DEF TreeInv
    <3> QED
      BY <3>1, <3>2, <3>3, <3>4 DEF EditsOfRecord
  <2> QED
    BY <1>2, <2>3, <2>4
<1> QED
  BY <1>4, <1>5, <1>6

LEMMA BackDevStep == ASSUME PatcherInv, BackInv, DevStep PROVE BackInv'
<1> USE DEF PatcherInv, StateOK, BackInv
<1>1. doing' = "none"
  BY DEF DevStep, DevEdit, DevAdd, DevRemove, DevSkip, Checkout, Pull, Develop
<1>2. WhileRecording'
  BY <1>1 DEF WhileRecording
<1>3. ASSUME NEW p \in Path, NEW h \in Hunk, DevEdit(p, h) \/ DevAdd(p, h) PROVE BackInv'
  <2>1. altered' # {} /\ UNCHANGED <<edits, record>>
    BY <1>3 DEF DevEdit, DevAdd, Develop
  <2>2. TreeInv'
    BY <1>3 DEF DevEdit, DevAdd, TreeInv
  <2> QED
    BY <1>2, <2>1, <2>2 DEF OnTheWay, EditsOfRecord, OfRecord, RecordedPristine
<1>4. ASSUME NEW p \in Path, DevRemove(p) \/ DevSkip(p) PROVE BackInv'
  <2>1. altered' # {} /\ UNCHANGED <<edits, record>>
    BY <1>4 DEF DevRemove, DevSkip, Develop
  <2>2. TreeInv'
    BY <1>4 DEF DevRemove, DevSkip, TreeInv
  <2> QED
    BY <1>2, <2>1, <2>2 DEF OnTheWay, EditsOfRecord, OfRecord, RecordedPristine
<1>5. CASE Checkout
  <2>1. /\ files' = Tracked /\ text' = [p \in Path |-> {}] /\ skips' = {}
        /\ UNCHANGED <<edits, record>>
    BY <1>5 DEF Checkout, PristineTree
  <2>2. TreeInv' /\ \A p \in Path : Pristine(p)'
    BY <2>1 DEF TreeInv, Pristine
  <2> QED
    BY <1>2, <2>1, <2>2 DEF OnTheWay, EditsOfRecord, OfRecord, RecordedPristine
<1>6. CASE Pull
  BY <1>2, <1>6 DEF Pull, NoRecord, treeVars, TreeInv, OnTheWay, EditsOfRecord
<1> QED
  BY <1>3, <1>4, <1>5, <1>6 DEF DevStep

LEMMA BackInductive == PatcherInv /\ BackInv /\ [PatcherNext]_patcherState => BackInv'
<1> SUFFICES ASSUME PatcherInv, BackInv, [PatcherNext]_patcherState PROVE BackInv'
  OBVIOUS
<1>1. CASE UNCHANGED patcherState
  BY <1>1, BackUnchanged DEF patcherState, treeVars, jobVars, history
<1> QED
  BY <1>1, BackApplyBegin, BackCheckPatch, BackOtherEdit, BackCopy, BackJobEnds,
     BackKilledRecording, BackRecording, BackDevStep DEF PatcherNext, ApplyStep

LEMMA BackFromInv == PatcherInv /\ BackInv => RecordingComesBack
<1> SUFFICES ASSUME PatcherInv, BackInv, result = "done", ver = Tag, record.whole, altered = {},
                    NEW p \in Path \ record.lost
             PROVE  Same(p)
  BY DEF RecordingComesBack, Same
<1>1. open = {} /\ \A e \in edits[Tag] : Fits(e)
  BY DEF PatcherInv, JobInv, Listing, ApplyInv
<1>2. p \notin skips /\ (Pristine(p) \/ Same(p))
  BY <1>1 DEF BackInv, OnTheWay
<1>3. CASE Pristine(p) /\ RecordedPristine(p)
  BY <1>3 DEF Pristine, RecordedPristine, Same
<1>4. CASE Pristine(p) /\ ~RecordedPristine(p)
  <2>1. PICK e \in edits[Tag] : e.kind \in Content /\ e.path = p /\ OfRecord(e)
    BY <1>4 DEF BackInv, EditsOfRecord
  <2>4. p \notin Hidden /\ e.kind \notin {"rm", "torn", "dir"}
    BY <1>4, <2>1 DEF BackInv, EditsOfRecord, OfRecord, Content
  <2>2. InEffect(e)
    BY <1>1, <1>2, <2>1, <2>4 DEF Fits, PassedOver, Matches
  <2>3. p \notin record.files => record.text[p] = {}
    BY DEF BackInv, EditsOfRecord
  <2> QED
    BY <1>4, <2>1, <2>2, <2>3 DEF InEffect, Pristine, OfRecord, Same, Content
<1> QED
  BY <1>2, <1>3, <1>4
----------------------------------------------------------------------------
(* Running it again changes nothing *)

\* An apply that comes to e does nothing.
Leaves(e) ==
  /\ IsPatch(e) => LeavesPatch(e)
  /\ e.kind = "copy" => e.path \in files
  /\ e.kind = "skip" => e.path \in skips

RerunInv ==
  /\ settled \/ doing = "apply" => ver \in Chosen
  /\ doing = "apply" => \A e \in Listing(ver) \ todo : Leaves(e)
  /\ settled => doing # "record" /\ open = {} /\ \A e \in Listing(ver) : Leaves(e)

\* No two versions are as close as each other.
LEMMA ClosestIsOne == ASSUME NEW v \in Closest, NEW w \in Closest PROVE v = w
<1>1. v \in Version /\ w \in Version /\ Closer(v, w) /\ Closer(w, v)
  BY DEF Closest, Available
<1>2. /\ Distance[v] \in Nat /\ Distance[w] \in Nat
      /\ NameLength[v] \in Nat /\ NameLength[w] \in Nat
      /\ Listed[v] \in Nat /\ Listed[w] \in Nat
  BY <1>1, PatcherAssumption DEF PatcherAssumption
<1>3. Listed[v] = Listed[w]
  BY <1>1, <1>2 DEF Closer
<1> QED
  BY <1>1, <1>3, PatcherAssumption DEF PatcherAssumption

(* While chromium_edits has a version, apply finds one that is the closest *)
(* and no other is: the loop's choice does not depend on more than commits,*)
(* names and the listing (Patcher.__closest_by_git).                       *)
THEOREM OneIsClosest == Available # {} => \E v \in Available : Closest = {v}
<1> SUFFICES ASSUME Available # {} PROVE \E v \in Available : Closest = {v}
  OBVIOUS
<1> DEFINE Less == OpToRel(<, Nat)
           Names == LexPairOrdering(Less, Less, Nat, Nat)
           Order == LexPairOrdering(Less, Names, Nat, Nat \X Nat)
           Rank(v) == <<Distance[v], <<NameLength[v], Listed[v]>>>>
           Ranks == {Rank(v) : v \in Available}
<1>1. \A m, n \in Nat : m < n => <<m, n>> \in Less
  BY DEF OpToRel
<1>2. IsWellFoundedOn(Less, Nat)
  BY NatLessThanWellFounded
<1> HIDE DEF Less
<1>3. IsWellFoundedOn(Names, Nat \X Nat)
  BY <1>2, WFLexPairOrdering
<1>4. \A m, n \in Nat \X Nat :
        m[1] < n[1] \/ (m[1] = n[1] /\ m[2] < n[2]) => <<m, n>> \in Names
  BY <1>1 DEF LexPairOrdering
<1> HIDE DEF Names
<1>5. IsWellFoundedOn(Order, Nat \X (Nat \X Nat))
  BY <1>2, <1>3, WFLexPairOrdering
<1>6. \A m, n \in Nat \X (Nat \X Nat) :
        m[1] < n[1] \/ (m[1] = n[1] /\ <<m[2], n[2]>> \in Names) => <<m, n>> \in Order
  BY <1>1 DEF LexPairOrdering
<1> HIDE DEF Order
<1>7. \A v \in Available : Distance[v] \in Nat /\ NameLength[v] \in Nat /\ Listed[v] \in Nat
  BY PatcherAssumption DEF PatcherAssumption, Available
<1>8. Ranks \subseteq Nat \X (Nat \X Nat) /\ Ranks # {}
  <2>1. \A v \in Available : Rank(v) \in Nat \X (Nat \X Nat)
    BY <1>7
  <2> HIDE DEF Rank
  <2> QED
    BY <2>1
<1>9. \E x \in Ranks : \A y \in Ranks : ~(<<y, x>> \in Order)
  BY <1>5, <1>8, WFMin
<1>10. PICK v \in Available : \A w \in Available : ~(<<Rank(w), Rank(v)>> \in Order)
  BY <1>9
<1>11. ASSUME NEW w \in Available PROVE Closer(v, w)
  <2>1. /\ Distance[v] \in Nat /\ NameLength[v] \in Nat /\ Listed[v] \in Nat
        /\ Distance[w] \in Nat /\ NameLength[w] \in Nat /\ Listed[w] \in Nat
    BY <1>7
  <2>2. ~(Distance[w] < Distance[v])
    BY <1>6, <1>10, <2>1
  <2>3. Distance[w] = Distance[v] =>
          ~(<<<<NameLength[w], Listed[w]>>, <<NameLength[v], Listed[v]>>>> \in Names)
    BY <1>6, <1>10, <2>1
  <2>4. Distance[w] = Distance[v] =>
          ~(NameLength[w] < NameLength[v] \/ (NameLength[w] = NameLength[v] /\ Listed[w] < Listed[v]))
    BY <1>4, <2>1, <2>3
  <2> QED
    BY <2>1, <2>2, <2>4 DEF Closer
<1>12. v \in Closest
  BY <1>11 DEF Closest
<1> QED
  BY <1>12, ClosestIsOne

LEMMA RerunInit == PatcherInit => RerunInv
BY DEF PatcherInit, RerunInv

\* Nothing but the job has changed, and no record is made.
LEMMA RerunUnchanged ==
  ASSUME RerunInv, UNCHANGED <<files, text, skips, edits, ver, settled>>,
         doing' \in {"none", doing}, todo' = todo \/ doing' = "none", open' \subseteq open
  PROVE  RerunInv'
BY DEF RerunInv, Leaves, IsPatch, LeavesPatch, Reverses, Applies, Matches, edit_evidence, Chosen, Closest, Available, Listing

\* A step of apply that has changed the file of e at most, and leaves it if it is done with e.
LEMMA RerunTaken ==
  ASSUME PatcherInv, RerunInv, NEW e \in todo, doing = "apply", doing' = "apply",
         UNCHANGED <<edits, ver, settled>>, skips \subseteq skips',
         \A p \in Path : p # e.path => (p \in files' <=> p \in files) /\ text'[p] = text[p],
         e.kind \notin Content => files' = files /\ text' = text,
         todo \ {e} \subseteq todo', e \in todo' \/ Leaves(e)',
         settled => UNCHANGED <<files, text, skips>> /\ open' = {}
  PROVE  RerunInv'
<1> USE DEF PatcherInv
<1>1. ver \in Chosen /\ ver \in Chosen' /\ Listing(ver)' = Listing(ver)
  BY DEF RerunInv, Chosen, Closest, Available, Listing
<1>2. /\ e \in Edit /\ e \in Listing(ver) /\ Listing(ver) \subseteq edits[ver]
      /\ edits[ver] \subseteq Edit
  BY DEF StateOK, JobInv, Listing
<1>3. ASSUME NEW d \in Listing(ver) \ todo PROVE Leaves(d)'
  <2>1. Leaves(d) /\ d # e /\ d.path \in Path
    BY <1>2, <1>3, EditType DEF RerunInv
  <2>2. CASE d.kind \in {"rm", "skip", "dir"}
    BY <2>1, <2>2 DEF Leaves, IsPatch
  <2>3. CASE d.kind \in Content
    <3>1. (d.path \in files' <=> d.path \in files) /\ text'[d.path] = text[d.path]
      <4>1. CASE e.kind \in Content
        <5>1. d.path # e.path
          BY <1>2, <2>1, <2>3, <4>1 DEF NamesInv, Regular, StateOK
        <5> QED
          BY <2>1, <5>1
      <4> QED
        BY <4>1
    <3>2. IsPatch(d) => LeavesPatch(d)'
      BY <2>1, <3>1 DEF Leaves, LeavesPatch, Reverses, Applies, Matches, edit_evidence, Listing
    <3> QED
      BY <2>1, <2>3, <3>1, <3>2 DEF Leaves, IsPatch, Content
  <2> QED
    BY <1>2, <1>3, <2>2, <2>3, EditType DEF Content
<1>4. ASSUME NEW d \in Listing(ver) \ todo' PROVE Leaves(d)'
  BY <1>3, <1>4
<1>5. ASSUME settled PROVE \A d \in Listing(ver) : Leaves(d)'
  BY <1>5 DEF RerunInv, Leaves, IsPatch, LeavesPatch, Reverses, Applies, Matches, edit_evidence, Listing
<1> QED
  BY <1>1, <1>4, <1>5 DEF RerunInv

\* Once an apply has finished, one that comes to an edit finds nothing to do.
LEMMA SettledTakes ==
  ASSUME PatcherInv, RerunInv, settled, NEW e \in todo, doing = "apply"
  PROVE  Leaves(e) /\ open = {}
BY DEF PatcherInv, JobInv, Listing, RerunInv

LEMMA RerunApplyBegin == ASSUME PatcherInv, RerunInv, ApplyBegin PROVE RerunInv'
<1>1. PICK v \in Chosen : ver' = v /\ todo' = Listing(v)
  BY DEF ApplyBegin
<1>2. doing' = "apply" /\ UNCHANGED <<files, text, skips, edits, open, settled>>
  BY DEF ApplyBegin, treeVars
<1>3. settled => v = ver
  BY <1>1, ClosestIsOne DEF RerunInv, Chosen
<1>4. v \in Chosen' /\ Listing(v)' = Listing(v)
  BY <1>1, <1>2 DEF Chosen, Closest, Available, Listing
<1>5. settled => \A e \in Listing(ver) : Leaves(e)'
  BY <1>1, <1>2, <1>3 DEF RerunInv, Leaves, IsPatch, LeavesPatch, Reverses, Applies, Matches, edit_evidence, Listing
<1> QED
  BY <1>1, <1>2, <1>3, <1>4, <1>5 DEF RerunInv

LEMMA RerunCheckPatch ==
  ASSUME PatcherInv, RerunInv, NEW e \in todo, check_patch(e)
  PROVE  RerunInv' /\ (settled => UNCHANGED <<files, text, skips>>)
<1>1. /\ doing = "apply" /\ doing' = "apply" /\ open' = {} /\ open = {} /\ todo' = todo \ {e}
      /\ IsPatch(e) /\ e.kind \in Content
      /\ UNCHANGED <<skips, edits, ver, settled>>
  BY DEF check_patch, Take, Taken, IsPatch, Content, history
<1>2. e.path \in Path /\ text \in [Path -> SUBSET Hunk]
  BY EditType DEF PatcherInv, StateOK
<1>3. CASE LeavesPatch(e) /\ UNCHANGED <<files, text>>
  <2>1. Leaves(e)'
    BY <1>1, <1>3 DEF Leaves, IsPatch, LeavesPatch, Reverses, Applies, Matches, edit_evidence, Listing
  <2> QED
    BY <1>1, <1>3, <2>1, RerunTaken
<1>4. CASE ~LeavesPatch(e)
  <2>1. ~settled
    BY <1>1, <1>4, SettledTakes DEF Leaves
  <2>2. CASE /\ Applies(e) /\ e.kind = "patch"
             /\ text' = [text EXCEPT ![e.path] = @ \cup e.text] /\ UNCHANGED files
    <3>1. /\ text'[e.path] = text[e.path] \cup e.text /\ e.path \in files' /\ Matches(e)
          /\ \A p \in Path : p # e.path => text'[p] = text[p]
      BY <1>2, <2>2 DEF Applies
    <3>2. Reverses(e)'
      BY <1>1, <2>2, <3>1 DEF Reverses, Matches
    <3>3. Leaves(e)'
      BY <2>2, <3>2 DEF Leaves, LeavesPatch
    <3> QED
      BY <1>1, <2>1, <2>2, <3>1, <3>3, RerunTaken
  <2>3. CASE /\ Applies(e) /\ e.kind = "deletion" /\ files' = files \ {e.path}
             /\ UNCHANGED text
    <3>1. Reverses(e)'
      BY <1>1, <2>3 DEF Reverses, Applies, Matches, edit_evidence, Listing
    <3>2. Leaves(e)'
      BY <2>3, <3>1 DEF Leaves, LeavesPatch
    <3> QED
      BY <1>1, <2>1, <2>3, <3>2, RerunTaken
  <2> QED
    BY <1>4, <2>1, <2>2, <2>3 DEF check_patch
<1> QED
  BY <1>1, <1>3, <1>4 DEF check_patch

LEMMA RerunOtherEdit ==
  ASSUME PatcherInv, RerunInv, NEW e \in todo, ApplyRemoval(e) \/ LeaveCopy(e) \/ CopySkip(e)
  PROVE  RerunInv' /\ (settled => UNCHANGED <<files, text, skips>>)
<1>1. /\ doing = "apply" /\ doing' = "apply" /\ open' = {} /\ todo' = todo \ {e}
      /\ UNCHANGED <<files, text, edits, ver, settled>> /\ skips \subseteq skips'
  BY DEF ApplyRemoval, LeaveCopy, CopySkip, Take, Taken, history
<1>2. Leaves(e)'
  BY <1>1 DEF ApplyRemoval, LeaveCopy, CopySkip, Leaves, IsPatch
<1>3. settled => UNCHANGED <<files, text, skips>>
  BY <1>1, SettledTakes DEF ApplyRemoval, LeaveCopy, CopySkip, Taken, Leaves
<1> QED
  BY <1>1, <1>2, <1>3, RerunTaken

LEMMA RerunCopy ==
  ASSUME PatcherInv, RerunInv, NEW e \in todo, CopyOpens(e) \/ CopyWrites(e)
  PROVE  RerunInv' /\ (settled => UNCHANGED <<files, text, skips>>)
<1>1. text \in [Path -> SUBSET Hunk] /\ e.path \in Path
  BY EditType DEF PatcherInv, StateOK
<1>2. CASE CopyOpens(e)
  <2>1. /\ doing = "apply" /\ doing' = "apply" /\ e.kind = "copy" /\ e.path \notin files
        /\ files' = files \cup {e.path} /\ text' = [text EXCEPT ![e.path] = {}]
        /\ UNCHANGED <<skips, edits, ver, settled, todo>>
    BY <1>2 DEF CopyOpens, Take, history
  <2>2. ~settled
    BY <2>1, SettledTakes DEF Leaves
  <2>3. \A p \in Path : p # e.path => text'[p] = text[p]
    BY <1>1, <2>1
  <2> QED
    BY <2>1, <2>2, <2>3, RerunTaken DEF Content
<1>3. CASE CopyWrites(e)
  <2>1. /\ e \in open /\ text' = [text EXCEPT ![e.path] = e.text] /\ todo' = todo \ {e}
        /\ UNCHANGED <<files, skips, edits, doing, ver, settled>>
    BY <1>3 DEF CopyWrites, history
  <2>2. doing = "apply" /\ e.kind = "copy" /\ e.path \in files
    BY <2>1 DEF PatcherInv, JobInv, Listing
  <2>3. ~settled
    BY <2>1, <2>2, SettledTakes
  <2>4. Leaves(e)'
    BY <2>1, <2>2 DEF Leaves, IsPatch
  <2>5. \A p \in Path : p # e.path => text'[p] = text[p]
    BY <1>1, <2>1
  <2> QED
    BY <2>1, <2>2, <2>3, <2>4, <2>5, RerunTaken DEF Content
<1> QED
  BY <1>2, <1>3

LEMMA RerunJobEnds ==
  ASSUME PatcherInv, RerunInv, (\E e : ApplyStops(e)) \/ ApplyEnds \/ Kill
  PROVE  RerunInv' /\ UNCHANGED <<files, text, skips>>
<1>1. UNCHANGED <<files, text, skips, edits, ver>> /\ doing' = "none"
  BY DEF ApplyStops, ApplyEnds, Kill, Killed, treeVars
<1>2. CASE ApplyEnds
  <2>1. doing = "apply" /\ todo = {} /\ open' = {}
    BY <1>2 DEF ApplyEnds, PatcherInv, StateOK
  <2> QED
    BY <1>1, <2>1 DEF RerunInv, Leaves, IsPatch, LeavesPatch, Reverses, Applies, Matches, edit_evidence,
                      Chosen, Closest, Available, Listing
<1>3. CASE Kill \/ \E e : ApplyStops(e)
  <2>1. UNCHANGED settled /\ open' \subseteq open
    BY <1>3 DEF Kill, Killed, ApplyStops, history
  <2> QED
    BY <1>1, <2>1, RerunUnchanged
<1> QED
  BY <1>2, <1>3

LEMMA RerunUnsettles ==
  ASSUME PatcherInv, RerunInv,
         \/ RecordBegin \/ RecordEnds \/ DevStep \/ KilledClearing
         \/ \E e \in todo : RecordEdit(e) \/ KilledWriting(e)
  PROVE  RerunInv' /\ ~settled'
<1>1. doing' # "apply"
  BY DEF RecordBegin, RecordEnds, RecordEdit, KilledClearing, KilledWriting, Killed, DevStep, DevEdit, DevAdd, DevRemove, DevSkip,
         Checkout, Pull, Develop
<1>2. ~settled'
  BY DEF RecordBegin, RecordEnds, RecordEdit, KilledClearing, KilledWriting, Killed, DevStep, DevEdit, DevAdd, DevRemove, DevSkip,
         Checkout, Pull, Develop, RerunInv, history
<1> QED
  BY <1>1, <1>2 DEF RerunInv

LEMMA RerunStep ==
  ASSUME PatcherInv, RerunInv, [PatcherNext]_patcherState
  PROVE  RerunInv' /\ (settled /\ settled' => UNCHANGED <<files, text, skips>>)
<1>1. CASE UNCHANGED patcherState
  BY <1>1, RerunUnchanged DEF patcherState, treeVars, jobVars, history
<1>2. CASE ApplyBegin
  BY <1>2, RerunApplyBegin DEF ApplyBegin, treeVars
<1> QED
  BY <1>1, <1>2, RerunCheckPatch, RerunOtherEdit, RerunCopy, RerunJobEnds, RerunUnsettles
     DEF PatcherNext, ApplyStep

\* The scripts keep to all of this.
LEMMA PatcherSound == Uncounted => [](PatcherInv /\ BackInv /\ RerunInv)
<1>1. PatcherInit => PatcherInv /\ BackInv /\ RerunInv
  BY PatcherInitInv, BackInit, RerunInit
<1>2. PatcherInv /\ BackInv /\ RerunInv /\ [PatcherNext]_patcherState
        => (PatcherInv /\ BackInv /\ RerunInv)'
  BY PatcherInductive, BackInductive, RerunStep
<1> QED
  BY <1>1, <1>2, PTL DEF Uncounted
=============================================================================
