--------------------------- MODULE IncLinkProofs ---------------------------
(***************************************************************************)
(* Proofs about IncLink, for any commands, headers, orders of inclusion    *)
(* and directories.                                                        *)
(***************************************************************************)
EXTENDS IncLink, WellFoundedInduction, TLAPS

LEMMA LeastOf == ASSUME NEW S \in SUBSET Nat, S # {} PROVE \E i \in S : \A j \in S : i <= j
<1> DEFINE R == OpToRel(<, Nat)
<1>1. IsWellFoundedOn(R, Nat)
  BY NatLessThanWellFounded
<1>2. \A i \in Nat, j \in Nat : j < i => <<j, i>> \in R
  BY DEF OpToRel
<1> HIDE DEF R
<1>3. PICK i \in S : \A j \in S : ~(<<j, i>> \in R)
  BY <1>1, WFMin
<1>4. ASSUME NEW j \in S PROVE i <= j
  <2>1. i \in Nat /\ j \in Nat
    OBVIOUS
  <2>2. ~(j < i)
    BY <1>2, <1>3, <2>1
  <2> QED
    BY <2>1, <2>2
<1> QED
  BY <1>4

\* The header at which a command stops is not there.
LEMMA FirstMissingIsMissing ==
  ASSUME NEW c \in Commands
  PROVE  FirstMissing(c) = Nothing \/ (FirstMissing(c) \in Header /\ ~Exists(FirstMissing(c)))
<1>1. CASE Missing(c) = {}
  BY <1>1 DEF FirstMissing
<1>2. CASE Missing(c) # {}
  <2> DEFINE i == CHOOSE k \in Missing(c) : \A j \in Missing(c) : k <= j
  <2>1. Includes[c] \in Seq(Header)
    BY IncLinkAssumption DEF IncLinkAssumption
  <2>2. Missing(c) \in SUBSET Nat
    BY <2>1 DEF Missing
  <2>3. i \in Missing(c)
    BY <1>2, <2>2, LeastOf
  <2>4. FirstMissing(c) = Includes[c][i]
    BY <1>2 DEF FirstMissing
  <2> HIDE DEF i
  <2> QED
    BY <2>1, <2>3, <2>4 DEF Missing
<1> QED
  BY <1>1, <1>2

LEMMA SameMissing == ASSUME UNCHANGED link, NEW c PROVE FirstMissing(c)' = FirstMissing(c)
BY DEF FirstMissing, Missing, Exists
----------------------------------------------------------------------------
(* Types *)

LEMMA TypeInit == Init => TypeOK
<1> SUFFICES ASSUME Init PROVE TypeOK
  OBVIOUS
<1>1. report \in [Commands -> Header \cup {Nothing}]
  BY DEF Init
<1>2. link \in [Header -> {"none", "good", "dangling", "stub"}]
  BY DEF Init
<1>3. preempt \in BOOLEAN /\ stubbed \in BOOLEAN
  BY DEF Init
<1>4. /\ tree \subseteq Header /\ loud \subseteq Commands
      /\ commands \subseteq Commands /\ polled \subseteq commands /\ running \subseteq commands
  BY DEF Init
<1>5. link_count \in Nat /\ unfound_count \in Nat
  BY DEF Init
<1>6. absl \in {"none", "good", "dangling"} /\ phase \in {"start", "search", "again", "flesh", "done", "failed"} /\ dirs = Unmapped
  BY DEF Init
<1> QED
  BY <1>1, <1>2, <1>3, <1>4, <1>5, <1>6, Zenon DEF TypeOK

LEMMA TypeStep == ASSUME TypeOK, [Next]_vars PROVE TypeOK'
<1> USE DEF TypeOK
<1>1. ASSUME NEW c \in Commands, Evaluation(c) PROVE TypeOK'
  <2>1. CASE StubFails(c) \/ DiesOfMacro(c)
    BY <2>1 DEF StubFails, DiesOfMacro, Dies, scanVars, countVars
  <2>2. ASSUME Evaluates(c), Removed(c) \/ StartAgain(c)
        PROVE  /\ commands' \subseteq Commands /\ polled' \subseteq commands'
               /\ running' \subseteq commands'
               /\ report' \in [Commands -> Header \cup {Nothing}]
    BY <2>2 DEF Evaluates, Read, Removed, StartAgain
  <2>3. ASSUME Evaluates(c) PROVE UNCHANGED <<absl, loud, phase, preempt, dirs>>
    BY <2>3 DEF Evaluates
  <2>4. CASE NothingToLink(c) \/ LinkInTheWay(c) \/ Unfound(c)
    BY <2>2, <2>3, <2>4 DEF NothingToLink, LinkInTheWay, Unfound, Sought
  <2>5. CASE WritesStub(c)
    <3>1. link' \in [Header -> {"none", "good", "dangling", "stub"}] /\ stubbed' = TRUE
      BY <2>5 DEF WritesStub
    <3>2. unfound_count' \in Nat /\ UNCHANGED <<tree, link_count>>
      BY <2>5 DEF WritesStub
    <3> QED
      BY <2>2, <2>3, <2>5, <3>1, <3>2 DEF WritesStub
  <2>6. CASE WritesStubThrough(c)
    <3>1. report[c] \in Header
      BY <2>6, IncLinkAssumption DEF WritesStubThrough, IncLinkAssumption
    <3> QED
      BY <2>2, <2>3, <2>6, <3>1 DEF WritesStubThrough
  <2>7. CASE Links(c)
    BY <2>2, <2>3, <2>7 DEF Links, Sought, Linked
  <2> QED
    BY <1>1, <2>1, <2>4, <2>5, <2>6, <2>7 DEF Evaluation
<1>2. ASSUME NEW c \in Commands, StillRuns(c) PROVE TypeOK'
  BY <1>2 DEF StillRuns, countVars
<1>3. CASE Waits \/ MapDirs \/ ForgetDirs \/ \E d \in dirs : FindNoSibling(d)
  BY <1>3 DEF Waits, MapDirs, ForgetDirs, FindNoSibling, Pauses, countVars, LinkedDirs
<1>4. ASSUME NEW h \in Header, LinkSibling(h) PROVE TypeOK'
  BY <1>4 DEF LinkSibling, Pauses, Linked
<1>5. CASE Begins \/ SearchAgain
  <2>1. ASSUME NEW p \in {"search", "again"}, SearchBegins(p)
        PROVE  /\ phase' \in {"search", "again"} /\ commands' = Commands
               /\ polled' = {} /\ running' = Commands
               /\ report' \in [Commands -> Header \cup {Nothing}]
               /\ link_count' \in Nat /\ unfound_count' \in Nat
               /\ dirs' = Unmapped /\ stubbed' \in BOOLEAN
    BY <2>1 DEF SearchBegins
  <2>2. CASE Begins
    BY <2>1, <2>2 DEF Begins
  <2>3. CASE SearchAgain
    BY <2>1, <2>3 DEF SearchAgain
  <2> QED
    BY <1>5, <2>2, <2>3
<1>6. CASE \/ DiesOfAbsl \/ MainEnds \/ FleshOut \/ FleshOutEnds
           \/ \E h \in Header : FleshOutDies(h)
  BY <1>6 DEF DiesOfAbsl, MainEnds, FleshOut, FleshOutEnds, FleshOutDies, GoesOn, Dies, scanVars,
     countVars
<1>7. ASSUME NEW h \in Header, FleshOutLinks(h) PROVE TypeOK'
  BY <1>7 DEF FleshOutLinks, Linked, scanVars, countVars
<1>8. ASSUME NEW c \in Commands, ProcessEnds(c) PROVE TypeOK'
  BY <1>8, FirstMissingIsMissing DEF ProcessEnds, countVars
<1>9. CASE UNCHANGED vars
  BY <1>9 DEF vars, scanVars, countVars
<1> QED
  BY <1>1, <1>2, <1>3, <1>4, <1>5, <1>6, <1>7, <1>8, <1>9 DEF Next, Script

(* A process is reported to stop at a header or at none, and those that    *)
(* have not ended or were polled are of commands that are left             *)
(* (inc_link.py, search and Command.finished).                             *)
THEOREM TypeCorrect == Spec => []TypeOK
<1>1. TypeOK /\ [Next]_vars => TypeOK'
  BY TypeStep
<1> QED
  BY TypeInit, <1>1, PTL DEF Spec
----------------------------------------------------------------------------
(* Nothing is missed in silence *)

\* The search has nothing to show for itself, neither link nor trouble.
Quiet == Searching /\ link_count = 0 /\ unfound_count = 0 /\ ~stubbed /\ ~preempt

\* So no link has been made since it began, and what a process said still holds.
ReportsHold == Quiet => \A c \in commands \ running : report[c] = FirstMissing(c)

\* Without a link made, and but for SearchAgain, a quiet search was quiet before.
LEMMA QuietUnlinked ==
  ASSUME ReportsHold, NothingMissedSilently, Quiet' => Quiet, UNCHANGED link,
         commands' = commands,
         \A c \in commands \ running' :
            (c \notin running /\ report'[c] = report[c]) \/ report'[c] = FirstMissing(c)
  PROVE  ReportsHold' /\ NothingMissedSilently'
BY SameMissing DEF ReportsHold, NothingMissedSilently, Quiet

\* A command that is dropped may be.
LEMMA QuietRemoved ==
  ASSUME ReportsHold, NothingMissedSilently, Quiet' => Quiet, UNCHANGED link,
         NEW c \in commands \ running, Removed(c),
         \/ report[c] \in {Nothing} \cup OpenSsl
         \/ link[report[c]] = "dangling"
         \/ report[c] # FirstMissing(c)
  PROVE  ReportsHold' /\ NothingMissedSilently'
<1>1. commands' = commands \ {c} /\ UNCHANGED <<report, running>>
  BY DEF Removed
<1>2. ReportsHold'
  BY <1>1, SameMissing DEF ReportsHold
<1>3. ASSUME Quiet', NEW d \in Commands \ commands'
      PROVE  LET h == FirstMissing(d)
             IN  h = Nothing \/ h \in OpenSsl \/ link[h] = "dangling"
  <2>1. CASE d = c
    BY <1>3, <2>1 DEF ReportsHold
  <2>2. CASE d # c
    BY <1>1, <1>3, <2>2 DEF NothingMissedSilently, Quiet
  <2> QED
    BY <2>1, <2>2
<1>4. NothingMissedSilently'
  BY <1>3, SameMissing DEF NothingMissedSilently, Quiet
<1> QED
  BY <1>2, <1>4

LEMMA QuietStep ==
  ASSUME TypeOK, ReportsHold, NothingMissedSilently, [Next]_vars
  PROVE  ReportsHold' /\ NothingMissedSilently'
<1>1. ASSUME NEW c \in Commands, NothingToLink(c) \/ LinkInTheWay(c)
      PROVE  ReportsHold' /\ NothingMissedSilently'
  <2>1. /\ c \in commands \ running /\ Removed(c)
        /\ UNCHANGED <<link, phase, link_count, unfound_count, stubbed, preempt>>
    BY <1>1 DEF NothingToLink, LinkInTheWay, Sought, Evaluates, Read
  <2>2. Quiet' => Quiet
    BY <2>1 DEF Quiet, Searching
  <2>3. \/ report[c] \in {Nothing} \cup OpenSsl
        \/ link[report[c]] = "dangling"
        \/ report[c] # FirstMissing(c)
    BY <1>1, FirstMissingIsMissing, IncLinkAssumption
       DEF NothingToLink, LinkInTheWay, IncLinkAssumption
  <2> QED
    BY <2>1, <2>2, <2>3, QuietRemoved
<1>2. ASSUME NEW c \in Commands,
             \/ WritesStub(c) \/ WritesStubThrough(c) \/ StubFails(c) \/ DiesOfMacro(c)
             \/ Links(c) \/ Unfound(c)
      PROVE  ~Quiet'
  <2>1. link_count \in Nat /\ unfound_count \in Nat
    BY DEF TypeOK
  <2>2. CASE WritesStub(c) \/ WritesStubThrough(c)
    BY <2>2 DEF WritesStub, WritesStubThrough, Quiet
  <2>3. CASE StubFails(c) \/ DiesOfMacro(c)
    BY <2>3 DEF StubFails, DiesOfMacro, Dies, Quiet, Searching
  <2>4. CASE Links(c) \/ Unfound(c)
    BY <2>1, <2>4 DEF Links, Unfound, Quiet
  <2> QED
    BY <1>2, <2>2, <2>3, <2>4
<1>3. CASE \/ \E c \in Commands : StillRuns(c)
           \/ Waits \/ MapDirs \/ ForgetDirs \/ \E d \in dirs : FindNoSibling(d)
           \/ UNCHANGED vars
  <2>1. UNCHANGED <<link, phase, commands, report, running, countVars, stubbed>>
    BY <1>3 DEF StillRuns, Waits, MapDirs, ForgetDirs, FindNoSibling, vars, scanVars
  <2>2. Quiet' => Quiet
    BY <2>1 DEF Quiet, Searching, countVars
  <2> QED
    BY <2>1, <2>2, QuietUnlinked
<1>4. ASSUME NEW h \in Header, LinkSibling(h) PROVE ~Quiet'
  BY <1>4 DEF LinkSibling, Quiet
<1>5. CASE Begins \/ SearchAgain
  BY <1>5 DEF Begins, SearchAgain, SearchBegins, ReportsHold, NothingMissedSilently
<1>6. CASE \/ DiesOfAbsl \/ MainEnds \/ FleshOut \/ FleshOutEnds
           \/ \E h \in Header : FleshOutLinks(h) \/ FleshOutDies(h)
  <2>1. ~Quiet'
    BY <1>6 DEF DiesOfAbsl, MainEnds, FleshOut, FleshOutEnds, FleshOutLinks, FleshOutDies, GoesOn,
       Dies, Quiet, Searching
  <2> QED
    BY <2>1 DEF ReportsHold, NothingMissedSilently, Quiet
<1>7. ASSUME NEW c \in Commands, ProcessEnds(c)
      PROVE  ReportsHold' /\ NothingMissedSilently'
  <2>1. /\ running' = running \ {c} /\ report' = [report EXCEPT ![c] = FirstMissing(c)]
        /\ UNCHANGED <<link, phase, commands, countVars, stubbed>>
    BY <1>7 DEF ProcessEnds
  <2>2. Quiet' => Quiet
    BY <2>1 DEF Quiet, Searching, countVars
  <2>3. \A d \in commands \ running' :
           (d \notin running /\ report'[d] = report[d]) \/ report'[d] = FirstMissing(d)
    BY <2>1 DEF TypeOK
  <2> QED
    BY <2>1, <2>2, <2>3, QuietUnlinked
<1>8. ~Quiet' => ReportsHold' /\ NothingMissedSilently'
  BY DEF ReportsHold, NothingMissedSilently, Quiet
<1> QED
  BY <1>1, <1>2, <1>3, <1>4, <1>5, <1>6, <1>7, <1>8 DEF Next, Script, Evaluation

(* A search that counts no link and no trouble has taken every command it  *)
(* dropped to its end, but for openssl and for dangling links, although    *)
(* one whose header another has linked is dropped untried (inc_link.py:108). *)
THEOREM NothingMissed == Spec => []NothingMissedSilently
<1>1. Init => ReportsHold /\ NothingMissedSilently
  BY DEF Init, ReportsHold, NothingMissedSilently, Quiet, Searching
<1>2. TypeOK /\ ReportsHold /\ NothingMissedSilently /\ [Next]_vars
        => ReportsHold' /\ NothingMissedSilently'
  BY QuietStep
<1> QED
  BY <1>1, <1>2, TypeCorrect, PTL DEF Spec
----------------------------------------------------------------------------
(* The script dies of a link that dangles, whether a stub is written       *)
(* through it or FileExistsError comes of it (inc_link.py, the link to     *)
(* abseil, eval_line and flesh_out), or of an include without quotes or    *)
(* angles (quoted).                                                        *)
THEOREM DeathsAsNamed == Spec => []DiesAsNamed
<1>1. Init => DiesAsNamed
  BY DEF Init, DiesAsNamed
<1>2. ASSUME TypeOK, DiesAsNamed, [Next]_vars PROVE DiesAsNamed'
  <2>1. CASE phase = "failed"
    <3>1. ~Script
      BY <2>1 DEF Script, Evaluation, NothingToLink, WritesStub, WritesStubThrough, StubFails,
         DiesOfMacro, Links, LinkInTheWay, Unfound, Sought, Evaluates, Read, StillRuns, Waits,
         MapDirs, ForgetDirs, FindNoSibling, LinkSibling, Pauses, Begins, DiesOfAbsl, SearchAgain,
         MainEnds, FleshOut, SearchEnds, FleshOutEnds, FleshOutLinks, FleshOutDies, Searching
    <3>2. /\ UNCHANGED <<tree, link, absl, commands>>
          /\ \A c \in commands \ running : c \notin running' /\ report'[c] = report[c]
      BY <1>2, <3>1 DEF TypeOK, Next, ProcessEnds, vars, scanVars
    <3> QED
      BY <1>2, <2>1, <3>2 DEF DiesAsNamed
  <2>2. ASSUME NEW c \in Commands, StubFails(c) PROVE DiesAsNamed'
    BY <2>2 DEF StubFails, Dies, DiesAsNamed
  <2>3. ASSUME NEW c \in Commands, DiesOfMacro(c) PROVE DiesAsNamed'
    BY <2>3 DEF DiesOfMacro, Read, Dies, scanVars, DiesAsNamed
  <2>4. ASSUME NEW h \in Header, FleshOutDies(h) PROVE DiesAsNamed'
    BY <2>4 DEF FleshOutDies, Dies, DiesAsNamed
  <2>5. CASE DiesOfAbsl
    BY <2>5 DEF DiesOfAbsl, Dies, DiesAsNamed
  <2>6. CASE phase # "failed" /\ phase' # "failed"
    BY <2>6 DEF DiesAsNamed
  <2>7. phase' = "failed" =>
          \/ phase = "failed"
          \/ \E c \in Commands : StubFails(c) \/ DiesOfMacro(c)
          \/ \E h \in Header : FleshOutDies(h)
          \/ DiesOfAbsl
    BY <1>2 DEF Next, Script, Evaluation, NothingToLink, WritesStub, WritesStubThrough, Links,
       LinkInTheWay, Unfound, Sought, Evaluates, StillRuns, Waits, MapDirs, ForgetDirs,
       FindNoSibling, LinkSibling, Begins, SearchAgain, SearchBegins, MainEnds, FleshOut,
       FleshOutEnds, FleshOutLinks, GoesOn, ProcessEnds, vars
  <2> QED
    BY <2>1, <2>2, <2>3, <2>4, <2>5, <2>6, <2>7
<1> QED
  BY <1>1, <1>2, TypeCorrect, PTL DEF Spec
=============================================================================
