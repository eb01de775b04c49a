------------------------------- MODULE IncLink -------------------------------
(***************************************************************************)
(* cmake/inc_link.py, which fills a directory of links with the headers    *)
(* that compiling the component outside of Chromium asks for. It runs the  *)
(* preprocessor on every file at once, polls the processes in turn, links  *)
(* the header one of them stopped at and starts that one again. While all  *)
(* of them are busy it looks for one more header to link unasked.          *)
(*                                                                         *)
(* A header is named by its path, which is that of its link. Directories   *)
(* that would be made for links are left out.                              *)
(***************************************************************************)
EXTENDS Naturals, Sequences, FiniteSets

CONSTANTS
  Commands,  \* the compile commands of out_of_tree
  Header,
  Includes,  \* the headers a command comes to, in order, none of which is found elsewhere
  Boring,    \* headers of boringssl: stubbed
  OpenSsl,   \* headers of openssl: left to the installed version
  ByMacro,   \* commands and headers: the one includes the other by way of a macro
  Dir,       \* the directory of a header
  Nothing    \* no header

ASSUME IncLinkAssumption ==
  /\ Includes \in [Commands -> Seq(Header)]
  /\ Boring \subseteq Header /\ OpenSsl \subseteq Header \ Boring
  /\ ByMacro \subseteq Commands \X Header
  /\ Nothing \notin Header

VARIABLES
  tree,          \* headers that one of source_bases has
  link,          \* what is at the path of a header in inc_link
  absl,          \* what is at inc_link/absl
  loud,          \* commands with more to say than a pipe holds (external)
  phase,         \* the call that main is in
  commands,      \* those of this search that have not finished
  polled,        \* those that finished() was false of since the last removal or pause
  report,        \* the header a process that ended stopped at
  running,       \* processes that have not ended
  link_count, unfound_count, preempt,
  dirs,          \* existing_dir_map
  stubbed        \* history: this search wrote a stub

scanVars == <<commands, polled, report, running>>
countVars == <<link_count, unfound_count, preempt>>
vars == <<tree, link, absl, loud, phase, scanVars, countVars, dirs, stubbed>>

Unmapped == {"unmapped"}

Exists(h) == link[h] \in {"good", "stub"}

\* search, up to its loop, in the given phase.
SearchBegins(p) ==
  /\ phase' = p
  /\ commands' = Commands /\ running' = Commands /\ polled' = {}
  /\ report' = [c \in Commands |-> Nothing]
  /\ link_count' = 0 /\ unfound_count' = 0
  /\ dirs' = Unmapped
  /\ stubbed' = FALSE

\* Earlier runs left links behind, and the sources of some are gone by now, or in
\* a place that is not looked at any more.
Init ==
  /\ tree \in SUBSET Header
  /\ link \in [Header -> {"none", "good", "dangling", "stub"}]
  /\ \A h \in Header : link[h] = "stub" => h \in Boring
  /\ absl \in {"none", "good", "dangling"}
  /\ loud \in SUBSET Commands
  /\ phase = "start"
  /\ commands = {} /\ running = {} /\ polled = {}
  /\ report = [c \in Commands |-> Nothing]
  /\ link_count = 0 /\ unfound_count = 0 /\ preempt = FALSE
  /\ dirs = Unmapped /\ stubbed = FALSE

\* The link to abseil is there, or is made, and main searches.
Begins ==
  /\ phase = "start" /\ absl # "dangling"
  /\ absl' = "good"
  /\ SearchBegins("search")
  /\ UNCHANGED <<tree, link, loud, preempt>>

Searching == phase \in {"search", "again"}

\* An exception that nothing catches.
Dies ==
  /\ phase' = "failed"
  /\ UNCHANGED <<tree, link, absl, loud, scanVars, countVars, dirs, stubbed>>

\* A link to abseil that dangles does not exist, and cannot be made.
DiesOfAbsl == phase = "start" /\ absl = "dangling" /\ Dies
----------------------------------------------------------------------------
(* The preprocessors (external) *)

Missing(c) == {i \in DOMAIN Includes[c] : ~Exists(Includes[c][i])}

FirstMissing(c) ==
  IF Missing(c) = {} THEN Nothing
  ELSE Includes[c][CHOOSE i \in Missing(c) : \A j \in Missing(c) : i <= j]

\* It ends at the first header that is not there. Nobody reads its messages
\* before it has ended, so one with more than a pipe holds does not end.
ProcessEnds(c) ==
  /\ c \in running \ loud
  /\ running' = running \ {c}
  /\ report' = [report EXCEPT ![c] = FirstMissing(c)]
  /\ UNCHANGED <<tree, link, absl, loud, phase, commands, polled, countVars, dirs, stubbed>>
----------------------------------------------------------------------------
(* eval_line, for the header a process stopped at *)

Linked(h) == link' = [link EXCEPT ![h] = "good"]

\* finished() with retry set.
StartAgain(c) ==
  /\ running' = running \cup {c} /\ polled' = polled \cup {c}
  /\ report' = [report EXCEPT ![c] = Nothing]
  /\ UNCHANGED commands

\* Variant: the next scan does not begin anew.
RemovedWithinScan(c) ==
  /\ commands' = commands \ {c} /\ polled' = polled \cup {c}
  /\ UNCHANGED <<report, running>>

Removed(c) ==
  /\ commands' = commands \ {c} /\ polled' = {}
  /\ UNCHANGED <<report, running>>

\* What a process that ended had to say is read.
Read(c) == Searching /\ c \in commands \ (polled \cup running)

\* Neither quotes nor angles are in the line of it: ValueError.
DiesOfMacro(c) == Read(c) /\ <<c, report[c]>> \in ByMacro /\ Dies

\* eval_line, unless it dies or writes into the tree, leaves these alone.
Evaluates(c) ==
  /\ Read(c) /\ <<c, report[c]>> \notin ByMacro
  /\ UNCHANGED <<absl, loud, phase, preempt, dirs>>

\* Nothing is missing, or it is there by now, or it is left to the installed openssl.
NothingToLink(c) ==
  /\ Evaluates(c)
  /\ report[c] \in {Nothing} \cup OpenSsl \cup {h \in Header : Exists(h)}
  /\ Removed(c)
  /\ UNCHANGED <<tree, link, link_count, unfound_count, stubbed>>

\* The stub is in the way of the link that is tried next.
WritesStub(c) ==
  /\ Evaluates(c) /\ report[c] \in Boring /\ link[report[c]] = "none"
  /\ link' = [link EXCEPT ![report[c]] = "stub"] /\ stubbed' = TRUE
  /\ unfound_count' = IF report[c] \in tree THEN unfound_count ELSE unfound_count + 1
  /\ Removed(c)
  /\ UNCHANGED <<tree, link_count>>

\* Through a dangling link the stub lands where the source was, which may be in a
\* place that is not looked at any more.
WritesStubThrough(c) ==
  /\ Evaluates(c) /\ report[c] \in Boring /\ link[report[c]] = "dangling"
  /\ link' = [link EXCEPT ![report[c]] = "good"] /\ stubbed' = TRUE
  /\ \/ tree' = tree \cup {report[c]} /\ UNCHANGED unfound_count
     \/ report[c] \notin tree /\ unfound_count' = unfound_count + 1 /\ UNCHANGED tree
  /\ Removed(c)
  /\ UNCHANGED link_count

\* Its directory may be gone.
StubFails(c) ==
  /\ Read(c) /\ <<c, report[c]>> \notin ByMacro
  /\ report[c] \in Boring /\ link[report[c]] = "dangling"
  /\ Dies

Sought(c) == Evaluates(c) /\ report[c] \in Header \ (Boring \cup OpenSsl)

Links(c) ==
  /\ Sought(c) /\ report[c] \in tree /\ link[report[c]] = "none"
  /\ Linked(report[c]) /\ link_count' = link_count + 1
  /\ StartAgain(c)
  /\ UNCHANGED <<tree, unfound_count, stubbed>>

\* Variant: the header that was linked, or was to be, is always tried again.
TriesAgain(c) ==
  /\ Sought(c) /\ report[c] \in tree /\ link[report[c]] = "dangling"
  /\ StartAgain(c)
  /\ UNCHANGED <<tree, link, link_count, unfound_count, stubbed>>

\* A dangling link does not exist, and is in the way all the same.
LinkInTheWay(c) ==
  /\ Sought(c) /\ report[c] \in tree /\ link[report[c]] = "dangling"
  /\ Removed(c)
  /\ UNCHANGED <<tree, link, link_count, unfound_count, stubbed>>

\* Variant: what cannot be found is not counted.
UnfoundUncounted(c) ==
  /\ Sought(c) /\ report[c] \notin tree /\ ~Exists(report[c])
  /\ Removed(c)
  /\ UNCHANGED <<tree, link, link_count, unfound_count, stubbed>>

Unfound(c) ==
  /\ Sought(c) /\ report[c] \notin tree /\ ~Exists(report[c])
  /\ unfound_count' = unfound_count + 1
  /\ Removed(c)
  /\ UNCHANGED <<tree, link, link_count, stubbed>>

\* finished() of a process that has not ended.
StillRuns(c) ==
  /\ Searching /\ c \in (commands \cap running) \ polled
  /\ polled' = polled \cup {c}
  /\ UNCHANGED <<tree, link, absl, loud, phase, commands, report, running, countVars, dirs, stubbed>>
----------------------------------------------------------------------------
(* The except clause of search: none of the commands has finished *)

Pauses == Searching /\ commands # {} /\ polled = commands /\ polled' = {}

Waits ==
  /\ Pauses /\ preempt
  /\ UNCHANGED <<tree, link, absl, loud, phase, commands, report, running, countVars, dirs, stubbed>>

LinkedDirs == {Dir[h] : h \in {g \in Header : link[g] \in {"good", "dangling"}}}

\* The links are listed in one pause and mapped in the next. One made in between
\* was not in the list, so the map is that of the time of the list.
MapDirs ==
  /\ Pauses /\ ~preempt /\ dirs = Unmapped
  /\ dirs' = LinkedDirs
  /\ UNCHANGED <<tree, link, absl, loud, phase, commands, report, running, countVars, stubbed>>

ForgetDirs ==
  /\ Pauses /\ ~preempt /\ dirs = {}
  /\ dirs' = Unmapped
  /\ UNCHANGED <<tree, link, absl, loud, phase, commands, report, running, countVars, stubbed>>

\* What a directory of Chromium that has been linked from has besides.
Siblings(d) == {h \in tree : Dir[h] = d /\ link[h] = "none"}

FindNoSibling(d) ==
  /\ Pauses /\ ~preempt /\ dirs # Unmapped /\ d \in dirs /\ Siblings(d) = {}
  /\ dirs' = dirs \ {d}
  /\ UNCHANGED <<tree, link, absl, loud, phase, commands, report, running, countVars, stubbed>>

LinkSibling(h) ==
  /\ Pauses /\ ~preempt /\ dirs # Unmapped /\ Dir[h] \in dirs /\ h \in Siblings(Dir[h])
  /\ dirs' = dirs \ {Dir[h]}
  /\ Linked(h) /\ preempt' = TRUE
  /\ UNCHANGED <<tree, absl, loud, phase, commands, report, running, link_count, unfound_count, stubbed>>
----------------------------------------------------------------------------
(* The end of a search, and main *)

SearchEnds == Searching /\ commands = {}

SearchAgain ==
  /\ SearchEnds /\ phase = "search" /\ link_count > unfound_count
  /\ SearchBegins("again")
  /\ UNCHANGED <<tree, link, absl, loud, preempt>>

GoesOn(p) ==
  /\ phase' = p
  /\ UNCHANGED <<tree, link, absl, loud, scanVars, countVars, dirs, stubbed>>

\* After the second search, or with a header linked unasked.
MainEnds ==
  /\ SearchEnds
  /\ phase = "again" \/ (link_count <= unfound_count /\ preempt)
  /\ GoesOn("done")

FleshOut ==
  /\ SearchEnds /\ phase = "search" /\ link_count <= unfound_count /\ ~preempt
  /\ GoesOn("flesh")

FleshOutLinks(h) ==
  /\ phase = "flesh" /\ h \in tree /\ Dir[h] \in LinkedDirs /\ link[h] = "none"
  /\ Linked(h)
  /\ phase' = "done"
  /\ UNCHANGED <<tree, absl, loud, scanVars, countVars, dirs, stubbed>>

\* Variant: only links are passed over, stubs are not.
DiesOnStub(h) ==
  /\ phase = "flesh" /\ h \in tree /\ Dir[h] \in LinkedDirs /\ link[h] \in {"dangling", "stub"}
  /\ Dies

\* Nothing catches FileExistsError here.
FleshOutDies(h) ==
  /\ phase = "flesh" /\ h \in tree /\ Dir[h] \in LinkedDirs /\ link[h] = "dangling"
  /\ Dies

FleshOutEnds ==
  /\ phase = "flesh" /\ \A h \in tree : Dir[h] \in LinkedDirs => Exists(h)
  /\ GoesOn("done")

Evaluation(c) ==
  \/ NothingToLink(c) \/ WritesStub(c) \/ WritesStubThrough(c) \/ StubFails(c)
  \/ DiesOfMacro(c)
  \/ Links(c) \/ LinkInTheWay(c) \/ Unfound(c)

\* The script goes on.
Script ==
  \/ Begins \/ DiesOfAbsl
  \/ \E c \in Commands : Evaluation(c) \/ StillRuns(c)
  \/ Waits \/ MapDirs \/ ForgetDirs
  \/ \E d \in dirs : FindNoSibling(d)
  \/ \E h \in Header : LinkSibling(h)
  \/ SearchAgain \/ MainEnds \/ FleshOut
  \/ FleshOutEnds \/ \E h \in Header : FleshOutLinks(h) \/ FleshOutDies(h)

Next == Script \/ \E c \in Commands : ProcessEnds(c)

\* The script is never held up, and a preprocessor that can end does.
Spec ==
  /\ Init /\ [][Next]_vars
  /\ WF_vars(Script) /\ \A c \in Commands : WF_vars(ProcessEnds(c))
----------------------------------------------------------------------------
Ended == phase \in {"done", "failed"}

TypeOK ==
  /\ tree \subseteq Header /\ loud \subseteq Commands
  /\ link \in [Header -> {"none", "good", "dangling", "stub"}]
  /\ absl \in {"none", "good", "dangling"}
  /\ phase \in {"start", "search", "again", "flesh", "done", "failed"}
  /\ commands \subseteq Commands /\ polled \subseteq commands
  /\ running \subseteq commands
  /\ report \in [Commands -> Header \cup {Nothing}]
  /\ link_count \in Nat /\ unfound_count \in Nat
  /\ preempt \in BOOLEAN /\ stubbed \in BOOLEAN
  /\ dirs = Unmapped \/ dirs \subseteq {Dir[h] : h \in Header}

\* The script ends, whatever links and stubs it finds and makes: unless a
\* preprocessor fills the pipe that is read only after it has ended.
RunEnds == loud = {} ~> Ended

\* The script does not pass over a header in silence. If a search counts no link and
\* no trouble, and made neither stub nor unasked link, every command of it comes
\* to its end, but for openssl and for dangling links, though commands whose header
\* another one has linked are dropped without a second try (inc_link.py:108).
NothingMissedSilently ==
  \A c \in Commands \ commands :
    Searching /\ link_count = 0 /\ unfound_count = 0 /\ ~stubbed /\ ~preempt =>
      LET h == FirstMissing(c)
      IN  h = Nothing \/ h \in OpenSsl \/ link[h] = "dangling"

\* The script dies only on account of a link that dangled before it began, be it
\* abseil's, or of an include that a macro names.
DiesAsNamed ==
  phase = "failed" =>
    \/ \E h \in tree \cup Boring : link[h] = "dangling"
    \/ absl = "dangling"
    \/ \E c \in commands \ running : <<c, report[c]>> \in ByMacro
=============================================================================
