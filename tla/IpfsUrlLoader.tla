--------------------------- MODULE IpfsUrlLoader ---------------------------
(***************************************************************************)
(* The loads of ipfs:// and ipns:// URLs of one profile                    *)
(* (component/ipfs_url_loader.cc).  StartRequest hands the path to the     *)
(* IPFS client library and takes a step at once and then every two         *)
(* seconds; when the library reports a response, whendone turns it into    *)
(* messages to the URLLoaderClient and stops the timer.                    *)
(*                                                                         *)
(* The library is external: it can answer a URL once the content has       *)
(* arrived, it reports from within a step or on its own when a gateway     *)
(* answers, and MaxReports is how often it may report to one load.         *)
(***************************************************************************)
EXTENDS Naturals, Sequences

CONSTANTS
  Loaders,      \* the IpfsUrlLoader objects
  Urls,         \* what they are asked for
  MaxReports    \* how often the library may report to one load

ASSUME LoaderAssumption == MaxReports \in Nat \ {0}

VARIABLES
  url,       \* url[l]: original_url_ of the loader
  ready,     \* the URLs the library can answer (external)
  loader,    \* loader[l]: the members of the object, see LoaderType
  builds     \* how often InterRequestState::orchestrator built a requestor

loaderVars == <<url, ready, loader, builds>>

Heads    == {"response", "redirect"}
Messages == Heads \cup {"complete", "not found"}

(* bound: receiver_ and client_;  request: ipfs_request_ exists;  stepper: *)
(* stepper_;  complete: complete_;  failed: the data pipe or the headers   *)
(* could not be created;  reports: reports received;  sent: the messages   *)
(* to the client, in order.  The body is abstracted.                       *)
LoaderType ==
  [bound : BOOLEAN, request : BOOLEAN,
   stepper : {"none", "running", "stopped"},
   complete : BOOLEAN, failed : BOOLEAN,
   reports : 0..MaxReports, sent : Seq(Messages)]

(* What the library reports: "gone" is IMMUTABLY_GONE, "moved" a 3xx.      *)
Responses == [status : {"ok", "moved", "gone"}, location : BOOLEAN]

TypeOK ==
  /\ url \in [Loaders -> Urls]
  /\ ready \subseteq Urls
  /\ loader \in [Loaders -> LoaderType]
  /\ builds \in 0..1

NewLoader ==
  [bound |-> FALSE, request |-> FALSE, stepper |-> "none", complete |-> FALSE,
   failed |-> FALSE, reports |-> 0, sent |-> <<>>]

Init ==
  /\ url \in [Loaders -> Urls]
  /\ ready = {}
  /\ loader = [l \in Loaders |-> NewLoader]
  /\ builds = 0

-----------------------------------------------------------------------------
(* whendone.  Each operator gives the set of loaders that me may become.   *)

HeadOf(res) ==
  IF res.status = "moved" /\ res.location THEN "redirect" ELSE "response"

(* Variant: the timer is left running. *)
KeepStepper(me) == me

StopStepper(me) ==
  [me EXCEPT !.stepper = IF @ = "running" THEN "stopped" ELSE @]

(* Variant: OnComplete is left out. *)
RespondUnfinished(me, res) ==
  StopStepper([me EXCEPT !.complete = TRUE, !.sent = Append(@, HeadOf(res))])

(* The last part of BlocksComplete: a head, OnComplete, and no more steps. *)
Respond(me, res) ==
  StopStepper([me EXCEPT !.complete = TRUE, !.sent = @ \o <<HeadOf(res), "complete">>])

(* Variant: BlocksComplete does not look at complete_. *)
BlocksCompleteAgain(me, res) == {Respond(me, res)}

(* The data pipe may fail before complete_ is set, the headers after.      *)
BlocksComplete(me, res) ==
  IF me.complete
  THEN {me}
  ELSE {Respond(me, res),
        [me EXCEPT !.failed = TRUE],
        [me EXCEPT !.failed = TRUE, !.complete = TRUE]}

(* There is no test of complete_ here. *)
DoesNotExist(me) ==
  {StopStepper([me EXCEPT !.complete = TRUE, !.sent = Append(@, "not found")])}

WhenDone(me, res) ==
  LET heard == [me EXCEPT !.reports = @ + 1]
  IN  IF res.status = "gone" THEN DoesNotExist(heard) ELSE BlocksComplete(heard, res)

-----------------------------------------------------------------------------
(* Variant: the requestor is built anew whenever a step is taken. *)
AlwaysBuild == builds' = builds + 1

(* InterRequestState::orchestrator, on the way of every TakeStep.          *)
Orchestrator ==
  builds' = IF builds = 0 THEN builds + 1 ELSE builds

(* build_response reports at once if the library can answer u by now.      *)
StepOutcomes(me, u) ==
  IF u \in ready /\ me.reports < MaxReports
  THEN UNION {WhenDone(me, res) : res \in Responses}
  ELSE {me}

Started(me) ==
  [me EXCEPT !.bound = TRUE, !.request = TRUE, !.stepper = "running"]

(* Variant: the request is made, but nothing polls it. *)
StartWithoutTimer(l) ==
  /\ ~loader[l].bound
  /\ loader' = [loader EXCEPT ![l] = [@ EXCEPT !.bound = TRUE, !.request = TRUE]]
  /\ Orchestrator
  /\ UNCHANGED <<url, ready>>

(* StartRequest for the two schemes, with the step it takes at its end.    *)
StartRequest(l) ==
  /\ ~loader[l].bound
  /\ \E me \in StepOutcomes(Started(loader[l]), url[l]) :
       loader' = [loader EXCEPT ![l] = me]
  /\ Orchestrator
  /\ UNCHANGED <<url, ready>>

(* StartRequest for any other scheme is logged, and that is all. *)
StartWrongScheme(l) ==
  /\ ~loader[l].bound
  /\ loader' = [loader EXCEPT ![l].bound = TRUE]
  /\ UNCHANGED <<url, ready, builds>>

(* The timer fires.  A step that finds nothing to report changes nothing.  *)
TakeStep(l) ==
  /\ loader[l].stepper = "running" /\ loader[l].request
  /\ url[l] \in ready /\ loader[l].reports < MaxReports
  /\ \E me \in StepOutcomes(loader[l], url[l]) : loader' = [loader EXCEPT ![l] = me]
  /\ Orchestrator
  /\ UNCHANGED <<url, ready>>

(* The library reports on its own, when a gateway has answered. *)
LibraryReports(l) ==
  /\ loader[l].request
  /\ url[l] \in ready /\ loader[l].reports < MaxReports
  /\ \E res \in Responses : \E me \in WhenDone(loader[l], res) :
       loader' = [loader EXCEPT ![l] = me]
  /\ UNCHANGED <<url, ready, builds>>

(* Blocks and names have arrived until the library can answer u, for this  *)
(* load of it and for every other.                                         *)
ContentArrives(u) ==
  /\ u \notin ready
  /\ \E l \in Loaders : loader[l].request /\ url[l] = u
  /\ ready' = ready \cup {u}
  /\ UNCHANGED <<url, loader, builds>>

Next ==
  \/ \E l \in Loaders :
       StartRequest(l) \/ StartWrongScheme(l) \/ TakeStep(l) \/ LibraryReports(l)
  \/ \E u \in Urls : ContentArrives(u)

Spec == Init /\ [][Next]_loaderVars

-----------------------------------------------------------------------------
(* What the client of a load has been told by the time of the first        *)
(* report: nothing, one head and one completion, or an error and nothing   *)
(* else.  A second report may break it, as DoesNotExist has no test of     *)
(* complete_.                                                              *)
OneConversation ==
  \A l \in Loaders : loader[l].reports <= 1 =>
    loader[l].sent \in {<<>>, <<"response", "complete">>, <<"redirect", "complete">>,
                        <<"not found">>}

(* However often the library reports and whatever, a head is the first     *)
(* thing a client hears or it hears none: never a second head, and never   *)
(* one after the resource was said not to exist.                           *)
HeadsComeFirst ==
  \A l \in Loaders : \A i \in DOMAIN loader[l].sent :
    loader[l].sent[i] \in Heads => i = 1

(* A load that told its client how it ended does not poll the library any  *)
(* longer: its timer is stopped, also when the answer came from elsewhere. *)
NoStepsAfterTheEnd ==
  \A l \in Loaders : loader[l].sent # <<>> => loader[l].stepper = "stopped"

(* Once the library can answer a URL, every load that asked for it tells   *)
(* its client, unless the data pipe or the headers could not be created.   *)
AnswersAreDelivered ==
  \A l \in Loaders :
    (loader[l].request /\ url[l] \in ready) ~> (loader[l].sent # <<>> \/ loader[l].failed)
(* DCHECK(me->complete_) at the end of whendone: a report completes the    *)
(* load.  CreateDataPipe failing leaves it incomplete.                     *)
ReportCompletes ==
  \A l \in Loaders : loader[l].reports > 0 => loader[l].complete
=============================================================================
