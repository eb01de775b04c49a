------------------------ MODULE IpfsUrlLoaderProofs ------------------------
(***************************************************************************)
(* Proofs about IpfsUrlLoader, for any number of loads and reports.        *)
(***************************************************************************)
EXTENDS IpfsUrlLoader, SequenceTheorems, TLAPS

Conversations ==
  {<<>>, <<"response", "complete">>, <<"redirect", "complete">>, <<"not found">>}

HeadFirst(s) == \A i \in DOMAIN s : s[i] \in Heads => i = 1

(* What is true of a loader at any time.  One that is not complete, or has *)
(* no request, has said nothing: that is why a head comes first.  One that *)
(* heard at most one report is in the middle of no conversation.           *)
Sound(me) ==
  /\ me \in LoaderType
  /\ ~me.complete => me.sent = <<>>
  /\ ~me.request => me.sent = <<>>
  /\ me.request => me.bound /\ me.stepper # "none"
  /\ me.reports = 0 => ~me.complete
  /\ me.reports <= 1 => me.sent \in Conversations
  /\ HeadFirst(me.sent)
  /\ me.sent # <<>> => me.stepper = "stopped"

LoadersSound == \A l \in Loaders : Sound(loader[l])

(* Adding "not found" keeps heads first. *)
LEMMA AppendNotFound ==
  ASSUME NEW s \in Seq(Messages), HeadFirst(s)
  PROVE  /\ Append(s, "not found") \in Seq(Messages)
         /\ Append(s, "not found") # <<>>
         /\ HeadFirst(Append(s, "not found"))
         /\ s = <<>> => Append(s, "not found") \in Conversations
<1> DEFINE t == Append(s, "not found")
<1>1. "not found" \in Messages /\ "not found" \notin Heads
  BY DEF Messages, Heads
<1>2. /\ t \in Seq(Messages) /\ t # <<>>
      /\ DOMAIN t = 1..(Len(s) + 1) /\ DOMAIN s = 1..Len(s) /\ Len(s) \in Nat
      /\ t[Len(s) + 1] = "not found"
      /\ \A i \in 1..Len(s) : t[i] = s[i]
  <2>1. Len(s) \in Nat /\ DOMAIN s = 1..Len(s)
    BY LenProperties
  <2>2. /\ t \in Seq(Messages) /\ t # <<>> /\ Len(t) = Len(s) + 1
        /\ \A i \in 1..Len(s) : t[i] = s[i]
        /\ t[Len(s) + 1] = "not found"
    <3> DEFINE elt == "not found"
    <3>1. elt \in Messages
      BY <1>1
    <3> HIDE DEF elt
    <3>2. /\ Append(s, elt) \in Seq(Messages) /\ Append(s, elt) # <<>>
          /\ Len(Append(s, elt)) = Len(s) + 1
          /\ \A i \in 1..Len(s) : Append(s, elt)[i] = s[i]
          /\ Append(s, elt)[Len(s) + 1] = elt
      BY <3>1, AppendProperties
    <3> QED
      BY <3>2 DEF elt
  <2> QED
    BY <2>1, <2>2, LenProperties
<1>3. HeadFirst(t)
  <2> SUFFICES ASSUME NEW i \in DOMAIN t, t[i] \in Heads PROVE i = 1
    BY DEF HeadFirst
  <2>1. i \in 1..Len(s)
    <3>1. i # Len(s) + 1
      BY <1>1, <1>2, Zenon
    <3>2. i \in 1..(Len(s) + 1) /\ Len(s) \in Nat
      BY <1>2
    <3> QED
      BY <3>1, <3>2
  <2> QED
    BY <2>1, <1>2 DEF HeadFirst
<1>4. s = <<>> => t = <<"not found">>
  OBVIOUS
<1> QED
  BY <1>2, <1>3, <1>4 DEF Conversations

(* The answer to a client that has heard nothing. *)
LEMMA HeadThenComplete ==
  ASSUME NEW res
  PROVE  /\ <<>> \o <<HeadOf(res), "complete">> \in Seq(Messages) \cap Conversations
         /\ <<>> \o <<HeadOf(res), "complete">> # <<>>
         /\ HeadFirst(<<>> \o <<HeadOf(res), "complete">>)
<1>1. CASE HeadOf(res) = "redirect"
  BY <1>1 DEF Messages, Heads, HeadFirst, Conversations
<1>2. CASE HeadOf(res) = "response"
  BY <1>2 DEF Messages, Heads, HeadFirst, Conversations
<1> QED
  BY <1>1, <1>2 DEF HeadOf

(* A loader that hears a report stays sound, whatever is reported. *)
LEMMA WhenDoneSound ==
  ASSUME NEW me, Sound(me), me.request, me.reports < MaxReports, NEW res \in Responses,
         NEW after \in WhenDone(me, res)
  PROVE  Sound(after)
<1> DEFINE heard == [me EXCEPT !.reports = @ + 1]
<1> USE LoaderAssumption
<1>1. /\ heard \in LoaderType /\ me \in LoaderType
      /\ heard.reports = me.reports + 1 /\ heard.reports \in 0..MaxReports /\ me.reports \in Nat
      /\ heard.sent = me.sent /\ heard.complete = me.complete
      /\ heard.request /\ heard.bound
      /\ heard.stepper = me.stepper /\ heard.stepper # "none"
      /\ heard.reports # 0
  BY DEF Sound, LoaderType
<1>2. /\ HeadFirst(heard.sent) /\ (~heard.complete => heard.sent = <<>>)
      /\ (heard.sent # <<>> => heard.stepper = "stopped")
      /\ (heard.reports <= 1 => heard.sent = <<>>)
  BY <1>1 DEF Sound
<1> HIDE DEF heard
<1>3. CASE res.status = "gone"
  <2> DEFINE s == Append(heard.sent, "not found")
  <2>1. after = StopStepper([heard EXCEPT !.complete = TRUE, !.sent = s])
    BY <1>3, <1>1 DEF WhenDone, DoesNotExist, heard, LoaderType
  <2>2. /\ s \in Seq(Messages) /\ s # <<>> /\ HeadFirst(s)
        /\ heard.reports <= 1 => s \in Conversations
    BY <1>1, <1>2, AppendNotFound DEF LoaderType
  <2> HIDE DEF s
  <2> QED
    BY <2>1, <2>2, <1>1 DEF Sound, LoaderType, StopStepper
<1>4. CASE res.status # "gone" /\ heard.complete
  <2>1. after = heard
    BY <1>4 DEF WhenDone, BlocksComplete, heard
  <2> QED
    BY <2>1, <1>1, <1>2, <1>4 DEF Sound, Conversations
<1>5. CASE res.status # "gone" /\ ~heard.complete
  <2> DEFINE s == <<>> \o <<HeadOf(res), "complete">>
  <2>1. heard.sent = <<>>
    BY <1>2, <1>5
  <2>2. \/ after = StopStepper([heard EXCEPT !.complete = TRUE, !.sent = s])
        \/ after = [heard EXCEPT !.failed = TRUE]
        \/ after = [heard EXCEPT !.failed = TRUE, !.complete = TRUE]
    BY <1>5, <2>1, <1>1 DEF WhenDone, BlocksComplete, Respond, heard, LoaderType
  <2>3. CASE after = StopStepper([heard EXCEPT !.complete = TRUE, !.sent = s])
    <3>1. s \in Seq(Messages) /\ s \in Conversations /\ s # <<>> /\ HeadFirst(s)
      BY HeadThenComplete
    <3> HIDE DEF s
    <3> QED
      BY <2>3, <3>1, <1>1 DEF Sound, LoaderType, StopStepper
  <2>4. CASE \/ after = [heard EXCEPT !.failed = TRUE]
             \/ after = [heard EXCEPT !.failed = TRUE, !.complete = TRUE]
    BY <2>4, <2>1, <1>1, <1>2 DEF Sound, LoaderType, Conversations
  <2> QED
    BY <2>2, <2>3, <2>4
<1> QED
  BY <1>3, <1>4, <1>5

LEMMA StepSound ==
  ASSUME NEW me, Sound(me), me.request, NEW u, NEW after \in StepOutcomes(me, u)
  PROVE  Sound(after)
BY WhenDoneSound DEF StepOutcomes

LEMMA InitSound == Init => TypeOK /\ LoadersSound
<1> SUFFICES ASSUME Init PROVE TypeOK /\ LoadersSound
  OBVIOUS
<1>1. /\ NewLoader \in LoaderType /\ NewLoader.sent = <<>> /\ ~NewLoader.complete
      /\ ~NewLoader.request /\ NewLoader.stepper = "none" /\ NewLoader.reports = 0
  BY LoaderAssumption DEF NewLoader, LoaderType
<1>2. Sound(NewLoader)
  BY <1>1 DEF Sound, HeadFirst, Conversations
<1> QED
  BY <1>1, <1>2 DEF Init, TypeOK, LoadersSound

(* One loader at a time is changed, to a sound one. *)
LEMMA ChangeSound ==
  ASSUME TypeOK, LoadersSound, NEW l \in Loaders, NEW me, Sound(me),
         loader' = [loader EXCEPT ![l] = me]
  PROVE  LoadersSound' /\ loader' \in [Loaders -> LoaderType]
BY DEF TypeOK, LoadersSound, Sound

LEMMA BuildsType ==
  ASSUME builds \in 0..1, Orchestrator PROVE builds' \in 0..1
BY DEF Orchestrator

LEMMA NextSound == TypeOK /\ LoadersSound /\ [Next]_loaderVars => (TypeOK /\ LoadersSound)'
<1> SUFFICES ASSUME TypeOK, LoadersSound, [Next]_loaderVars PROVE (TypeOK /\ LoadersSound)'
  OBVIOUS
<1>1. ASSUME NEW l \in Loaders, StartRequest(l) PROVE (TypeOK /\ LoadersSound)'
  <2>1. PICK me \in StepOutcomes(Started(loader[l]), url[l]) :
          loader' = [loader EXCEPT ![l] = me]
    BY <1>1 DEF StartRequest
  <2>2. Sound(loader[l]) /\ ~loader[l].bound
    BY <1>1 DEF LoadersSound, StartRequest
  <2>3. Sound(Started(loader[l])) /\ Started(loader[l]).request
    BY <2>2 DEF Sound, Started, LoaderType
  <2>4. Sound(me)
    BY <2>3, StepSound
  <2> QED
    BY <1>1, <2>1, <2>4, ChangeSound, BuildsType DEF StartRequest, TypeOK
<1>2. ASSUME NEW l \in Loaders, StartWrongScheme(l) PROVE (TypeOK /\ LoadersSound)'
  <2>1. loader' = [loader EXCEPT ![l] = [loader[l] EXCEPT !.bound = TRUE]]
    BY <1>2 DEF StartWrongScheme, TypeOK
  <2>2. Sound([loader[l] EXCEPT !.bound = TRUE])
    BY DEF LoadersSound, Sound, LoaderType
  <2> QED
    BY <1>2, <2>1, <2>2, ChangeSound DEF StartWrongScheme, TypeOK
<1>3. ASSUME NEW l \in Loaders, TakeStep(l) PROVE (TypeOK /\ LoadersSound)'
  <2>1. PICK me \in StepOutcomes(loader[l], url[l]) : loader' = [loader EXCEPT ![l] = me]
    BY <1>3 DEF TakeStep
  <2>2. Sound(me)
    BY <1>3, StepSound DEF TakeStep, LoadersSound
  <2> QED
    BY <1>3, <2>1, <2>2, ChangeSound, BuildsType DEF TakeStep, TypeOK
<1>4. ASSUME NEW l \in Loaders, LibraryReports(l) PROVE (TypeOK /\ LoadersSound)'
  <2>0. PICK res \in Responses :
          \E me \in WhenDone(loader[l], res) : loader' = [loader EXCEPT ![l] = me]
    BY <1>4 DEF LibraryReports
  <2>1. PICK me \in WhenDone(loader[l], res) : loader' = [loader EXCEPT ![l] = me]
    BY <2>0
  <2>2. Sound(me)
    BY <1>4, WhenDoneSound DEF LibraryReports, LoadersSound
  <2> QED
    BY <1>4, <2>1, <2>2, ChangeSound DEF LibraryReports, TypeOK
<1>5. ASSUME NEW u \in Urls, ContentArrives(u) PROVE (TypeOK /\ LoadersSound)'
  BY <1>5 DEF ContentArrives, LoadersSound, TypeOK
<1>6. CASE UNCHANGED loaderVars
  BY <1>6 DEF loaderVars, LoadersSound, TypeOK
<1> QED
  BY <1>1, <1>2, <1>3, <1>4, <1>5, <1>6 DEF Next

LEMMA AlwaysSound == Spec => [](TypeOK /\ LoadersSound)
BY InitSound, NextSound, PTL DEF Spec

(* The variables of the loads keep their types, and the requestor is built *)
(* at most once.                                                           *)
THEOREM TypeCorrect == Spec => []TypeOK
BY AlwaysSound, PTL

(* However often the library reports to however many loads, a head is the  *)
(* first thing a client hears, or it hears none.                           *)
THEOREM OneHead == Spec => []HeadsComeFirst
<1>1. LoadersSound => HeadsComeFirst
  BY DEF LoadersSound, Sound, HeadFirst, HeadsComeFirst
<1> QED
  BY <1>1, AlwaysSound, PTL

(* Whichever way a load is answered, its client has heard one whole        *)
(* conversation by the time of the first report.                           *)
THEOREM WholeConversations == Spec => []OneConversation
<1>1. LoadersSound => OneConversation
  BY DEF LoadersSound, Sound, OneConversation, Conversations
<1> QED
  BY <1>1, AlwaysSound, PTL

(* A load that told its client how it ended does not poll any longer.      *)
THEOREM TimersStop == Spec => []NoStepsAfterTheEnd
<1>1. LoadersSound => NoStepsAfterTheEnd
  BY DEF LoadersSound, Sound, NoStepsAfterTheEnd
<1> QED
  BY <1>1, AlwaysSound, PTL
=============================================================================
