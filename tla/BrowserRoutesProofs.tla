------------------------ MODULE BrowserRoutesProofs ------------------------
(***************************************************************************)
(* Proofs about BrowserRoutes, for any number of loads by either route.    *)
(***************************************************************************)
EXTENDS BrowserRoutes, IpfsUrlLoaderProofs

(* Before the network context is set nothing has happened: no load has     *)
(* gone any way and no page is committed, so that the subresource route,   *)
(* which does not set it, is not open.  A load that has not gone any way   *)
(* has no request.                                                         *)
ContextFirst ==
  /\ netContext \/ (~otherPage /\ \A l \in Loaders : route[l] = "none")
  /\ \A l \in Loaders : loader[l].request => route[l] # "none" /\ builds = 1

(* A step of the routes is a step of the loads, or changes none of them.   *)
LEMMA RoutesStepIsLoaderStep == [RoutesNext]_vars => [Next]_loaderVars
<1> SUFFICES ASSUME [RoutesNext]_vars PROVE [Next]_loaderVars
  OBVIOUS
<1>1. CASE \E l \in Loaders : Intercept(l) \/ DropHandler(l)
  BY <1>1 DEF Intercept, DropHandler
<1>2. CASE \E l \in Loaders : RunHandler(l) \/ CreateLoaderAndStart(l)
  BY <1>2 DEF RunHandler, CreateLoaderAndStart, Next
<1>3. CASE \E l \in Loaders : TimerFires(l)
  BY <1>3 DEF TimerFires, Next
<1>4. CASE LibraryGoesOn
  BY <1>4 DEF LibraryGoesOn, Next
<1>5. CASE PassOn \/ UNCHANGED vars
  BY <1>5 DEF PassOn, vars
<1> QED
  BY <1>1, <1>2, <1>3, <1>4, <1>5 DEF RoutesNext

(* The loads of the routes are loads of IpfsUrlLoader: what is proved of   *)
(* its specification holds here.                                           *)
THEOREM RoutesAreLoads == RoutesSpec => Spec
BY RoutesStepIsLoaderStep, PTL DEF RoutesSpec, RoutesInit, Spec

LEMMA RoutesTypeStep == RoutesTypeOK /\ TypeOK' /\ [RoutesNext]_vars => RoutesTypeOK'
<1> SUFFICES ASSUME RoutesTypeOK, TypeOK', [RoutesNext]_vars PROVE RoutesTypeOK'
  OBVIOUS
<1> USE DEF RoutesTypeOK, Routes
<1>1. ASSUME NEW l \in Loaders, Intercept(l) PROVE RoutesTypeOK'
  BY <1>1 DEF Intercept, SetNetworkContext
<1>2. ASSUME NEW l \in Loaders, RunHandler(l) PROVE RoutesTypeOK'
  BY <1>2 DEF RunHandler
<1>3. ASSUME NEW l \in Loaders, DropHandler(l) PROVE RoutesTypeOK'
  BY <1>3 DEF DropHandler
<1>4. ASSUME NEW l \in Loaders, CreateLoaderAndStart(l) PROVE RoutesTypeOK'
  BY <1>4 DEF CreateLoaderAndStart
<1>5. ASSUME NEW l \in Loaders, TimerFires(l) PROVE RoutesTypeOK'
  BY <1>5 DEF TimerFires
<1>6. CASE PassOn
  BY <1>6 DEF PassOn, SetNetworkContext
<1>7. CASE LibraryGoesOn
  BY <1>7 DEF LibraryGoesOn
<1>8. CASE UNCHANGED vars
  BY <1>8 DEF vars
<1> QED
  BY <1>1, <1>2, <1>3, <1>4, <1>5, <1>6, <1>7, <1>8 DEF RoutesNext

(* A report neither makes a request nor withdraws one. *)
LEMMA ReportKeepsRequest ==
  ASSUME NEW me \in LoaderType, NEW res, NEW after \in WhenDone(me, res)
  PROVE  after.request = me.request
BY DEF WhenDone, DoesNotExist, BlocksComplete, Respond, StopStepper, LoaderType

LEMMA StepKeepsRequest ==
  ASSUME NEW me \in LoaderType, NEW u, NEW after \in StepOutcomes(me, u)
  PROVE  after.request = me.request
BY ReportKeepsRequest DEF StepOutcomes

(* Only l may have a request after StartRequest that it did not have.      *)
LEMMA StartKeepsOthers ==
  ASSUME TypeOK, NEW l \in Loaders, StartRequest(l)
  PROVE  /\ \A k \in Loaders \ {l} : loader'[k] = loader[k]
         /\ builds' = 1
<1>1. PICK me \in StepOutcomes(Started(loader[l]), url[l]) :
        loader' = [loader EXCEPT ![l] = me]
  BY DEF StartRequest
<1>2. builds' = 1
  BY DEF StartRequest, Orchestrator, TypeOK
<1> QED
  BY <1>1, <1>2 DEF TypeOK

LEMMA ContextInit == RoutesInit => RoutesTypeOK /\ ContextFirst
<1> SUFFICES ASSUME RoutesInit PROVE RoutesTypeOK /\ ContextFirst
  OBVIOUS
<1>1. TypeOK
  BY InitSound DEF RoutesInit
<1> QED
  BY <1>1 DEF RoutesInit, RoutesTypeOK, ContextFirst, Init, NewLoader, Routes

LEMMA ContextStep == RoutesTypeOK /\ ContextFirst /\ [RoutesNext]_vars => ContextFirst'
<1> SUFFICES ASSUME RoutesTypeOK, ContextFirst, [RoutesNext]_vars PROVE ContextFirst'
  OBVIOUS
<1> USE DEF ContextFirst
<1>1. ASSUME NEW l \in Loaders, Intercept(l) PROVE ContextFirst'
  BY <1>1 DEF Intercept, SetNetworkContext, loaderVars, RoutesTypeOK
<1>2. ASSUME NEW l \in Loaders, RunHandler(l) PROVE ContextFirst'
  <2>1. netContext' /\ StartRequest(l) /\ route' = [route EXCEPT ![l] = "navigation"]
    BY <1>2 DEF RunHandler
  <2> QED
    BY <2>1, StartKeepsOthers DEF RoutesTypeOK
<1>3. ASSUME NEW l \in Loaders, DropHandler(l) PROVE ContextFirst'
  BY <1>3 DEF DropHandler, loaderVars, RoutesTypeOK
<1>4. ASSUME NEW l \in Loaders, CreateLoaderAndStart(l) PROVE ContextFirst'
  <2>1. netContext' /\ route' = [route EXCEPT ![l] = "subresource"]
    BY <1>4 DEF CreateLoaderAndStart, Committed
  <2>2. CASE StartRequest(l)
    BY <2>1, <2>2, StartKeepsOthers DEF RoutesTypeOK
  <2>3. CASE StartWrongScheme(l)
    <3>1. /\ loader' = [loader EXCEPT ![l] = [loader[l] EXCEPT !.bound = TRUE]]
          /\ builds' = builds
      BY <2>3 DEF StartWrongScheme, RoutesTypeOK, TypeOK
    <3>2. \A k \in Loaders : loader'[k].request = loader[k].request
      BY <3>1 DEF RoutesTypeOK, TypeOK, LoaderType
    <3> QED
      BY <2>1, <3>1, <3>2 DEF RoutesTypeOK
  <2> QED
    BY <1>4, <2>2, <2>3 DEF CreateLoaderAndStart
<1>5. ASSUME NEW l \in Loaders, TimerFires(l) PROVE ContextFirst'
  <2>1. PICK me \in StepOutcomes(loader[l], url[l]) : loader' = [loader EXCEPT ![l] = me]
    BY <1>5 DEF TimerFires, TakeStep
  <2>2. me.request = loader[l].request
    BY StepKeepsRequest DEF RoutesTypeOK, TypeOK
  <2>3. \A k \in Loaders : loader'[k].request = loader[k].request
    BY <2>1, <2>2 DEF RoutesTypeOK, TypeOK
  <2>4. builds = 1 => builds' = 1
    BY <1>5 DEF TimerFires, TakeStep, Orchestrator
  <2> QED
    BY <2>3, <2>4, <1>5 DEF TimerFires
<1>6. CASE PassOn
  BY <1>6 DEF PassOn, SetNetworkContext, loaderVars
<1>7. CASE LibraryGoesOn
  <2>1. ASSUME NEW l \in Loaders, LibraryReports(l)
        PROVE  \A k \in Loaders : loader'[k].request = loader[k].request
    <3>1. PICK res \in Responses :
            \E me \in WhenDone(loader[l], res) : loader' = [loader EXCEPT ![l] = me]
      BY <2>1 DEF LibraryReports
    <3>2. PICK me \in WhenDone(loader[l], res) : loader' = [loader EXCEPT ![l] = me]
      BY <3>1
    <3>3. me.request = loader[l].request
      BY ReportKeepsRequest DEF RoutesTypeOK, TypeOK
    <3> QED
      BY <3>2, <3>3 DEF RoutesTypeOK, TypeOK
  <2>2. /\ \A k \in Loaders : loader'[k].request = loader[k].request
        /\ builds' = builds
    BY <1>7, <2>1 DEF LibraryGoesOn, LibraryReports, ContentArrives
  <2> QED
    BY <1>7, <2>2 DEF LibraryGoesOn
<1>8. CASE UNCHANGED vars
  BY <1>8 DEF vars, loaderVars
<1> QED
  BY <1>1, <1>2, <1>3, <1>4, <1>5, <1>6, <1>7, <1>8 DEF RoutesNext

LEMMA AlwaysContextFirst == RoutesSpec => [](RoutesTypeOK /\ ContextFirst)
<1>1. RoutesSpec => []TypeOK
  BY RoutesAreLoads, TypeCorrect, PTL
<1>2. RoutesTypeOK /\ ContextFirst /\ TypeOK' /\ [RoutesNext]_vars
      => (RoutesTypeOK /\ ContextFirst)'
  BY RoutesTypeStep, ContextStep
<1> QED
  BY <1>1, <1>2, ContextInit, PTL DEF RoutesSpec

(* The variables of the routes and of their loads keep their types.        *)
THEOREM RoutesTypeCorrect == RoutesSpec => []RoutesTypeOK
BY AlwaysContextFirst, PTL

(* No load takes a step before the profile has a network context and its   *)
(* one requestor, whichever route it came by.                              *)
THEOREM ContextBeforeSteps == RoutesSpec => []SharedStateFirst
<1>1. ContextFirst => SharedStateFirst
  BY DEF ContextFirst, SharedStateFirst
<1> QED
  BY <1>1, AlwaysContextFirst, PTL

(* The clients of both routes hear one head, first, one conversation until *)
(* the second report, and no more steps after it.                          *)
THEOREM RoutesSound ==
  RoutesSpec => [](OneConversation /\ HeadsComeFirst /\ NoStepsAfterTheEnd)
BY RoutesAreLoads, OneHead, WholeConversations, TimersStop, PTL
=============================================================================
