---------------------------- MODULE BrowserRoutes ----------------------------
(***************************************************************************)
(* How a load reaches an IpfsUrlLoader, and the state of the profile that  *)
(* all loads share (component/interceptor.cc, url_loader_factory.cc and    *)
(* inter_request_state.cc).                                                *)
(*                                                                         *)
(* Every navigation is shown to Interceptor::MaybeCreateLoader.  For an    *)
(* ipfs or ipns URL it answers with a handler, StartRequest bound to a new *)
(* loader, which the navigation runs later or drops.  What a committed     *)
(* page then loads by an ipfs or ipns URL goes to the IpfsURLLoaderFactory *)
(* of the scheme, which starts its loader at once and does not set the     *)
(* network context.                                                        *)
(***************************************************************************)
EXTENDS IpfsUrlLoader

VARIABLES
  route,        \* route[l]: how far the load behind the loader has come
  netContext,   \* InterRequestState::network_context_ is set
  otherPage     \* a page of another scheme is committed

vars == <<loaderVars, route, netContext, otherPage>>

Routes == {"none", "handed", "navigation", "dropped", "subresource"}

RoutesTypeOK ==
  /\ TypeOK
  /\ route \in [Loaders -> Routes]
  /\ netContext \in BOOLEAN /\ otherPage \in BOOLEAN

RoutesInit ==
  /\ Init
  /\ route = [l \in Loaders |-> "none"]
  /\ netContext = FALSE /\ otherPage = FALSE

(* A page is committed, and may load more, once a navigation got its       *)
(* response.                                                               *)
Committed ==
  \/ otherPage
  \/ \E l \in Loaders :
       route[l] = "navigation" /\ "response" \in {loader[l].sent[i] : i \in DOMAIN loader[l].sent}

(* The part of MaybeCreateLoader before the test of the scheme. *)
SetNetworkContext == netContext' = TRUE

(* MaybeCreateLoader for an ipfs or ipns URL. *)
Intercept(l) ==
  /\ route[l] = "none"
  /\ SetNetworkContext
  /\ route' = [route EXCEPT ![l] = "handed"]
  /\ UNCHANGED <<loaderVars, otherPage>>

(* Variant: the context is set for the IPFS schemes alone. *)
PassOnEarly ==
  /\ ~otherPage
  /\ otherPage' = TRUE
  /\ UNCHANGED <<loaderVars, route, netContext>>

(* MaybeCreateLoader for any other URL: an empty handler, and the page is  *)
(* loaded by someone else.                                                 *)
PassOn ==
  /\ ~otherPage
  /\ SetNetworkContext
  /\ otherPage' = TRUE
  /\ UNCHANGED <<loaderVars, route>>

(* The navigation runs the handler it was given. *)
RunHandler(l) ==
  /\ route[l] = "handed"
  /\ StartRequest(l)
  /\ route' = [route EXCEPT ![l] = "navigation"]
  /\ UNCHANGED <<netContext, otherPage>>

(* The navigation is over before its handler was run: the loader goes with *)
(* the callback that held it.                                              *)
DropHandler(l) ==
  /\ route[l] = "handed"
  /\ route' = [route EXCEPT ![l] = "dropped"]
  /\ UNCHANGED <<loaderVars, netContext, otherPage>>

(* IpfsURLLoaderFactory::CreateLoaderAndStart.  It tests its own scheme and *)
(* leaves that of the request to StartRequest.                             *)
CreateLoaderAndStart(l) ==
  /\ route[l] = "none" /\ Committed
  /\ StartRequest(l) \/ StartWrongScheme(l)
  /\ route' = [route EXCEPT ![l] = "subresource"]
  /\ UNCHANGED <<netContext, otherPage>>

(* The timer of a load fires. *)
TimerFires(l) == TakeStep(l) /\ UNCHANGED <<route, netContext, otherPage>>

(* The library goes on by itself. *)
LibraryGoesOn ==
  /\ (\E l \in Loaders : LibraryReports(l)) \/ (\E u \in Urls : ContentArrives(u))
  /\ UNCHANGED <<route, netContext, otherPage>>

RoutesNext ==
  \/ \E l \in Loaders :
       \/ Intercept(l) \/ RunHandler(l) \/ DropHandler(l) \/ CreateLoaderAndStart(l)
       \/ TimerFires(l)
  \/ PassOn
  \/ LibraryGoesOn

(* A running timer fires.  Nothing else is assumed to happen. *)
RoutesSpec == RoutesInit /\ [][RoutesNext]_vars /\ \A l \in Loaders : WF_vars(TimerFires(l))

-----------------------------------------------------------------------------
(* Whatever comes first, an ipfs navigation or a page of another scheme    *)
(* that loads something by an ipfs URL, no load takes a step before the    *)
(* profile has a network context, which its DNS lookups dereference, and   *)
(* one requestor, which all loads share.                                   *)
SharedStateFirst ==
  \A l \in Loaders : loader[l].request => netContext /\ builds = 1
=============================================================================
