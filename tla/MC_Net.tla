------------------------------- MODULE MC_Net -------------------------------
(* What a load asks of the network: three lookups of at most two hosts,    *)
(* among them one that is made from within the callback of another, and    *)
(* two requests to gateways that answer 200 or 404.  Lookups and requests  *)
(* share no state, so it is decided at the start which of them are looked  *)
(* at: a behaviour of both is one of each with steps of the other between. *)
EXTENDS DnsTxtLookup, BlockHttpRequest, TLC

CONSTANTS k1, k2, k3, h1, h2, r1, r2

VARIABLE side

ThreeLookups == {k1, k2, k3}
TwoHosts     == {h1, h2}
TwoRequests  == {r1, r2}
TwoCodes     == {200, 404}

(* One host for all is enough where no lookup is made. *)
NetInit ==
  /\ Init /\ HttpInit /\ side \in {"dns", "http"}
  /\ side = "http" => host = [k \in Lookups |-> h1]

NetNext ==
  \/ side = "dns" /\ Next /\ UNCHANGED <<httpVars, side>>
  \/ side = "http" /\ HttpNext /\ UNCHANGED <<vars, side>>

(* The fairness of the two specifications. *)
NetSpec ==
  /\ NetInit
  /\ [][NetNext]_<<vars, httpVars, side>>
  /\ side = "dns" => \A k \in Lookups : WF_vars(OnComplete(k))
  /\ side = "http" => \A r \in Requests : WF_httpVars(TimesOut(r))
=============================================================================
