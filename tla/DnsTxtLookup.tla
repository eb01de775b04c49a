---------------------------- MODULE DnsTxtLookup ----------------------------
(***************************************************************************)
(* TXT lookups (component/chromium_dns_txt_lookup.cc, dns_txt_request.cc). *)
(* ChromiumDnsTxtLookup keeps a list of DnsTxtRequest objects per host;    *)
(* each is the client of one ResolveHost call of the network service.      *)
(* When one of them completes, its caller's callback is run and then the   *)
(* whole list of the host is erased.  A DnsTxtRequest that is destroyed    *)
(* unbinds its receiver, and hears nothing more.                           *)
(*                                                                         *)
(* The resolver is external: any number of OnTextResults, then OnComplete  *)
(* once, unless the network service goes away first.                       *)
(***************************************************************************)
EXTENDS Naturals, FiniteSets

CONSTANTS
  Lookups,      \* the calls of SendDnsTextRequest, one object each
  Hosts,
  MaxResults,   \* OnTextResults per lookup
  MaxLost       \* lookups the network service may abandon

ASSUME DnsAssumption == MaxResults \in Nat /\ MaxLost \in Nat

VARIABLES
  host,       \* host[k]: the host of lookup k
  asked,      \* the lookups that were made
  dns_reqs_,  \* dns_reqs_[h]: the live DnsTxtRequest objects of host h
  results,    \* results[k]: calls of k's results callback
  done,       \* done[k]: calls of k's completion callback
  lost        \* the lookups the network service abandoned

vars == <<host, asked, dns_reqs_, results, done, lost>>

TypeOK ==
  /\ host \in [Lookups -> Hosts]
  /\ asked \subseteq Lookups
  /\ dns_reqs_ \in [Hosts -> SUBSET asked]
  /\ \A h \in Hosts : \A k \in dns_reqs_[h] : host[k] = h
  /\ results \in [Lookups -> 0..MaxResults]
  /\ done \in [Lookups -> 0..1]
  /\ lost \subseteq Lookups

Init ==
  /\ host \in [Lookups -> Hosts]
  /\ asked = {}
  /\ dns_reqs_ = [h \in Hosts |-> {}]
  /\ results = [k \in Lookups |-> 0]
  /\ done = [k \in Lookups |-> 0]
  /\ lost = {}

Alive(k) == k \in dns_reqs_[host[k]]

(* Variant: the lookup is kept under another key. *)
AddedElsewhere(reqs, k) ==
  [h \in Hosts |-> IF h = host[k] THEN reqs[h] ELSE reqs[h] \cup {k}]

(* The map after lookup k was made. *)
Added(reqs, k) == [reqs EXCEPT ![host[k]] = @ \cup {k}]

SendDnsTextRequest(k) ==
  /\ k \notin asked
  /\ asked' = asked \cup {k}
  /\ dns_reqs_' = Added(dns_reqs_, k)
  /\ UNCHANGED <<host, results, done, lost>>

OnTextResults(k) ==
  /\ Alive(k) /\ k \notin lost /\ results[k] < MaxResults
  /\ results' = [results EXCEPT ![k] = @ + 1]
  /\ UNCHANGED <<host, asked, dns_reqs_, done, lost>>

(* Variant: the lookups that completed are never erased. *)
EraseNone(reqs, h) == reqs

(* Variant: the whole map is cleared. *)
EraseAll(reqs, h) == [g \in Hosts |-> {}]

(* dns_reqs_.erase(host) *)
Erase(reqs, h) == [reqs EXCEPT ![h] = {}]

(* don_wrap.  The caller's callback comes first; it may make a lookup of   *)
(* its own before the list of the host is erased.                          *)
DonWrap(k) ==
  \/ /\ dns_reqs_' = Erase(dns_reqs_, host[k])
     /\ UNCHANGED asked
  \/ \E next \in Lookups \ asked :
       /\ dns_reqs_' = Erase(Added(dns_reqs_, next), host[k])
       /\ asked' = asked \cup {next}

(* Variant: a completion without any result is ignored. *)
OnCompleteWithResults(k) ==
  /\ Alive(k) /\ k \notin lost /\ done[k] = 0 /\ results[k] > 0
  /\ done' = [done EXCEPT ![k] = @ + 1]
  /\ DonWrap(k)
  /\ UNCHANGED <<host, results, lost>>

OnComplete(k) ==
  /\ Alive(k) /\ k \notin lost /\ done[k] = 0
  /\ done' = [done EXCEPT ![k] = @ + 1]
  /\ DonWrap(k)
  /\ UNCHANGED <<host, results, lost>>

(* The network service goes away; no disconnect handler is set on recv_.   *)
Abandon(k) ==
  /\ Alive(k) /\ k \notin lost
  /\ Cardinality(lost) < MaxLost
  /\ lost' = lost \cup {k}
  /\ UNCHANGED <<host, asked, dns_reqs_, results, done>>

Next ==
  \E k \in Lookups :
    SendDnsTextRequest(k) \/ OnTextResults(k) \/ OnComplete(k) \/ Abandon(k)

(* The resolver completes every call it has not abandoned. *)
Spec == Init /\ [][Next]_vars /\ \A k \in Lookups : WF_vars(OnComplete(k))

-----------------------------------------------------------------------------
(* No object is kept for a lookup that completed: the list of its host     *)
(* goes with it, a lookup made from within its callback included.          *)
NothingKeptAfterDone == \A k \in Lookups : done[k] > 0 => ~Alive(k)

(* A lookup leaves the map only in the step in which a lookup of the same  *)
(* host completes, its own or another's; so does one that is made within   *)
(* that very step.                                                         *)
ErasedByItsHost ==
  [][\A k \in Lookups :
       (k \in asked' /\ ~Alive(k)' /\ (Alive(k) \/ k \notin asked)) =>
          \E j \in Lookups : host[j] = host[k] /\ done'[j] > done[j]]_vars

(* A lookup is not kept waiting for ever: it completes, or it is erased    *)
(* with another of its host, unless the network service abandoned it.      *)
KeptLookupsEnd == \A k \in Lookups : (k \in asked) ~> (~Alive(k) \/ k \in lost)

(* dns_txt_request.h on don: "Callback when res is finished being called.  *)
(* Called once."  A lookup that is destroyed has had its callback run.     *)
DoneCalledOnce == \A k \in Lookups : k \in asked /\ ~Alive(k) => done[k] = 1
=============================================================================
