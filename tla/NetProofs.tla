----------------------------- MODULE NetProofs -----------------------------
(***************************************************************************)
(* Proofs about DnsTxtLookup, for any lookups, hosts and bounds, and about *)
(* BlockHttpRequest, for any requests and status codes: the two adapters   *)
(* by which the client library reaches the network.                        *)
(***************************************************************************)
EXTENDS DnsTxtLookup, BlockHttpRequest, SequenceTheorems, TLAPS

(* DNS TXT lookups *)

(* Only lookups that were made complete.  Without it a lookup could be     *)
(* made, and kept, after it completed.                                     *)
DoneWereAsked == \A k \in Lookups : done[k] > 0 => k \in asked

Inv == TypeOK /\ DoneWereAsked /\ NothingKeptAfterDone

LEMMA InitInv == Init => Inv
BY DnsAssumption DEF Init, Inv, TypeOK, DoneWereAsked, NothingKeptAfterDone, Alive

(* After don_wrap of lookup k, the list of its host is empty, every other  *)
(* list has what it had and perhaps a lookup that had not been made.       *)
LEMMA DonWrapEffect ==
  ASSUME TypeOK, NEW k \in Lookups, DonWrap(k)
  PROVE  /\ dns_reqs_' \in [Hosts -> SUBSET asked']
         /\ asked \subseteq asked' /\ asked' \subseteq Lookups
         /\ dns_reqs_'[host[k]] = {}
         /\ \A h \in Hosts \ {host[k]} :
              /\ dns_reqs_[h] \subseteq dns_reqs_'[h]
              /\ \A j \in dns_reqs_'[h] \ dns_reqs_[h] : j \in Lookups \ asked /\ host[j] = h
         /\ \A j \in asked' \ asked : host[j] # host[k] => j \in dns_reqs_'[host[j]]
<1> USE DEF TypeOK
<1>1. CASE dns_reqs_' = Erase(dns_reqs_, host[k]) /\ UNCHANGED asked
  BY <1>1 DEF Erase
<1>2. ASSUME NEW next \in Lookups \ asked,
             dns_reqs_' = Erase(Added(dns_reqs_, next), host[k]),
             asked' = asked \cup {next}
      PROVE  /\ dns_reqs_' \in [Hosts -> SUBSET asked']
             /\ asked \subseteq asked' /\ asked' \subseteq Lookups
             /\ dns_reqs_'[host[k]] = {}
             /\ \A h \in Hosts \ {host[k]} :
                  /\ dns_reqs_[h] \subseteq dns_reqs_'[h]
                  /\ \A j \in dns_reqs_'[h] \ dns_reqs_[h] : j \in Lookups \ asked /\ host[j] = h
             /\ \A j \in asked' \ asked : host[j] # host[k] => j \in dns_reqs_'[host[j]]
  <2>1. host[k] \in Hosts /\ host[next] \in Hosts
    OBVIOUS
  <2>2. \A h \in Hosts : dns_reqs_'[h] =
          IF h = host[k] THEN {}
          ELSE IF h = host[next] THEN dns_reqs_[h] \cup {next} ELSE dns_reqs_[h]
    BY <1>2, <2>1 DEF Erase, Added
  <2>3. dns_reqs_' \in [Hosts -> SUBSET asked']
    BY <1>2, <2>1 DEF Erase, Added
  <2> QED
    BY <1>2, <2>1, <2>2, <2>3
<1> QED
  BY <1>1, <1>2 DEF DonWrap

LEMMA NextInv == Inv /\ [Next]_vars => Inv'
<1> SUFFICES ASSUME Inv, [Next]_vars PROVE Inv'
  OBVIOUS
<1> USE DnsAssumption DEF Inv
<1>1. ASSUME NEW k \in Lookups, SendDnsTextRequest(k) PROVE Inv'
  BY <1>1 DEF SendDnsTextRequest, Added, TypeOK, DoneWereAsked, NothingKeptAfterDone, Alive
<1>2. ASSUME NEW k \in Lookups, OnTextResults(k) PROVE Inv'
  BY <1>2 DEF OnTextResults, TypeOK, DoneWereAsked, NothingKeptAfterDone, Alive
<1>3. ASSUME NEW k \in Lookups, OnComplete(k) PROVE Inv'
  <2>1. /\ done' = [done EXCEPT ![k] = @ + 1] /\ done[k] = 0 /\ DonWrap(k) /\ k \in asked
        /\ UNCHANGED <<host, results, lost>>
    BY <1>3 DEF OnComplete, Alive, TypeOK
  <2>2. done' \in [Lookups -> 0..1]
    BY <2>1 DEF TypeOK
  <2>3. TypeOK'
    <3>1. \A h \in Hosts : \A j \in dns_reqs_'[h] : host[j] = h
      BY <2>1, DonWrapEffect DEF TypeOK
    <3> QED
      BY <2>1, <2>2, <3>1, DonWrapEffect DEF TypeOK
  <2>4. DoneWereAsked'
    BY <2>1, DonWrapEffect DEF DoneWereAsked, TypeOK
  <2>5. NothingKeptAfterDone'
    <3> SUFFICES ASSUME NEW j \in Lookups, done'[j] > 0 PROVE j \notin dns_reqs_'[host[j]]
      BY <2>1 DEF NothingKeptAfterDone, Alive
    <3>1. CASE host[j] = host[k]
      BY <3>1, <2>1, DonWrapEffect
    <3>2. CASE host[j] # host[k]
      <4>1. done[j] > 0 /\ host[j] \in Hosts /\ j \in asked /\ j \notin dns_reqs_[host[j]]
        BY <3>2, <2>1 DEF TypeOK, DoneWereAsked, NothingKeptAfterDone, Alive
      <4> QED
        BY <4>1, <3>2, <2>1, DonWrapEffect
    <3> QED
      BY <3>1, <3>2
  <2> QED
    BY <2>3, <2>4, <2>5
<1>4. ASSUME NEW k \in Lookups, Abandon(k) PROVE Inv'
  BY <1>4 DEF Abandon, TypeOK, DoneWereAsked, NothingKeptAfterDone, Alive
<1>5. CASE UNCHANGED vars
  BY <1>5 DEF vars, TypeOK, DoneWereAsked, NothingKeptAfterDone, Alive
<1> QED
  BY <1>1, <1>2, <1>3, <1>4, <1>5 DEF Next

LEMMA AlwaysInv == Spec => []Inv
BY InitInv, NextInv, PTL DEF Spec

(* The variables keep their types: a list holds lookups of its own host,   *)
(* and no completion callback is run twice.                                *)
THEOREM TypeCorrect == Spec => []TypeOK
BY AlwaysInv, PTL DEF Inv

(* No object is kept for a lookup that completed. *)
THEOREM NothingKept == Spec => []NothingKeptAfterDone
BY AlwaysInv, PTL DEF Inv

(* Lookups leave the map only when one of their host completes. *)
THEOREM OnlyByItsHost == Spec => ErasedByItsHost
<1> DEFINE Erased(k) == k \in asked' /\ ~Alive(k)' /\ (Alive(k) \/ k \notin asked)
           Completes(h) == \E j \in Lookups : host[j] = h /\ done'[j] > done[j]
<1>1. ASSUME Inv, [Next]_vars
      PROVE  [\A k \in Lookups : Erased(k) => Completes(host[k])]_vars
  <2> SUFFICES ASSUME Next, NEW k \in Lookups, Erased(k) PROVE Completes(host[k])
    BY <1>1
  <2>1. ASSUME NEW j \in Lookups, SendDnsTextRequest(j) PROVE FALSE
    BY <1>1, <2>1 DEF Inv, TypeOK, SendDnsTextRequest, Added, Alive
  <2>2. ASSUME NEW j \in Lookups, OnTextResults(j) \/ Abandon(j) PROVE FALSE
    BY <1>1, <2>2 DEF Inv, TypeOK, OnTextResults, Abandon, Alive
  <2>3. ASSUME NEW j \in Lookups, OnComplete(j) PROVE Completes(host[k])
    <3>1. done'[j] > done[j]
      BY <1>1, <2>3 DEF OnComplete, Inv, TypeOK
    <3>2. host[k] = host[j]
      BY <1>1, <2>3, DonWrapEffect DEF OnComplete, Inv, TypeOK, Alive
    <3> QED
      BY <3>1, <3>2
  <2> QED
    BY <2>1, <2>2, <2>3 DEF Next
<1> QED
  BY <1>1, AlwaysInv, PTL DEF Spec, ErasedByItsHost
----------------------------------------------------------------------------
(* Gateway HTTP requests *)

USE DEF HttpAssumption

(* A request answers as it goes away, and the line it reports is that of   *)
(* the head the loader saw.                                                *)
AnsweredOnce ==
  \A r \in Requests :
    /\ status_line_[r] = info[r]
    /\ object[r] # "destroyed" => given[r] = <<>>
    /\ r \in cancelled => object[r] = "destroyed"

HttpInv == HttpTypeOK /\ AnsweredOnce /\ SuccessIsReal

Answers == Seq([status : Statuses, body : BOOLEAN])

(* What a gateway's line is parsed to.                                      *)
LEMMA ParsedIsStatus ==
  ASSUME NEW line \in StatusLines
  PROVE  ParsedStatus(line) \in Statuses
BY DEF ParsedStatus, Statuses, StatusLines

(* The completion callback, whatever ended the loader.                     *)
LEMMA CompleteKeeps ==
  ASSUME HttpInv, NEW r \in Requests, NEW err \in NetErrors, NEW body \in BOOLEAN,
         err # "OK" => ~body, Complete(r, err, body)
  PROVE  HttpInv'
<1> USE DEF HttpInv
<1> DEFINE line == IF info[r] # Null THEN info[r] ELSE status_line_[r]
           status == IF line = Null THEN StatusOf(err) ELSE ParsedStatus(line)
           answer == [status |-> status, body |-> body]
<1>1. /\ object[r] = "alive"
      /\ netError' = [netError EXCEPT ![r] = err]
      /\ status_line_' = [status_line_ EXCEPT ![r] = line]
      /\ given' = [given EXCEPT ![r] = Append(given[r], answer)]
      /\ object' = [object EXCEPT ![r] = "destroyed"]
      /\ UNCHANGED <<timer, info, cancelled>>
  BY DEF Complete
<1>2. line = info[r] /\ line \in StatusLines \cup {Null}
  BY DEF AnsweredOnce, HttpTypeOK
<1>3. answer \in [status : Statuses, body : BOOLEAN]
  <2> HIDE DEF line
  <2>1. status \in Statuses
    <3>1. CASE line = Null
      BY <3>1 DEF StatusOf, Statuses, NetErrors
    <3>2. CASE line # Null
      <4>1. line \in StatusLines
        BY <3>2, <1>2
      <4>2. ParsedStatus(line) \in Statuses
        BY <4>1, ParsedIsStatus
      <4> QED
        BY <3>2, <4>2
    <3> QED
      BY <3>1, <3>2
  <2> QED
    BY <2>1
<1>4. given[r] = <<>> /\ given \in [Requests -> Answers]
  BY <1>1 DEF AnsweredOnce, HttpTypeOK, Answers
<1>5. Append(given[r], answer) = <<answer>>
  BY <1>4
<1> HIDE DEF answer, line
<1>6. <<answer>> \in Answers
  BY <1>3 DEF Answers
<1>7. given' \in [Requests -> Answers]
  BY <1>1, <1>4, <1>5, <1>6
<1>8. HttpTypeOK'
  BY <1>1, <1>2, <1>7 DEF HttpTypeOK, Answers
<1>9. AnsweredOnce'
  <2> SUFFICES ASSUME NEW s \in Requests
               PROVE  /\ status_line_'[s] = info'[s]
                      /\ object'[s] # "destroyed" => given'[s] = <<>>
                      /\ s \in cancelled' => object'[s] = "destroyed"
    BY DEF AnsweredOnce
  <2>1. CASE s = r
    BY <2>1, <1>1, <1>2 DEF HttpTypeOK
  <2>2. CASE s # r
    BY <2>2, <1>1 DEF HttpTypeOK, AnsweredOnce
  <2> QED
    BY <2>1, <2>2
<1>10. SuccessIsReal'
  <2> SUFFICES ASSUME NEW s \in Requests, NEW i \in DOMAIN given'[s],
                      given'[s][i].status = 200, netError'[s] # "OK"
               PROVE  info'[s] # Null /\ info'[s].code = 200 /\ ~given'[s][i].body
    BY DEF SuccessIsReal
  <2>1. CASE s = r
    <3>1. given'[r] = <<answer>> /\ netError'[r] = err
      BY <1>1, <1>4, <1>5 DEF HttpTypeOK
    <3>2. i = 1 /\ given'[s][i] = answer
      BY <2>1, <3>1
    <3>3. answer.status = 200 /\ err # "OK"
      BY <2>1, <3>1, <3>2
    <3>4. answer.status = (IF line = Null THEN StatusOf(err) ELSE ParsedStatus(line)) /\ answer.body = body
      BY DEF answer
    <3>5. line # Null
      BY <3>3, <3>4 DEF StatusOf, NetErrors
    <3>6. ParsedStatus(line) = 200
      BY <3>3, <3>4, <3>5
    <3>7. line.code = 200
      BY <3>6, <3>5, <1>2 DEF ParsedStatus, StatusLines
    <3> QED
      BY <2>1, <1>1, <1>2, <3>2, <3>3, <3>4, <3>5, <3>7
  <2>2. CASE s # r
    <3>1. given'[s] = given[s] /\ netError'[s] = netError[s] /\ info' = info
      BY <2>2, <1>1 DEF HttpTypeOK
    <3> QED
      BY <3>1 DEF SuccessIsReal
  <2> QED
    BY <2>1, <2>2
<1> QED
  BY <1>8, <1>9, <1>10

LEMMA HttpInitial == HttpInit => HttpInv
BY DEF HttpInit, HttpInv, HttpTypeOK, AnsweredOnce, SuccessIsReal, StatusLines, NetErrors

LEMMA HttpInductive == HttpInv /\ [HttpNext]_httpVars => HttpInv'
<1> SUFFICES ASSUME HttpInv, [HttpNext]_httpVars
             PROVE  HttpInv'
  OBVIOUS
<1>1. ASSUME NEW r \in Requests, Send(r)
      PROVE  HttpInv'
  <2>1. HttpTypeOK'
    BY <1>1 DEF Send, HttpInv, HttpTypeOK
  <2>2. AnsweredOnce'
    BY <1>1 DEF Send, HttpInv, HttpTypeOK, AnsweredOnce
  <2>3. SuccessIsReal'
    BY <1>1 DEF Send, HttpInv, SuccessIsReal
  <2> QED
    BY <2>1, <2>2, <2>3 DEF HttpInv
<1>2. ASSUME NEW r \in Requests, OnResponseHead(r)
      PROVE  HttpInv'
  <2>1. HttpTypeOK'
    <3>1. PICK line \in StatusLines :
            /\ info' = [info EXCEPT ![r] = line]
            /\ status_line_' = [status_line_ EXCEPT ![r] = line]
      BY <1>2 DEF OnResponseHead
    <3>2. /\ info' \in [Requests -> StatusLines \cup {Null}]
          /\ status_line_' \in [Requests -> StatusLines \cup {Null}]
      BY <3>1 DEF HttpInv, HttpTypeOK
    <3> QED
      BY <1>2, <3>2 DEF OnResponseHead, HttpInv, HttpTypeOK
  <2>2. AnsweredOnce'
    BY <1>2 DEF OnResponseHead, HttpInv, HttpTypeOK, AnsweredOnce
  <2>3. given[r] = <<>>
    BY <1>2 DEF OnResponseHead, HttpInv, HttpTypeOK, AnsweredOnce
  <2>4. \A s \in Requests : s # r => info'[s] = info[s]
    BY <1>2 DEF OnResponseHead, HttpInv, HttpTypeOK
  <2>5. given' = given /\ netError' = netError
    BY <1>2 DEF OnResponseHead
  <2>6. SuccessIsReal'
    BY <2>3, <2>4, <2>5 DEF HttpInv, SuccessIsReal
  <2> QED
    BY <2>1, <2>2, <2>6 DEF HttpInv
<1>3. ASSUME NEW r \in Requests, OnResponse(r)
      PROVE  HttpInv'
  <2>1. ASSUME NEW body \in BOOLEAN, Complete(r, "OK", body)
        PROVE  HttpInv'
    BY <2>1, CompleteKeeps DEF NetErrors
  <2>2. ASSUME Complete(r, "other", FALSE)
        PROVE  HttpInv'
    BY <2>2, CompleteKeeps DEF NetErrors
  <2> QED
    BY <1>3, <2>1, <2>2 DEF OnResponse
<1>4. ASSUME NEW r \in Requests, TimesOut(r)
      PROVE  HttpInv'
  BY <1>4, CompleteKeeps DEF TimesOut, NetErrors
<1>5. ASSUME NEW r \in Requests, Cancel(r)
      PROVE  HttpInv'
  <2>1. HttpTypeOK'
    BY <1>5 DEF Cancel, HttpInv, HttpTypeOK
  <2>2. AnsweredOnce'
    BY <1>5 DEF Cancel, HttpInv, HttpTypeOK, AnsweredOnce
  <2>3. SuccessIsReal'
    BY <1>5 DEF Cancel, HttpInv, SuccessIsReal
  <2> QED
    BY <2>1, <2>2, <2>3 DEF HttpInv
<1>6. CASE UNCHANGED httpVars
  BY <1>6 DEF httpVars, HttpInv, HttpTypeOK, AnsweredOnce, SuccessIsReal
<1> QED
  BY <1>1, <1>2, <1>3, <1>4, <1>5, <1>6 DEF HttpNext

LEMMA HttpInvariant == HttpSpec => []HttpInv
BY HttpInitial, HttpInductive, PTL DEF HttpSpec

(* Every variable keeps its type; what the library is told is a status.    *)
THEOREM HttpTypeCorrect == HttpSpec => []HttpTypeOK
BY HttpInvariant, PTL DEF HttpInv

(* A request that failed passes for a success only after a 200 head, and   *)
(* without a body (BlockHttpRequest::OnResponse).                          *)
THEOREM FailureTold == HttpSpec => []SuccessIsReal
BY HttpInvariant, PTL DEF HttpInv

(* After the canceller has run, nothing is reported.                       *)
THEOREM CancelledIsSilent == HttpSpec => SilentAfterCancel
<1>1. ASSUME HttpInv, [HttpNext]_httpVars
      PROVE  [\A r \in Requests : r \in cancelled => given'[r] = given[r]]_httpVars
  <2> SUFFICES ASSUME NEW r \in Requests, r \in cancelled
               PROVE  given'[r] = given[r]
    OBVIOUS
  <2>1. object[r] = "destroyed"
    BY <1>1 DEF HttpInv, AnsweredOnce
  <2>2. ASSUME NEW s \in Requests, NEW err, NEW body, Complete(s, err, body)
        PROVE  given'[r] = given[r]
    BY <2>1, <2>2 DEF Complete
  <2>3. CASE UNCHANGED httpVars
    BY <2>3 DEF httpVars
  <2>4. ASSUME NEW s \in Requests, Send(s) \/ OnResponseHead(s) \/ Cancel(s)
        PROVE  given'[r] = given[r]
    BY <2>4 DEF Send, OnResponseHead, Cancel
  <2>5. ASSUME NEW s \in Requests, OnResponse(s) \/ TimesOut(s)
        PROVE  given'[r] = given[r]
    BY <2>2, <2>5 DEF OnResponse, TimesOut
  <2> QED
    BY <1>1, <2>3, <2>4, <2>5 DEF HttpNext
<1> QED
  BY HttpInvariant, <1>1, PTL DEF HttpSpec, SilentAfterCancel
=============================================================================
