-------------------------- MODULE BlockHttpRequest --------------------------
(***************************************************************************)
(* HTTP requests to gateways (component/chromium_http.cc and               *)
(* block_http_request.cc).  ChromiumHttp::SendHttpRequest makes a          *)
(* BlockHttpRequest, sends it and returns a canceller that holds it        *)
(* weakly.  The object owns a SimpleURLLoader whose completion callback    *)
(* owns the object: it lives until that callback has run, or until Cancel  *)
(* destroys the loader and the callback in it.                             *)
(*                                                                         *)
(* The SimpleURLLoader is external: it may see one response head, and it   *)
(* runs its completion callback once, at the latest when its timeout       *)
(* expires.                                                                *)
(***************************************************************************)
EXTENDS Naturals, Sequences

CONSTANTS
  Requests,   \* the calls of SendHttpRequest
  Codes,      \* the status codes gateways answer with
  Null        \* no response head; no status line

ASSUME HttpAssumption == Codes \subseteq Nat \ {0} /\ Null \notin [code : Codes, reason : BOOLEAN]

VARIABLES
  object,        \* object[r]: "none", "alive" or "destroyed"
  timer,         \* timer[r]: the loader has a timeout
  info,          \* info[r]: the response head the loader saw (ResponseInfo)
  status_line_,  \* status_line_[r]
  netError,      \* netError[r]: how the loader ended, or "none"
  cancelled,     \* the requests whose canceller was called
  given          \* given[r]: the arguments callback_ was called with, in order

httpVars == <<object, timer, info, status_line_, netError, cancelled, given>>

(* "HTTP/1.1 200 OK" has a reason, "HTTP/1.1 200" has none. *)
StatusLines == [code : Codes, reason : BOOLEAN]
NetErrors   == {"OK", "ERR_TIMED_OUT", "other"}
Statuses    == Codes \cup {0, 200, 408, 500}

HttpTypeOK ==
  /\ object \in [Requests -> {"none", "alive", "destroyed"}]
  /\ timer \in [Requests -> BOOLEAN]
  /\ info \in [Requests -> StatusLines \cup {Null}]
  /\ status_line_ \in [Requests -> StatusLines \cup {Null}]
  /\ netError \in [Requests -> NetErrors \cup {"none"}]
  /\ cancelled \subseteq Requests
  /\ given \in [Requests -> Seq([status : Statuses, body : BOOLEAN])]

HttpInit ==
  /\ object = [r \in Requests |-> "none"]
  /\ timer = [r \in Requests |-> FALSE]
  /\ info = [r \in Requests |-> Null]
  /\ status_line_ = [r \in Requests |-> Null]
  /\ netError = [r \in Requests |-> "none"]
  /\ cancelled = {}
  /\ given = [r \in Requests |-> <<>>]

(* Variant: the loader is given no timeout. *)
SendUntimed(r) ==
  /\ object[r] = "none"
  /\ object' = [object EXCEPT ![r] = "alive"]
  /\ UNCHANGED <<timer, info, status_line_, netError, cancelled, given>>

(* SendHttpRequest, and the Send it calls. *)
Send(r) ==
  /\ object[r] = "none"
  /\ object' = [object EXCEPT ![r] = "alive"]
  /\ timer' = [timer EXCEPT ![r] = TRUE]
  /\ UNCHANGED <<info, status_line_, netError, cancelled, given>>

(* The head of the response arrives.  One without headers is ignored, and  *)
(* is taken for none.                                                      *)
OnResponseHead(r) ==
  /\ object[r] = "alive" /\ info[r] = Null
  /\ \E line \in StatusLines :
       /\ info' = [info EXCEPT ![r] = line]
       /\ status_line_' = [status_line_ EXCEPT ![r] = line]
  /\ UNCHANGED <<object, timer, netError, cancelled, given>>

(* Variant: a timeout is a gateway timeout. *)
GatewayTimeoutStatusOf(err) ==
  CASE err = "OK" -> 200
    [] err = "ERR_TIMED_OUT" -> 504
    [] OTHER -> 500

(* Variant: every error but a timeout is taken for success. *)
LaxStatusOf(err) == IF err = "ERR_TIMED_OUT" THEN 408 ELSE 200

StatusOf(err) ==
  CASE err = "OK" -> 200
    [] err = "ERR_TIMED_OUT" -> 408
    [] OTHER -> 500

(* base::StringToInt of all that follows the first space: it fails on      *)
(* "200 OK", and the status is then 0.                                     *)
ParsedStatus(line) == IF line.reason THEN 0 ELSE line.code

(* OnResponse; the object goes with the shared pointer the callback held.  *)
Complete(r, err, body) ==
  LET line == IF info[r] # Null THEN info[r] ELSE status_line_[r]
      status == IF line = Null THEN StatusOf(err) ELSE ParsedStatus(line)
  IN  /\ object[r] = "alive"
      /\ netError' = [netError EXCEPT ![r] = err]
      /\ status_line_' = [status_line_ EXCEPT ![r] = line]
      /\ given' = [given EXCEPT ![r] = Append(@, [status |-> status, body |-> body])]
      /\ object' = [object EXCEPT ![r] = "destroyed"]
      /\ UNCHANGED <<timer, info, cancelled>>

(* The gateway's response is complete, or the request failed. *)
OnResponse(r) ==
  \/ \E body \in BOOLEAN : Complete(r, "OK", body)
  \/ Complete(r, "other", FALSE)

(* The timeout expires, before or after the head has come. *)
TimesOut(r) == timer[r] /\ Complete(r, "ERR_TIMED_OUT", FALSE)

(* Variant: the canceller forgets the request, and leaves the loader. *)
ForgetOnly(r) ==
  /\ object[r] # "none"
  /\ cancelled' = cancelled \cup {r}
  /\ UNCHANGED <<object, timer, info, status_line_, netError, given>>

(* The canceller: Cancel, if the object is still there. *)
Cancel(r) ==
  /\ object[r] # "none"
  /\ cancelled' = cancelled \cup {r}
  /\ object' = [object EXCEPT ![r] = "destroyed"]
  /\ UNCHANGED <<timer, info, status_line_, netError, given>>

HttpNext ==
  \E r \in Requests :
    Send(r) \/ OnResponseHead(r) \/ OnResponse(r) \/ TimesOut(r) \/ Cancel(r)

(* A timeout that was set expires. *)
HttpSpec ==
  /\ HttpInit /\ [][HttpNext]_httpVars
  /\ \A r \in Requests : WF_httpVars(TimesOut(r))

-----------------------------------------------------------------------------
(* Once its canceller has been called, whether the answer was on its way   *)
(* or not, the library hears no more of a request.                         *)
SilentAfterCancel ==
  [][\A r \in Requests : r \in cancelled => given'[r] = given[r]]_httpVars

(* A request that was sent is answered or was cancelled: a gateway that    *)
(* never answers is given up.                                              *)
EveryRequestEnds ==
  \A r \in Requests : (object[r] # "none") ~> (given[r] # <<>> \/ r \in cancelled)

(* A request that failed or timed out is reported as a success only if    *)
(* the gateway had answered 200 before that; then there is no body.        *)
SuccessIsReal ==
  \A r \in Requests : \A i \in DOMAIN given[r] :
    (given[r][i].status = 200 /\ netError[r] # "OK") =>
       info[r] # Null /\ info[r].code = 200 /\ ~given[r][i].body

(* The status the library is told is the one the gateway answered with,    *)
(* if it answered (the "status=200 + body?" of the design's request flow). *)
StatusAsAnswered ==
  \A r \in Requests : \A i \in DOMAIN given[r] :
    info[r] # Null => given[r][i].status = info[r].code
=============================================================================
