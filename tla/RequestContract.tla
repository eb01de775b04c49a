--------------------------- MODULE RequestContract ---------------------------
(***************************************************************************)
(* What the chain of requestors relies on: a request that a requestor      *)
(* takes is answered by it or passed on by it, never both and never twice, *)
(* and one it does not take is passed on at once.  Only the end of the     *)
(* process can leave a request with neither.                               *)
(***************************************************************************)
CONSTANT Requests

VARIABLE status

Statuses == {"new", "pending", "passed", "answered", "lost"}

TypeOK == status \in [Requests -> Statuses]

Init == status = [r \in Requests |-> "new"]

Move(r, from, to) ==
  /\ status[r] \in from
  /\ status' = [status EXCEPT ![r] = to]

Take(r)   == Move(r, {"new"}, "pending")
PassOn(r) == Move(r, {"new", "pending"}, "passed")
Answer(r) == Move(r, {"pending"}, "answered")

(* The process ends. *)
LoseAll ==
  status' = [r \in Requests |->
               IF status[r] = "pending" THEN "lost" ELSE status[r]]

Next == LoseAll \/ \E r \in Requests : Take(r) \/ PassOn(r) \/ Answer(r)

Spec == Init /\ [][Next]_status

(* A request that was taken does not stay pending. *)
Settles == \A r \in Requests : status[r] = "pending" ~> status[r] # "pending"
=============================================================================
