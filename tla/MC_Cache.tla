------------------------------ MODULE MC_Cache ------------------------------
(* Instances of CacheRequestor for model checking. *)
EXTENDS CacheProperties

CONSTANTS r1, r2, r3, k1, k2

(* Every request asks for the same key. *)
SameKeyOf == [r \in Requests |-> k1]

(* r2 asks for a key of its own. *)
TwoKeysOf == [r \in Requests |-> IF r = r2 THEN k2 ELSE k1]

(* r3, where there is one, fetches a CAR; the others are cachable. *)
CarKindOf == [r \in Requests |-> IF r = r3 THEN "car" ELSE "cachable"]

(* r3, where there is one, is not cachable; the others are. *)
PlainKindOf == [r \in Requests |-> IF r = r3 THEN "other" ELSE "cachable"]

(* Every request is cachable. *)
AllCachable == [r \in Requests |-> "cachable"]
=============================================================================
