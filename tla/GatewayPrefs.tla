---------------------------- MODULE GatewayPrefs ----------------------------
(***************************************************************************)
(* The gateway configuration kept in the profile's preferences             *)
(* (ChromiumIpfsGatewayConfig in component/preferences.cc).  The client    *)
(* library changes rates in curr_, in memory.  A copy of it is posted to   *)
(* the UI thread to be saved only when the rates have changed often enough *)
(* and by enough since the last copy, last_, was taken.                    *)
(*                                                                         *)
(* A gateway's dictionary is a record of its rate and of one affinity that *)
(* stands for all request types.  Rates are far below INT_MAX.  The        *)
(* preference service and the task queue of the UI thread are external.    *)
(***************************************************************************)
EXTENDS Naturals, Sequences, FiniteSets

CONSTANTS
  Gateways,     \* URL prefixes
  Affinities,   \* values of a type affinity
  Registered,   \* the default of RegisterPreferences
  MaxRate,      \* bound on rates
  MaxThresh     \* bound on update_thresh: saves in one session, plus 1

Settings == [rate : 0..MaxRate, affinity : Affinities]
Dicts    == UNION {[S -> Settings] : S \in SUBSET Gateways}

ASSUME GatewayAssumption ==
  /\ IsFiniteSet(Gateways) /\ 0 \in Affinities
  /\ MaxRate \in Nat /\ MaxThresh \in Nat \ {0}
  /\ Registered \in Dicts

VARIABLES
  curr_,          \* the configuration in use
  last_,          \* the copy taken at the last save
  changes,        \* rate changes counted since
  update_thresh,  \* what they have to exceed
  posted,         \* tasks posted to the UI thread, the dictionaries in them
  prefs,          \* what the preference service holds
  over            \* history: rate changes, without a save, that left curr_
                  \* more than update_thresh away from last_

vars == <<curr_, last_, changes, update_thresh, posted, prefs, over>>

TypeOK ==
  /\ curr_ \in Dicts /\ last_ \in Dicts /\ prefs \in Dicts
  /\ changes \in Nat /\ update_thresh \in Nat \ {0} /\ over \in Nat
  /\ posted \in Seq(Dicts)

Init ==
  /\ prefs = Registered
  /\ curr_ = prefs /\ last_ = prefs
  /\ changes = 0 /\ update_thresh = 1
  /\ posted = <<>> /\ over = 0

RateIn(d, g) == IF g \in DOMAIN d THEN d[g].rate ELSE 0

(* Variant: what went up and what came down cancel out. *)
NetDelta(c, p) ==
  LET Total(d) == Cardinality(UNION {{g} \X (1..RateIn(d, g)) : g \in DOMAIN c})
  IN  IF Total(c) > Total(p) THEN Total(c) - Total(p) ELSE Total(p) - Total(c)

(* The units of rate by which a gateway differs in the two dictionaries. *)
Between(a, b) == {n \in 1..MaxRate : (n <= a) # (n <= b)}

UnitsApart(c, p) ==
  UNION {{g} \X Between(RateIn(c, g), RateIn(p, g)) : g \in DOMAIN c}

(* delta(): the absolute differences, summed over the gateways of curr_.   *)
Delta(c, p) == Cardinality(UnitsApart(c, p))

(* Variant: what is posted is the copy of the save before. *)
SaveStale(c) ==
  /\ last_' = c
  /\ changes' = 0
  /\ update_thresh' = update_thresh + 1
  /\ posted' = Append(posted, last_)

(* save() *)
Save(c) ==
  /\ last_' = c
  /\ changes' = 0
  /\ update_thresh' = update_thresh + 1
  /\ posted' = Append(posted, c)

(* The end of SetGatewayRate, for the configuration c it made.             *)
CountChange(c) ==
  \/ /\ changes + 1 <= update_thresh
     /\ changes' = changes + 1
     /\ UNCHANGED <<last_, update_thresh, posted>>
  \/ /\ changes + 1 > update_thresh
     /\ Delta(c, last_) > update_thresh
     /\ Save(c)
  \/ /\ changes + 1 > update_thresh
     /\ Delta(c, last_) <= update_thresh
     /\ changes' = Delta(c, last_) \div 2
     /\ UNCHANGED <<last_, update_thresh, posted>>

(* The rate changes no save has followed, while they leave c far away.     *)
CountOver(c) ==
  over' = IF Cardinality(UnitsApart(c, last_')) > update_thresh' THEN over + 1 ELSE 0

(* Variant: a known gateway's rate grows by the rate given. *)
AddedByRate(d, g, r) ==
  IF g \in DOMAIN d
  THEN [d EXCEPT ![g].rate = @ + r]
  ELSE [h \in DOMAIN d \cup {g} |->
          IF h = g THEN [rate |-> r, affinity |-> 0] ELSE d[h]]

(* Variant: the new gateway is all that is left. *)
AddedAlone(d, g, r) ==
  IF g \in DOMAIN d
  THEN [d EXCEPT ![g].rate = @ + 1]
  ELSE [h \in {g} |-> [rate |-> r, affinity |-> 0]]

(* AddGateway: a known gateway is used a little more. *)
Added(d, g, r) ==
  IF g \in DOMAIN d
  THEN [d EXCEPT ![g].rate = @ + 1]
  ELSE [h \in DOMAIN d \cup {g} |->
          IF h = g THEN [rate |-> r, affinity |-> 0] ELSE d[h]]

AddGateway(g, r) ==
  /\ RateIn(curr_, g) < MaxRate
  /\ curr_' = Added(curr_, g, r)
  /\ UNCHANGED <<last_, changes, update_thresh, posted, prefs, over>>

SetGatewayRate(g, val) ==
  \/ g \notin DOMAIN curr_ /\ AddGateway(g, val)
  \/ /\ g \in DOMAIN curr_ /\ update_thresh < MaxThresh
     /\ curr_' = [curr_ EXCEPT ![g].rate = val]
     /\ CountChange(curr_')
     /\ CountOver(curr_')
     /\ UNCHANGED prefs

SetTypeAffinity(g, val) ==
  /\ g \in DOMAIN curr_
  /\ curr_' = [curr_ EXCEPT ![g].affinity = val]
  /\ UNCHANGED <<last_, changes, update_thresh, posted, prefs, over>>

(* The UI thread runs the task that calls SetDict. *)
RunTask ==
  /\ posted # <<>>
  /\ prefs' = Head(posted)
  /\ posted' = Tail(posted)
  /\ UNCHANGED <<curr_, last_, changes, update_thresh, over>>

(* The browser goes down with its tasks, and comes back with what the      *)
(* preference service held.                                                *)
Restart ==
  /\ curr_' = prefs /\ last_' = prefs
  /\ changes' = 0 /\ update_thresh' = 1
  /\ posted' = <<>> /\ over' = 0
  /\ UNCHANGED prefs

Next ==
  \/ \E g \in Gateways : \E val \in 0..MaxRate :
       AddGateway(g, val) \/ SetGatewayRate(g, val)
  \/ \E g \in Gateways : \E val \in Affinities : SetTypeAffinity(g, val)
  \/ RunTask
  \/ Restart

Spec == Init /\ [][Next]_vars

-----------------------------------------------------------------------------
(* Rates that are far from what was saved do not stay unsaved: of the rate *)
(* changes that leave them more than update_thresh away, update_thresh may *)
(* pass without a save, and the next one saves.                            *)
BigChangesAreSaved == over <= update_thresh

(* The last copy taken, which later changes are measured against, is the   *)
(* one the preferences hold once the posted tasks have run: a restart that *)
(* loses none of them comes back to it.                                    *)
LastIsWhatGetsSaved ==
  last_ = IF posted = <<>> THEN prefs ELSE posted[Len(posted)]

(* What the preferences hold, what is on its way there and what is in use  *)
(* list ever more gateways, so that no save takes one out of the           *)
(* preferences. Those that were not saved end with the browser.            *)
GatewaysOnlyGrow ==
  LET stages == <<prefs>> \o posted \o <<curr_>>
  IN  \A i, j \in DOMAIN stages : i <= j => DOMAIN stages[i] \subseteq DOMAIN stages[j]
=============================================================================
