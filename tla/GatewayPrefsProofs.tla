------------------------- MODULE GatewayPrefsProofs -------------------------
(***************************************************************************)
(* Proofs about GatewayPrefs, for any gateways, rates and bounds.          *)
(***************************************************************************)
EXTENDS GatewayPrefs, FiniteSetTheorems, SequenceTheorems, TLAPS

(* The rate changes that could have been far away are among those counted, *)
(* and the count does not pass the threshold.                              *)
Counted == over <= changes /\ changes <= update_thresh

Inv == TypeOK /\ Counted /\ LastIsWhatGetsSaved

(* A distance is a natural number: the units of rate are finitely many.    *)
LEMMA DeltaType ==
  ASSUME NEW c \in Dicts, NEW p \in Dicts
  PROVE  Delta(c, p) \in Nat
<1>1. UnitsApart(c, p) \subseteq Gateways \X (1..MaxRate)
  BY DEF UnitsApart, Between, Dicts
<1>2. IsFiniteSet(Gateways \X (1..MaxRate))
  <2>1. IsFiniteSet(Gateways) /\ MaxRate \in Int /\ 1 \in Int
    BY GatewayAssumption DEF GatewayAssumption
  <2>2. IsFiniteSet(1..MaxRate)
    BY <2>1, FS_Interval
  <2> QED
    BY <2>1, <2>2, FS_Product
<1> QED
  BY <1>1, <1>2, FS_Subset, FS_CardinalityType DEF Delta

(* A dictionary is as far from itself as nothing is. *)
LEMMA DeltaSelf ==
  ASSUME NEW c \in Dicts
  PROVE  Cardinality(UnitsApart(c, c)) = 0
<1>1. UnitsApart(c, c) = {}
  BY DEF UnitsApart, Between
<1> QED
  BY <1>1, FS_EmptySet

LEMMA DictsGrow ==
  ASSUME NEW d \in Dicts, NEW g \in Gateways, NEW r \in 0..MaxRate, RateIn(d, g) < MaxRate
  PROVE  Added(d, g, r) \in Dicts
<1> USE GatewayAssumption DEF GatewayAssumption
<1>1. PICK S \in SUBSET Gateways : d \in [S -> Settings]
  BY DEF Dicts
<1>2. CASE g \in DOMAIN d
  <2>1. d[g].rate + 1 \in 0..MaxRate /\ d[g] \in Settings
    BY <1>1, <1>2 DEF RateIn, Settings
  <2>2. [d[g] EXCEPT !.rate = d[g].rate + 1] \in Settings
    BY <2>1 DEF Settings
  <2>3. Added(d, g, r) \in [S -> Settings]
    BY <1>1, <1>2, <2>2 DEF Added
  <2> QED
    BY <2>3 DEF Dicts
<1>3. CASE g \notin DOMAIN d
  <2>1. [rate |-> r, affinity |-> 0] \in Settings
    BY DEF Settings
  <2>2. Added(d, g, r) \in [S \cup {g} -> Settings]
    BY <1>1, <1>3, <2>1 DEF Added
  <2>3. S \cup {g} \in SUBSET Gateways
    BY <1>1
  <2> QED
    BY <2>2, <2>3 DEF Dicts
<1> QED
  BY <1>2, <1>3

LEMMA DictsChange ==
  ASSUME NEW d \in Dicts, NEW g \in DOMAIN d
  PROVE  /\ \A val \in 0..MaxRate : [d EXCEPT ![g].rate = val] \in Dicts
         /\ \A val \in Affinities : [d EXCEPT ![g].affinity = val] \in Dicts
<1>1. PICK S \in SUBSET Gateways : d \in [S -> Settings]
  BY DEF Dicts
<1>2. d[g] \in Settings
  BY <1>1
<1>3. /\ \A val \in 0..MaxRate : [d[g] EXCEPT !.rate = val] \in Settings
      /\ \A val \in Affinities : [d[g] EXCEPT !.affinity = val] \in Settings
  BY <1>2 DEF Settings
<1>4. /\ \A val \in 0..MaxRate : [d EXCEPT ![g].rate = val] \in [S -> Settings]
      /\ \A val \in Affinities : [d EXCEPT ![g].affinity = val] \in [S -> Settings]
  BY <1>1, <1>3
<1> QED
  BY <1>4 DEF Dicts

LEMMA InitInv == Init => Inv
BY GatewayAssumption DEF GatewayAssumption, Init, Inv, TypeOK, Counted, LastIsWhatGetsSaved

(* What counting a rate change, and saving if it is time, does. *)
LEMMA CountKeeps ==
  ASSUME Inv, NEW c \in Dicts, CountChange(c), CountOver(c)
  PROVE  /\ last_' \in Dicts /\ posted' \in Seq(Dicts)
         /\ changes' \in Nat /\ update_thresh' \in Nat \ {0} /\ over' \in Nat
         /\ over' <= changes' /\ changes' <= update_thresh'
         /\ last_' = IF posted' = <<>> THEN prefs ELSE posted'[Len(posted')]
<1> DEFINE d == Delta(c, last_)
<1>a. /\ changes \in Nat /\ update_thresh \in Nat \ {0} /\ over \in Nat
      /\ over <= changes /\ changes <= update_thresh
      /\ last_ \in Dicts /\ posted \in Seq(Dicts)
  BY DEF Inv, TypeOK, Counted
<1>b. last_ = IF posted = <<>> THEN prefs ELSE posted[Len(posted)]
  BY DEF Inv, LastIsWhatGetsSaved
<1>c. d \in Nat
  BY <1>a, DeltaType
<1>1. CASE /\ changes + 1 <= update_thresh /\ changes' = changes + 1
           /\ UNCHANGED <<last_, update_thresh, posted>>
  <2>1. over' \in {0, over + 1}
    BY DEF CountOver
  <2>2. /\ changes' \in Nat /\ update_thresh' \in Nat \ {0} /\ over' \in Nat
        /\ over' <= changes' /\ changes' <= update_thresh'
    <3> HIDE DEF d
    <3> QED BY <1>a, <1>1, <2>1
  <2> QED
    BY <1>a, <1>b, <1>1, <2>2
<1>2. CASE Save(c)
  <2>1. over' = 0
    <3>1. Cardinality(UnitsApart(c, last_')) = 0 /\ update_thresh' = update_thresh + 1
      BY <1>2, DeltaSelf DEF Save
    <3> QED
      BY <3>1, <1>a DEF CountOver
  <2>2. /\ posted' \in Seq(Dicts) /\ posted' # <<>> /\ posted'[Len(posted')] = c
    <3>1. posted' = Append(posted, c)
      BY <1>2 DEF Save
    <3>2. /\ Append(posted, c) \in Seq(Dicts) /\ Append(posted, c) # <<>>
          /\ Len(Append(posted, c)) = Len(posted) + 1
          /\ Append(posted, c)[Len(posted) + 1] = c
      BY <1>a, AppendProperties
    <3> QED
      BY <3>1, <3>2
  <2>3. /\ changes' = 0 /\ update_thresh' = update_thresh + 1 /\ last_' = c
    BY <1>2 DEF Save
  <2>4. /\ changes' \in Nat /\ update_thresh' \in Nat \ {0} /\ over' \in Nat
        /\ over' <= changes' /\ changes' <= update_thresh'
    BY <1>a, <2>1, <2>3
  <2> QED
    BY <2>2, <2>3, <2>4
<1>3. CASE /\ d <= update_thresh /\ changes' = d \div 2
           /\ UNCHANGED <<last_, update_thresh, posted>>
  <2>1. over' = 0
    <3>1. ~(Cardinality(UnitsApart(c, last_')) > update_thresh')
      BY <1>3, <1>c, <1>a DEF Delta
    <3> QED
      BY <3>1 DEF CountOver
  <2>2. d \div 2 \in Nat /\ d \div 2 <= d
    <3> HIDE DEF d
    <3> QED BY <1>c
  <2>3. /\ changes' \in Nat /\ update_thresh' \in Nat \ {0} /\ over' \in Nat
        /\ over' <= changes' /\ changes' <= update_thresh'
    <3> HIDE DEF d
    <3> QED BY <1>a, <1>c, <1>3, <2>1, <2>2
  <2> QED
    BY <1>a, <1>b, <1>3, <2>3
<1> QED
  BY <1>1, <1>2, <1>3 DEF CountChange

LEMMA AddGatewayInv ==
  ASSUME Inv, NEW g \in Gateways, NEW val \in 0..MaxRate, AddGateway(g, val)
  PROVE  Inv'
BY DictsGrow DEF AddGateway, Inv, TypeOK, Counted, LastIsWhatGetsSaved

LEMMA RunTaskInv == ASSUME Inv, RunTask PROVE Inv'
<1>1. /\ posted \in Seq(Dicts) /\ posted # <<>>
      /\ prefs' = Head(posted) /\ posted' = Tail(posted)
      /\ UNCHANGED <<curr_, last_, changes, update_thresh, over>>
  BY DEF RunTask, Inv, TypeOK
<1>2. /\ Len(posted) \in Nat /\ Len(posted) > 0
      /\ Head(posted) \in Dicts /\ Head(posted) = posted[1]
      /\ Tail(posted) \in Seq(Dicts) /\ Len(Tail(posted)) = Len(posted) - 1
      /\ \A i \in 1..Len(Tail(posted)) : Tail(posted)[i] = posted[i + 1]
  BY <1>1, HeadTailProperties, LenProperties, EmptySeq
<1>3. TypeOK' /\ Counted'
  BY <1>1, <1>2 DEF Inv, TypeOK, Counted
<1>4. last_ = posted[Len(posted)]
  BY <1>1 DEF Inv, LastIsWhatGetsSaved
<1>5. CASE Tail(posted) = <<>>
  <2>0. Len(Tail(posted)) = 0
    <3>1. Len(<<>>) = 0
      BY EmptySeq
    <3> QED
      BY <1>5, <3>1, Zenon
  <2>1. Len(posted) = 1
    BY <2>0, <1>2
  <2>2. last_' = prefs' /\ posted' = <<>>
    BY <2>1, <1>1, <1>2, <1>4, <1>5
  <2> QED
    BY <1>3, <2>2 DEF Inv, LastIsWhatGetsSaved
<1>6. CASE Tail(posted) # <<>>
  <2>1. Len(Tail(posted)) \in Nat /\ Len(Tail(posted)) > 0
    BY <1>2, <1>6, LenProperties, EmptySeq
  <2>2. Tail(posted)[Len(Tail(posted))] = posted[Len(posted)]
    BY <2>1, <1>2
  <2> QED
    BY <1>1, <1>3, <1>4, <1>6, <2>2 DEF Inv, LastIsWhatGetsSaved
<1> QED
  BY <1>5, <1>6

LEMMA NextInv == Inv /\ [Next]_vars => Inv'
<1> SUFFICES ASSUME Inv, [Next]_vars PROVE Inv'
  OBVIOUS
<1>1. ASSUME NEW g \in Gateways, NEW val \in 0..MaxRate, AddGateway(g, val) PROVE Inv'
  BY <1>1, AddGatewayInv
<1>2. ASSUME NEW g \in Gateways, NEW val \in 0..MaxRate, SetGatewayRate(g, val) PROVE Inv'
  <2>1. CASE g \notin DOMAIN curr_ /\ AddGateway(g, val)
    BY <2>1, AddGatewayInv
  <2>2. CASE /\ g \in DOMAIN curr_ /\ curr_' = [curr_ EXCEPT ![g].rate = val]
             /\ CountChange(curr_') /\ CountOver(curr_') /\ UNCHANGED prefs
    <3>1. curr_' \in Dicts
      BY <2>2, DictsChange DEF Inv, TypeOK
    <3> QED
      BY <2>2, <3>1, CountKeeps DEF Inv, TypeOK, Counted, LastIsWhatGetsSaved
  <2> QED
    BY <1>2, <2>1, <2>2 DEF SetGatewayRate
<1>3. ASSUME NEW g \in Gateways, NEW val \in Affinities, SetTypeAffinity(g, val) PROVE Inv'
  BY <1>3, DictsChange DEF SetTypeAffinity, Inv, TypeOK, Counted, LastIsWhatGetsSaved
<1>4. CASE RunTask
  BY <1>4, RunTaskInv
<1>5. CASE Restart
  BY <1>5 DEF Restart, Inv, TypeOK, Counted, LastIsWhatGetsSaved
<1>6. CASE UNCHANGED vars
  BY <1>6 DEF vars, Inv, TypeOK, Counted, LastIsWhatGetsSaved
<1> QED
  BY <1>1, <1>2, <1>3, <1>4, <1>5, <1>6 DEF Next

LEMMA AlwaysInv == Spec => []Inv
BY InitInv, NextInv, PTL DEF Spec

(* The variables keep their types: dictionaries stay dictionaries, and the *)
(* halved distance is a count.                                             *)
THEOREM TypeCorrect == Spec => []TypeOK
BY AlwaysInv, PTL DEF Inv

(* Of the rate changes that leave the rates far from what was saved,       *)
(* update_thresh at most pass without a save.                              *)
THEOREM FarRatesAreSaved == Spec => []BigChangesAreSaved
<1>1. Inv => BigChangesAreSaved
  BY DEF Inv, TypeOK, Counted, BigChangesAreSaved
<1> QED
  BY <1>1, AlwaysInv, PTL

(* The preferences hold last_ once the posted tasks have run. *)
THEOREM SavedInOrder == Spec => []LastIsWhatGetsSaved
BY AlwaysInv, PTL DEF Inv

(* GatewaysOnlyGrow, without the sequence of all stages. *)
Grow ==
  /\ DOMAIN prefs \subseteq DOMAIN curr_
  /\ \A i \in 1..Len(posted) :
       DOMAIN prefs \subseteq DOMAIN posted[i] /\ DOMAIN posted[i] \subseteq DOMAIN curr_
  /\ \A i, j \in 1..Len(posted) : i <= j => DOMAIN posted[i] \subseteq DOMAIN posted[j]

(* The configuration in use changes, and may be posted. *)
LEMMA GrowByChange ==
  ASSUME Inv, Grow, DOMAIN curr_ \subseteq DOMAIN curr_', prefs' = prefs,
         posted' = posted \/ posted' = Append(posted, curr_')
  PROVE  Grow'
<1>1. CASE posted' = posted
  BY <1>1 DEF Grow
<1>2. CASE posted' = Append(posted, curr_')
  <2> DEFINE n == Len(posted)
             c == curr_'
  <2>1. posted \in Seq(Dicts) /\ n \in Nat
    BY LenProperties DEF Inv, TypeOK
  <2>2. /\ Len(posted') = n + 1 /\ posted'[n + 1] = c
        /\ \A i \in 1..n : posted'[i] = posted[i]
    BY <1>2, <2>1
  <2>3. DOMAIN prefs' \subseteq DOMAIN curr_'
    BY DEF Grow
  <2>4. ASSUME NEW i \in 1..(n + 1)
        PROVE  DOMAIN prefs' \subseteq DOMAIN posted'[i] /\ DOMAIN posted'[i] \subseteq DOMAIN curr_'
    <3>1. CASE i = n + 1
      BY <3>1, <2>2, <2>3
    <3>2. CASE i \in 1..n
      BY <3>2, <2>2 DEF Grow
    <3> QED
      BY <3>1, <3>2, <2>1
  <2>5. ASSUME NEW i \in 1..(n + 1), NEW j \in 1..(n + 1), i <= j
        PROVE  DOMAIN posted'[i] \subseteq DOMAIN posted'[j]
    <3>1. CASE j = n + 1
      BY <3>1, <2>2, <2>4
    <3>2. CASE j # n + 1
      <4>1. i \in 1..n /\ j \in 1..n
        BY <3>2, <2>1, <2>5
      <4> QED
        BY <4>1, <2>2, <2>5 DEF Grow
    <3> QED
      BY <3>1, <3>2
  <2> QED
    BY <2>2, <2>3, <2>4, <2>5 DEF Grow
<1> QED
  BY <1>1, <1>2

LEMMA GrowByTask == ASSUME Inv, Grow, RunTask PROVE Grow'
<1> DEFINE n == Len(posted)
<1>1. /\ posted \in Seq(Dicts) /\ posted # <<>>
      /\ prefs' = Head(posted) /\ posted' = Tail(posted) /\ curr_' = curr_
  BY DEF RunTask, Inv, TypeOK
<1>2. /\ n \in Nat /\ n > 0 /\ prefs' = posted[1] /\ Len(posted') = n - 1
      /\ \A i \in 1..(n - 1) : posted'[i] = posted[i + 1]
  BY <1>1, HeadTailProperties, LenProperties, EmptySeq
<1>3. DOMAIN prefs' \subseteq DOMAIN curr_'
  BY <1>1, <1>2 DEF Grow
<1>4. ASSUME NEW i \in 1..(n - 1)
      PROVE  DOMAIN prefs' \subseteq DOMAIN posted'[i] /\ DOMAIN posted'[i] \subseteq DOMAIN curr_'
  <2>1. 1 \in 1..n /\ i + 1 \in 1..n /\ 1 <= i + 1
    BY <1>2
  <2> QED
    BY <2>1, <1>1, <1>2 DEF Grow
<1>5. ASSUME NEW i \in 1..(n - 1), NEW j \in 1..(n - 1), i <= j
      PROVE  DOMAIN posted'[i] \subseteq DOMAIN posted'[j]
  <2>1. i + 1 \in 1..n /\ j + 1 \in 1..n /\ i + 1 <= j + 1
    BY <1>2, <1>5
  <2> QED
    BY <2>1, <1>2 DEF Grow
<1> QED
  BY <1>2, <1>3, <1>4, <1>5 DEF Grow

LEMMA GrowNext == Inv /\ Grow /\ [Next]_vars => Grow'
<1> SUFFICES ASSUME Inv, Grow, [Next]_vars PROVE Grow'
  OBVIOUS
<1>1. ASSUME NEW g \in Gateways, NEW val \in 0..MaxRate, AddGateway(g, val) PROVE Grow'
  BY <1>1, GrowByChange DEF AddGateway, Added
<1>2. ASSUME NEW g \in Gateways, NEW val \in 0..MaxRate, SetGatewayRate(g, val) PROVE Grow'
  <2>1. CASE AddGateway(g, val)
    BY <2>1, <1>1
  <2>2. CASE /\ curr_' = [curr_ EXCEPT ![g].rate = val]
             /\ CountChange(curr_') /\ UNCHANGED prefs
    BY <2>2, GrowByChange DEF CountChange, Save
  <2> QED
    BY <1>2, <2>1, <2>2 DEF SetGatewayRate
<1>3. ASSUME NEW g \in Gateways, NEW val \in Affinities, SetTypeAffinity(g, val) PROVE Grow'
  BY <1>3, GrowByChange DEF SetTypeAffinity
<1>4. CASE RunTask
  BY <1>4, GrowByTask
<1>5. CASE Restart
  BY <1>5 DEF Restart, Grow
<1>6. CASE UNCHANGED vars
  BY <1>6, GrowByChange DEF vars
<1> QED
  BY <1>1, <1>2, <1>3, <1>4, <1>5, <1>6 DEF Next

LEMMA GrowStages == ASSUME Inv, Grow PROVE GatewaysOnlyGrow
<1> DEFINE n == Len(posted)
           stages == <<prefs>> \o posted \o <<curr_>>
<1>1. posted \in Seq(Dicts) /\ n \in Nat /\ prefs \in Dicts /\ curr_ \in Dicts
  BY LenProperties DEF Inv, TypeOK
<1>2. /\ DOMAIN stages = 1..(n + 2)
      /\ stages[1] = prefs /\ stages[n + 2] = curr_
      /\ \A i \in 1..n : stages[i + 1] = posted[i]
  BY <1>1
<1> HIDE DEF stages
<1>3. ASSUME NEW i \in 1..(n + 2), NEW j \in 1..(n + 2), i <= j
      PROVE  DOMAIN stages[i] \subseteq DOMAIN stages[j]
  <2>1. CASE i = j
    BY <2>1
  <2>2. CASE i = 1 /\ j = n + 2
    BY <2>2, <1>2 DEF Grow
  <2>3. CASE i = 1 /\ j - 1 \in 1..n
    <3>1. stages[j] = posted[j - 1]
      BY <2>3, <1>2
    <3> QED
      BY <2>3, <3>1, <1>2 DEF Grow
  <2>4. CASE i - 1 \in 1..n /\ j = n + 2
    <3>1. stages[i] = posted[i - 1]
      BY <2>4, <1>2
    <3> QED
      BY <2>4, <3>1, <1>2 DEF Grow
  <2>5. CASE i - 1 \in 1..n /\ j - 1 \in 1..n
    <3>1. stages[i] = posted[i - 1] /\ stages[j] = posted[j - 1]
      BY <2>5, <1>2
    <3>2. i - 1 <= j - 1
      BY <1>3
    <3> QED
      BY <2>5, <3>1, <3>2 DEF Grow
  <2> QED
    BY <1>1, <1>3, <2>1, <2>2, <2>3, <2>4, <2>5
<1> QED
  BY <1>2, <1>3 DEF GatewaysOnlyGrow, stages

(* The configuration in use has the gateways of every posted copy, and     *)
(* that those of the preferences, whatever runs when: no save takes a      *)
(* gateway out of them (preferences.cc, save).                             *)
THEOREM GatewaysStay == Spec => []GatewaysOnlyGrow
<1>1. Init => Grow
  BY DEF Init, Grow
<1>2. Inv /\ Grow => GatewaysOnlyGrow
  BY GrowStages
<1> QED
  BY <1>1, <1>2, GrowNext, AlwaysInv, PTL DEF Spec
=============================================================================
