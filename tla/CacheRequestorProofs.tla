------------------------ MODULE CacheRequestorProofs ------------------------
(***************************************************************************)
(* Proofs about the cache requestor, for any requests, keys and bounds.    *)
(***************************************************************************)
EXTENDS CacheProperties, TLAPS

(* Every variable starts in its type. *)
LEMMA InitTypeOK == Init => TypeOK
<1> SUFFICES ASSUME Init PROVE TypeOK
  OBVIOUS
<1> USE CacheAssumption DEF CacheAssumption, Init
<1>1. FlagType
  BY DEF FlagType
<1>2. BoundType
  BY DEF BoundType
<1>3. TaskType
  BY DEF TaskType, Phases, Reading
<1>4. StoreType
  BY DEF StoreType, StorePhases, Writing
<1>5. DiskType
  BY DEF DiskType
<1> QED BY <1>1, <1>2, <1>3, <1>4, <1>5 DEF TypeOK

(* Startup, and the end of the process, keep the types. *)
LEMMA StartupType ==
  ASSUME TypeOK, Boot \/ AssignBackend \/ AssignError
  PROVE  TypeOK'
<1> USE CacheAssumption DEF CacheAssumption, TypeOK, Boot, AssignBackend, AssignError
<1>1. FlagType'
  BY DEF FlagType, Start
<1>2. BoundType'
  BY DEF BoundType
<1>3. TaskType'
  BY DEF TaskType, tasks
<1>4. StoreType'
  BY DEF StoreType, stores
<1>5. DiskType'
  BY DEF DiskType, disk
<1> QED BY <1>1, <1>2, <1>3, <1>4, <1>5

LEMMA TerminateType ==
  ASSUME TypeOK, Terminate, UNCHANGED crashes \/ (crashes < MaxCrashes /\ crashes' = crashes + 1)
  PROVE  TypeOK'
<1> USE CacheAssumption DEF CacheAssumption, TypeOK, Terminate
<1>1. FlagType'
  BY DEF FlagType
<1>2. BoundType'
  BY DEF BoundType
<1>3. TaskType'
  BY DEF TaskType, Phases, Reading
<1>4. StoreType'
  BY DEF StoreType, StorePhases, Writing
<1>5. DiskType'
  BY DEF DiskType, disk
<1> QED BY <1>1, <1>2, <1>3, <1>4, <1>5

(* Handing a request on, hooked or not, keeps the types of the tasks. *)
LEMMA PassOnType ==
  ASSUME TaskType, NEW r \in Requests, PassOn(r),
         hooked' = hooked \/ hooked' = [hooked EXCEPT ![r] = TRUE],
         UNCHANGED <<entry, hdr, served>>
  PROVE  TaskType'
<1> USE DEF TaskType, PassOn
<1>1. forwards' \in [Requests -> Nat]
  OBVIOUS
<1>2. hooked' \in [Requests -> BOOLEAN]
  OBVIOUS
<1>3. /\ phase' \in [Requests -> Phases]
      /\ \A q \in Requests : phase'[q] \in {"header", "body"} => entry'[q] # None
  BY DEF Phases, Reading
<1> QED BY <1>1, <1>2, <1>3

(* No step of a request's way through the requestor and back breaks a type.*)
LEMMA RequestType ==
  ASSUME TypeOK, NEW r \in Requests,
         Handle(r) \/ Lookup(r) \/ GatewayAnswers(r) \/ GatewayFails(r) 
         \/ StoreWithoutBackend(r)
  PROVE  TypeOK'
<1> USE CacheAssumption DEF CacheAssumption, TypeOK
<1>1. CASE OnHeaderReadError(r) \/ StoreWithoutBackend(r)
  BY <1>1, TerminateType DEF OnHeaderReadError, StoreWithoutBackend
<1>2. CASE Handle(r)
  <2> USE <1>2 DEF Handle
  <2>1. FlagType' /\ BoundType'
    BY DEF FlagType, BoundType, session
  <2>2. TaskType'
    <3>1. CASE PassOn(r)
      BY <3>1, PassOnType
    <3>2. CASE ~PassOn(r)
      BY <3>2 DEF TaskType, Phases, Reading
    <3> QED BY <3>1, <3>2
  <2>3. StoreType' /\ DiskType'
    BY DEF StoreType, DiskType, stores, disk
  <2> QED BY <2>1, <2>2, <2>3
<1>3. CASE GatewayAnswers(r)
  <2> USE <1>3 DEF GatewayAnswers
  <2>1. FlagType' /\ BoundType'
    BY DEF FlagType, BoundType, session
  <2>2. TaskType'
    BY DEF TaskType, Phases, Reading
  <2>3. StoreType'
    BY DEF StoreType, StorePhases, Writing
  <2>4. DiskType'
    BY DEF DiskType, disk
  <2> QED BY <2>1, <2>2, <2>3, <2>4
<1>4. CASE OnBodyRefused(r)
  <2> USE <1>4 DEF OnBodyRefused, Miss
  <2>1. FlagType' /\ BoundType'
    BY DEF FlagType, BoundType, session
  <2>2. TaskType'
    BY PassOnType
  <2>3. StoreType'
    BY DEF StoreType, stores
  <2>4. DiskType'
    BY DEF DiskType, TaskType, Expire
  <2> QED BY <2>1, <2>2, <2>3, <2>4
<1>5. CASE OnBodyAccepted(r)
  <2> USE <1>5 DEF OnBodyAccepted, BodyRead
  <2>1. FlagType' /\ BoundType'
    BY DEF FlagType, BoundType, session
  <2>2. TaskType'
    BY DEF TaskType, DiskType, Phases, Reading
  <2>3. StoreType' /\ DiskType'
    BY DEF StoreType, DiskType, stores, disk
  <2> QED BY <2>1, <2>2, <2>3
<1>6. CASE OnOpen(r) \/ OnHeaderRead(r)
  <2> USE <1>6 DEF OnOpen, OnHeaderRead
  <2>1. FlagType' /\ BoundType'
    BY DEF FlagType, BoundType, session
  <2>2. TaskType'
    BY DEF TaskType, DiskType, Phases, Reading
  <2>3. StoreType' /\ DiskType'
    BY DEF StoreType, DiskType, stores, disk
  <2> QED BY <2>1, <2>2, <2>3
<1>7. CASE OnOpenError(r) \/ OnBodyMissing(r)
  <2> USE <1>7 DEF OnOpenError, OnBodyMissing, Miss
  <2>1. FlagType' /\ BoundType'
    BY DEF FlagType, BoundType, session
  <2>2. TaskType'
    BY PassOnType
  <2>3. StoreType' /\ DiskType'
    BY DEF StoreType, DiskType, stores, disk
  <2> QED BY <2>1, <2>2, <2>3
<1>8. CASE GatewayFails(r)
  <2> USE <1>8 DEF GatewayFails
  <2>1. FlagType' /\ BoundType'
    BY DEF FlagType, BoundType, session
  <2>2. TaskType'
    BY DEF TaskType, Phases, Reading
  <2>3. StoreType' /\ DiskType'
    BY DEF StoreType, DiskType, stores, disk
  <2> QED BY <2>1, <2>2, <2>3
<1> QED BY <1>1, <1>2, <1>3, <1>4, <1>5, <1>6, <1>7, <1>8 DEF Lookup

(* No completion of a write breaks a type. *)
LEMMA WriteType ==
  ASSUME TypeOK, NEW s \in Stores, Write(s)
  PROVE  TypeOK'
<1> USE CacheAssumption DEF CacheAssumption, TypeOK
<1> SUFFICES FlagType' /\ BoundType' /\ TaskType' /\ StoreType' /\ DiskType'
  OBVIOUS
<1>1. UNCHANGED <<session, tasks>>
  BY DEF Write, OnEntryOpened, OnEntryCreated, OnEntryError,
         OnHeaderWritten, OnHeaderError, OnBodyWritten
<1>2. FlagType' /\ BoundType' /\ TaskType'
  BY <1>1 DEF FlagType, BoundType, TaskType, session, tasks
<1>3. StoreType'
  <2> USE DEF StoreType, StorePhases, Writing
  <2>1. CASE OnEntryOpened(s) \/ OnEntryError(s) \/ OnHeaderError(s)
    BY <2>1 DEF OnEntryOpened, SkipOpened, OnEntryError, OnHeaderError, GiveUp
  <2>2. CASE OnEntryCreated(s)
    BY <2>2 DEF OnEntryCreated
  <2>3. CASE OnHeaderWritten(s) \/ OnBodyWritten(s)
    BY <2>3 DEF OnHeaderWritten, OnBodyWritten
  <2> QED BY <2>1, <2>2, <2>3 DEF Write
<1>4. DiskType'
  <2>1. s[2] \in Keys
    BY DEF Stores
  <2> USE DEF DiskType, StoreType
  <2>2. CASE OnEntryOpened(s) \/ OnEntryError(s) \/ OnHeaderError(s)
    BY <2>2 DEF OnEntryOpened, OnEntryError, OnHeaderError, disk
  <2>3. CASE OnEntryCreated(s)
    BY <2>1, <2>3 DEF OnEntryCreated
  <2>4. CASE OnHeaderWritten(s) \/ OnBodyWritten(s)
    BY <2>4 DEF OnHeaderWritten, OnBodyWritten
  <2> QED BY <2>2, <2>3, <2>4 DEF Write
<1> QED BY <1>2, <1>3, <1>4

(* Expiry, rot and eviction break no type. *)
LEMMA DecayType ==
  ASSUME TypeOK, (\E s \in Stores : GoBad(s)) \/ (\E k \in Keys : Evict(k))
  PROVE  TypeOK'
<1> USE CacheAssumption DEF CacheAssumption, TypeOK
<1>1. UNCHANGED <<session, tasks, stores>>
  BY DEF GoBad, Evict
<1>2. FlagType' /\ BoundType' /\ TaskType' /\ StoreType'
  BY <1>1 DEF FlagType, BoundType, TaskType, StoreType, session, tasks, stores
<1>3. DiskType'
  BY DEF DiskType, GoBad, Evict
<1> QED BY <1>2, <1>3

LEMMA NextTypeOK == TypeOK /\ [Next]_vars => TypeOK'
<1> SUFFICES ASSUME TypeOK, [Next]_vars PROVE TypeOK'
  OBVIOUS
<1>1. CASE UNCHANGED vars
  BY <1>1 DEF vars, session, tasks, stores, disk, TypeOK, FlagType, BoundType,
              TaskType, StoreType, DiskType
<1>2. CASE Boot \/ AssignBackend \/ AssignError
  BY <1>2, StartupType
<1>3. CASE Stop
  BY <1>3, TerminateType DEF Stop
<1>4. ASSUME NEW r \in Requests,
             \/ Handle(r) \/ Lookup(r)
             \/ GatewayAnswers(r) \/ GatewayFails(r) \/ StoreWithoutBackend(r)
      PROVE  TypeOK'
  BY <1>4, RequestType
<1>5. ASSUME NEW s \in Stores, Write(s) PROVE TypeOK'
  BY <1>5, WriteType
<1>6. CASE (\E s \in Stores : GoBad(s)) \/ (\E k \in Keys : Evict(k))
  BY <1>6, DecayType
<1> QED BY <1>1, <1>2, <1>3, <1>4, <1>5, <1>6 DEF Next

(* Type correctness: every variable keeps its type, and no handler is ever *)
(* bound to an entry it does not have.                                     *)
THEOREM TypeCorrect == Spec => []TypeOK
BY InitTypeOK, NextTypeOK, PTL DEF Spec

-----------------------------------------------------------------------------
(* How requests leave the requestor.                                       *)

LEMMA InitOutcome == Init => OutcomeInv
<1> SUFFICES ASSUME Init PROVE OutcomeInv
  OBVIOUS
<1>1. \A r \in Requests : phase[r] = "new" /\ forwards[r] = 0 /\ served[r] = None
  BY DEF Init
<1>2. \A r \in Requests : phase[r] \notin {"next", "fetched", "failed", "answered"}
  BY <1>1
<1> QED BY <1>1, <1>2 DEF OutcomeInv, Reading

(* Whatever ends the process leaves every request's outcome as it was. *)
LEMMA TerminateOutcome ==
  ASSUME TypeOK, OutcomeInv, Terminate
  PROVE  OutcomeInv'
  BY DEF TypeOK, TaskType, OutcomeInv, Terminate, Phases, Reading

(* Handing a request on counts once, if it had not been handed on before.  *)
LEMMA PassOnOutcome ==
  ASSUME TypeOK, OutcomeInv, NEW r \in Requests, phase[r] \in Reading \cup {"new"},
         PassOn(r), UNCHANGED served
  PROVE  OutcomeInv'
<1> SUFFICES ASSUME NEW q \in Requests
             PROVE  /\ phase'[q] \in Reading \cup {"new", "answered"} => forwards'[q] = 0
                    /\ phase'[q] \in {"next", "fetched", "failed"} => forwards'[q] = 1
                    /\ forwards'[q] \in {0, 1}
                    /\ (served'[q] # None) <=> (phase'[q] = "answered")
  BY DEF OutcomeInv
<1> USE DEF TypeOK, TaskType, OutcomeInv, PassOn, Reading
<1>1. CASE q = r
  BY <1>1
<1>2. CASE q # r
  BY <1>2
<1> QED BY <1>1, <1>2

LEMMA OutcomeStep ==
  ASSUME TypeOK, OutcomeInv, [Next]_vars
  PROVE  OutcomeInv'
<1>1. CASE UNCHANGED <<phase, forwards, served>>
  BY <1>1 DEF OutcomeInv
<1>2. ASSUME Terminate PROVE OutcomeInv'
  BY <1>2, TerminateOutcome
<1>3. ASSUME NEW r \in Requests, Handle(r) PROVE OutcomeInv'
  <2>1. CASE PassOn(r)
    BY <1>3, <2>1, PassOnOutcome DEF Handle
  <2>2. CASE ~PassOn(r)
    BY <1>3, <2>2 DEF Handle, OutcomeInv, TypeOK, TaskType, Reading
  <2> QED BY <2>1, <2>2
<1>4. ASSUME NEW r \in Requests,
             OnOpenError(r) \/ OnBodyMissing(r) \/ OnBodyRefused(r)
      PROVE  OutcomeInv'
  BY <1>4, PassOnOutcome
  DEF OnOpenError, OnBodyMissing, OnBodyRefused, Miss, Reading
<1>5. ASSUME NEW r \in Requests, OnOpen(r) \/ OnHeaderRead(r) PROVE OutcomeInv'
  BY <1>5 DEF OnOpen, OnHeaderRead, OutcomeInv, TypeOK, TaskType, Reading
<1>6. ASSUME NEW r \in Requests, OnBodyAccepted(r) PROVE OutcomeInv'
  BY <1>6 DEF OnBodyAccepted, OutcomeInv, TypeOK, TaskType, Reading
<1>7. ASSUME NEW r \in Requests, GatewayAnswers(r) \/ GatewayFails(r)
      PROVE  OutcomeInv'
  BY <1>7 DEF GatewayAnswers, GatewayFails, OutcomeInv, TypeOK, TaskType, Reading
<1>8. ASSUME NEW s \in Stores, Write(s) PROVE UNCHANGED <<phase, forwards, served>>
  BY <1>8 DEF Write, OnEntryOpened, OnEntryCreated, OnEntryError,
              OnHeaderWritten, OnHeaderError, OnBodyWritten, tasks
<1>9. ASSUME NEW s \in Stores, GoBad(s) PROVE UNCHANGED <<phase, forwards, served>>
  BY <1>9 DEF GoBad, tasks
<1>10. ASSUME NEW k \in Keys, Evict(k) PROVE UNCHANGED <<phase, forwards, served>>
  BY <1>10 DEF Evict, tasks
<1>11. CASE Boot \/ AssignBackend \/ AssignError
  BY <1>1, <1>11 DEF Boot, AssignBackend, AssignError, tasks
<1>12. CASE UNCHANGED vars
  BY <1>1, <1>12 DEF vars, tasks
<1> QED
  BY <1>1, <1>2, <1>3, <1>4, <1>5, <1>6, <1>7, <1>8, <1>9, <1>10, <1>11, <1>12
  DEF Next, Lookup, Stop, OnHeaderReadError, StoreWithoutBackend

(* How a request left the requestor is decided by how far it is. *)
THEOREM OutcomesSound == Spec => []OutcomeInv
<1>1. TypeOK /\ OutcomeInv /\ [Next]_vars => OutcomeInv'
  BY OutcomeStep
<1> QED BY <1>1, InitOutcome, TypeCorrect, PTL DEF Spec

(* A request is answered from the cache or handed on, never both and never *)
(* twice (Miss, NOT_HANDLED and RespondSuccessfully in cache_requestor.cc).*)
THEOREM OneOutcome == Spec => []AnsweredOrForwardedOnce
<1>1. TypeOK /\ OutcomeInv => AnsweredOrForwardedOnce
  BY DEF TypeOK, TaskType, OutcomeInv, AnsweredOrForwardedOnce
<1> QED BY <1>1, OutcomesSound, TypeCorrect, PTL

-----------------------------------------------------------------------------
(* Startup and lookups.                                                    *)

LEMMA InitStartup == Init => StartupInv
<1> SUFFICES ASSUME Init
             PROVE  /\ ~up /\ ~cache /\ ~pending
                    /\ \A r \in Requests : phase[r] = "new" /\ ~hooked[r]
  BY DEF StartupInv, Reading
<1> QED BY DEF Init

LEMMA StartupStep ==
  ASSUME TypeOK, StartupInv, [Next]_vars
  PROVE  StartupInv'
<1>1. CASE Boot \/ AssignBackend \/ AssignError
  BY <1>1 DEF StartupInv, Boot, AssignBackend, AssignError, Start, tasks
<1>2. ASSUME Terminate PROVE StartupInv'
  BY <1>2 DEF StartupInv, Terminate, TypeOK, TaskType, Reading
<1>3. ASSUME NEW r \in Requests, Handle(r) PROVE StartupInv'
  <2>1. up /\ UNCHANGED <<up, cache, pending>>
    BY <1>3 DEF Handle, session
  <2>2. phase'[r] \in Reading => cache
    BY <1>3, <2>1 DEF Handle, PassOn, StartupInv, TypeOK, TaskType, Reading
  <2>3. phase'[r] = "next" /\ hooked'[r] => KindOf[r] = "car"
    BY <1>3 DEF Handle, StartupInv
  <2>5. phase'[r] \in Reading \cup {"new"} => ~hooked'[r]
    BY <1>3 DEF Handle, PassOn, StartupInv, TypeOK, TaskType, Reading
  <2>4. \A q \in Requests \ {r} : phase'[q] = phase[q] /\ hooked'[q] = hooked[q]
    BY <1>3 DEF Handle, PassOn, TypeOK, TaskType
  <2> QED BY <2>1, <2>2, <2>3, <2>4, <2>5 DEF StartupInv
<1>4. ASSUME NEW r \in Requests,
             OnOpenError(r) \/ OnBodyMissing(r) \/ OnBodyRefused(r)
      PROVE  StartupInv'
  BY <1>4 DEF OnOpenError, OnBodyMissing, OnBodyRefused, Miss, PassOn,
              StartupInv, session, TypeOK, TaskType, Reading
<1>5. ASSUME NEW r \in Requests,
             \/ OnOpen(r) \/ OnHeaderRead(r) \/ OnBodyAccepted(r)
             \/ GatewayAnswers(r) \/ GatewayFails(r)
      PROVE  StartupInv'
  BY <1>5 DEF OnOpen, OnHeaderRead, OnBodyAccepted, GatewayAnswers, GatewayFails,
              StartupInv, session, TypeOK, TaskType, Reading
<1>6. CASE UNCHANGED <<session, tasks>>
  BY <1>6 DEF StartupInv, session, tasks
<1>7. ASSUME NEW s \in Stores, Write(s) \/ GoBad(s)
      PROVE  UNCHANGED <<session, tasks>>
  BY <1>7 DEF Write, OnEntryOpened, OnEntryCreated, OnEntryError,
              OnHeaderWritten, OnHeaderError, OnBodyWritten, GoBad
<1>8. ASSUME NEW k \in Keys, Evict(k) PROVE UNCHANGED <<session, tasks>>
  BY <1>8 DEF Evict
<1>9. CASE UNCHANGED vars
  BY <1>6, <1>9 DEF vars
<1> QED
  BY <1>1, <1>2, <1>3, <1>4, <1>5, <1>6, <1>7, <1>8, <1>9
  DEF Next, Lookup, Stop, OnHeaderReadError, StoreWithoutBackend

(* Lookups only run on a backend: OpenEntry has a cache_ to be called on,  *)
(* and StartFetch's second test of startup_pending_ never fires.           *)
THEOREM LookupsHaveBackend == Spec => []BackendBehindLookups
<1>1. TypeOK /\ StartupInv => BackendBehindLookups
  BY DEF StartupInv, BackendBehindLookups
<1>2. TypeOK /\ StartupInv /\ [Next]_vars => StartupInv'
  BY StartupStep
<1> QED BY <1>1, <1>2, InitStartup, TypeCorrect, PTL DEF Spec

-----------------------------------------------------------------------------
(* Entries.                                                                *)

LEMMA InitEntries == Init => EntryInv
<1> SUFFICES ASSUME Init PROVE EntryInv
  OBVIOUS
<1>1. /\ \A s \in Stores : store[s] = "none" /\ target[s] = None
      /\ \A s \in Stores : header[s] = None /\ body[s] = None
      /\ \A k \in Keys : index[k] = None
      /\ \A r \in Requests : entry[r] = None /\ hdr[r] = None /\ served[r] = None
      /\ condemned = {}
  BY DEF Init
<1>2. \A s \in Stores : s # None
  BY CacheAssumption DEF CacheAssumption
<1>3. NoStoreYet /\ NoEntryYet
  BY <1>1, <1>2 DEF NoStoreYet, NoEntryYet
<1>4. OwnBytes /\ Links /\ Handles
  BY <1>1, <1>2 DEF OwnBytes, Links, Handles
<1> QED BY <1>3, <1>4 DEF EntryInv

LEMMA NoStoreYetStep ==
  ASSUME TypeOK, EntryInv, [Next]_vars
  PROVE  NoStoreYet'
<1> USE DEF EntryInv, NoStoreYet, TypeOK, TaskType, StoreType
<1>1. CASE UNCHANGED <<phase, store>>
  BY <1>1
<1>2. \A s \in Stores : s[1] \in Requests /\ s[2] \in Keys
  BY DEF Stores
<1>3. ASSUME Terminate PROVE NoStoreYet'
  BY <1>2, <1>3 DEF Terminate, Reading, Writing
<1>4. ASSUME NEW r \in Requests, GatewayAnswers(r) PROVE NoStoreYet'
  BY <1>2, <1>4 DEF GatewayAnswers, HookKeys
<1>5. ASSUME NEW s \in Stores, Write(s) PROVE NoStoreYet'
  <2>1. phase' = phase /\ store[s] # "none"
    BY <1>5 DEF Write, OnEntryOpened, OnEntryCreated, OnEntryError,
                OnHeaderWritten, OnHeaderError, OnBodyWritten, tasks
  <2>2. \A x \in Stores \ {s} : store'[x] = store[x]
    BY <1>5 DEF Write, OnEntryOpened, OnEntryCreated, OnEntryError, SkipOpened,
                OnHeaderWritten, OnHeaderError, OnBodyWritten, GiveUp
  <2> QED BY <2>1, <2>2
<1>6. ASSUME NEW r \in Requests, Handle(r) PROVE NoStoreYet'
  BY <1>2, <1>6 DEF Handle, PassOn, stores
<1>7. ASSUME NEW r \in Requests,
             OnOpenError(r) \/ OnBodyMissing(r) \/ OnBodyRefused(r)
      PROVE  NoStoreYet'
  BY <1>2, <1>7
  DEF OnOpenError, OnBodyMissing, OnBodyRefused, Miss, PassOn, stores
<1>8. ASSUME NEW r \in Requests,
             \/ OnOpen(r) \/ OnHeaderRead(r) \/ OnBodyAccepted(r)
             \/ GatewayFails(r)
      PROVE  NoStoreYet'
  BY <1>2, <1>8 DEF OnOpen, OnHeaderRead, OnBodyAccepted, GatewayFails, stores
<1>9. ASSUME NEW s \in Stores, GoBad(s) PROVE NoStoreYet'
  BY <1>1, <1>9 DEF GoBad, tasks, stores
<1>10. ASSUME NEW k \in Keys, Evict(k) PROVE NoStoreYet'
  BY <1>1, <1>10 DEF Evict, tasks, stores
<1>11. CASE Boot \/ AssignBackend \/ AssignError \/ UNCHANGED vars
  BY <1>1, <1>11 DEF Boot, AssignBackend, AssignError, tasks, stores, vars
<1> QED
  BY <1>3, <1>4, <1>5, <1>6, <1>7, <1>8, <1>9, <1>10, <1>11
  DEF Next, Lookup, Stop, OnHeaderReadError, StoreWithoutBackend

LEMMA NoEntryYetStep ==
  ASSUME TypeOK, EntryInv, [Next]_vars
  PROVE  NoEntryYet'
<1> USE CacheAssumption
    DEF CacheAssumption, EntryInv, NoEntryYet, TypeOK, TaskType, StoreType, DiskType
<1>1. CASE UNCHANGED <<entry, store, index, header, body, condemned>>
  BY <1>1
<1>2. \A s \in Stores : s[1] \in Requests /\ s[2] \in Keys
  BY DEF Stores
<1>3. ASSUME Terminate PROVE NoEntryYet'
  BY <1>3 DEF Terminate, Writing, disk
<1>4. ASSUME NEW r \in Requests, GatewayAnswers(r) PROVE NoEntryYet'
  BY <1>4 DEF GatewayAnswers, NoStoreYet, disk
<1>5. ASSUME NEW s \in Stores, OnEntryCreated(s) PROVE NoEntryYet'
  BY <1>2, <1>5 DEF OnEntryCreated, tasks
<1>6. ASSUME NEW s \in Stores, OnHeaderWritten(s) \/ OnBodyWritten(s)
      PROVE  NoEntryYet'
  <2>1. target[s] = s
    BY <1>6 DEF OnHeaderWritten, OnBodyWritten, OwnBytes
  <2>2. /\ UNCHANGED <<entry, index, condemned>>
        /\ store'[s] \notin {"none", "opening"}
        /\ \A x \in Stores \ {s} :
             store'[x] = store[x] /\ header'[x] = header[x] /\ body'[x] = body[x]
    BY <1>6, <2>1 DEF OnHeaderWritten, OnBodyWritten, tasks
  <2> QED BY <2>2
<1>7. ASSUME NEW s \in Stores,
             OnEntryOpened(s) \/ OnEntryError(s) \/ OnHeaderError(s)
      PROVE  NoEntryYet'
  BY <1>7 DEF OnEntryOpened, SkipOpened, OnEntryError, OnHeaderError, GiveUp,
              tasks, disk
<1>8. ASSUME NEW r \in Requests, OnOpen(r) PROVE NoEntryYet'
  BY <1>8 DEF OnOpen, stores, disk
<1>9. ASSUME NEW r \in Requests, OnBodyRefused(r) PROVE NoEntryYet'
  BY <1>9 DEF OnBodyRefused, Expire, stores
<1>10. ASSUME NEW r \in Requests,
             \/ Handle(r) \/ OnOpenError(r) \/ OnHeaderRead(r) \/ OnBodyMissing(r)
             \/ OnBodyAccepted(r) \/ GatewayFails(r)
      PROVE  NoEntryYet'
  BY <1>1, <1>10 DEF Handle, OnOpenError, OnHeaderRead, OnBodyMissing,
                     OnBodyAccepted, GatewayFails, stores, disk
<1>11. ASSUME NEW s \in Stores, GoBad(s) PROVE NoEntryYet'
  BY <1>1, <1>11 DEF GoBad, tasks, stores
<1>12. ASSUME NEW k \in Keys, Evict(k) PROVE NoEntryYet'
  BY <1>12 DEF Evict, tasks, stores
<1>13. CASE Boot \/ AssignBackend \/ AssignError \/ UNCHANGED vars
  BY <1>1, <1>13 DEF Boot, AssignBackend, AssignError, tasks, stores, disk, vars
<1> QED
  BY <1>3, <1>4, <1>5, <1>6, <1>7, <1>8, <1>9, <1>10, <1>11, <1>12, <1>13
  DEF Next, Lookup, Write, Stop, OnHeaderReadError, StoreWithoutBackend

LEMMA OwnBytesStep ==
  ASSUME TypeOK, EntryInv, [Next]_vars
  PROVE  OwnBytes'
<1> USE CacheAssumption
    DEF CacheAssumption, EntryInv, OwnBytes, TypeOK, StoreType, DiskType
<1>1. CASE UNCHANGED <<store, target, header, body>>
  BY <1>1
<1>2. ASSUME Terminate PROVE OwnBytes'
  BY <1>2 DEF Terminate, Writing, disk
<1>3. ASSUME NEW r \in Requests, GatewayAnswers(r) PROVE OwnBytes'
  BY <1>3 DEF GatewayAnswers, disk
<1>4. ASSUME NEW s \in Stores,
             \/ OnEntryOpened(s) \/ OnEntryCreated(s)
             \/ OnEntryError(s) \/ OnHeaderError(s)
      PROVE  OwnBytes'
  BY <1>4 DEF OnEntryOpened, SkipOpened, OnEntryCreated, OnEntryError,
              OnHeaderError, GiveUp, disk
<1>5. ASSUME NEW s \in Stores, OnHeaderWritten(s) \/ OnBodyWritten(s)
      PROVE  OwnBytes'
  <2>1. target[s] = s
    BY <1>5 DEF OnHeaderWritten, OnBodyWritten
  <2> QED BY <1>5, <2>1 DEF OnHeaderWritten, OnBodyWritten
<1>6. ASSUME NEW r \in Requests,
             \/ Handle(r) \/ OnOpenError(r) \/ OnOpen(r) \/ OnHeaderRead(r)
             \/ OnBodyMissing(r) \/ OnBodyAccepted(r) \/ OnBodyRefused(r)
             \/ GatewayFails(r)
      PROVE  OwnBytes'
  BY <1>1, <1>6 DEF Handle, OnOpenError, OnOpen, OnHeaderRead, OnBodyMissing,
                    OnBodyAccepted, OnBodyRefused, GatewayFails, stores, disk
<1>7. ASSUME NEW s \in Stores, GoBad(s) PROVE OwnBytes'
  BY <1>1, <1>7 DEF GoBad, stores
<1>8. ASSUME NEW k \in Keys, Evict(k) PROVE OwnBytes'
  BY <1>1, <1>8 DEF Evict, stores
<1>9. CASE Boot \/ AssignBackend \/ AssignError \/ UNCHANGED vars
  BY <1>1, <1>9 DEF Boot, AssignBackend, AssignError, stores, disk, vars
<1> QED
  BY <1>2, <1>3, <1>4, <1>5, <1>6, <1>7, <1>8, <1>9
  DEF Next, Lookup, Write, Stop, OnHeaderReadError, StoreWithoutBackend

LEMMA LinksStep ==
  ASSUME TypeOK, EntryInv, [Next]_vars
  PROVE  Links'
<1> USE CacheAssumption
    DEF CacheAssumption, EntryInv, Links, TypeOK, TaskType, DiskType
<1>1. CASE UNCHANGED <<index, condemned>>
  BY <1>1
<1>2. ASSUME NEW s \in Stores, OnEntryCreated(s) PROVE Links'
  <2>1. s[2] \in Keys
    BY DEF Stores
  <2> QED BY <1>2, <2>1 DEF OnEntryCreated, NoEntryYet
<1>3. ASSUME NEW r \in Requests, OnBodyRefused(r) PROVE Links'
  <2>1. entry[r] \in Stores /\ entry[r][2] = KeyOf[r]
    BY <1>3 DEF OnBodyRefused, Handles
  <2> QED BY <1>3, <2>1 DEF OnBodyRefused, Expire
<1>4. ASSUME NEW k \in Keys, Evict(k) PROVE Links'
  BY <1>4 DEF Evict
<1>5. ASSUME NEW s \in Stores,
             \/ GoBad(s) \/ OnEntryOpened(s) \/ OnEntryError(s) \/ OnHeaderError(s)
             \/ OnHeaderWritten(s) \/ OnBodyWritten(s)
      PROVE  Links'
  BY <1>1, <1>5 DEF GoBad, OnEntryOpened, OnEntryError, OnHeaderError,
                    OnHeaderWritten, OnBodyWritten, disk
<1>6. ASSUME NEW r \in Requests,
             \/ Handle(r) \/ OnOpenError(r) \/ OnOpen(r) \/ OnHeaderRead(r)
             \/ OnBodyMissing(r) \/ OnBodyAccepted(r)
             \/ GatewayAnswers(r) \/ GatewayFails(r)
      PROVE  Links'
  BY <1>1, <1>6 DEF Handle, OnOpenError, OnOpen, OnHeaderRead, OnBodyMissing,
                    OnBodyAccepted, GatewayAnswers, GatewayFails, disk
<1>7. CASE Terminate \/ Boot \/ AssignBackend \/ AssignError \/ UNCHANGED vars
  BY <1>1, <1>7 DEF Terminate, Boot, AssignBackend, AssignError, disk, vars
<1> QED
  BY <1>2, <1>3, <1>4, <1>5, <1>6, <1>7
  DEF Next, Lookup, Write, Stop, OnHeaderReadError, StoreWithoutBackend

LEMMA HandlesStep ==
  ASSUME TypeOK, EntryInv, [Next]_vars
  PROVE  Handles'
<1> USE CacheAssumption
    DEF CacheAssumption, EntryInv, Handles, TypeOK, TaskType, DiskType
<1>1. CASE UNCHANGED <<phase, entry, hdr, served>>
  BY <1>1
<1>2. ASSUME Terminate PROVE Handles'
  BY <1>2 DEF Terminate, Reading
<1>3. ASSUME NEW r \in Requests, OnOpen(r) PROVE Handles'
  BY <1>3 DEF OnOpen, Links
<1>4. ASSUME NEW r \in Requests, OnHeaderRead(r) PROVE Handles'
  BY <1>4 DEF OnHeaderRead, OwnBytes
<1>5. ASSUME NEW r \in Requests, OnBodyAccepted(r) PROVE Handles'
  BY <1>5 DEF OnBodyAccepted, BodyRead, OwnBytes
<1>6. ASSUME NEW r \in Requests, Handle(r) PROVE Handles'
  BY <1>6 DEF Handle, PassOn
<1>7. ASSUME NEW r \in Requests,
             OnOpenError(r) \/ OnBodyMissing(r) \/ OnBodyRefused(r)
      PROVE  Handles'
  BY <1>7 DEF OnOpenError, OnBodyMissing, OnBodyRefused, Miss, PassOn
<1>8. ASSUME NEW r \in Requests, GatewayAnswers(r) \/ GatewayFails(r)
      PROVE  Handles'
  BY <1>8 DEF GatewayAnswers, GatewayFails
<1>9. ASSUME NEW s \in Stores, Write(s) \/ GoBad(s) PROVE Handles'
  BY <1>1, <1>9 DEF Write, OnEntryOpened, OnEntryCreated, OnEntryError,
                    OnHeaderWritten, OnHeaderError, OnBodyWritten, GoBad, tasks
<1>10. ASSUME NEW k \in Keys, Evict(k) PROVE Handles'
  BY <1>1, <1>10 DEF Evict, tasks
<1>11. CASE Boot \/ AssignBackend \/ AssignError \/ UNCHANGED vars
  BY <1>1, <1>11 DEF Boot, AssignBackend, AssignError, tasks, vars
<1> QED
  BY <1>2, <1>3, <1>4, <1>5, <1>6, <1>7, <1>8, <1>9, <1>10, <1>11
  DEF Next, Lookup, Stop, OnHeaderReadError, StoreWithoutBackend

(* The inductive invariant holds: entries are created, opened, written and *)
(* doomed only under the name of the call that created them.               *)
THEOREM EntriesSound == Spec => []EntryInv
<1>1. TypeOK /\ EntryInv /\ [Next]_vars => EntryInv'
  BY NoStoreYetStep, NoEntryYetStep, OwnBytesStep, LinksStep, HandlesStep
  DEF EntryInv
<1> QED BY <1>1, InitEntries, TypeCorrect, PTL DEF Spec

LEMMA WholeEntries == Spec => [](HeaderBeforeBody /\ OneAnswerPerEntry)
<1>1. TypeOK /\ EntryInv => HeaderBeforeBody /\ OneAnswerPerEntry
  BY CacheAssumption
  DEF CacheAssumption, EntryInv, OwnBytes, HeaderBeforeBody, OneAnswerPerEntry,
      TypeOK, DiskType
<1> QED BY <1>1, EntriesSound, TypeCorrect, PTL

(* No entry holds a body without its header (the order of the writes in    *)
(* OnEntryCreated and OnHeaderWritten).                                    *)
THEOREM EntriesWhole == Spec => []HeaderBeforeBody
BY WholeEntries, PTL

(* Both streams of an entry come from one answer (the opened() branch of   *)
(* OnEntryCreated, which writes nothing).                                  *)
THEOREM EntriesOfOneAnswer == Spec => []OneAnswerPerEntry
BY WholeEntries, PTL

(* What Expire was called for is never found again. *)
THEOREM CondemnedStayUnlinked == Spec => []CondemnedUnlinked
<1>1. EntryInv => CondemnedUnlinked
  BY DEF EntryInv, Links, CondemnedUnlinked
<1> QED BY <1>1, EntriesSound, PTL

(* A request is answered from the cache with the bytes fetched for its key,*)
(* judged by the header stored with them.                                  *)
THEOREM AnswersAsStored == Spec => []ServedAsStored
<1>1. TypeOK /\ EntryInv => ServedAsStored
  <2> SUFFICES ASSUME TypeOK, EntryInv, NEW r \in Requests, served[r] # None
               PROVE  /\ served[r][2] = KeyOf[r]
                      /\ KindOf[served[r][1]] # "car" => KeyOf[served[r][1]] = KeyOf[r]
                      /\ hdr[r] \in {None, served[r]}
    BY DEF ServedAsStored
  <2>1. entry[r] = served[r] /\ served[r] \in Stores
    BY DEF EntryInv, Handles, TypeOK, TaskType
  <2>2. store[served[r]] # "none"
    BY <2>1 DEF EntryInv, NoEntryYet
  <2> QED BY <2>1, <2>2 DEF EntryInv, NoStoreYet, Handles
<1> QED BY <1>1, EntriesSound, TypeCorrect, PTL

-----------------------------------------------------------------------------
(* The requestor implements the contract of the chain.                     *)

(* Under the invariant the status of a request can be read off its phase.  *)
LEMMA StatusByPhase ==
  ASSUME TypeOK, OutcomeInv, NEW r \in Requests
  PROVE  /\ phase[r] \in Reading => StatusOf(r) = "pending"
         /\ phase[r] \in {"new", "answered"} => StatusOf(r) = phase[r]
         /\ phase[r] \in {"next", "fetched", "failed"} => StatusOf(r) = "passed"
         /\ phase[r] = "lost" /\ forwards[r] = 1 => StatusOf(r) = "passed"
         /\ phase[r] = "lost" /\ forwards[r] = 0 => StatusOf(r) = "lost"
  BY DEF TypeOK, TaskType, OutcomeInv, StatusOf, Phases, Reading

LEMMA StatusByPhaseNext ==
  ASSUME TypeOK', OutcomeInv', NEW r \in Requests
  PROVE  /\ phase'[r] \in Reading => StatusOf(r)' = "pending"
         /\ phase'[r] \in {"new", "answered"} => StatusOf(r)' = phase'[r]
         /\ phase'[r] \in {"next", "fetched", "failed"} => StatusOf(r)' = "passed"
         /\ phase'[r] = "lost" /\ forwards'[r] = 1 => StatusOf(r)' = "passed"
         /\ phase'[r] = "lost" /\ forwards'[r] = 0 => StatusOf(r)' = "lost"
  BY DEF TypeOK, TaskType, OutcomeInv, StatusOf, Phases, Reading

(* A step that moves one request moves the status of that request only. *)
LEMMA OthersKeepStatus ==
  ASSUME TypeOK, TypeOK', NEW r \in Requests,
         \A q \in Requests \ {r} :
           phase'[q] = phase[q] /\ forwards'[q] = forwards[q] /\ served'[q] = served[q]
  PROVE  [q \in Requests |-> StatusOf(q)]' =
           [[q \in Requests |-> StatusOf(q)] EXCEPT ![r] = StatusOf(r)']
<1>1. \A q \in Requests \ {r} : StatusOf(q)' = StatusOf(q)
  BY DEF StatusOf
<1> QED BY <1>1

LEMMA ContractStep ==
  ASSUME TypeOK, OutcomeInv, TypeOK', OutcomeInv', [Next]_vars
  PROVE  [Contract!Next]_([r \in Requests |-> StatusOf(r)])
<1> DEFINE S == [r \in Requests |-> StatusOf(r)]
<1> SUFFICES Contract!Next \/ UNCHANGED S
  OBVIOUS
<1> USE DEF Contract!Move
<1>1. CASE UNCHANGED <<phase, forwards, served>>
  BY <1>1 DEF StatusOf
<1>2. ASSUME Terminate PROVE Contract!LoseAll
  <2>1. \A r \in Requests :
          /\ phase[r] \in Reading \cup {"next"} => phase'[r] = "lost"
          /\ phase[r] \notin Reading \cup {"next"} => phase'[r] = phase[r]
          /\ forwards'[r] = forwards[r]
    BY <1>2 DEF Terminate, TypeOK, TaskType
  <2>2. \A r \in Requests :
          StatusOf(r)' = IF StatusOf(r) = "pending" THEN "lost" ELSE StatusOf(r)
    BY <2>1, StatusByPhase, StatusByPhaseNext
    DEF TypeOK, TaskType, OutcomeInv, Phases, Reading
  <2> QED BY <2>2 DEF Contract!LoseAll
<1>3. ASSUME NEW r \in Requests, PassOn(r), UNCHANGED served,
             phase[r] \in Reading \cup {"new"}
      PROVE  Contract!PassOn(r)
  <2>1. StatusOf(r) \in {"new", "pending"} /\ StatusOf(r)' = "passed"
    BY <1>3, StatusByPhase, StatusByPhaseNext DEF PassOn, TypeOK, TaskType
  <2>2. S' = [S EXCEPT ![r] = StatusOf(r)']
    BY <1>3, OthersKeepStatus DEF PassOn, TypeOK, TaskType
  <2> QED BY <2>1, <2>2 DEF Contract!PassOn
<1>4. ASSUME NEW r \in Requests, Handle(r), ~PassOn(r) PROVE Contract!Take(r)
  <2>1. StatusOf(r) = "new" /\ StatusOf(r)' = "pending"
    BY <1>4, StatusByPhase, StatusByPhaseNext
    DEF Handle, TypeOK, TaskType, Reading
  <2>2. S' = [S EXCEPT ![r] = StatusOf(r)']
    BY <1>4, OthersKeepStatus DEF Handle, TypeOK, TaskType
  <2> QED BY <2>1, <2>2 DEF Contract!Take
<1>5. ASSUME NEW r \in Requests, OnBodyAccepted(r) PROVE Contract!Answer(r)
  <2>1. StatusOf(r) = "pending" /\ StatusOf(r)' = "answered"
    BY <1>5, StatusByPhase, StatusByPhaseNext
    DEF OnBodyAccepted, TypeOK, TaskType, Reading
  <2>2. S' = [S EXCEPT ![r] = StatusOf(r)']
    BY <1>5, OthersKeepStatus DEF OnBodyAccepted, TypeOK, TaskType
  <2> QED BY <2>1, <2>2 DEF Contract!Answer
<1>6. ASSUME NEW r \in Requests,
             \/ OnOpen(r) \/ OnHeaderRead(r) \/ GatewayAnswers(r) \/ GatewayFails(r)
      PROVE  UNCHANGED S
  <2>1. StatusOf(r)' = StatusOf(r)
    BY <1>6, StatusByPhase, StatusByPhaseNext
    DEF OnOpen, OnHeaderRead, GatewayAnswers, GatewayFails, TypeOK, TaskType, Reading
  <2>2. S' = [S EXCEPT ![r] = StatusOf(r)']
    BY <1>6, OthersKeepStatus
    DEF OnOpen, OnHeaderRead, GatewayAnswers, GatewayFails, TypeOK, TaskType
  <2> QED BY <2>1, <2>2
<1>7. ASSUME NEW r \in Requests, Handle(r) PROVE Contract!Next
  <2>1. CASE PassOn(r)
    BY <1>3, <1>7, <2>1 DEF Handle, Contract!Next
  <2>2. CASE ~PassOn(r)
    BY <1>4, <1>7, <2>2 DEF Contract!Next
  <2> QED BY <2>1, <2>2
<1>8. ASSUME NEW r \in Requests,
             OnOpenError(r) \/ OnBodyMissing(r) \/ OnBodyRefused(r)
      PROVE  Contract!Next
  BY <1>3, <1>8
  DEF OnOpenError, OnBodyMissing, OnBodyRefused, Miss, Reading, Contract!Next
<1>9. ASSUME NEW s \in Stores, Write(s) \/ GoBad(s) PROVE UNCHANGED tasks
  BY <1>9 DEF Write, OnEntryOpened, OnEntryCreated, OnEntryError,
              OnHeaderWritten, OnHeaderError, OnBodyWritten, GoBad
<1>10. ASSUME NEW k \in Keys, Evict(k) PROVE UNCHANGED tasks
  BY <1>10 DEF Evict
<1>11. CASE UNCHANGED tasks
  BY <1>1, <1>11 DEF tasks
<1>12. CASE Boot \/ AssignBackend \/ AssignError \/ UNCHANGED vars
  BY <1>11, <1>12 DEF Boot, AssignBackend, AssignError, vars
<1> QED
  BY <1>2, <1>5, <1>6, <1>7, <1>8, <1>9, <1>10, <1>11, <1>12
  DEF Next, Lookup, Stop, OnHeaderReadError, StoreWithoutBackend, Contract!Next

(* The requestor implements the contract: every request it takes is        *)
(* answered or passed on once, unless the process ends first.              *)
THEOREM Refinement == Spec => ImplementsContract
<1>1. Init => Contract!Init
  <2> SUFFICES ASSUME Init, NEW r \in Requests PROVE StatusOf(r) = "new"
    BY DEF Contract!Init
  <2>1. phase[r] = "new"
    BY DEF Init
  <2> QED BY <2>1, InitTypeOK, InitOutcome, StatusByPhase
<1>2. /\ TypeOK /\ OutcomeInv /\ TypeOK' /\ OutcomeInv' /\ [Next]_vars
      => [Contract!Next]_([r \in Requests |-> StatusOf(r)])
  BY ContractStep
<1> QED BY <1>1, <1>2, OutcomesSound, TypeCorrect, PTL
        DEF Spec, ImplementsContract, Contract!Spec
=============================================================================
