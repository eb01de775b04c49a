--------------------------- MODULE CacheRequestor ---------------------------
(***************************************************************************)
(* The on-disk cache of IPFS blocks and IPNS names, the first link of the  *)
(* chain of requestors (component/cache_requestor.cc).                     *)
(*                                                                         *)
(* A request enters through handle, is looked up on disk in three          *)
(* asynchronous steps (open the entry, read its header stream, read its    *)
(* body stream), and is then answered from the cache or passed on to the   *)
(* next requestor.  What the gateways later answer comes back through a    *)
(* hook and is stored, again in three asynchronous steps.  All lookups and *)
(* all stores of all requests interleave; the process may stop at any      *)
(* point and the disk keeps what was written so far.                       *)
(*                                                                         *)
(* disk_cache completes an operation either synchronously or through a     *)
(* callback, and the code calls the same handler in both cases.  Here a    *)
(* completion is always an action of its own: a synchronous one is the     *)
(* behaviour in which that action comes next.                              *)
(***************************************************************************)
EXTENDS Naturals

CONSTANTS
  Requests,      \* gateway requests, each handed to the requestor once
  Keys,          \* canonical names of blocks and of IPNS records
  KeyOf,         \* root_component() of each request
  KindOf,        \* "car", "cachable" or "other" (not cachable, not CAR)
  None,          \* no entry, no bytes
  MaxFailures,   \* bound: asynchronous failures to open the backend
  MaxCrashes     \* bound: times the process stops

(* A call of Store, named by the request whose answer it stores and the    *)
(* key it stores under.  The entry such a call creates and the bytes it    *)
(* writes carry the same name.                                             *)
Stores == Requests \X Keys

ASSUME CacheAssumption ==
  /\ KeyOf \in [Requests -> Keys]
  /\ KindOf \in [Requests -> {"car", "cachable", "other"}]
  /\ None \notin Stores
  /\ MaxFailures \in Nat
  /\ MaxCrashes \in Nat

VARIABLES
  up,         \* the browser process runs
  cache,      \* cache_ holds a backend
  pending,    \* startup_pending_
  failures,   \* backends that failed to open
  crashes,    \* times the process stopped
  phase,      \* how far each request is
  entry,      \* task.entry: the entry the request's lookup has open
  hdr,        \* task.header: whose header the lookup read
  hooked,     \* requests whose successful answer will be stored
  forwards,   \* times the request was handed to the next requestor
  served,     \* whose body answered the request from the cache
  store,      \* how far each Store call is
  target,     \* the entry a Store call is writing
  index,      \* backend: the entry found under each key
  header,     \* backend: whose bytes stream 0 of an entry holds
  body,       \* backend: whose bytes stream 1 of an entry holds
  bad,        \* bytes that are expired, or no longer verify
  condemned   \* entries a lookup found bad and asked to doom

session == <<up, cache, pending, failures, crashes>>
tasks   == <<phase, entry, hdr, hooked, forwards, served>>
stores  == <<store, target>>
disk    == <<index, header, body, bad, condemned>>
vars    == <<session, tasks, stores, disk>>

Reading == {"opening", "header", "body"}
Phases  == Reading \cup {"new", "answered", "next", "fetched", "failed", "lost"}
Writing == {"opening", "header", "body"}
StorePhases == Writing \cup {"none", "skipped", "failed", "done", "lost"}

(* The type invariant.  The last conjuncts of TaskType and StoreType are   *)
(* what the handlers take for granted of the entries they are bound to     *)
(* (DCHECK(task.entry)).                                                   *)
FlagType == up \in BOOLEAN /\ cache \in BOOLEAN /\ pending \in BOOLEAN

BoundType == failures \in 0..MaxFailures /\ crashes \in 0..MaxCrashes

TaskType ==
  /\ phase \in [Requests -> Phases]
  /\ entry \in [Requests -> Stores \cup {None}]
  /\ hdr \in [Requests -> Stores \cup {None}]
  /\ hooked \in [Requests -> BOOLEAN]
  /\ forwards \in [Requests -> Nat]
  /\ served \in [Requests -> Stores \cup {None}]
  /\ \A r \in Requests : phase[r] \in {"header", "body"} => entry[r] # None

StoreType ==
  /\ store \in [Stores -> StorePhases]
  /\ target \in [Stores -> Stores \cup {None}]
  /\ \A s \in Stores : store[s] \in {"header", "body"} => target[s] # None

DiskType ==
  /\ index \in [Keys -> Stores \cup {None}]
  /\ header \in [Stores -> Stores \cup {None}]
  /\ body \in [Stores -> Stores \cup {None}]
  /\ bad \subseteq Stores /\ condemned \subseteq Stores

TypeOK == FlagType /\ BoundType /\ TaskType /\ StoreType /\ DiskType

Init ==
  /\ up = FALSE /\ cache = FALSE /\ pending = FALSE
  /\ failures = 0 /\ crashes = 0
  /\ phase = [r \in Requests |-> "new"]
  /\ entry = [r \in Requests |-> None]
  /\ hdr = [r \in Requests |-> None]
  /\ hooked = [r \in Requests |-> FALSE]
  /\ forwards = [r \in Requests |-> 0]
  /\ served = [r \in Requests |-> None]
  /\ store = [s \in Stores |-> "none"]
  /\ target = [s \in Stores |-> None]
  /\ index = [k \in Keys |-> None]
  /\ header = [s \in Stores |-> None]
  /\ body = [s \in Stores |-> None]
  /\ bad = {} /\ condemned = {}

-----------------------------------------------------------------------------
(* Startup.                                                                *)

(* Start asks for a backend.  A synchronous failure makes Assign call      *)
(* Start again at once, so a call ends with the backend assigned or with   *)
(* its creation pending.  A backend that keeps failing at once would have  *)
(* the two call each other without end, which is left out.                 *)
Start ==
  \/ pending' = TRUE /\ cache' = cache
  \/ pending' = FALSE /\ cache' = TRUE

(* The process starts and the requestor is constructed. *)
Boot ==
  /\ ~up
  /\ up' = TRUE
  /\ Start
  /\ UNCHANGED <<failures, crashes, tasks, stores, disk>>

(* The pending creation of the backend succeeds. *)
AssignBackend ==
  /\ up /\ pending
  /\ pending' = FALSE
  /\ cache' = TRUE
  /\ UNCHANGED <<up, failures, crashes, tasks, stores, disk>>

(* The pending creation of the backend fails, and Assign starts over. *)
AssignError ==
  /\ up /\ pending
  /\ failures < MaxFailures
  /\ failures' = failures + 1
  /\ Start
  /\ UNCHANGED <<up, crashes, tasks, stores, disk>>

-----------------------------------------------------------------------------
(* Lookups.                                                                *)

(* The request goes to the next requestor: forward(req), or NOT_HANDLED.   *)
PassOn(r) ==
  /\ phase' = [phase EXCEPT ![r] = "next"]
  /\ forwards' = [forwards EXCEPT ![r] = @ + 1]

(* Variant: requests are looked up while the backend is still starting. *)
HandleDuringStartup(r) ==
  /\ up /\ phase[r] = "new"
  /\ phase' = [phase EXCEPT ![r] = "opening"]
  /\ UNCHANGED <<entry, hdr, hooked, forwards, served, session, stores, disk>>

(* CAR requests are hooked and left to the others; a request that arrives  *)
(* during startup or is not cachable is left to the others unhooked; any   *)
(* other starts a lookup.  StartFetch tests startup_pending_ a second      *)
(* time: nothing runs between the two tests (BackendBehindLookups).        *)
Handle(r) ==
  /\ up /\ phase[r] = "new"
  /\ \/ /\ KindOf[r] = "car"
        /\ hooked' = [hooked EXCEPT ![r] = TRUE]
        /\ PassOn(r)
     \/ /\ KindOf[r] # "car"
        /\ pending \/ KindOf[r] # "cachable"
        /\ PassOn(r)
        /\ UNCHANGED hooked
     \/ /\ KindOf[r] = "cachable" /\ ~pending
        /\ phase' = [phase EXCEPT ![r] = "opening"]
        /\ UNCHANGED <<hooked, forwards>>
  /\ UNCHANGED <<entry, hdr, served, session, stores, disk>>

(* Variant: a failed lookup returns without calling Miss. *)
NoMiss(r) == UNCHANGED <<phase, hooked, forwards>>

(* The lookup is over without an answer: hook the request and forward it.  *)
Miss(r) ==
  /\ hooked' = [hooked EXCEPT ![r] = TRUE]
  /\ PassOn(r)

(* OnOpen with an error: nothing under the key, or the backend failed. *)
OnOpenError(r) ==
  /\ up /\ phase[r] = "opening"
  /\ Miss(r)
  /\ UNCHANGED <<entry, hdr, served, session, stores, disk>>

(* Variant: OnOpen without the test of net_error(). *)
OnOpenUnchecked(r) ==
  /\ up /\ phase[r] = "opening"
  /\ entry' = [entry EXCEPT ![r] = index[KeyOf[r]]]
  /\ phase' = [phase EXCEPT ![r] = "header"]
  /\ UNCHANGED <<hdr, hooked, forwards, served, session, stores, disk>>

(* OnOpen with an entry. *)
OnOpen(r) ==
  /\ up /\ phase[r] = "opening"
  /\ index[KeyOf[r]] # None
  /\ entry' = [entry EXCEPT ![r] = index[KeyOf[r]]]
  /\ phase' = [phase EXCEPT ![r] = "header"]
  /\ UNCHANGED <<hdr, hooked, forwards, served, session, stores, disk>>

(* OnHeaderRead: an empty header is logged and the lookup goes on. *)
OnHeaderRead(r) ==
  /\ up /\ phase[r] = "header"
  /\ hdr' = [hdr EXCEPT ![r] = header[entry[r]]]
  /\ phase' = [phase EXCEPT ![r] = "body"]
  /\ UNCHANGED <<entry, hooked, forwards, served, session, stores, disk>>

(* Variant: lookups share one buffer, into which another may have read. *)
BodyInSharedBuffer(r) ==
  LET others == {q \in Requests \ {r} : phase[q] = "body"}
      q == IF others = {} THEN r ELSE CHOOSE o \in others : TRUE
  IN  body[entry[q]]

(* The bytes the lookup's body read yields. *)
BodyRead(r) == body[entry[r]]

(* RespondSuccessfully's verdict on the bytes (external): bytes that are   *)
(* bad are refused on the strength of the header; without a header the     *)
(* verdict can go either way.                                              *)
MayAccept(r) == BodyRead(r) \notin bad \/ hdr[r] = None
MayRefuse(r) == BodyRead(r) \in bad \/ hdr[r] = None

(* Variant: the empty read does not return, so the handler runs on. *)
OnBodyReadNoReturn(r) ==
  /\ up /\ phase[r] = "body"
  /\ hooked' = [hooked EXCEPT ![r] = TRUE]
  /\ forwards' = [forwards EXCEPT ![r] = @ + 1]
  /\ UNCHANGED <<phase, entry, hdr, served, session, stores, disk>>

(* OnBodyRead with nothing read or an error. *)
OnBodyMissing(r) ==
  /\ up /\ phase[r] = "body"
  /\ Miss(r)
  /\ UNCHANGED <<entry, hdr, served, session, stores, disk>>

(* OnBodyRead with bytes the request accepts. *)
OnBodyAccepted(r) ==
  /\ up /\ phase[r] = "body"
  /\ BodyRead(r) # None
  /\ MayAccept(r)
  /\ served' = [served EXCEPT ![r] = BodyRead(r)]
  /\ phase' = [phase EXCEPT ![r] = "answered"]
  /\ UNCHANGED <<entry, hdr, hooked, forwards, session, stores, disk>>

(* Variant: the bad entry is left where it is. *)
ExpireNothing(k) == UNCHANGED index

(* DoomEntry(key): whatever the key names now is unlinked.  Its guard,     *)
(* a backend and no startup pending, holds whenever a lookup runs.         *)
Expire(k) == index' = [index EXCEPT ![k] = None]

(* OnBodyRead with bytes the request refuses: doom by key, then Miss. *)
OnBodyRefused(r) ==
  /\ up /\ phase[r] = "body"
  /\ BodyRead(r) # None
  /\ MayRefuse(r)
  /\ condemned' = condemned \cup {entry[r]}
  /\ Expire(KeyOf[r])
  /\ Miss(r)
  /\ UNCHANGED <<entry, hdr, served, session, stores, header, body, bad>>

-----------------------------------------------------------------------------
(* The next requestor answers (external), and the hook calls Store.        *)

(* The keys the library's hook is called for (external): the blocks of a   *)
(* CAR, or the one key the request was for.                                *)
HookKeys(r) ==
  IF KindOf[r] = "car" THEN SUBSET Keys ELSE {{KeyOf[r]}}

(* A gateway answers.  If the request is hooked, Store asks the backend    *)
(* to open or create an entry for each key.                                *)
GatewayAnswers(r) ==
  /\ up /\ phase[r] = "next"
  /\ phase' = [phase EXCEPT ![r] = "fetched"]
  /\ \/ ~hooked[r] /\ UNCHANGED store
     \/ /\ hooked[r]
        /\ \E ks \in HookKeys(r) :
             /\ ks # {} => cache
             /\ store' = [s \in Stores |->
                            IF s[1] = r /\ s[2] \in ks THEN "opening"
                            ELSE store[s]]
  /\ UNCHANGED <<entry, hdr, hooked, forwards, served, target, session, disk>>

(* No gateway answers. *)
GatewayFails(r) ==
  /\ up /\ phase[r] = "next"
  /\ phase' = [phase EXCEPT ![r] = "failed"]
  /\ UNCHANGED <<entry, hdr, hooked, forwards, served, session, stores, disk>>

-----------------------------------------------------------------------------
(* Stores.                                                                 *)

(* Variant: an entry that was opened, not created, is written as well. *)
WriteOpened(s) ==
  /\ store' = [store EXCEPT ![s] = "header"]
  /\ target' = [target EXCEPT ![s] = index[s[2]]]

(* OnEntryCreated with opened(): "already there and immutable". *)
SkipOpened(s) ==
  /\ store' = [store EXCEPT ![s] = "skipped"]
  /\ UNCHANGED target

OnEntryOpened(s) ==
  /\ up /\ store[s] = "opening"
  /\ index[s[2]] # None
  /\ SkipOpened(s)
  /\ UNCHANGED <<session, tasks, disk>>

(* OnEntryCreated with a new, empty entry: write its header. *)
OnEntryCreated(s) ==
  /\ up /\ store[s] = "opening"
  /\ index[s[2]] = None
  /\ index' = [index EXCEPT ![s[2]] = s]
  /\ store' = [store EXCEPT ![s] = "header"]
  /\ target' = [target EXCEPT ![s] = s]
  /\ UNCHANGED <<session, tasks, header, body, bad, condemned>>

(* OnEntryCreated with an error. *)
OnEntryError(s) ==
  /\ up /\ store[s] = "opening"
  /\ store' = [store EXCEPT ![s] = "failed"]
  /\ UNCHANGED <<target, session, tasks, disk>>

(* OnHeaderWritten: the header is there, write the body. *)
OnHeaderWritten(s) ==
  /\ up /\ store[s] = "header"
  /\ header' = [header EXCEPT ![target[s]] = s]
  /\ store' = [store EXCEPT ![s] = "body"]
  /\ UNCHANGED <<target, session, tasks, index, body, bad, condemned>>

(* Variant: a failed header write does not return. *)
WriteOn(s) == store' = [store EXCEPT ![s] = "body"]

(* Variant: a failed header write starts the whole store over. *)
StartOver(s) == store' = [store EXCEPT ![s] = "opening"]

GiveUp(s) == store' = [store EXCEPT ![s] = "failed"]

(* OnHeaderWritten with an error: the entry stays linked, and empty. *)
OnHeaderError(s) ==
  /\ up /\ store[s] = "header"
  /\ GiveUp(s)
  /\ UNCHANGED <<target, session, tasks, disk>>

(* The body write completes; its result is ignored. *)
OnBodyWritten(s) ==
  /\ up /\ store[s] = "body"
  /\ \/ body' = [body EXCEPT ![target[s]] = s]
     \/ UNCHANGED body
  /\ store' = [store EXCEPT ![s] = "done"]
  /\ UNCHANGED <<target, session, tasks, index, header, bad, condemned>>

-----------------------------------------------------------------------------
(* The environment (external).                                             *)

(* A record expires, or the bytes on disk rot. *)
GoBad(s) ==
  /\ body[s] # None
  /\ body[s] \notin bad
  /\ bad' = bad \cup {body[s]}
  /\ UNCHANGED <<session, tasks, stores, index, header, body, condemned>>

(* The backend evicts an entry. *)
Evict(k) ==
  /\ up /\ cache
  /\ index[k] # None
  /\ index' = [index EXCEPT ![k] = None]
  /\ UNCHANGED <<session, tasks, stores, header, body, bad, condemned>>

(* The process ends: what is in memory is lost, what is on disk stays. *)
Terminate ==
  /\ up' = FALSE /\ cache' = FALSE /\ pending' = FALSE
  /\ phase' = [r \in Requests |->
                 IF phase[r] \in Reading \cup {"next"} THEN "lost" ELSE phase[r]]
  /\ store' = [s \in Stores |->
                 IF store[s] \in Writing THEN "lost" ELSE store[s]]
  /\ UNCHANGED <<failures, entry, hdr, hooked, forwards, served, target, disk>>

(* The user quits, or something else in the browser crashes. *)
Stop ==
  /\ up
  /\ crashes < MaxCrashes
  /\ crashes' = crashes + 1
  /\ Terminate

(* OnHeaderRead with a negative code: it is used as the length of a string *)
(* all the same, which ends the process.                                   *)
OnHeaderReadError(r) ==
  /\ up /\ phase[r] = "header"
  /\ Terminate
  /\ UNCHANGED crashes

(* The hook of a CAR request, which is attached during startup too, calls  *)
(* Store before there is a backend to call.                                *)
StoreWithoutBackend(r) ==
  /\ up /\ phase[r] = "next"
  /\ hooked[r] /\ ~cache
  /\ \E ks \in HookKeys(r) : ks # {}
  /\ Terminate
  /\ UNCHANGED crashes

-----------------------------------------------------------------------------
Lookup(r) ==
  \/ OnOpenError(r) \/ OnOpen(r) \/ OnHeaderRead(r) \/ OnHeaderReadError(r)
  \/ OnBodyMissing(r) \/ OnBodyAccepted(r) \/ OnBodyRefused(r)

Write(s) ==
  \/ OnEntryOpened(s) \/ OnEntryCreated(s) \/ OnEntryError(s)
  \/ OnHeaderWritten(s) \/ OnHeaderError(s) \/ OnBodyWritten(s)

Next ==
  \/ Boot \/ AssignBackend \/ AssignError \/ Stop
  \/ \E r \in Requests :
       \/ Handle(r) \/ Lookup(r)
       \/ GatewayAnswers(r) \/ GatewayFails(r) \/ StoreWithoutBackend(r)
  \/ \E s \in Stores : Write(s) \/ GoBad(s)
  \/ \E k \in Keys : Evict(k)

Spec == Init /\ [][Next]_vars

(* Every operation handed to the backend completes, one way or another.    *)
Fairness ==
  /\ \A r \in Requests : WF_vars(Lookup(r))
  /\ \A s \in Stores : WF_vars(Write(s))

FairSpec == Spec /\ Fairness
=============================================================================
