--------------------------- MODULE CacheProperties ---------------------------
(***************************************************************************)
(* What the cache requestor promises, over the state of CacheRequestor.    *)
(***************************************************************************)
EXTENDS CacheRequestor

(* A lookup only runs on a backend that is there: requests taken by handle *)
(* are only those that arrive after Assign, so StartFetch's second test of *)
(* startup_pending_ never fires and cache_->OpenEntry has a cache_.        *)
BackendBehindLookups ==
  \A r \in Requests : phase[r] \in Reading => up /\ cache /\ ~pending

(* A request is answered from the cache or handed on, never both and never *)
(* twice, whichever of the failure paths through OnOpen, OnHeaderRead and  *)
(* OnBodyRead it takes.                                                    *)
AnsweredOrForwardedOnce ==
  \A r \in Requests :
    /\ served[r] # None => forwards[r] = 0
    /\ forwards[r] \in {0, 1}

(* Whenever the process stops, an entry with a body has its header: the    *)
(* expiry a cached name is judged by is never missing from a complete      *)
(* entry, because Store writes the header first and gives up if it fails.  *)
HeaderBeforeBody ==
  \A e \in Stores : body[e] # None => header[e] # None

(* The two streams of an entry come from one answer, however many answers  *)
(* for the same key are being stored at once: an entry that was opened and *)
(* not created is left alone.                                              *)
OneAnswerPerEntry ==
  \A e \in Stores :
    header[e] # None /\ body[e] # None => header[e] = body[e]

(* A request is only ever answered with bytes that were fetched for its    *)
(* key, and the header they were judged by is the header stored with them, *)
(* though header and body are read at different times while entries are    *)
(* doomed, evicted and created again under the same key.                   *)
ServedAsStored ==
  \A r \in Requests : served[r] # None =>
    /\ served[r][2] = KeyOf[r]
    /\ KindOf[served[r][1]] # "car" => KeyOf[served[r][1]] = KeyOf[r]
    /\ hdr[r] \in {None, served[r]}

(* An entry some lookup found bad cannot be found again: the refetch that  *)
(* Expire is followed by gets an entry of its own to store into.           *)
CondemnedUnlinked ==
  \A k \in Keys : index[k] \notin condemned

(* A lookup ends: with an answer, a forward, or the process.               *)
LookupsEnd ==
  \A r \in Requests : phase[r] \in Reading ~> phase[r] \notin Reading

(* A store ends, whatever it and its neighbours meet on the way.           *)
StoresEnd ==
  \A s \in Stores : store[s] \in Writing ~> store[s] \notin Writing

-----------------------------------------------------------------------------
(* The inductive invariant behind the safety properties, in three parts.   *)

(* There is a backend exactly when startup is over, and lookups, like the  *)
(* hooks of the requests they forwarded, only exist from then on.          *)
StartupInv ==
  /\ ~up => ~cache /\ ~pending
  /\ up => (cache <=> ~pending)
  /\ \A r \in Requests :
       /\ phase[r] \in Reading => cache
       /\ phase[r] \in Reading \cup {"new"} => ~hooked[r]
       /\ phase[r] = "next" /\ hooked[r] => cache \/ KindOf[r] = "car"
       /\ phase[r] \in Reading \cup {"next"} => up

(* How a request left the requestor is decided by how far it is. *)
OutcomeInv ==
  \A r \in Requests :
    /\ phase[r] \in Reading \cup {"new", "answered"} => forwards[r] = 0
    /\ phase[r] \in {"next", "fetched", "failed"} => forwards[r] = 1
    /\ forwards[r] \in {0, 1}
    /\ (served[r] # None) <=> (phase[r] = "answered")

(* Nothing is stored for a request before it is answered, and nothing but  *)
(* the answer to what it asked for.                                        *)
NoStoreYet ==
  \A s \in Stores :
    /\ phase[s[1]] \notin {"fetched", "lost"} => store[s] = "none"
    /\ store[s] = "none" \/ KindOf[s[1]] = "car" \/ s[2] = KeyOf[s[1]]

(* A Store call that has not created its entry has left no trace of it. *)
NoEntryYet ==
  \A s \in Stores : store[s] \in {"none", "opening"} =>
    /\ header[s] = None /\ body[s] = None
    /\ s \notin condemned
    /\ \A k \in Keys : index[k] # s
    /\ \A r \in Requests : entry[r] # s

(* An entry holds nothing but the bytes of the call that created it, the   *)
(* header first.                                                           *)
OwnBytes ==
  \A s \in Stores :
    /\ target[s] \in {None, s}
    /\ header[s] \in {None, s}
    /\ body[s] \in {None, s}
    /\ body[s] = s => header[s] = s
    /\ store[s] = "body" => header[s] = s

(* A key names an entry created for it, and none that was condemned. *)
Links ==
  \A k \in Keys :
    /\ index[k] # None => index[k][2] = k
    /\ index[k] \notin condemned

(* A lookup has an entry of its own key open and reads only from it. *)
Handles ==
  \A r \in Requests :
    /\ entry[r] # None => entry[r][2] = KeyOf[r]
    /\ hdr[r] \in {None, entry[r]}
    /\ served[r] \in {None, entry[r]}
    /\ phase[r] \in {"new", "opening"} => hdr[r] = None /\ served[r] = None

EntryInv == NoStoreYet /\ NoEntryYet /\ OwnBytes /\ Links /\ Handles

IInv == TypeOK /\ StartupInv /\ OutcomeInv /\ EntryInv

-----------------------------------------------------------------------------
(* The requestor implements the contract of the chain.  What the next      *)
(* requestor makes of a request is no concern of the contract.             *)
StatusOf(r) ==
  CASE forwards[r] = 0 /\ phase[r] \in Reading                    -> "pending"
    [] forwards[r] = 0 /\ phase[r] \in {"new", "answered", "lost"} -> phase[r]
    [] forwards[r] = 1 /\ served[r] = None                        -> "passed"
    [] OTHER                                                      -> "twice"

Contract == INSTANCE RequestContract
              WITH status <- [r \in Requests |-> StatusOf(r)]

(* Every behaviour of the requestor is one the contract allows. *)
ImplementsContract == Contract!Spec

-----------------------------------------------------------------------------
(* A statement of a comment.                                               *)

(* "No need to write this entry as it is already there": an entry that is  *)
(* skipped is complete, or a store is still completing it.                 *)
SkippedEntriesAreThere ==
  [][\A s \in Stores :
       store[s] = "opening" /\ store'[s] = "skipped" =>
         LET e == index[s[2]]
         IN  body[e] # None \/ store[e] \in {"header", "body"}]_vars
=============================================================================
