------------------------- MODULE MemorySessionStore -------------------------
(***************************************************************************)
(* InMemorySessionStore (src/session/memory.rs): two maps, each behind an  *)
(* RwLock, used from the threads of the callers.  An operation never       *)
(* awaits, so once it is polled it runs to its end; the steps are what     *)
(* another thread can see.  Only clear holds a lock from one step to the   *)
(* next; exists takes one lock after the other.  (No lock is poisoned:     *)
(* nothing panics under a lock.)                                           *)
(***************************************************************************)
CONSTANTS Callers, Ids, Transcripts, Empty, Metadata, None

ASSUME MemoryAssumption ==
  /\ None \notin Callers \cup Transcripts \cup Metadata \cup {Empty}
  /\ None \notin [by : Callers, id : Ids, removed : Transcripts \cup {None}]

VARIABLES
  sessions,   \* id -> the messages, or None when the map has no such key
  metadata,   \* id -> the metadata, or None
  clearing,   \* the clear that holds the write lock of sessions, or None
  looked,     \* caller -> exists did not find the key among the sessions
  call        \* caller -> its call, as in SessionStore

vars == <<sessions, metadata, clearing, looked, call>>

(* What the store holds for a session: a clear counts from the moment its  *)
(* second removal, until then nobody can see the first.                    *)
Held(id) ==
  LET s == IF clearing # None /\ clearing.id = id THEN clearing.removed
           ELSE sessions[id]
  IN [messages |-> IF s = None THEN Empty ELSE s,
      metadata |-> metadata[id],
      exists   |-> s # None \/ metadata[id] # None]

(* What the store promises; save_messages leaves the metadata alone. *)
Store == INSTANCE SessionStore WITH db <- [id \in Ids |-> Held(id)],
                                    FreshMetadata <- None

Id(c)  == call[c].request.id
Arg(c) == call[c].request.arg
Asks(c, kind) == Store!Asks(c, {kind})

Init ==
  /\ sessions = [id \in Ids |-> None]
  /\ metadata = [id \in Ids |-> None]
  /\ clearing = None
  /\ looked = [c \in Callers |-> FALSE]
  /\ call = [c \in Callers |-> Store!Replied(None)]

(* A caller polls the future of an operation for the first time. *)
Invoke(c, r) ==
  /\ ~Store!Busy(c)
  /\ call' = [call EXCEPT ![c] =
       Store!Running(r, FALSE, IF r.kind \in Store!Reads
                               THEN {Store!Answer(r.kind, Held(r.id))} ELSE {})]
  /\ UNCHANGED <<sessions, metadata, clearing, looked>>

(* The write of c is done, and concurrent reads may see what it left. *)
Takes(c) == \E id \in {Id(c)} : call' = Store!Seeing(call, c, id, Held(id)')

Replies(c, reply) == call' = [call EXCEPT ![c] = Store!Replied(reply)]

(* Mutated: clear drops its first guard before it takes the second lock.   *)
SessionsAlwaysFree == TRUE

(* sessions.read() or sessions.write() is granted. *)
SessionsFree == clearing = None

SaveMessages(c) ==
  /\ Asks(c, "save_messages") /\ ~call[c].done /\ SessionsFree
  /\ sessions' = [sessions EXCEPT ![Id(c)] = Arg(c)]
  /\ UNCHANGED <<metadata, clearing, looked>>
  /\ Takes(c)

SaveMetadata(c) ==
  /\ Asks(c, "save_metadata") /\ ~call[c].done
  /\ metadata' = [metadata EXCEPT ![Id(c)] = Arg(c)]
  /\ UNCHANGED <<sessions, clearing, looked>>
  /\ Takes(c)

(* The lock and what session_store.remove(&id) returned. *)
Lock(c) == [by |-> c, id |-> Id(c), removed |-> sessions[Id(c)]]

(* clear, first lock: the key is removed and the lock kept. *)
ClearSessions(c) ==
  /\ Asks(c, "clear") /\ ~call[c].done /\ SessionsFree
  /\ clearing' = Lock(c)
  /\ sessions' = [sessions EXCEPT ![Id(c)] = None]
  /\ UNCHANGED <<metadata, looked, call>>

(* clear, second lock: the metadata is removed; both guards are dropped.   *)
ClearMetadata(c) ==
  /\ Asks(c, "clear") /\ clearing # None /\ clearing.by = c
  /\ metadata' = [metadata EXCEPT ![Id(c)] = None]
  /\ clearing' = None
  /\ UNCHANGED <<sessions, looked>>
  /\ Takes(c)

(* The futures of the writers return Ok. *)
WriteReturns(c) ==
  /\ Store!Asks(c, Store!Writes) /\ call[c].done
  /\ Replies(c, [ok |-> TRUE])
  /\ UNCHANGED <<sessions, metadata, clearing, looked>>

(* load_messages: a missing key is an empty history. *)
LoadMessages(c) ==
  /\ Asks(c, "load_messages") /\ SessionsFree
  /\ Replies(c, [messages |-> IF sessions[Id(c)] = None THEN Empty ELSE sessions[Id(c)]])
  /\ UNCHANGED <<sessions, metadata, clearing, looked>>

LoadMetadata(c) ==
  /\ Asks(c, "load_metadata")
  /\ Replies(c, [metadata |-> metadata[Id(c)]])
  /\ UNCHANGED <<sessions, metadata, clearing, looked>>

(* exists, first lock: a key among the sessions settles it; otherwise the  *)
(* guard is dropped before the metadata is looked at.                      *)
ExistsSessions(c) ==
  /\ Asks(c, "exists") /\ ~looked[c] /\ SessionsFree
  /\ IF sessions[Id(c)] # None
     THEN Replies(c, [exists |-> TRUE]) /\ UNCHANGED looked
     ELSE looked' = [looked EXCEPT ![c] = TRUE] /\ UNCHANGED call
  /\ UNCHANGED <<sessions, metadata, clearing>>

ExistsMetadata(c) ==
  /\ Asks(c, "exists") /\ looked[c]
  /\ Replies(c, [exists |-> metadata[Id(c)] # None])
  /\ looked' = [looked EXCEPT ![c] = FALSE]
  /\ UNCHANGED <<sessions, metadata, clearing>>

Next ==
  \E c \in Callers :
    \/ \E r \in Store!Requests : Invoke(c, r)
    \/ SaveMessages(c) \/ SaveMetadata(c)
    \/ ClearSessions(c) \/ ClearMetadata(c) \/ WriteReturns(c)
    \/ LoadMessages(c) \/ LoadMetadata(c)
    \/ ExistsSessions(c) \/ ExistsMetadata(c)

Spec == Init /\ [][Next]_vars

-----------------------------------------------------------------------------
(* Types, and: the lock is held by a clear that is half done. *)
TypeOK ==
  /\ sessions \in [Ids -> Transcripts \cup {None}]
  /\ metadata \in [Ids -> Metadata \cup {None}]
  /\ clearing # None => /\ clearing.removed \in Transcripts \cup {None}
                        /\ Asks(clearing.by, "clear") /\ ~call[clearing.by].done
                        /\ Id(clearing.by) = clearing.id
  /\ looked \in [Callers -> BOOLEAN]

(* Every operation is atomic although the two maps have a lock each: clear *)
(* keeps the first lock until it has the second, and an exists that finds  *)
(* neither key was, at some moment of its call, about no session.          *)
Atomic == Store!Spec
=============================================================================
