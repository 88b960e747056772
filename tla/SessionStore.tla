---------------------------- MODULE SessionStore ----------------------------
(***************************************************************************)
(* What a MemoryStore promises (src/session/store.rs) to callers that use  *)
(* it concurrently: every operation is atomic.  A write takes effect once, *)
(* at a moment of its call; a read answers with what held at a moment of   *)
(* its call.  A call may fail, and a write may fail after it took effect.  *)
(*                                                                         *)
(* A caller that drops its future does not end the call here: the call     *)
(* ends, in a failure nobody sees, when the store has given it up.         *)
(***************************************************************************)
CONSTANTS Callers,
          Ids,             \* SessionIds
          Transcripts,     \* the values of save_messages
          Empty,           \* the empty Vec
          Metadata,        \* the values of save_metadata
          FreshMetadata,   \* what save_messages leaves as metadata when there is none
          None

VARIABLES
  db,       \* id -> what is stored for the session
  call      \* caller -> its running call, or the reply of the last one

Writes == {"save_messages", "save_metadata", "clear"}
Reads  == {"load_messages", "load_metadata", "exists"}

(* What can be asked of the store. *)
Requests ==
  [kind : {"save_messages"}, id : Ids, arg : Transcripts]
  \cup [kind : {"save_metadata"}, id : Ids, arg : Metadata]
  \cup [kind : Reads \cup {"clear"}, id : Ids, arg : {None}]

(* What is stored for a session: exists is what exists(id) says of it. *)
NoSession == [messages |-> Empty, metadata |-> None, exists |-> FALSE]

(* The reply to a read of a session that holds s. *)
Answer(kind, s) ==
  CASE kind = "load_messages" -> [messages |-> s.messages]
    [] kind = "load_metadata" -> [metadata |-> s.metadata]
    [] kind = "exists"        -> [exists |-> s.exists]

(* What a write makes of a session that holds s. *)
After(request, s) ==
  CASE request.kind = "save_messages" ->
         [messages |-> request.arg, exists |-> TRUE,
          metadata |-> IF s.metadata = None THEN FreshMetadata ELSE s.metadata]
    [] request.kind = "save_metadata" ->
         [messages |-> s.messages, exists |-> TRUE, metadata |-> request.arg]
    [] request.kind = "clear" -> NoSession

(* The running call of a caller: its request, whether its write has taken  *)
(* effect, and the answers its read may give.                              *)
Running(r, done, seen) == [request |-> r, done |-> done, seen |-> seen, reply |-> None]
Replied(reply) == [request |-> None, done |-> FALSE, seen |-> {}, reply |-> reply]

Busy(c) == call[c].request # None
Asks(c, kinds) == Busy(c) /\ call[c].request.kind \in kinds

Init ==
  /\ db = [id \in Ids |-> NoSession]
  /\ call = [c \in Callers |-> Replied(None)]

Invoke(c, r) ==
  /\ ~Busy(c)
  /\ call' = [call EXCEPT ![c] =
       Running(r, FALSE, IF r.kind \in Reads THEN {Answer(r.kind, db[r.id])} ELSE {})]
  /\ UNCHANGED db

(* The calls once the session id holds s: readers of it may answer so, and *)
(* the write of c, which made it so, is done.                              *)
Seeing(calls, c, id, s) ==
  [d \in Callers |->
    LET r == calls[d].request IN
    IF d = c THEN [calls[d] EXCEPT !.done = TRUE]
    ELSE IF r # None /\ r.id = id /\ r.kind \in Reads
         THEN [calls[d] EXCEPT !.seen = @ \cup {Answer(r.kind, s)}]
         ELSE calls[d]]

(* A write takes effect. *)
Effect(c) ==
  /\ Asks(c, Writes) /\ ~call[c].done
  /\ LET r == call[c].request
         s == After(r, db[r.id])
     IN /\ db' = [db EXCEPT ![r.id] = s]
        /\ call' = Seeing(call, c, r.id, s)

Return(c, reply) ==
  /\ \/ Asks(c, Writes) /\ call[c].done /\ reply = [ok |-> TRUE]
     \/ Asks(c, Reads) /\ reply \in call[c].seen
  /\ call' = [call EXCEPT ![c] = Replied(reply)]
  /\ UNCHANGED db

Fail(c) ==
  /\ Busy(c)
  /\ call' = [call EXCEPT ![c] = Replied([failed |-> TRUE])]
  /\ UNCHANGED db

Next ==
  \E c \in Callers :
    \/ \E r \in Requests : Invoke(c, r)
    \/ Effect(c)
    \/ \E reply \in call[c].seen \cup {[ok |-> TRUE]} : Return(c, reply)
    \/ Fail(c)

Spec == Init /\ [][Next]_<<db, call>>
=============================================================================
