--------------------------- MODULE PgSessionStore ---------------------------
(***************************************************************************)
(* PostgresSessionStore (src/session/postgres.rs): every operation takes a *)
(* connection of the pool.  save_messages is a transaction of several      *)
(* statements: the upsert of the session row, the DELETE of the old        *)
(* messages, an INSERT per message and the COMMIT; every other operation   *)
(* is one statement.  The database runs READ COMMITTED: a statement sees   *)
(* what was committed when it started, and one that writes the session row *)
(* waits for the transaction that has it locked.  A transaction sees what  *)
(* it did itself; others see it when it is committed.                      *)
(*                                                                         *)
(* Any statement may fail; the transaction is rolled back then, as it is   *)
(* when its caller drops the future or dies.  A COMMIT may be done though  *)
(* its caller never learns of it.                                          *)
(***************************************************************************)
EXTENDS FiniteSets, Sequences, Naturals

CONSTANTS Callers, Ids, Messages, Transcripts, Metadata,
          DefaultMetadata,   \* SessionMetadata::new()
          PoolSize,          \* max_pool_size
          MaxMessages,       \* bound: length of a transcript
          None

ASSUME PgAssumption ==
  /\ None \notin Callers \cup Messages \cup Transcripts \cup Metadata \cup {<<>>, DefaultMetadata}
  /\ PoolSize \in Nat \ {0} /\ MaxMessages \in Nat
  /\ Transcripts \subseteq Seq(Messages)
  /\ \A h \in Transcripts : Len(h) <= MaxMessages

VARIABLES
  agent_sessions,   \* id -> the metadata of its committed row, or None
  agent_messages,   \* id -> position -> the message of its committed row, or None
  locked,           \* id -> the transaction that has its row locked, or None
  at,               \* caller -> the statement it is at
  deleted,          \* caller -> the positions its transaction deleted
  written,          \* caller -> the messages its transaction inserted
  call              \* caller -> its call, as in SessionStore

vars == <<agent_sessions, agent_messages, locked, at, deleted, written, call>>

Positions == 1..MaxMessages

Row(id) == agent_sessions[id] # None
NoRows == [i \in Positions |-> None]

(* SELECT message ... ORDER BY position: the k-th row has k - 1 before it.  *)
InOrder(rows) ==
  LET present == {i \in Positions : rows[i] # None}
  IN [k \in 1..Cardinality(present) |->
       rows[CHOOSE i \in present : Cardinality({j \in present : j <= i}) = k]]

(* What is stored for a session is what is committed. *)
Held(id) == [messages |-> InOrder(agent_messages[id]),
             metadata |-> agent_sessions[id],
             exists |-> Row(id)]

(* What the store promises; save_messages creates the row with metadata.   *)
Store == INSTANCE SessionStore WITH db <- [id \in Ids |-> Held(id)],
                                    Empty <- <<>>,
                                    FreshMetadata <- DefaultMetadata

(* No call is None. *)
ASSUME NoneIsNoRequest == None \notin Store!Requests

Id(c)  == call[c].request.id
Arg(c) == call[c].request.arg
Asks(c, kind) == Store!Asks(c, {kind})

Init ==
  /\ agent_sessions = [id \in Ids |-> None]
  /\ agent_messages = [id \in Ids |-> NoRows]
  /\ locked = [id \in Ids |-> None]
  /\ at = [c \in Callers |-> "idle"]
  /\ deleted = [c \in Callers |-> {}]
  /\ written = [c \in Callers |-> <<>>]
  /\ call = [c \in Callers |-> Store!Replied(None)]

Invoke(c, r) ==
  /\ ~Store!Busy(c)
  /\ call' = [call EXCEPT ![c] =
       Store!Running(r, FALSE, IF r.kind \in Store!Reads
                               THEN {Store!Answer(r.kind, Held(r.id))} ELSE {})]
  /\ at' = [at EXCEPT ![c] = "pool"]
  /\ UNCHANGED <<agent_sessions, agent_messages, locked, deleted, written>>

Connected == {c \in Callers : at[c] \notin {"idle", "pool"}}

(* pool.get(): the caller waits until a connection is free. *)
Connect(c) ==
  /\ at[c] = "pool"
  /\ Cardinality(Connected) < PoolSize
  /\ at' = [at EXCEPT ![c] = "statement"]
  /\ UNCHANGED <<agent_sessions, agent_messages, locked, deleted, written, call>>

To(c, s) == at' = [at EXCEPT ![c] = s]

(* The write of c is committed, and later statements see it. *)
Takes(c) ==
  \E id \in {Id(c)} :
    /\ call' = Store!Seeing(call, c, id, Held(id)')
    /\ To(c, "return")

(* The future returns; the connection goes back to the pool. *)
Replies(c, reply) ==
  /\ call' = [call EXCEPT ![c] = Store!Replied(reply)]
  /\ To(c, "idle")

-----------------------------------------------------------------------------
(***************************************************************************)
(* save_messages                                                           *)
(***************************************************************************)

(* Mutated: ON CONFLICT DO NOTHING does not lock the row it finds. *)
UpsertSessionDoNothing(c) ==
  /\ Asks(c, "save_messages") /\ at[c] = "statement"
  /\ locked[Id(c)] = None
  /\ locked' = IF Row(Id(c)) THEN locked ELSE [locked EXCEPT ![Id(c)] = c]
  /\ To(c, "delete")
  /\ UNCHANGED <<agent_sessions, agent_messages, deleted, written, call>>

(* BEGIN and INSERT ... ON CONFLICT DO UPDATE: the session row is locked.  *)
UpsertSession(c) ==
  /\ Asks(c, "save_messages") /\ at[c] = "statement"
  /\ locked[Id(c)] = None
  /\ locked' = [locked EXCEPT ![Id(c)] = c]
  /\ To(c, "delete")
  /\ UNCHANGED <<agent_sessions, agent_messages, deleted, written, call>>

(* Mutated: the messages are written on a second connection. *)
DeleteMessagesConnecting(c) ==
  /\ at[c] = "delete"
  /\ Cardinality(Connected) + Cardinality({d \in Callers : at[d] \in {"insert", "commit"}}) < PoolSize
  /\ deleted' = [deleted EXCEPT ![c] = {i \in Positions : agent_messages[Id(c)][i] # None}]
  /\ To(c, "insert")
  /\ UNCHANGED <<agent_sessions, agent_messages, locked, written, call>>

(* DELETE FROM agent_messages: the rows committed so far. *)
DeleteMessages(c) ==
  /\ at[c] = "delete"
  /\ deleted' = [deleted EXCEPT ![c] = {i \in Positions : agent_messages[Id(c)][i] # None}]
  /\ To(c, "insert")
  /\ UNCHANGED <<agent_sessions, agent_messages, locked, written, call>>

(* The primary key (session_id, position) admits a row at position i.      *)
Admits(c, i) ==
  /\ agent_messages[Id(c)][i] # None => i \in deleted[c]
  /\ \A d \in Callers \ {c} : Asks(d, "save_messages") /\ Id(d) = Id(c)
                              => Len(written[d]) < i

(* INSERT INTO agent_messages, one statement per message. *)
InsertMessage(c) ==
  /\ at[c] = "insert"
  /\ LET n == Len(written[c]) IN
     IF n < Len(Arg(c))
     THEN /\ Admits(c, n + 1)
          /\ written' = [written EXCEPT ![c] = Append(@, Arg(c)[n + 1])]
          /\ UNCHANGED at
     ELSE /\ To(c, "commit")
          /\ UNCHANGED written
  /\ UNCHANGED <<agent_sessions, agent_messages, locked, deleted, call>>

(* The transaction ends. *)
Unlock(c) ==
  /\ locked' = [id \in Ids |-> IF locked[id] = c THEN None ELSE locked[id]]
  /\ deleted' = [deleted EXCEPT ![c] = {}]
  /\ written' = [written EXCEPT ![c] = <<>>]

Commit(c) ==
  /\ at[c] = "commit"
  /\ agent_messages' = [agent_messages EXCEPT ![Id(c)] =
       [i \in Positions |-> IF i <= Len(written[c]) THEN written[c][i]
                            ELSE IF i \in deleted[c] THEN None ELSE @[i]]]
  /\ agent_sessions' = [agent_sessions EXCEPT ![Id(c)] = IF Row(Id(c)) THEN @
                                                        ELSE DefaultMetadata]
  /\ Unlock(c)
  /\ Takes(c)

-----------------------------------------------------------------------------
(***************************************************************************)
(* The other operations are one statement each.                            *)
(***************************************************************************)

(* INSERT ... ON CONFLICT DO UPDATE of the metadata. *)
SaveMetadata(c) ==
  /\ Asks(c, "save_metadata") /\ at[c] = "statement"
  /\ locked[Id(c)] = None
  /\ agent_sessions' = [agent_sessions EXCEPT ![Id(c)] = Arg(c)]
  /\ UNCHANGED <<agent_messages, locked, deleted, written>>
  /\ Takes(c)

(* DELETE FROM agent_sessions; ON DELETE CASCADE takes the messages along. *)
(* A row that another transaction inserts is not seen, nor waited for.     *)
Clear(c) ==
  /\ Asks(c, "clear") /\ at[c] = "statement"
  /\ Row(Id(c)) => locked[Id(c)] = None
  /\ agent_sessions' = [agent_sessions EXCEPT ![Id(c)] = None]
  /\ agent_messages' = [agent_messages EXCEPT ![Id(c)] = NoRows]
  /\ UNCHANGED <<locked, deleted, written>>
  /\ Takes(c)

(* A SELECT sees what is committed. *)
Reads(c, kind, reply) ==
  /\ Asks(c, kind) /\ at[c] = "statement"
  /\ Replies(c, reply)
  /\ UNCHANGED <<agent_sessions, agent_messages, locked, deleted, written>>

(* No row is an empty transcript. *)
LoadMessages(c) == Reads(c, "load_messages", [messages |-> InOrder(agent_messages[Id(c)])])

LoadMetadata(c) == Reads(c, "load_metadata", [metadata |-> agent_sessions[Id(c)]])

(* SELECT EXISTS asks for the row of the session, with or without messages. *)
Exists(c) == Reads(c, "exists", [exists |-> Row(Id(c))])

WriteReturns(c) ==
  /\ at[c] = "return"
  /\ Replies(c, [ok |-> TRUE])
  /\ UNCHANGED <<agent_sessions, agent_messages, locked, deleted, written>>

(* The pool or a statement fails, or the caller is gone; a transaction     *)
(* that is not committed is rolled back.                                   *)
Fails(c) ==
  /\ Store!Busy(c)
  /\ Unlock(c)
  /\ Replies(c, [failed |-> TRUE])
  /\ UNCHANGED <<agent_sessions, agent_messages>>

(* The operation of c goes on. *)
Proceeds(c) ==
  \/ Connect(c)
  \/ UpsertSession(c) \/ DeleteMessages(c) \/ InsertMessage(c) \/ Commit(c)
  \/ SaveMetadata(c) \/ Clear(c)
  \/ LoadMessages(c) \/ LoadMetadata(c) \/ Exists(c)
  \/ WriteReturns(c)

Next ==
  \E c \in Callers :
    \/ \E r \in Store!Requests : Invoke(c, r)
    \/ Proceeds(c)
    \/ Fails(c)

Spec == Init /\ [][Next]_vars

-----------------------------------------------------------------------------
(* What an operation may wait for: a connection, a row that a transaction  *)
(* has locked, a key that another one has written or that is taken.        *)
Waits(c) ==
  \/ at[c] = "pool" /\ Cardinality(Connected) >= PoolSize
  \/ /\ at[c] = "statement" /\ locked[Id(c)] # None
     /\ Asks(c, "save_messages") \/ Asks(c, "save_metadata") \/ (Asks(c, "clear") /\ Row(Id(c)))
  \/ at[c] = "insert" /\ Len(written[c]) < Len(Arg(c)) /\ ~Admits(c, Len(written[c]) + 1)

(* Connections, row locks and keys never leave everyone waiting for        *)
(* everyone, however small the pool.  (A caller that waits for a row keeps *)
(* its connection; whoever locked the row has its own already, and has     *)
(* deleted the rows whose keys it inserts.)                                *)
NoCircularWait == (\E c \in Callers : Store!Busy(c)) => \E c \in Callers : Store!Busy(c) /\ ~Waits(c)

(* So while some operation runs, one of them can go on without a failure   *)
(* or a timeout: whoever does not wait has a step to take, and nobody who  *)
(* waits has one.                                                          *)
NeverStuck ==
  /\ NoCircularWait
  /\ \A c \in Callers : Store!Busy(c) => (Waits(c) <=> ~ENABLED Proceeds(c))

(* Every operation is atomic, save_messages with all its statements: no    *)
(* load sees a session without the messages it had or will have, whatever  *)
(* statement fails; and concurrent saves do not mix.                       *)
Atomic == Store!Spec
=============================================================================
