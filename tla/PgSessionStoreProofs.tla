------------------------- MODULE PgSessionStoreProofs -------------------------
(***************************************************************************)
(* PostgresSessionStore is a MemoryStore whose operations are atomic, for  *)
(* any number of callers, sessions, connections and messages, although a   *)
(* save is a transaction of several statements.  What a session holds is   *)
(* what is committed, so the statements before the COMMIT are stutters,    *)
(* and what has to be shown is that the COMMIT leaves the transcript of    *)
(* its save and nothing else: that the rows it deletes are all the rows    *)
(* there are (Transactions: nobody changed them since the DELETE, since    *)
(* the session row is locked, or there is none and so no message either),  *)
(* and that rows read by position are the transcript (InOrderOfRows).      *)
(* Its callers never wait in a circle: whoever has locked a row has a      *)
(* connection and waits for nothing (Holders).                             *)
(***************************************************************************)
EXTENDS PgSessionStore, FiniteSetTheorems, TLAPS

(* The rows of a transcript, and the positions a session has rows at. *)
RowsOf(h) == [i \in Positions |-> IF i <= Len(h) THEN h[i] ELSE None]
Occupied(id) == {i \in Positions : agent_messages[id][i] # None}

Stored == Transcripts \cup {<<>>}
Known  == Metadata \cup {DefaultMetadata}

HeldStates == [messages : Stored, metadata : Known \cup {None}, exists : BOOLEAN]

Answers == [messages : Stored] \cup [metadata : Known \cup {None}] \cup [exists : BOOLEAN]

Calls == [request : Store!Requests \cup {None}, done : BOOLEAN,
          seen : SUBSET Answers, reply : Answers \cup {[ok |-> TRUE], [failed |-> TRUE], None}]

Reading(c) == Store!Asks(c, Store!Reads)

(* The tables: a session has messages only if it has a row (the foreign    *)
(* key), and they are the messages of one transcript.                      *)
Tables ==
  /\ agent_sessions \in [Ids -> Known \cup {None}]
  /\ agent_messages \in [Ids -> {RowsOf(h) : h \in Stored}]
  /\ \A id \in Ids : ~Row(id) => agent_messages[id] = NoRows

(* What holds now is among the answers of a running read. *)
Current ==
  \A c \in Callers, id \in Ids :
    Reading(c) /\ Id(c) = id => Store!Answer(call[c].request.kind, Held(id)) \in call[c].seen

Between == {"delete", "insert", "commit"}

(* The statement a caller is at, and what its transaction did so far.      *)
Phase(c) ==
  /\ at[c] = "idle" <=> ~Store!Busy(c)
  /\ at[c] = "return" => call[c].done /\ Store!Asks(c, Store!Writes)
  /\ at[c] # "return" => call[c].done = FALSE
  /\ at[c] \in Between => Asks(c, "save_messages") /\ locked[Id(c)] = c
  /\ at[c] \in {"insert", "commit"} => deleted[c] = Occupied(Id(c))
  /\ at[c] \notin {"insert", "commit"} => written[c] = <<>>
  /\ at[c] = "insert" => /\ Len(written[c]) <= Len(Arg(c))
                         /\ \A i \in 1..Len(written[c]) : written[c][i] = Arg(c)[i]
  /\ at[c] = "commit" => written[c] = Arg(c)

Transactions == \A c \in Callers : Phase(c)

Types ==
  /\ locked \in [Ids -> Callers \cup {None}]
  /\ at \in [Callers -> {"idle", "pool", "statement", "return"} \cup Between]
  /\ deleted \in [Callers -> SUBSET Positions]
  /\ written \in [Callers -> Seq(Messages)]
  /\ call \in [Callers -> Calls]

StoreInv == Types /\ Tables /\ Transactions /\ Current

-----------------------------------------------------------------------------
(***************************************************************************)
(* The tables read by position.                                            *)
(***************************************************************************)

LEMMA StoredType ==
  ASSUME NEW h \in Stored
  PROVE  /\ h \in Seq(Messages) /\ Len(h) \in Nat /\ Len(h) <= MaxMessages
         /\ \A i \in 1..Len(h) : h[i] \in Messages /\ h[i] # None
<1>1. CASE h \in Transcripts
  BY <1>1, PgAssumption
<1>2. CASE h = <<>>
  BY <1>2, PgAssumption
<1> QED BY <1>1, <1>2 DEF Stored

LEMMA FirstNaturals == \A n \in Nat : Cardinality(1..n) = n
BY FS_Interval

(* ORDER BY position gives the transcript whose rows they are. *)
LEMMA InOrderOfRows ==
  ASSUME NEW h \in Stored
  PROVE  InOrder(RowsOf(h)) = h
<1> DEFINE n == Len(h)
           present == {i \in Positions : RowsOf(h)[i] # None}
<1>1. h \in Seq(Messages) /\ n \in Nat /\ n <= MaxMessages /\ MaxMessages \in Nat
  BY StoredType, PgAssumption
<1>2. \A i \in 1..n : h[i] # None
  BY StoredType
<1>3. present = 1..n
  BY <1>1, <1>2 DEF Positions, RowsOf
<1>4. ASSUME NEW k \in 1..n
      PROVE  Cardinality({j \in present : j <= k}) = k
  <2>1. {j \in present : j <= k} = 1..k
    BY <1>1, <1>3
  <2>2. Cardinality(1..k) = k
    BY <1>1, FS_Interval
  <2> QED BY <2>1, <2>2
<1> DEFINE nth(k) == CHOOSE i \in present : Cardinality({j \in present : j <= i}) = k
<1>5. ASSUME NEW k \in 1..n
      PROVE  nth(k) = k
  BY <1>3, <1>4
<1>6. Cardinality(present) = n
  <2>1. Cardinality(1..n) = n
    BY <1>1, FirstNaturals
  <2> HIDE DEF present
  <2> QED BY <1>3, <2>1
<1>7. InOrder(RowsOf(h)) = [k \in 1..Cardinality(present) |-> RowsOf(h)[nth(k)]]
  BY DEF InOrder
<1>8. \A k \in 1..n : RowsOf(h)[k] = h[k]
  BY <1>1 DEF RowsOf, Positions
<1> HIDE DEF present, nth
<1>9. InOrder(RowsOf(h)) = [k \in 1..n |-> h[k]]
  BY <1>5, <1>6, <1>7, <1>8
<1> QED BY <1>1, <1>9

LEMMA SessionType ==
  ASSUME NEW h \in Stored, NEW rows, rows = RowsOf(h), NEW m \in Known \cup {None}
  PROVE  [messages |-> InOrder(rows), metadata |-> m, exists |-> m # None] \in HeldStates
<1>1. InOrder(RowsOf(h)) = h
  BY InOrderOfRows
<1>2. InOrder(rows) \in Stored
  <2> HIDE DEF RowsOf, InOrder, Stored
  <2> QED BY ONLY <1>1, rows = RowsOf(h), h \in Stored
<1> QED BY <1>2 DEF HeldStates

LEMMA HeldType ==
  ASSUME NEW id \in Ids
  PROVE  (Tables => Held(id) \in HeldStates) /\ (Tables' => Held(id)' \in HeldStates)
<1>1. ASSUME Tables PROVE Held(id) \in HeldStates
  <2>1. PICK h \in Stored : agent_messages[id] = RowsOf(h)
    BY <1>1 DEF Tables
  <2>2. agent_sessions[id] \in Known \cup {None}
    BY <1>1 DEF Tables
  <2> HIDE DEF InOrder, HeldStates, RowsOf
  <2> QED BY <2>1, <2>2, SessionType DEF Held, Row
<1>2. ASSUME Tables' PROVE Held(id)' \in HeldStates
  <2>1. PICK h \in Stored : agent_messages'[id] = RowsOf(h)
    BY <1>2 DEF Tables
  <2>2. agent_sessions'[id] \in Known \cup {None}
    BY <1>2 DEF Tables
  <2>3. Held(id)' = [messages |-> InOrder(agent_messages'[id]), metadata |-> agent_sessions'[id],
                     exists |-> agent_sessions'[id] # None]
    BY DEF Held, Row, InOrder
  <2> HIDE DEF InOrder, HeldStates, RowsOf
  <2> QED BY <2>1, <2>2, <2>3, SessionType
<1> QED BY <1>1, <1>2

-----------------------------------------------------------------------------
(* A running call has a request of the store. *)
LEMMA BusyRequest ==
  ASSUME call \in [Callers -> Calls], NEW c \in Callers, Store!Busy(c)
  PROVE  call[c].request \in Store!Requests
BY DEF Calls, Store!Busy

LEMMA RequestTypes ==
  ASSUME NEW r \in Store!Requests
  PROVE  /\ r.id \in Ids
         /\ r.kind \in Store!Reads \cup Store!Writes
         /\ r.kind = "save_messages" => r.arg \in Transcripts
         /\ r.kind = "save_metadata" => r.arg \in Metadata
BY DEF Store!Requests, Store!Reads, Store!Writes

LEMMA AnswerType ==
  ASSUME NEW s \in HeldStates, NEW kind \in Store!Reads
  PROVE  Store!Answer(kind, s) \in Answers
BY DEF HeldStates, Store!Reads, Store!Answer, Answers

(* The two updates of a call. *)
LEMMA MoreSeen ==
  ASSUME NEW x \in Calls, NEW a \in Answers
  PROVE  LET y == [x EXCEPT !.seen = @ \cup {a}] IN
         y \in Calls /\ y.request = x.request /\ y.done = x.done /\ y.seen = x.seen \cup {a}
BY DEF Calls

LEMMA NowDone ==
  ASSUME NEW x \in Calls
  PROVE  LET y == [x EXCEPT !.done = TRUE] IN
         y \in Calls /\ y.request = x.request /\ y.seen = x.seen /\ y.done
BY DEF Calls

(* The calls after a write of c that leaves s: every call keeps its        *)
(* request and what it has seen, and the reads of that session see s.      *)
LEMMA SeeingCalls ==
  ASSUME NEW calls \in [Callers -> Calls], NEW c \in Callers, NEW id \in Ids,
         NEW s \in HeldStates
  PROVE  LET after == Store!Seeing(calls, c, id, s) IN
         /\ after \in [Callers -> Calls] /\ after[c].done
         /\ \A d \in Callers :
              /\ after[d].request = calls[d].request
              /\ calls[d].seen \subseteq after[d].seen
              /\ d # c => after[d].done = calls[d].done
              /\ d # c /\ calls[d].request # None /\ calls[d].request.id = id
                 /\ calls[d].request.kind \in Store!Reads
                 => Store!Answer(calls[d].request.kind, s) \in after[d].seen
<1> DEFINE after == Store!Seeing(calls, c, id, s)
           Looks(d) == /\ d # c /\ calls[d].request # None /\ calls[d].request.id = id
                       /\ calls[d].request.kind \in Store!Reads
<1>1. ASSUME NEW d \in Callers
      PROVE  /\ after[d] \in Calls
             /\ after[d].request = calls[d].request
             /\ calls[d].seen \subseteq after[d].seen
             /\ d = c => after[d].done
             /\ d # c => after[d].done = calls[d].done
             /\ Looks(d) => Store!Answer(calls[d].request.kind, s) \in after[d].seen
  <2>1. CASE d = c
    <3>1. after[d] = [calls[d] EXCEPT !.done = TRUE]
      BY <2>1 DEF Store!Seeing
    <3> HIDE DEF after
    <3> QED BY <2>1, <3>1, NowDone
  <2>2. CASE Looks(d)
    <3>1. PICK a \in Answers : a = Store!Answer(calls[d].request.kind, s)
      BY <2>2, AnswerType
    <3>2. after[d] = [calls[d] EXCEPT !.seen = @ \cup {a}]
      BY <2>2, <3>1 DEF Store!Seeing
    <3> HIDE DEF after
    <3>3. /\ after[d] \in Calls
          /\ after[d].request = calls[d].request
          /\ after[d].done = calls[d].done
          /\ after[d].seen = calls[d].seen \cup {a}
      BY <3>2, MoreSeen
    <3> HIDE DEF Store!Answer
    <3> QED BY <2>2, <3>1, <3>3
  <2>3. CASE d # c /\ ~Looks(d)
    BY <2>3 DEF Store!Seeing
  <2> QED BY <2>1, <2>2, <2>3
<1>2. after = [d \in Callers |-> after[d]]
  BY DEF Store!Seeing
<1> QED BY <1>1, <1>2

-----------------------------------------------------------------------------
(***************************************************************************)
(* What a step of one caller keeps of the others.                          *)
(***************************************************************************)

db == [id \in Ids |-> Held(id)]
AbstractStep == Store!Next \/ UNCHANGED <<db, call>>

(* A transaction goes on as before if its row is still locked and its      *)
(* messages are still those it found.                                      *)
LEMMA PhaseKept ==
  ASSUME NEW d \in Callers, Phase(d),
         call'[d].request = call[d].request, call'[d].done = call[d].done,
         at'[d] = at[d], written'[d] = written[d], deleted'[d] = deleted[d],
         at[d] \in Between => locked'[Id(d)] = d,
         at[d] \in {"insert", "commit"} => agent_messages'[Id(d)] = agent_messages[Id(d)]
  PROVE  Phase(d)'
<1>1. Id(d)' = Id(d) /\ Arg(d)' = Arg(d)
  BY DEF Id, Arg
<1>2. /\ Store!Busy(d)' <=> Store!Busy(d)
      /\ Store!Asks(d, Store!Writes)' <=> Store!Asks(d, Store!Writes)
      /\ Asks(d, "save_messages")' <=> Asks(d, "save_messages")
  BY DEF Store!Busy, Store!Asks, Asks
<1>3. /\ at'[d] = "idle" <=> ~Store!Busy(d)'
      /\ at'[d] = "return" => call'[d].done /\ Store!Asks(d, Store!Writes)'
      /\ at'[d] # "return" => call'[d].done = FALSE
  BY <1>2 DEF Phase
<1>4. at'[d] \in Between => Asks(d, "save_messages")' /\ locked'[Id(d)'] = d
  BY <1>1, <1>2 DEF Phase
<1>5. at'[d] \in {"insert", "commit"} => deleted'[d] = Occupied(Id(d))'
  BY <1>1 DEF Phase, Occupied
<1>6. /\ at'[d] \notin {"insert", "commit"} => written'[d] = <<>>
      /\ at'[d] = "insert" => /\ Len(written'[d]) <= Len(Arg(d)')
                              /\ \A i \in 1..Len(written'[d]) : written'[d][i] = Arg(d)'[i]
      /\ at'[d] = "commit" => written'[d] = Arg(d)'
  BY <1>1 DEF Phase
<1> QED BY <1>3, <1>4, <1>5, <1>6 DEF Phase

(* What holds now is still among the answers of a read that goes on, if    *)
(* its session is as it was.                                               *)
LEMMA CurrentKept ==
  ASSUME Current, NEW d \in Callers, NEW i \in Ids, Reading(d), Id(d) = i,
         call'[d].request = call[d].request, call[d].seen \subseteq call'[d].seen,
         Held(i)' = Held(i)
  PROVE  Store!Answer(call'[d].request.kind, Held(i)') \in call'[d].seen
<1>1. Store!Answer(call[d].request.kind, Held(i)) \in call[d].seen
  BY DEF Current
<1> HIDE DEF Store!Answer
<1> QED BY <1>1

LEMMA HeldKept ==
  ASSUME NEW i, agent_sessions'[i] = agent_sessions[i], agent_messages'[i] = agent_messages[i]
  PROVE  Held(i)' = Held(i)
BY DEF Held, Row, InOrder

(* A statement before the COMMIT changes nothing that others can see.      *)
LEMMA StatementKeeps ==
  ASSUME StoreInv, NEW c \in Callers, UNCHANGED <<agent_sessions, agent_messages, call>>,
         Types', Phase(c)',
         \A d \in Callers \ {c} :
           /\ at'[d] = at[d] /\ written'[d] = written[d] /\ deleted'[d] = deleted[d]
           /\ \A i \in Ids : locked[i] = d => locked'[i] = d
  PROVE  StoreInv' /\ UNCHANGED <<db, call>>
<1>1. \A i \in Ids : Held(i)' = Held(i)
  BY HeldKept
<1>2. Tables'
  BY DEF StoreInv, Tables, Row
<1>3. ASSUME NEW d \in Callers, d # c
      PROVE  Phase(d)'
  <2>1. Phase(d)
    BY DEF StoreInv, Transactions
  <2>2. at[d] \in Between => locked'[Id(d)] = d
    <3>1. at[d] \in Between => Id(d) \in Ids
      BY <2>1, BusyRequest, RequestTypes DEF StoreInv, Types, Phase, Asks, Store!Asks, Id
    <3> QED BY <1>3, <2>1, <3>1 DEF Phase
  <2> QED BY <1>3, <2>1, <2>2, PhaseKept
<1>4. Current'
  <2> SUFFICES ASSUME NEW d \in Callers, NEW i \in Ids, Reading(d)', Id(d)' = i
               PROVE  Store!Answer(call'[d].request.kind, Held(i)') \in call'[d].seen
    BY DEF Current
  <2>1. Reading(d) /\ Id(d) = i
    BY DEF Reading, Store!Asks, Store!Busy, Id
  <2> QED BY <1>1, <2>1, CurrentKept DEF StoreInv
<1>5. UNCHANGED db
  BY <1>1 DEF db
<1> QED BY <1>2, <1>3, <1>4, <1>5 DEF StoreInv, Transactions

(* Nor does the reply of a call. *)
LEMMA ReplyKeeps ==
  ASSUME StoreInv, NEW c \in Callers, NEW reply \in Answers \cup {[ok |-> TRUE], [failed |-> TRUE]},
         Replies(c, reply), UNCHANGED <<agent_sessions, agent_messages>>,
         locked' \in [Ids -> Callers \cup {None}], deleted' \in [Callers -> SUBSET Positions],
         written' \in [Callers -> Seq(Messages)], written'[c] = <<>>,
         \A d \in Callers \ {c} :
           /\ written'[d] = written[d] /\ deleted'[d] = deleted[d]
           /\ \A i \in Ids : locked[i] = d => locked'[i] = d
  PROVE  StoreInv' /\ UNCHANGED db
<1>1. \A i \in Ids : Held(i)' = Held(i)
  BY HeldKept
<1>2. Tables' /\ UNCHANGED db
  BY <1>1 DEF StoreInv, Tables, Row, db
<1>3. /\ call' \in [Callers -> Calls] /\ at' \in [Callers -> {"idle", "pool", "statement", "return"} \cup Between]
      /\ call'[c].request = None /\ call'[c].done = FALSE /\ at'[c] = "idle"
      /\ \A d \in Callers \ {c} : call'[d] = call[d] /\ at'[d] = at[d]
  <2>1. /\ Store!Replied(reply) \in Calls
        /\ Store!Replied(reply).request = None /\ Store!Replied(reply).done = FALSE
    BY DEF Store!Replied, Calls
  <2>2. /\ call' = [call EXCEPT ![c] = Store!Replied(reply)]
        /\ at' = [at EXCEPT ![c] = "idle"]
    BY DEF Replies, To
  <2> HIDE DEF Store!Replied, Calls
  <2> QED BY <2>1, <2>2 DEF StoreInv, Types
<1>4. Types'
  BY <1>3 DEF Types
<1>5. Phase(c)'
  BY <1>3 DEF Phase, Store!Busy, Between
<1>6. ASSUME NEW d \in Callers, d # c
      PROVE  Phase(d)'
  <2>1. Phase(d)
    BY DEF StoreInv, Transactions
  <2>2. at[d] \in Between => locked'[Id(d)] = d
    <3>1. at[d] \in Between => Id(d) \in Ids
      BY <2>1, BusyRequest, RequestTypes DEF StoreInv, Types, Phase, Asks, Store!Asks, Id
    <3> QED BY <1>6, <2>1, <3>1 DEF Phase
  <2> QED BY <1>3, <1>6, <2>1, <2>2, PhaseKept
<1>7. Current'
  <2> SUFFICES ASSUME NEW d \in Callers, NEW i \in Ids, Reading(d)', Id(d)' = i
               PROVE  Store!Answer(call'[d].request.kind, Held(i)') \in call'[d].seen
    BY DEF Current
  <2>1. d # c /\ Reading(d) /\ Id(d) = i
    BY <1>3 DEF Reading, Store!Asks, Store!Busy, Id
  <2> QED BY <1>1, <1>3, <2>1, CurrentKept DEF StoreInv
<1> QED BY <1>2, <1>4, <1>5, <1>6, <1>7 DEF StoreInv, Transactions

-----------------------------------------------------------------------------
(***************************************************************************)
(* Every step keeps StoreInv and is a step of the abstract store.          *)
(***************************************************************************)

LEMMA InitInv == Init => StoreInv /\ Store!Init
<1> SUFFICES ASSUME Init PROVE StoreInv /\ Store!Init
  OBVIOUS
<1>1. /\ call \in [Callers -> Calls]
      /\ \A c \in Callers : call[c].request = None /\ call[c].done = FALSE
  BY DEF Init, Store!Replied, Calls
<1>2. NoRows = RowsOf(<<>>) /\ <<>> \in Stored
  BY DEF NoRows, RowsOf, Positions, Stored
<1>3. Tables /\ Types
  BY <1>1, <1>2 DEF Init, Tables, Types
<1>4. Transactions
  BY <1>1 DEF Init, Transactions, Phase, Store!Busy, Between
<1>5. Current
  BY <1>1 DEF Current, Reading, Store!Asks, Store!Busy
<1>6. ASSUME NEW id \in Ids
      PROVE  Held(id) = Store!NoSession
  <2>1. InOrder(RowsOf(<<>>)) = <<>>
    BY <1>2, InOrderOfRows
  <2>2. agent_messages[id] = RowsOf(<<>>) /\ agent_sessions[id] = None
    BY <1>2 DEF Init
  <2>3. InOrder(agent_messages[id]) = <<>>
    <3> HIDE DEF RowsOf, InOrder
    <3> QED BY ONLY <2>1, <2>2
  <2> QED BY <2>2, <2>3 DEF Held, Row, Store!NoSession
<1> QED BY <1>3, <1>4, <1>5, <1>6 DEF Init, Store!Init, StoreInv

LEMMA InvokeStep ==
  ASSUME StoreInv, NEW c \in Callers, NEW r \in Store!Requests, Invoke(c, r)
  PROVE  StoreInv' /\ Store!Invoke(c, r)
<1>1. \A i \in Ids : Held(i)' = Held(i)
  BY HeldKept DEF Invoke
<1>2. r.id \in Ids /\ r.kind \in Store!Reads \cup Store!Writes /\ r # None
  BY RequestTypes, NoneIsNoRequest
<1>3. db[r.id] = Held(r.id) /\ UNCHANGED db
  BY <1>1, <1>2 DEF db
<1>4. Held(r.id) \in HeldStates
  BY <1>2, HeldType DEF StoreInv
<1> DEFINE seen == IF r.kind \in Store!Reads THEN {Store!Answer(r.kind, Held(r.id))} ELSE {}
<1>5. seen \subseteq Answers
  <2>1. CASE r.kind \in Store!Reads
    <3>1. Store!Answer(r.kind, Held(r.id)) \in Answers
      BY <1>4, <2>1, AnswerType
    <3> QED BY <3>1, <2>1
  <2>2. CASE r.kind \notin Store!Reads
    BY <2>2
  <2> QED BY <2>1, <2>2
<1>6. /\ call' = [call EXCEPT ![c] = Store!Running(r, FALSE, seen)]
      /\ at' = [at EXCEPT ![c] = "pool"] /\ ~Store!Busy(c)
      /\ UNCHANGED <<agent_sessions, agent_messages, locked, deleted, written>>
  BY DEF Invoke
<1>7. /\ call' \in [Callers -> Calls]
      /\ call'[c].request = r /\ call'[c].seen = seen /\ call'[c].done = FALSE
      /\ \A d \in Callers \ {c} : call'[d] = call[d]
  <2> HIDE DEF seen
  <2>1. /\ Store!Running(r, FALSE, seen) \in Calls
        /\ Store!Running(r, FALSE, seen).request = r
        /\ Store!Running(r, FALSE, seen).seen = seen
        /\ Store!Running(r, FALSE, seen).done = FALSE
    BY <1>5 DEF Store!Running, Calls
  <2> QED BY <1>6, <2>1 DEF StoreInv, Types
<1>8. /\ at' \in [Callers -> {"idle", "pool", "statement", "return"} \cup Between]
      /\ at'[c] = "pool" /\ \A d \in Callers \ {c} : at'[d] = at[d]
  BY <1>6 DEF StoreInv, Types
<1>9. Types' /\ Tables'
  BY <1>6, <1>7, <1>8 DEF StoreInv, Types, Tables, Row
<1>10. ASSUME NEW d \in Callers
       PROVE  Phase(d)'
  <2>1. CASE d = c
    <3>1. written[c] = <<>>
      BY <1>6 DEF StoreInv, Transactions, Phase, Asks
    <3> QED BY <1>2, <1>6, <1>7, <1>8, <2>1, <3>1 DEF Phase, Store!Busy, Between
  <2>2. CASE d # c
    <3>1. Phase(d)
      BY DEF StoreInv, Transactions
    <3>2. at[d] \in Between => locked'[Id(d)] = d
      BY <1>6, <3>1 DEF Phase
    <3> QED BY <1>6, <1>7, <1>8, <2>2, <3>1, <3>2, PhaseKept
  <2> QED BY <2>1, <2>2
<1>11. Current'
  <2> SUFFICES ASSUME NEW d \in Callers, NEW i \in Ids, Reading(d)', Id(d)' = i
               PROVE  Store!Answer(call'[d].request.kind, Held(i)') \in call'[d].seen
    BY DEF Current
  <2>1. CASE d = c
    <3>1. r.kind \in Store!Reads /\ r.id = i
      BY <1>7, <2>1 DEF Reading, Store!Asks, Id
    <3>2. Held(i)' = Held(r.id)
      BY <1>1, <3>1
    <3>3. Store!Answer(r.kind, Held(r.id)) \in seen
      BY <3>1
    <3> HIDE DEF seen, Store!Answer
    <3> QED BY <1>7, <2>1, <3>2, <3>3
  <2>2. CASE d # c
    <3>1. Reading(d) /\ Id(d) = i
      BY <1>7, <2>2 DEF Reading, Store!Asks, Store!Busy, Id
    <3> QED BY <1>1, <1>7, <2>2, <3>1, CurrentKept DEF StoreInv
  <2> QED BY <2>1, <2>2
<1>12. Store!Invoke(c, r)
  <2> HIDE DEF Store!Answer
  <2> QED BY <1>3, <1>6 DEF Store!Invoke, db
<1> QED BY <1>9, <1>10, <1>11, <1>12 DEF StoreInv, Transactions

-----------------------------------------------------------------------------
(* The statements before the COMMIT. *)

LEMMA ConnectStep ==
  ASSUME StoreInv, NEW c \in Callers, Connect(c)
  PROVE  StoreInv' /\ UNCHANGED <<db, call>>
<1>1. /\ at[c] = "pool" /\ at' = [at EXCEPT ![c] = "statement"]
      /\ UNCHANGED <<agent_sessions, agent_messages, locked, deleted, written, call>>
  BY DEF Connect
<1>2. Types' /\ at'[c] = "statement"
  BY <1>1 DEF StoreInv, Types
<1>3. Phase(c)'
  BY <1>1, <1>2 DEF StoreInv, Transactions, Phase, Store!Busy, Between
<1>4. \A d \in Callers \ {c} : at'[d] = at[d]
  BY <1>1 DEF StoreInv, Types
<1> QED BY <1>1, <1>2, <1>3, <1>4, StatementKeeps

LEMMA UpsertSessionStep ==
  ASSUME StoreInv, NEW c \in Callers, UpsertSession(c)
  PROVE  StoreInv' /\ UNCHANGED <<db, call>>
<1>1. /\ Asks(c, "save_messages") /\ at[c] = "statement" /\ locked[Id(c)] = None
      /\ locked' = [locked EXCEPT ![Id(c)] = c] /\ at' = [at EXCEPT ![c] = "delete"]
      /\ UNCHANGED <<agent_sessions, agent_messages, deleted, written, call>>
  BY DEF UpsertSession, To
<1>2. Id(c) \in Ids
  BY <1>1, BusyRequest, RequestTypes DEF StoreInv, Types, Asks, Store!Asks, Id
<1>3. /\ at'[c] = "delete" /\ locked'[Id(c)] = c
      /\ \A d \in Callers \ {c} :
           at'[d] = at[d] /\ \A i \in Ids : locked[i] = d => locked'[i] = d
  BY <1>1, <1>2, PgAssumption DEF StoreInv, Types
<1>4. Types'
  BY <1>1, <1>2 DEF StoreInv, Types, Between
<1>5. Phase(c)'
  <2>1. Phase(c)
    BY DEF StoreInv, Transactions
  <2>2. Asks(c, "save_messages")' /\ Id(c)' = Id(c) /\ (Store!Busy(c)' <=> Store!Busy(c))
    BY <1>1 DEF Asks, Store!Asks, Store!Busy, Id
  <2> QED BY <1>1, <1>3, <2>1, <2>2 DEF Phase
<1> QED BY <1>1, <1>3, <1>4, <1>5, StatementKeeps

LEMMA DeleteMessagesStep ==
  ASSUME StoreInv, NEW c \in Callers, DeleteMessages(c)
  PROVE  StoreInv' /\ UNCHANGED <<db, call>>
<1>1. /\ at[c] = "delete" /\ at' = [at EXCEPT ![c] = "insert"]
      /\ deleted' = [deleted EXCEPT ![c] = Occupied(Id(c))]
      /\ UNCHANGED <<agent_sessions, agent_messages, locked, written, call>>
  BY DEF DeleteMessages, To, Occupied
<1>2. Occupied(Id(c)) \in SUBSET Positions
  BY DEF Occupied
<1>3. /\ at'[c] = "insert" /\ deleted'[c] = Occupied(Id(c))
      /\ \A d \in Callers \ {c} : at'[d] = at[d] /\ deleted'[d] = deleted[d]
  BY <1>1, <1>2 DEF StoreInv, Types
<1>4. Types'
  BY <1>1, <1>2 DEF StoreInv, Types, Between
<1>5. Phase(c)'
  <2>1. Phase(c) /\ c \in Callers
    BY DEF StoreInv, Transactions
  <2>2. Asks(c, "save_messages") /\ written[c] = <<>>
    BY <1>1, <2>1 DEF Phase, Between
  <2>3. Arg(c) \in Transcripts
    BY <2>2, BusyRequest, RequestTypes DEF StoreInv, Types, Asks, Store!Asks, Arg
  <2>4. Len(written[c]) <= Len(Arg(c))
    BY <2>2, <2>3, StoredType DEF Stored
  <2>5. /\ Asks(c, "save_messages")' /\ Id(c)' = Id(c) /\ Arg(c)' = Arg(c)
        /\ (Store!Busy(c)' <=> Store!Busy(c)) /\ Occupied(Id(c))' = Occupied(Id(c))
    BY <1>1, <2>2 DEF Asks, Store!Asks, Store!Busy, Id, Arg, Occupied
  <2> QED BY <1>1, <1>3, <2>1, <2>2, <2>4, <2>5 DEF Phase, Between
<1> QED BY <1>1, <1>3, <1>4, <1>5, StatementKeeps

LEMMA InsertMessageStep ==
  ASSUME StoreInv, NEW c \in Callers, InsertMessage(c)
  PROVE  StoreInv' /\ UNCHANGED <<db, call>>
<1> DEFINE n == Len(written[c])
<1>1. Phase(c) /\ at[c] = "insert"
  BY DEF StoreInv, Transactions, InsertMessage
<1>2. Asks(c, "save_messages") /\ Arg(c) \in Seq(Messages)
  <2>1. Asks(c, "save_messages")
    BY <1>1 DEF Phase, Between
  <2>2. Arg(c) \in Transcripts
    BY <2>1, BusyRequest, RequestTypes DEF StoreInv, Types, Asks, Store!Asks, Arg
  <2> QED BY <2>1, <2>2, PgAssumption
<1>3. /\ written[c] \in Seq(Messages) /\ n \in Nat /\ Len(Arg(c)) \in Nat
      /\ n <= Len(Arg(c)) /\ \A i \in 1..n : written[c][i] = Arg(c)[i]
  BY <1>1, <1>2 DEF StoreInv, Types, Phase
<1>4. /\ Asks(c, "save_messages")' /\ Id(c)' = Id(c) /\ Arg(c)' = Arg(c)
      /\ (Store!Busy(c)' <=> Store!Busy(c)) /\ Occupied(Id(c))' = Occupied(Id(c))
      /\ UNCHANGED <<agent_sessions, agent_messages, locked, deleted, call>>
  BY <1>2 DEF InsertMessage, Asks, Store!Asks, Store!Busy, Id, Arg, Occupied
<1>5. CASE n < Len(Arg(c))
  <2> DEFINE more == Append(written[c], Arg(c)[n + 1])
  <2>1. /\ more \in Seq(Messages) /\ Len(more) = n + 1
        /\ \A i \in 1..(n + 1) : more[i] = Arg(c)[i]
    BY <1>2, <1>3, <1>5
  <2>2. written' = [written EXCEPT ![c] = more] /\ UNCHANGED at
    BY <1>5 DEF InsertMessage
  <2> HIDE DEF more
  <2>3. Types' /\ written'[c] = more /\ \A d \in Callers \ {c} : written'[d] = written[d]
    BY <1>4, <2>1, <2>2 DEF StoreInv, Types
  <2>4. Phase(c)'
    BY <1>1, <1>3, <1>4, <1>5, <2>1, <2>2, <2>3 DEF Phase, Between
  <2> QED BY <1>4, <2>2, <2>3, <2>4, StatementKeeps
<1>6. CASE ~(n < Len(Arg(c)))
  <2>1. UNCHANGED written /\ at' = [at EXCEPT ![c] = "commit"]
    BY <1>6 DEF InsertMessage, To
  <2>2. written[c] = Arg(c)
    BY <1>2, <1>3, <1>6
  <2>3. Types' /\ at'[c] = "commit" /\ \A d \in Callers \ {c} : at'[d] = at[d]
    BY <1>4, <2>1 DEF StoreInv, Types, Between
  <2>4. Phase(c)'
    BY <1>1, <1>4, <2>1, <2>2, <2>3 DEF Phase, Between
  <2> QED BY <1>4, <2>1, <2>3, <2>4, StatementKeeps
<1> QED BY <1>5, <1>6

-----------------------------------------------------------------------------
(* The writes that are committed. *)

LEMMA WriteKeeps ==
  ASSUME StoreInv, NEW c \in Callers, Store!Asks(c, Store!Writes),
         at[c] \in {"statement", "commit"},
         NEW id \in Ids, id = Id(c), Takes(c), Tables',
         \A i \in Ids \ {id} : Held(i)' = Held(i),
         Held(id)' = Store!After(call[c].request, Held(id)),
         locked' \in [Ids -> Callers \cup {None}], deleted' \in [Callers -> SUBSET Positions],
         written' \in [Callers -> Seq(Messages)], written'[c] = <<>>,
         \A d \in Callers \ {c} :
           /\ written'[d] = written[d] /\ deleted'[d] = deleted[d]
           /\ \A i \in Ids : locked[i] = d => locked'[i] = d
           /\ at[d] \in Between => agent_messages'[Id(d)] = agent_messages[Id(d)]
  PROVE  StoreInv' /\ Store!Effect(c)
<1>1. ~call[c].done
  BY DEF StoreInv, Transactions, Phase
<1>2. call' = Store!Seeing(call, c, id, Held(id)') /\ at' = [at EXCEPT ![c] = "return"]
  BY DEF Takes, To
<1>3. Store!Effect(c)
  <2>1. [i \in Ids |-> Held(i)'] = [[i \in Ids |-> Held(i)] EXCEPT ![id] = Held(id)']
    OBVIOUS
  <2>2. [i \in Ids |-> Held(i)][id] = Held(id)
    OBVIOUS
  <2> HIDE DEF Store!After
  <2> QED BY <1>1, <1>2, <2>1, <2>2 DEF Store!Effect, Id
<1>4. Held(id)' \in HeldStates
  BY HeldType
<1> DEFINE s == Held(id)'
<1>5. /\ call' \in [Callers -> Calls] /\ call'[c].done
      /\ \A d \in Callers :
           /\ call'[d].request = call[d].request
           /\ call[d].seen \subseteq call'[d].seen
           /\ d # c => call'[d].done = call[d].done
           /\ d # c /\ call[d].request # None /\ call[d].request.id = id
              /\ call[d].request.kind \in Store!Reads
              => Store!Answer(call[d].request.kind, s) \in call'[d].seen
  <2> HIDE DEF s
  <2>1. s \in HeldStates /\ call' = Store!Seeing(call, c, id, s) /\ call \in [Callers -> Calls]
    BY <1>2, <1>4 DEF s, StoreInv, Types
  <2> QED BY <2>1, SeeingCalls
<1>6. /\ at' \in [Callers -> {"idle", "pool", "statement", "return"} \cup Between]
      /\ at'[c] = "return" /\ \A d \in Callers \ {c} : at'[d] = at[d]
  BY <1>2 DEF StoreInv, Types
<1>7. Types'
  BY <1>5, <1>6 DEF Types
<1>8. Phase(c)'
  <2>1. Store!Asks(c, Store!Writes)' /\ Store!Busy(c)'
    BY <1>5 DEF Store!Asks, Store!Busy, Store!Writes
  <2> QED BY <1>5, <1>6, <2>1 DEF Phase, Between
<1>9. ASSUME NEW d \in Callers, d # c
      PROVE  Phase(d)'
  <2>1. Phase(d)
    BY DEF StoreInv, Transactions
  <2>2. at[d] \in Between => locked'[Id(d)] = d
    <3>1. at[d] \in Between => Id(d) \in Ids
      BY <2>1, BusyRequest, RequestTypes DEF StoreInv, Types, Phase, Asks, Store!Asks, Id
    <3> QED BY <1>9, <2>1, <3>1 DEF Phase
  <2>3. at[d] \in {"insert", "commit"} => agent_messages'[Id(d)] = agent_messages[Id(d)]
    BY <1>9 DEF Between
  <2>4. /\ call'[d].request = call[d].request /\ call'[d].done = call[d].done
        /\ at'[d] = at[d] /\ written'[d] = written[d] /\ deleted'[d] = deleted[d]
    BY <1>5, <1>6, <1>9
  <2> QED BY <2>1, <2>2, <2>3, <2>4, PhaseKept
<1>10. Current'
  <2> SUFFICES ASSUME NEW d \in Callers, NEW i \in Ids, Reading(d)', Id(d)' = i
               PROVE  Store!Answer(call'[d].request.kind, Held(i)') \in call'[d].seen
    BY DEF Current
  <2>1. Reading(d) /\ Id(d) = i
    BY <1>5 DEF Reading, Store!Asks, Store!Busy, Id
  <2>2. d # c
    BY <2>1 DEF Reading, Store!Asks, Store!Reads, Store!Writes
  <2>3. CASE i = id
    <3> HIDE DEF Store!Answer
    <3> QED BY <1>5, <2>1, <2>2, <2>3 DEF Id, Reading, Store!Asks, Store!Busy
  <2>4. CASE i # id
    <3>1. Held(i)' = Held(i)
      BY <2>4
    <3> QED BY <1>5, <2>1, <3>1, CurrentKept DEF StoreInv
  <2> QED BY <2>3, <2>4
<1> QED BY <1>3, <1>7, <1>8, <1>9, <1>10 DEF StoreInv, Transactions

LEMMA SaveMetadataStep ==
  ASSUME StoreInv, NEW c \in Callers, SaveMetadata(c)
  PROVE  StoreInv' /\ Store!Effect(c)
<1>1. PICK id \in Ids : id = Id(c)
  BY BusyRequest, RequestTypes
     DEF StoreInv, Types, SaveMetadata, Asks, Store!Asks, Id
<1>2. /\ Store!Asks(c, Store!Writes) /\ at[c] = "statement" /\ Takes(c)
      /\ call[c].request.kind = "save_metadata"
      /\ agent_sessions' = [agent_sessions EXCEPT ![id] = Arg(c)]
      /\ UNCHANGED <<agent_messages, locked, deleted, written>>
  BY <1>1 DEF SaveMetadata, Asks, Store!Asks, Store!Writes
<1>3. Arg(c) \in Metadata /\ Arg(c) # None
  BY <1>2, BusyRequest, RequestTypes, PgAssumption DEF StoreInv, Types, Store!Asks, Arg
<1>4. /\ agent_sessions'[id] = Arg(c)
      /\ \A i \in Ids \ {id} : agent_sessions'[i] = agent_sessions[i]
      /\ agent_sessions' \in [Ids -> Known \cup {None}]
  BY <1>2, <1>3 DEF StoreInv, Tables, Known
<1>5. Tables'
  BY <1>2, <1>3, <1>4 DEF StoreInv, Tables, Row
<1>6. \A i \in Ids \ {id} : Held(i)' = Held(i)
  BY <1>2, <1>4, HeldKept
<1>7. Held(id)' = Store!After(call[c].request, Held(id))
  <2>1. /\ Held(id)' = [messages |-> InOrder(agent_messages[id]), metadata |-> agent_sessions'[id],
                         exists |-> agent_sessions'[id] # None]
        /\ agent_sessions'[id] = Arg(c) /\ (Arg(c) # None) = TRUE
    BY <1>2, <1>3, <1>4 DEF Held, Row, InOrder
  <2>2. Held(id).messages = InOrder(agent_messages[id])
    BY DEF Held
  <2> HIDE DEF InOrder
  <2> QED BY <1>2, <2>1, <2>2 DEF Store!After, Arg
<1>8. written[c] = <<>>
  BY <1>2 DEF StoreInv, Transactions, Phase
<1>9. /\ locked' \in [Ids -> Callers \cup {None}] /\ deleted' \in [Callers -> SUBSET Positions]
      /\ written' \in [Callers -> Seq(Messages)]
  BY <1>2 DEF StoreInv, Types
<1> QED BY <1>1, <1>2, <1>5, <1>6, <1>7, <1>8, <1>9, WriteKeeps

(* A transaction that has its session locked: nobody else has. *)
LEMMA Holder ==
  ASSUME StoreInv, NEW d \in Callers, at[d] \in Between
  PROVE  Id(d) \in Ids /\ locked[Id(d)] = d /\ locked[Id(d)] # None
<1>1. Asks(d, "save_messages") /\ locked[Id(d)] = d
  BY DEF StoreInv, Transactions, Phase
<1>2. Id(d) \in Ids
  BY <1>1, BusyRequest, RequestTypes DEF StoreInv, Types, Asks, Store!Asks, Id
<1> QED BY <1>1, <1>2, PgAssumption

LEMMA ClearStep ==
  ASSUME StoreInv, NEW c \in Callers, Clear(c)
  PROVE  StoreInv' /\ Store!Effect(c)
<1>1. PICK id \in Ids : id = Id(c)
  BY BusyRequest, RequestTypes
     DEF StoreInv, Types, Clear, Asks, Store!Asks, Id
<1>2. /\ Store!Asks(c, Store!Writes) /\ at[c] = "statement" /\ Takes(c)
      /\ call[c].request.kind = "clear"
      /\ Row(id) => locked[id] = None
      /\ agent_sessions' = [agent_sessions EXCEPT ![id] = None]
      /\ agent_messages' = [agent_messages EXCEPT ![id] = NoRows]
      /\ UNCHANGED <<locked, deleted, written>>
  BY <1>1 DEF Clear, Asks, Store!Asks, Store!Writes
<1>3. NoRows = RowsOf(<<>>) /\ <<>> \in Stored
  BY DEF NoRows, RowsOf, Positions, Stored
<1>4. /\ agent_sessions'[id] = None /\ agent_messages'[id] = NoRows
      /\ \A i \in Ids \ {id} : /\ agent_sessions'[i] = agent_sessions[i]
                               /\ agent_messages'[i] = agent_messages[i]
      /\ agent_sessions' \in [Ids -> Known \cup {None}]
      /\ agent_messages' \in [Ids -> {RowsOf(h) : h \in Stored}]
  <2> HIDE DEF NoRows, RowsOf
  <2> QED BY <1>2, <1>3 DEF StoreInv, Tables
<1>5. Tables'
  BY <1>4 DEF StoreInv, Tables, Row
<1>6. \A i \in Ids \ {id} : Held(i)' = Held(i)
  BY <1>4, HeldKept
<1>7. Held(id)' = Store!After(call[c].request, Held(id))
  <2>1. /\ Held(id)' = [messages |-> InOrder(agent_messages'[id]), metadata |-> agent_sessions'[id],
                        exists |-> agent_sessions'[id] # None]
        /\ (agent_sessions'[id] # None) = FALSE
    BY <1>4 DEF Held, Row, InOrder
  <2>2. InOrder(agent_messages'[id]) = <<>>
    <3>1. InOrder(RowsOf(<<>>)) = <<>> /\ agent_messages'[id] = RowsOf(<<>>)
      BY <1>3, <1>4, InOrderOfRows
    <3> HIDE DEF InOrder, RowsOf
    <3> QED BY ONLY <3>1
  <2> HIDE DEF InOrder
  <2> QED BY <1>2, <1>4, <2>1, <2>2 DEF Store!After, Store!NoSession
<1>8. ASSUME NEW d \in Callers, at[d] \in Between
      PROVE  agent_messages'[Id(d)] = agent_messages[Id(d)]
  <2>1. Id(d) \in Ids /\ locked[Id(d)] # None
    BY <1>8, Holder
  <2>2. CASE Id(d) = id
    <3>1. agent_messages[id] = NoRows
      BY <1>2, <2>1, <2>2 DEF StoreInv, Tables
    <3> QED BY <1>4, <2>2, <3>1
  <2>3. CASE Id(d) # id
    BY <1>4, <2>1, <2>3
  <2> QED BY <2>2, <2>3
<1>9. written[c] = <<>>
  BY <1>2 DEF StoreInv, Transactions, Phase
<1>10. /\ locked' \in [Ids -> Callers \cup {None}] /\ deleted' \in [Callers -> SUBSET Positions]
       /\ written' \in [Callers -> Seq(Messages)]
  BY <1>2 DEF StoreInv, Types
<1> QED BY <1>1, <1>2, <1>5, <1>6, <1>7, <1>8, <1>9, <1>10, WriteKeeps

(* The end of a transaction, for the others. *)
LEMMA Unlocked ==
  ASSUME StoreInv, NEW c \in Callers, Unlock(c)
  PROVE  /\ locked' \in [Ids -> Callers \cup {None}] /\ deleted' \in [Callers -> SUBSET Positions]
         /\ written' \in [Callers -> Seq(Messages)] /\ written'[c] = <<>>
         /\ \A d \in Callers \ {c} :
              /\ written'[d] = written[d] /\ deleted'[d] = deleted[d]
              /\ \A i \in Ids : locked[i] = d => locked'[i] = d
BY DEF StoreInv, Types, Unlock

(* The COMMIT leaves the rows of the transcript it saves, and no other.    *)
LEMMA CommitStep ==
  ASSUME StoreInv, NEW c \in Callers, Commit(c)
  PROVE  StoreInv' /\ Store!Effect(c)
<1>1. Phase(c) /\ at[c] = "commit"
  BY DEF StoreInv, Transactions, Commit
<1>2. /\ Asks(c, "save_messages") /\ deleted[c] = Occupied(Id(c)) /\ written[c] = Arg(c)
      /\ Id(c) \in Ids /\ locked[Id(c)] = c
  BY <1>1, Holder DEF Phase, Between
<1>3. PICK id \in Ids : id = Id(c)
  BY <1>2
<1>4. PICK h \in Transcripts : h = Arg(c)
  BY <1>2, BusyRequest, RequestTypes DEF StoreInv, Types, Asks, Store!Asks, Arg
<1>5. /\ Store!Asks(c, Store!Writes) /\ Takes(c) /\ Unlock(c)
      /\ call[c].request.kind = "save_messages" /\ call[c].request.arg = h
  BY <1>2, <1>4 DEF Commit, Asks, Store!Asks, Store!Writes, Arg
<1>6. h \in Stored
  BY DEF Stored
<1>7. agent_messages' = [agent_messages EXCEPT ![id] = RowsOf(h)]
  <2>1. agent_messages' = [agent_messages EXCEPT ![id] =
          [i \in Positions |-> IF i <= Len(h) THEN h[i]
                               ELSE IF i \in deleted[c] THEN None ELSE agent_messages[id][i]]]
    BY <1>2, <1>3, <1>4 DEF Commit
  <2>2. \A i \in Positions : (IF i \in deleted[c] THEN None ELSE agent_messages[id][i]) = None
    BY <1>2, <1>3 DEF Occupied
  <2>3. RowsOf(h) = [i \in Positions |-> IF i <= Len(h) THEN h[i]
                               ELSE IF i \in deleted[c] THEN None ELSE agent_messages[id][i]]
    BY <2>2 DEF RowsOf
  <2> QED BY <2>1, <2>3
<1>8. agent_sessions' = [agent_sessions EXCEPT ![id] = IF Row(id) THEN agent_sessions[id]
                                                       ELSE DefaultMetadata]
  BY <1>3 DEF Commit
<1>9. /\ agent_messages'[id] = RowsOf(h)
      /\ agent_sessions'[id] = IF Row(id) THEN agent_sessions[id] ELSE DefaultMetadata
      /\ agent_sessions'[id] # None
      /\ \A i \in Ids \ {id} : /\ agent_sessions'[i] = agent_sessions[i]
                               /\ agent_messages'[i] = agent_messages[i]
      /\ agent_sessions' \in [Ids -> Known \cup {None}]
      /\ agent_messages' \in [Ids -> {RowsOf(g) : g \in Stored}]
  <2> HIDE DEF RowsOf
  <2> QED BY <1>6, <1>7, <1>8, PgAssumption DEF StoreInv, Tables, Known, Row
<1>10. Tables'
  <2> HIDE DEF RowsOf
  <2> QED BY <1>9 DEF StoreInv, Tables, Row
<1>11. \A i \in Ids \ {id} : Held(i)' = Held(i)
  BY <1>9, HeldKept
<1>12. Held(id)' = Store!After(call[c].request, Held(id))
  <2>1. /\ Held(id)' = [messages |-> InOrder(agent_messages'[id]), metadata |-> agent_sessions'[id],
                        exists |-> agent_sessions'[id] # None]
        /\ (agent_sessions'[id] # None) = TRUE
        /\ Held(id).metadata = agent_sessions[id]
    BY <1>9 DEF Held, Row, InOrder
  <2>2. InOrder(agent_messages'[id]) = h
    <3>1. InOrder(RowsOf(h)) = h /\ agent_messages'[id] = RowsOf(h)
      BY <1>6, <1>9, InOrderOfRows
    <3> HIDE DEF InOrder, RowsOf
    <3> QED BY ONLY <3>1
  <2>3. agent_sessions'[id] = IF agent_sessions[id] = None THEN DefaultMetadata ELSE agent_sessions[id]
    BY <1>9 DEF Row
  <2> HIDE DEF InOrder
  <2> QED BY <1>5, <2>1, <2>2, <2>3 DEF Store!After
<1>13. ASSUME NEW d \in Callers \ {c}, at[d] \in Between
       PROVE  agent_messages'[Id(d)] = agent_messages[Id(d)]
  BY <1>2, <1>3, <1>9, <1>13, Holder
<1> QED BY <1>1, <1>3, <1>5, <1>10, <1>11, <1>12, <1>13, Unlocked, WriteKeeps

-----------------------------------------------------------------------------
(* The replies. *)

LEMMA WriteReturnsStep ==
  ASSUME StoreInv, NEW c \in Callers, WriteReturns(c)
  PROVE  StoreInv' /\ Store!Next
<1>1. /\ at[c] = "return" /\ Replies(c, [ok |-> TRUE])
      /\ UNCHANGED <<agent_sessions, agent_messages, locked, deleted, written>>
  BY DEF WriteReturns
<1>2. Store!Asks(c, Store!Writes) /\ call[c].done /\ written[c] = <<>>
  BY <1>1 DEF StoreInv, Transactions, Phase
<1>3. /\ locked' \in [Ids -> Callers \cup {None}] /\ deleted' \in [Callers -> SUBSET Positions]
      /\ written' \in [Callers -> Seq(Messages)]
  BY <1>1 DEF StoreInv, Types
<1>4. StoreInv' /\ UNCHANGED db
  BY <1>1, <1>2, <1>3, ReplyKeeps
<1>5. Store!Return(c, [ok |-> TRUE])
  BY <1>1, <1>2, <1>4 DEF Store!Return, Replies, db
<1> QED BY <1>4, <1>5 DEF Store!Next

(* A SELECT answers what its session holds then. *)
LEMMA ReadStep ==
  ASSUME StoreInv, NEW c \in Callers, NEW kind \in Store!Reads, NEW reply,
         Reads(c, kind, reply), reply = Store!Answer(kind, Held(Id(c)))
  PROVE  StoreInv' /\ Store!Next
<1>1. /\ Asks(c, kind) /\ at[c] = "statement" /\ Replies(c, reply)
      /\ UNCHANGED <<agent_sessions, agent_messages, locked, deleted, written>>
  BY DEF Reads
<1>2. Reading(c) /\ call[c].request.kind = kind
  BY <1>1 DEF Reading, Asks, Store!Asks
<1>3. Id(c) \in Ids
  BY <1>2, BusyRequest, RequestTypes DEF StoreInv, Types, Reading, Store!Asks, Id
<1>4. reply \in call[c].seen
  <2> HIDE DEF Store!Answer
  <2> QED BY <1>2, <1>3 DEF StoreInv, Current
<1>5. reply \in Answers
  BY <1>4 DEF StoreInv, Types, Calls
<1>6. written[c] = <<>>
  BY <1>1 DEF StoreInv, Transactions, Phase
<1>7. /\ locked' \in [Ids -> Callers \cup {None}] /\ deleted' \in [Callers -> SUBSET Positions]
      /\ written' \in [Callers -> Seq(Messages)]
  BY <1>1 DEF StoreInv, Types
<1>8. StoreInv' /\ UNCHANGED db
  BY <1>1, <1>5, <1>6, <1>7, ReplyKeeps
<1>9. Store!Return(c, reply)
  BY <1>1, <1>2, <1>4, <1>8 DEF Store!Return, Replies, db, Reading
<1> QED BY <1>4, <1>8, <1>9 DEF Store!Next

LEMMA ReadsStep ==
  ASSUME StoreInv, NEW c \in Callers, LoadMessages(c) \/ LoadMetadata(c) \/ Exists(c)
  PROVE  StoreInv' /\ Store!Next
<1> DEFINE s == Held(Id(c))
<1>1. CASE LoadMessages(c)
  <2>1. Store!Answer("load_messages", s) = [messages |-> InOrder(agent_messages[Id(c)])]
    BY DEF Store!Answer, Held
  <2>2. "load_messages" \in Store!Reads
    BY DEF Store!Reads
  <2> HIDE DEF Store!Answer, InOrder
  <2> QED BY <1>1, <2>1, <2>2, ReadStep DEF LoadMessages
<1>2. CASE LoadMetadata(c)
  <2>1. Store!Answer("load_metadata", s) = [metadata |-> agent_sessions[Id(c)]]
    BY DEF Store!Answer, Held
  <2>2. "load_metadata" \in Store!Reads
    BY DEF Store!Reads
  <2> HIDE DEF Store!Answer
  <2> QED BY <1>2, <2>1, <2>2, ReadStep DEF LoadMetadata
<1>3. CASE Exists(c)
  <2>1. Store!Answer("exists", s) = [exists |-> Row(Id(c))]
    BY DEF Store!Answer, Held
  <2>2. "exists" \in Store!Reads
    BY DEF Store!Reads
  <2> HIDE DEF Store!Answer
  <2> QED BY <1>3, <2>1, <2>2, ReadStep DEF Exists
<1> QED BY <1>1, <1>2, <1>3

LEMMA FailsStep ==
  ASSUME StoreInv, NEW c \in Callers, Fails(c)
  PROVE  StoreInv' /\ Store!Next
<1>1. /\ Store!Busy(c) /\ Unlock(c) /\ Replies(c, [failed |-> TRUE])
      /\ UNCHANGED <<agent_sessions, agent_messages>>
  BY DEF Fails
<1>2. StoreInv' /\ UNCHANGED db
  BY <1>1, Unlocked, ReplyKeeps
<1>3. Store!Fail(c)
  BY <1>1, <1>2 DEF Store!Fail, Replies, db
<1> QED BY <1>2, <1>3 DEF Store!Next

-----------------------------------------------------------------------------
(***************************************************************************)
(* The step, and the theorem.                                              *)
(***************************************************************************)

LEMMA StutterStep ==
  ASSUME StoreInv, UNCHANGED vars
  PROVE  StoreInv' /\ UNCHANGED <<db, call>>
<1>1. /\ UNCHANGED <<agent_sessions, agent_messages, call>>
      /\ UNCHANGED <<locked, at, deleted, written>>
  BY DEF vars
<1>2. \A i \in Ids : Held(i)' = Held(i)
  BY <1>1, HeldKept
<1>3. Types' /\ Tables' /\ UNCHANGED db
  BY <1>1, <1>2 DEF StoreInv, Types, Tables, Row, db
<1>4. ASSUME NEW d \in Callers
      PROVE  Phase(d)'
  <2>1. Phase(d)
    BY DEF StoreInv, Transactions
  <2>2. at[d] \in Between => locked'[Id(d)] = d
    BY <1>1, <2>1 DEF Phase
  <2> QED BY <1>1, <2>1, <2>2, PhaseKept
<1>5. Current'
  <2> SUFFICES ASSUME NEW d \in Callers, NEW i \in Ids, Reading(d)', Id(d)' = i
               PROVE  Store!Answer(call'[d].request.kind, Held(i)') \in call'[d].seen
    BY DEF Current
  <2>1. Reading(d) /\ Id(d) = i
    BY <1>1 DEF Reading, Store!Asks, Store!Busy, Id
  <2> QED BY <1>1, <1>2, <2>1, CurrentKept DEF StoreInv
<1> QED BY <1>1, <1>3, <1>4, <1>5 DEF StoreInv, Transactions

LEMMA NextStep ==
  ASSUME StoreInv, [Next]_vars
  PROVE  StoreInv' /\ AbstractStep
<1>1. CASE UNCHANGED vars
  BY <1>1, StutterStep DEF AbstractStep
<1>2. ASSUME NEW c \in Callers, NEW r \in Store!Requests, Invoke(c, r)
      PROVE  StoreInv' /\ AbstractStep
  BY <1>2, InvokeStep DEF Store!Next, AbstractStep
<1>3. ASSUME NEW c \in Callers,
             Connect(c) \/ UpsertSession(c) \/ DeleteMessages(c) \/ InsertMessage(c)
      PROVE  StoreInv' /\ AbstractStep
  BY <1>3, ConnectStep, UpsertSessionStep, DeleteMessagesStep, InsertMessageStep DEF AbstractStep
<1>4. ASSUME NEW c \in Callers, Commit(c) \/ SaveMetadata(c) \/ Clear(c)
      PROVE  StoreInv' /\ AbstractStep
  BY <1>4, CommitStep, SaveMetadataStep, ClearStep DEF Store!Next, AbstractStep
<1>5. ASSUME NEW c \in Callers,
             LoadMessages(c) \/ LoadMetadata(c) \/ Exists(c) \/ WriteReturns(c) \/ Fails(c)
      PROVE  StoreInv' /\ AbstractStep
  BY <1>5, ReadsStep, WriteReturnsStep, FailsStep DEF AbstractStep
<1> QED BY <1>1, <1>2, <1>3, <1>4, <1>5 DEF Next, Proceeds

(* Every operation of PostgresSessionStore is atomic, save_messages with   *)
(* all its statements, whichever of them fails and whatever other callers  *)
(* do in between: the store implements SessionStore.                       *)
THEOREM PgAtomic == Spec => Atomic
<1>1. Init => StoreInv /\ Store!Init
  BY InitInv
<1>2. StoreInv /\ [Next]_vars => StoreInv'
  BY NextStep
<1>3. StoreInv /\ [Next]_vars => [Store!Next]_<<db, call>>
  BY NextStep DEF AbstractStep
<1> QED BY <1>1, <1>2, <1>3, PTL DEF Spec, Atomic, Store!Spec, db

-----------------------------------------------------------------------------
(***************************************************************************)
(* Why no two operations wait for each other: only a transaction that has  *)
(* done its first statement has a row locked, its own, and then it needs   *)
(* nothing that another one has.                                           *)
(***************************************************************************)
Holders == \A id \in Ids, d \in Callers : locked[id] = d => at[d] \in Between /\ Id(d) = id

LEMMA HoldersInit == Init => Holders
BY PgAssumption DEF Init, Holders

(* Steps that lock nothing; whoever moves has no row locked, or is still   *)
(* in its transaction.                                                     *)
LEMMA HoldersKept ==
  ASSUME StoreInv, Holders, NEW c \in Callers,
         \A id \in Ids, d \in Callers : locked'[id] = d => locked[id] = d,
         \A d \in Callers \ {c} : at'[d] = at[d] /\ call'[d].request = call[d].request,
         \/ \A id \in Ids : locked'[id] # c
         \/ at'[c] \in Between /\ call'[c].request = call[c].request
  PROVE  Holders'
<1> SUFFICES ASSUME NEW id \in Ids, NEW d \in Callers, locked'[id] = d
             PROVE  at'[d] \in Between /\ Id(d)' = id
  BY DEF Holders
<1>1. at[d] \in Between /\ Id(d) = id
  BY DEF Holders
<1>2. at'[d] \in Between /\ call'[d].request = call[d].request
  BY <1>1
<1> QED BY <1>1, <1>2 DEF Id

LEMMA NoLockOutside ==
  ASSUME Holders, NEW c \in Callers, at[c] \notin Between, UNCHANGED locked
  PROVE  \A id \in Ids : locked'[id] # c
BY DEF Holders

LEMMA UnlockedAll ==
  ASSUME NEW c \in Callers, Unlock(c)
  PROVE  /\ \A id \in Ids : locked'[id] # c
         /\ \A id \in Ids, d \in Callers : locked'[id] = d => locked[id] = d
<1>1. ASSUME NEW id \in Ids
      PROVE  locked'[id] = IF locked[id] = c THEN None ELSE locked[id]
  BY DEF Unlock
<1> QED BY <1>1, PgAssumption

LEMMA HoldersStep == StoreInv /\ Holders /\ [Next]_vars => Holders'
<1> SUFFICES ASSUME StoreInv, Holders, [Next]_vars PROVE Holders'
  OBVIOUS
<1>0. call \in [Callers -> Calls] /\ at \in [Callers -> {"idle", "pool", "statement", "return"} \cup Between]
      /\ locked \in [Ids -> Callers \cup {None}]
  BY DEF StoreInv, Types
<1>1. CASE UNCHANGED vars
  BY <1>1 DEF vars, Holders, Id
<1>2. SUFFICES ASSUME NEW c \in Callers,
                      (\E r \in Store!Requests : Invoke(c, r)) \/ Proceeds(c) \/ Fails(c)
               PROVE  Holders'
  BY <1>1 DEF Next
<1>3. at[c] = "idle" <=> ~Store!Busy(c)
  BY DEF StoreInv, Transactions, Phase
<1>4. ASSUME NEW r, Invoke(c, r)
      PROVE  Holders'
  <2>1. at[c] \notin Between /\ UNCHANGED locked
    BY <1>3, <1>4 DEF Invoke, Between
  <2>2. \A d \in Callers \ {c} : at'[d] = at[d] /\ call'[d] = call[d]
    BY <1>0, <1>4 DEF Invoke
  <2> QED BY <2>1, <2>2, NoLockOutside, HoldersKept
<1>5. CASE Connect(c)
  <2>1. at[c] \notin Between /\ UNCHANGED <<locked, call>>
    BY <1>5 DEF Connect, Between
  <2>2. \A d \in Callers \ {c} : at'[d] = at[d]
    BY <1>0, <1>5 DEF Connect
  <2> QED BY <2>1, <2>2, NoLockOutside, HoldersKept
<1>6. CASE UpsertSession(c)
  <2>1. /\ locked' = [locked EXCEPT ![Id(c)] = c] /\ at' = [at EXCEPT ![c] = "delete"]
        /\ UNCHANGED call /\ at[c] \notin Between
    BY <1>6 DEF UpsertSession, To, Between
  <2> SUFFICES ASSUME NEW id \in Ids, NEW d \in Callers, locked'[id] = d
               PROVE  at'[d] \in Between /\ Id(d)' = id
    BY DEF Holders
  <2>2. Id(d)' = Id(d)
    BY <2>1 DEF Id
  <2>3. locked[id] = d \/ (id = Id(c) /\ d = c)
    BY <1>0, <2>1
  <2>4. CASE locked[id] = d
    <3>1. at[d] \in Between /\ Id(d) = id
      BY <2>4 DEF Holders
    <3> QED BY <1>0, <2>1, <2>2, <3>1
  <2>5. CASE id = Id(c) /\ d = c
    BY <1>0, <2>1, <2>2, <2>5 DEF Between
  <2> QED BY <2>3, <2>4, <2>5
<1>7. CASE DeleteMessages(c) \/ InsertMessage(c)
  <2>1. UNCHANGED <<locked, call>> /\ at'[c] \in Between
    BY <1>0, <1>7 DEF DeleteMessages, InsertMessage, To, Between
  <2>2. \A d \in Callers \ {c} : at'[d] = at[d]
    BY <1>0, <1>7 DEF DeleteMessages, InsertMessage, To
  <2> QED BY <2>1, <2>2, HoldersKept
<1>8. ASSUME Takes(c), Store!Busy(c),
             \A id \in Ids : locked'[id] # c,
             \A id \in Ids, d \in Callers : locked'[id] = d => locked[id] = d
      PROVE  Holders'
  <2>1. \A d \in Callers \ {c} : at'[d] = at[d]
    BY <1>0, <1>8 DEF Takes, To
  <2>2. \A d \in Callers : call'[d].request = call[d].request
    <3>1. PICK id : call' = Store!Seeing(call, c, id, Held(id)')
      BY <1>8 DEF Takes
    <3> DEFINE s == Held(id)'
    <3>2. call' = Store!Seeing(call, c, id, s)
      BY <3>1
    <3> HIDE DEF s
    <3> SUFFICES ASSUME NEW d \in Callers PROVE call'[d].request = call[d].request
      OBVIOUS
    <3>3. \/ call'[d] = call[d] \/ call'[d] = [call[d] EXCEPT !.done = TRUE]
          \/ \E a : call'[d] = [call[d] EXCEPT !.seen = @ \cup {a}]
      BY <3>2 DEF Store!Seeing
    <3> QED BY <1>0, <3>3 DEF Calls
  <2> QED BY <1>8, <2>1, <2>2, HoldersKept
<1>9. CASE Commit(c)
  <2>1. Unlock(c) /\ Takes(c) /\ Store!Busy(c)
    BY <1>3, <1>9 DEF Commit
  <2> QED BY <1>8, <2>1, UnlockedAll
<1>10. CASE SaveMetadata(c) \/ Clear(c)
  <2>1. Takes(c) /\ Store!Busy(c) /\ at[c] \notin Between /\ UNCHANGED locked
    BY <1>3, <1>10 DEF SaveMetadata, Clear, Between
  <2> QED BY <1>8, <2>1, NoLockOutside
<1>11. ASSUME NEW reply, Replies(c, reply),
              \A id \in Ids : locked'[id] # c,
              \A id \in Ids, d \in Callers : locked'[id] = d => locked[id] = d
       PROVE  Holders'
  <2>1. \A d \in Callers \ {c} : at'[d] = at[d] /\ call'[d] = call[d]
    BY <1>0, <1>11 DEF Replies, To
  <2> QED BY <1>11, <2>1, HoldersKept
<1>12. CASE LoadMessages(c) \/ LoadMetadata(c) \/ Exists(c) \/ WriteReturns(c)
  <2>1. at[c] \notin Between /\ UNCHANGED locked
    BY <1>12 DEF LoadMessages, LoadMetadata, Exists, Reads, WriteReturns, Between
  <2>2. \E reply : Replies(c, reply)
    BY <1>12 DEF LoadMessages, LoadMetadata, Exists, Reads, WriteReturns
  <2> QED BY <1>11, <2>1, <2>2, NoLockOutside
<1>13. CASE Fails(c)
  BY <1>11, <1>13, UnlockedAll DEF Fails
<1> QED BY <1>1, <1>2, <1>4, <1>5, <1>6, <1>7, <1>9, <1>10, <1>12, <1>13 DEF Proceeds

(* Whoever has locked the row of its session waits for nothing.            *)
LEMMA HolderGoesOn ==
  ASSUME StoreInv, NEW c \in Callers, at[c] \in Between
  PROVE  Store!Busy(c) /\ ~Waits(c)
<1>1. /\ Phase(c) /\ written[c] \in Seq(Messages)
      /\ locked[Id(c)] = c /\ Asks(c, "save_messages")
  BY DEF StoreInv, Transactions, Types, Phase
<1>2. Store!Busy(c)
  BY <1>1 DEF Phase, Between
<1>3. ASSUME at[c] = "insert", Len(written[c]) < Len(Arg(c))
      PROVE  Admits(c, Len(written[c]) + 1)
  <2>1. deleted[c] = Occupied(Id(c)) /\ Len(written[c]) \in Nat
    BY <1>1, <1>3 DEF Phase
  <2>2. Arg(c) \in Transcripts
    BY <1>1, <1>2, BusyRequest, RequestTypes
    DEF StoreInv, Types, Arg, Asks, Store!Asks
  <2>3. PICK i \in Positions : i = Len(written[c]) + 1
    <3>1. Len(Arg(c)) \in Nat /\ Len(Arg(c)) <= MaxMessages
      BY <2>2, PgAssumption
    <3> QED BY <1>3, <2>1, <3>1, PgAssumption DEF Positions
  <2>4. ASSUME NEW d \in Callers \ {c}, Id(d) = Id(c)
        PROVE  Len(written[d]) = 0
    <3>1. Phase(d)
      BY DEF StoreInv, Transactions
    <3>2. at[d] \notin Between
      BY <1>1, <2>4, <3>1 DEF Phase
    <3>3. written[d] = <<>>
      BY <3>1, <3>2 DEF Phase, Between
    <3> QED BY <3>3
  <2>5. agent_messages[Id(c)][i] # None => i \in deleted[c]
    BY <2>1 DEF Occupied
  <2>6. \A d \in Callers \ {c} : Id(d) = Id(c) => Len(written[d]) < i
    BY <2>4, PgAssumption DEF Positions
  <2> QED BY <2>3, <2>5, <2>6 DEF Admits
<1> QED BY <1>2, <1>3 DEF Waits, Between

(* However many callers and connections there are, while some operation    *)
(* runs one of them waits neither for a connection nor for a row nor for a *)
(* key: whoever keeps a row from others has its connection already, no row *)
(* but this one to lock, and its keys to itself.                           *)
THEOREM PgNeverWaitsInCircle == Spec => []NoCircularWait
<1>1. StoreInv /\ Holders => NoCircularWait
  <2> SUFFICES ASSUME StoreInv, Holders, NEW b \in Callers, Store!Busy(b)
               PROVE  \E c \in Callers : Store!Busy(c) /\ ~Waits(c)
    BY DEF NoCircularWait
  <2>0. \A c \in Callers : at[c] = "idle" <=> ~Store!Busy(c)
    BY DEF StoreInv, Transactions, Phase
  <2>1. CASE Connected = {}
    <3>1. at[b] = "pool"
      BY <2>0, <2>1 DEF Connected
    <3>2. Cardinality({}) = 0
      BY FS_EmptySet
    <3>3. ~(Cardinality(Connected) >= PoolSize)
      BY <2>1, <3>2, PgAssumption
    <3> QED BY <3>1, <3>3 DEF Waits
  <2>2. ASSUME NEW c \in Callers, at[c] \notin {"idle", "pool"}
        PROVE  \E d \in Callers : Store!Busy(d) /\ ~Waits(d)
    <3>1. Store!Busy(c)
      BY <2>0, <2>2
    <3>2. at[c] \in {"statement", "return"} \cup Between
      BY <2>2 DEF StoreInv, Types
    <3>3. CASE at[c] \in Between
      BY <3>3, HolderGoesOn
    <3>4. CASE at[c] = "return"
      BY <3>1, <3>4 DEF Waits
    <3>5. CASE at[c] = "statement" /\ locked[Id(c)] = None
      BY <3>1, <3>5 DEF Waits
    <3>6. CASE at[c] = "statement" /\ locked[Id(c)] # None
      <4>1. Id(c) \in Ids
        BY <3>1, BusyRequest, RequestTypes DEF StoreInv, Types, Id
      <4>2. PICK d \in Callers : locked[Id(c)] = d
        BY <3>6, <4>1 DEF StoreInv, Types
      <4>3. at[d] \in Between
        BY <4>1, <4>2 DEF Holders
      <4> QED BY <4>3, HolderGoesOn
    <3> QED BY <3>2, <3>3, <3>4, <3>5, <3>6
  <2> QED BY <2>1, <2>2 DEF Connected
<1>2. Init => StoreInv /\ Holders
  BY InitInv, HoldersInit
<1>3. StoreInv /\ Holders /\ [Next]_vars => StoreInv' /\ Holders'
  BY NextStep, HoldersStep
<1> QED BY <1>1, <1>2, <1>3, PTL DEF Spec
=============================================================================
