------------------------- MODULE SessionStoreProofs -------------------------
(***************************************************************************)
(* InMemorySessionStore is a MemoryStore whose operations are atomic, for  *)
(* any number of callers, sessions and values.  The refinement maps a half *)
(* done clear to a session that is still whole (Held); what has to be      *)
(* shown is that a read only ever answers what held during its call.  That *)
(* is Current, which says so of the state now, and Looked, which says it   *)
(* of an exists that is between its two locks.                             *)
(***************************************************************************)
EXTENDS MemorySessionStore, TLAPS

HeldStates == [messages : Transcripts \cup {Empty}, metadata : Metadata \cup {None},
               exists : BOOLEAN]

Answers == [messages : Transcripts \cup {Empty}]
           \cup [metadata : Metadata \cup {None}]
           \cup [exists : BOOLEAN]

Calls == [request : Store!Requests \cup {None}, done : BOOLEAN,
          seen : SUBSET Answers, reply : Answers \cup {[ok |-> TRUE], None}]

Reading(c) == Store!Asks(c, Store!Reads)

(* What holds now is among the answers of a running read. *)
Current ==
  \A c \in Callers, id \in Ids :
    Reading(c) /\ Id(c) = id => Store!Answer(call[c].request.kind, Held(id)) \in call[c].seen

(* An exists that found no messages may answer by the metadata alone. *)
Looked ==
  \A c \in Callers :
    looked[c] => /\ Asks(c, "exists")
                 /\ metadata[Id(c)] = None => [exists |-> FALSE] \in call[c].seen

(* The first half of a clear is not undone before the second. *)
Removed ==
  clearing # None => /\ clearing.by \in Callers /\ clearing.id \in Ids
                     /\ sessions[clearing.id] = None

Maps ==
  /\ sessions \in [Ids -> Transcripts \cup {None}]
  /\ metadata \in [Ids -> Metadata \cup {None}]
  /\ clearing # None => clearing.removed \in Transcripts \cup {None}

(* The lock is held by a clear that is half done. *)
LockHeld ==
  clearing # None => /\ Asks(clearing.by, "clear") /\ ~call[clearing.by].done
                     /\ Id(clearing.by) = clearing.id

StoreInv ==
  /\ Maps /\ looked \in [Callers -> BOOLEAN] /\ call \in [Callers -> Calls]
  /\ LockHeld /\ Removed /\ Current /\ Looked

LEMMA InvTypes == StoreInv => TypeOK
BY DEF StoreInv, Maps, LockHeld, TypeOK

-----------------------------------------------------------------------------
(* A running call has a request of the store. *)
LEMMA BusyRequest ==
  ASSUME call \in [Callers -> Calls], NEW c \in Callers, Store!Busy(c)
  PROVE  call[c].request \in Store!Requests
BY DEF Calls, Store!Busy

LEMMA RequestTypes ==
  ASSUME NEW r \in Store!Requests
  PROVE  /\ r.id \in Ids
         /\ r.kind \in Store!Reads \cup Store!Writes
         /\ r.kind = "save_messages" => r.arg \in Transcripts
         /\ r.kind = "save_metadata" => r.arg \in Metadata
BY DEF Store!Requests, Store!Reads, Store!Writes

LEMMA HeldType ==
  ASSUME Maps, NEW id \in Ids
  PROVE  Held(id) \in HeldStates
BY DEF Maps, Held, HeldStates

LEMMA AnswerType ==
  ASSUME NEW s \in HeldStates, NEW kind \in Store!Reads
  PROVE  Store!Answer(kind, s) \in Answers
BY DEF HeldStates, Store!Reads, Store!Answer, Answers

(* The two updates of a call. *)
LEMMA MoreSeen ==
  ASSUME NEW x \in Calls, NEW a \in Answers
  PROVE  LET y == [x EXCEPT !.seen = @ \cup {a}] IN
         y \in Calls /\ y.request = x.request /\ y.done = x.done /\ y.seen = x.seen \cup {a}
BY DEF Calls

LEMMA NowDone ==
  ASSUME NEW x \in Calls
  PROVE  LET y == [x EXCEPT !.done = TRUE] IN
         y \in Calls /\ y.request = x.request /\ y.seen = x.seen
BY DEF Calls

(* The calls after a write of c: every call keeps its request and what it  *)
(* has seen, and the reads of that session have seen what it left.         *)
LEMMA SeeingCalls ==
  ASSUME NEW calls \in [Callers -> Calls], NEW c \in Callers, NEW id \in Ids,
         NEW s \in HeldStates
  PROVE  LET after == Store!Seeing(calls, c, id, s) IN
         /\ after \in [Callers -> Calls]
         /\ \A d \in Callers :
              /\ after[d].request = calls[d].request
              /\ calls[d].seen \subseteq after[d].seen
              /\ d # c => after[d].done = calls[d].done
              /\ d # c /\ calls[d].request # None /\ calls[d].request.id = id
                 /\ calls[d].request.kind \in Store!Reads
                 => Store!Answer(calls[d].request.kind, s) \in after[d].seen
<1> DEFINE after == Store!Seeing(calls, c, id, s)
<1>1. ASSUME NEW d \in Callers
      PROVE  /\ after[d] \in Calls
             /\ after[d].request = calls[d].request
             /\ calls[d].seen \subseteq after[d].seen
             /\ d # c => after[d].done = calls[d].done
             /\ d # c /\ calls[d].request # None /\ calls[d].request.id = id
                /\ calls[d].request.kind \in Store!Reads
                => Store!Answer(calls[d].request.kind, s) \in after[d].seen
  <2>1. CASE d = c
    <3>1. after[d] = [calls[d] EXCEPT !.done = TRUE]
      BY <2>1 DEF Store!Seeing
    <3>2. calls[d] \in Calls
      OBVIOUS
    <3> HIDE DEF after
    <3>3. /\ after[d] \in Calls
          /\ after[d].request = calls[d].request
          /\ after[d].seen = calls[d].seen
      BY <3>1, <3>2, NowDone
    <3> QED BY <2>1, <3>3
  <2>2. CASE d # c /\ calls[d].request # None /\ calls[d].request.id = id
             /\ calls[d].request.kind \in Store!Reads
    <3>1. Store!Answer(calls[d].request.kind, s) \in Answers
      BY <2>2, AnswerType
    <3>2. after[d] = [calls[d] EXCEPT !.seen = @ \cup {Store!Answer(calls[d].request.kind, s)}]
      BY <2>2 DEF Store!Seeing
    <3>3. calls[d] \in Calls
      OBVIOUS
    <3> HIDE DEF after
    <3> DEFINE a == Store!Answer(calls[d].request.kind, s)
    <3> HIDE DEF a
    <3>4. /\ a \in Answers
          /\ after[d] = [calls[d] EXCEPT !.seen = @ \cup {a}]
      BY <3>1, <3>2 DEF a
    <3>5. /\ after[d] \in Calls
          /\ after[d].request = calls[d].request
          /\ calls[d].seen \subseteq after[d].seen
          /\ after[d].done = calls[d].done
          /\ a \in after[d].seen
      BY <3>3, <3>4, MoreSeen
    <3> QED BY <2>2, <3>5 DEF a
  <2>3. CASE d # c /\ ~(calls[d].request # None /\ calls[d].request.id = id
                        /\ calls[d].request.kind \in Store!Reads)
    BY <2>3 DEF Store!Seeing
  <2> QED BY <2>1, <2>2, <2>3
<1>2. after = [d \in Callers |-> after[d]]
  BY DEF Store!Seeing
<1> QED BY <1>1, <1>2

-----------------------------------------------------------------------------
(* A write of c that leaves s for its session and changes no other one is  *)
(* the effect of the abstract store, if s is what the request asks for.    *)
LEMMA TakesIsEffect ==
  ASSUME StoreInv, NEW c \in Callers, Store!Asks(c, Store!Writes), ~call[c].done,
         NEW id, id = Id(c), Takes(c),
         \A i \in Ids \ {id} : Held(i)' = Held(i),
         Held(id)' = Store!After(call[c].request, Held(id))
  PROVE  Store!Effect(c)
<1>1. id \in Ids
  BY BusyRequest, RequestTypes DEF StoreInv, Store!Asks, Id
<1>2. call' = Store!Seeing(call, c, id, Held(id)')
  BY DEF Takes
<1>3. [i \in Ids |-> Held(i)'] = [[i \in Ids |-> Held(i)] EXCEPT ![id] = Held(id)']
  BY <1>1
<1>4. [i \in Ids |-> Held(i)][id] = Held(id)
  BY <1>1
<1> HIDE DEF Store!After
<1> QED BY <1>1, <1>2, <1>3, <1>4 DEF Store!Effect, Id

(* And it keeps what is said of the calls. *)
LEMMA TakesKeeps ==
  ASSUME StoreInv, NEW c \in Callers, Store!Asks(c, Store!Writes),
         NEW id, id = Id(c), Takes(c), Maps', UNCHANGED looked,
         \A i \in Ids \ {id} : Held(i)' = Held(i) /\ metadata'[i] = metadata[i],
         metadata'[id] = None => metadata[id] = None \/ Held(id)'.exists = FALSE
  PROVE  /\ call' \in [Callers -> Calls]
         /\ Current' /\ Looked'
         /\ \A d \in Callers : /\ call'[d].request = call[d].request
                               /\ d # c => call'[d].done = call[d].done
<1> DEFINE s == Held(id)'
<1>1. id \in Ids /\ s \in HeldStates
  <2>1. id \in Ids
    BY BusyRequest, RequestTypes DEF StoreInv, Store!Asks, Id
  <2>2. Maps' => Held(id)' \in HeldStates
    BY <2>1 DEF Maps, Held, HeldStates
  <2> QED BY <2>1, <2>2
<1>2. call' = Store!Seeing(call, c, id, s)
  BY DEF Takes
<1>3. /\ call' \in [Callers -> Calls]
      /\ \A d \in Callers :
           /\ call'[d].request = call[d].request
           /\ call[d].seen \subseteq call'[d].seen
           /\ d # c => call'[d].done = call[d].done
           /\ d # c /\ call[d].request # None /\ call[d].request.id = id
              /\ call[d].request.kind \in Store!Reads
              => Store!Answer(call[d].request.kind, s) \in call'[d].seen
  <2> HIDE DEF s
  <2> QED BY <1>1, <1>2, SeeingCalls DEF StoreInv
<1>4. c \in Callers /\ ~Reading(c)
  BY DEF Store!Asks, Store!Reads, Store!Writes, Reading
<1>5. Current'
  <2> SUFFICES ASSUME NEW d \in Callers, NEW i \in Ids, Reading(d)', Id(d)' = i
               PROVE  Store!Answer(call'[d].request.kind, Held(i)') \in call'[d].seen
    BY DEF Current
  <2>1. Reading(d) /\ d # c /\ Id(d) = i
    BY <1>3, <1>4 DEF Reading, Store!Asks, Store!Busy, Id
  <2>2. CASE i = id
    BY <1>3, <2>1, <2>2 DEF Id, Reading, Store!Asks, Store!Busy
  <2>3. CASE i # id
    <3>1. Store!Answer(call[d].request.kind, Held(i)) \in call[d].seen
      BY <2>1 DEF StoreInv, Current
    <3>2. Held(i)' = Held(i)
      BY <2>3
    <3> HIDE DEF Store!Answer
    <3> QED BY <1>3, <3>1, <3>2
  <2> QED BY <2>2, <2>3
<1>6. Looked'
  <2> SUFFICES ASSUME NEW d \in Callers, looked[d]
               PROVE  /\ Asks(d, "exists")'
                      /\ metadata'[call'[d].request.id] = None => [exists |-> FALSE] \in call'[d].seen
    BY DEF Looked, Id
  <2>1. /\ Asks(d, "exists")
        /\ metadata[Id(d)] = None => [exists |-> FALSE] \in call[d].seen
    BY DEF StoreInv, Looked
  <2>2. Asks(d, "exists")'
    BY <1>3, <2>1 DEF Asks, Store!Asks, Store!Busy
  <2>3. d # c /\ Id(d) \in Ids
    BY <2>1, BusyRequest, RequestTypes DEF StoreInv, Asks, Store!Asks, Store!Writes, Id
  <2>4. CASE Id(d) = id /\ s.exists = FALSE
    <3>1. Store!Answer("exists", s) \in call'[d].seen
      BY <1>3, <2>1, <2>3, <2>4 DEF Id, Asks, Store!Asks, Store!Busy, Store!Reads
    <3>2. Store!Answer("exists", s) = [exists |-> FALSE]
      BY <2>4 DEF Store!Answer
    <3>3. [exists |-> FALSE] \in call'[d].seen
      BY <3>1, <3>2
    <3> QED BY <2>2, <3>3
  <2>5. CASE Id(d) # id \/ s.exists # FALSE
    <3>1. call'[d].request.id = Id(d)
      BY <1>3 DEF Id
    <3>2. metadata'[Id(d)] = None => metadata[Id(d)] = None
      BY <2>3, <2>5
    <3> QED BY <1>3, <2>1, <2>2, <3>1, <3>2
  <2> QED BY <2>4, <2>5
<1> QED BY <1>3, <1>5, <1>6

-----------------------------------------------------------------------------
(***************************************************************************)
(* Every step keeps StoreInv and is a step of the abstract store.          *)
(***************************************************************************)

db == [id \in Ids |-> Held(id)]
AbstractStep == Store!Next \/ UNCHANGED <<db, call>>

LEMMA InitInv == Init => StoreInv /\ Store!Init
<1> SUFFICES ASSUME Init PROVE StoreInv /\ Store!Init
  OBVIOUS
<1>1. call \in [Callers -> Calls] /\ \A c \in Callers : call[c].request = None
  BY DEF Init, Store!Replied, Calls
<1>2. StoreInv
  BY <1>1 DEF Init, StoreInv, Maps, LockHeld, Removed, Current, Looked, Reading, Store!Asks, Store!Busy
<1>3. \A id \in Ids : Held(id) = Store!NoSession
  BY DEF Init, Held, Store!NoSession
<1> QED BY <1>2, <1>3 DEF Init, Store!Init

(* The reply of c ends its call; nothing else changes but looked[c]. *)
LEMMA ReplyKeeps ==
  ASSUME StoreInv, NEW c \in Callers, NEW reply \in Answers \cup {[ok |-> TRUE]},
         Replies(c, reply), UNCHANGED <<sessions, metadata, clearing>>,
         looked' \in [Callers -> BOOLEAN], ~looked'[c],
         \A d \in Callers : looked'[d] => looked[d],
         clearing # None => clearing.by # c
  PROVE  StoreInv' /\ UNCHANGED db
<1>1. \A id \in Ids : Held(id)' = Held(id)
  BY DEF Held
<1>2. /\ call' \in [Callers -> Calls]
      /\ call'[c].request = None
      /\ \A d \in Callers \ {c} : call'[d] = call[d]
  <2>1. Store!Replied(reply) \in Calls /\ Store!Replied(reply).request = None
    BY DEF Store!Replied, Calls
  <2> QED BY <2>1 DEF Replies, StoreInv
<1>3. Maps' /\ Removed' /\ LockHeld'
  BY <1>2 DEF StoreInv, Maps, Removed, LockHeld, Asks, Store!Asks, Store!Busy, Id
<1>4. Current'
  <2> SUFFICES ASSUME NEW d \in Callers, NEW i \in Ids, Reading(d)', Id(d)' = i
               PROVE  Store!Answer(call'[d].request.kind, Held(i)') \in call'[d].seen
    BY DEF Current
  <2>1. d # c /\ Reading(d) /\ Id(d) = i
    BY <1>2 DEF Reading, Store!Asks, Store!Busy, Id
  <2>2. Store!Answer(call[d].request.kind, Held(i)) \in call[d].seen
    BY <2>1 DEF StoreInv, Current
  <2> HIDE DEF Store!Answer
  <2> QED BY <1>1, <1>2, <2>1, <2>2
<1>5. Looked'
  BY <1>2 DEF StoreInv, Looked, Asks, Store!Asks, Store!Busy, Id
<1>6. UNCHANGED db
  BY <1>1 DEF db
<1> QED BY <1>2, <1>3, <1>4, <1>5, <1>6 DEF StoreInv

LEMMA InvokeStep ==
  ASSUME StoreInv, NEW c \in Callers, NEW r \in Store!Requests, Invoke(c, r)
  PROVE  StoreInv' /\ Store!Invoke(c, r)
<1>1. \A id \in Ids : Held(id)' = Held(id)
  BY DEF Held, Invoke
<1>2. r.id \in Ids /\ r.kind \in Store!Reads \cup Store!Writes
  BY RequestTypes
<1>3. db[r.id] = Held(r.id) /\ UNCHANGED db
  BY <1>1, <1>2 DEF db
<1>4. Held(r.id) \in HeldStates
  BY <1>2, HeldType DEF StoreInv
<1> DEFINE seen == IF r.kind \in Store!Reads THEN {Store!Answer(r.kind, Held(r.id))} ELSE {}
<1>5. seen \subseteq Answers
  <2>1. CASE r.kind \in Store!Reads
    <3>1. Store!Answer(r.kind, Held(r.id)) \in Answers
      BY <1>4, <2>1, AnswerType
    <3> QED BY <3>1, <2>1
  <2>2. CASE r.kind \notin Store!Reads
    BY <2>2
  <2> QED BY <2>1, <2>2
<1>6. call' = [call EXCEPT ![c] = Store!Running(r, FALSE, seen)]
  BY DEF Invoke
<1>7. /\ call' \in [Callers -> Calls]
      /\ call'[c].request = r /\ call'[c].seen = seen
      /\ \A d \in Callers \ {c} : call'[d] = call[d]
  <2> HIDE DEF seen
  <2>1. /\ Store!Running(r, FALSE, seen) \in Calls
        /\ Store!Running(r, FALSE, seen).request = r
        /\ Store!Running(r, FALSE, seen).seen = seen
    BY <1>5 DEF Store!Running, Calls
  <2> QED BY <1>6, <2>1 DEF StoreInv
<1>8. ~Store!Busy(c) /\ ~looked[c] /\ (clearing # None => clearing.by # c)
  BY DEF StoreInv, Invoke, Looked, LockHeld, Asks, Store!Asks
<1>9. Maps' /\ Removed' /\ LockHeld' /\ looked' \in [Callers -> BOOLEAN]
  BY <1>7, <1>8 DEF StoreInv, Invoke, Maps, Removed, LockHeld, Asks, Store!Asks, Store!Busy, Id
<1>10. Current'
  <2> SUFFICES ASSUME NEW d \in Callers, NEW i \in Ids, Reading(d)', Id(d)' = i
               PROVE  Store!Answer(call'[d].request.kind, Held(i)') \in call'[d].seen
    BY DEF Current
  <2>1. CASE d = c
    <3>1. r.kind \in Store!Reads /\ r.id = i
      BY <1>7, <2>1 DEF Reading, Store!Asks, Id
    <3>2. Held(i)' = Held(r.id)
      BY <1>1, <3>1
    <3>3. Store!Answer(r.kind, Held(r.id)) \in seen
      BY <3>1
    <3> HIDE DEF seen, Store!Answer
    <3> QED BY <1>7, <2>1, <3>2, <3>3
  <2>2. CASE d # c
    <3>1. Reading(d) /\ Id(d) = i
      BY <1>7, <2>2 DEF Reading, Store!Asks, Store!Busy, Id
    <3>2. Store!Answer(call[d].request.kind, Held(i)) \in call[d].seen
      BY <3>1 DEF StoreInv, Current
    <3> HIDE DEF Store!Answer
    <3> QED BY <1>1, <1>7, <2>2, <3>2
  <2> QED BY <2>1, <2>2
<1>11. Looked'
  BY <1>7, <1>8 DEF Invoke, StoreInv, Looked, Asks, Store!Asks, Store!Busy, Id
<1>12. Store!Invoke(c, r)
  <2> HIDE DEF Store!Answer
  <2> QED BY <1>3, <1>6, <1>8 DEF Store!Invoke, db
<1> QED BY <1>7, <1>9, <1>10, <1>11, <1>12 DEF StoreInv

-----------------------------------------------------------------------------
(* The writes. *)

LEMMA WriteKeeps ==
  ASSUME StoreInv, NEW c \in Callers, Store!Asks(c, Store!Writes), ~call[c].done,
         NEW id, id = Id(c), Takes(c), Maps', UNCHANGED looked,
         \A i \in Ids \ {id} : Held(i)' = Held(i) /\ metadata'[i] = metadata[i],
         metadata'[id] = None => metadata[id] = None \/ Held(id)'.exists = FALSE,
         Held(id)' = Store!After(call[c].request, Held(id)),
         clearing' = None \/ (UNCHANGED clearing /\ clearing.by # c /\ sessions'[clearing.id] = None)
  PROVE  StoreInv' /\ Store!Effect(c)
<1>1. Store!Effect(c)
  BY TakesIsEffect
<1>2. /\ call' \in [Callers -> Calls]
      /\ Current' /\ Looked'
      /\ \A d \in Callers : /\ call'[d].request = call[d].request
                            /\ d # c => call'[d].done = call[d].done
  BY TakesKeeps
<1>3. LockHeld' /\ Removed'
  <2>1. CASE clearing' = None
    BY <2>1 DEF LockHeld, Removed
  <2>2. CASE clearing # None /\ UNCHANGED clearing /\ clearing.by # c
             /\ sessions'[clearing.id] = None
    <3>1. clearing.by \in Callers /\ clearing.id \in Ids
      BY <2>2 DEF StoreInv, Removed
    <3>2. /\ call'[clearing.by].request = call[clearing.by].request
          /\ call'[clearing.by].done = call[clearing.by].done
      <4>1. PICK d \in Callers : d = clearing.by
        BY <3>1
      <4>2. d # c
        BY <2>2, <4>1
      <4>3. call'[d].request = call[d].request /\ call'[d].done = call[d].done
        BY ONLY <1>2, <4>2, d \in Callers
      <4> QED BY <4>1, <4>3
    <3>3. Asks(clearing.by, "clear") /\ ~call[clearing.by].done /\ Id(clearing.by) = clearing.id
      BY <2>2 DEF StoreInv, LockHeld
    <3> QED BY <2>2, <3>1, <3>2, <3>3
            DEF LockHeld, Removed, Asks, Store!Asks, Store!Busy, Id
  <2> QED BY <2>1, <2>2
<1> QED BY <1>1, <1>2, <1>3 DEF StoreInv

LEMMA SaveMessagesStep ==
  ASSUME StoreInv, NEW c \in Callers, SaveMessages(c)
  PROVE  StoreInv' /\ Store!Effect(c)
<1> DEFINE id == Id(c)
<1>1. id \in Ids /\ Arg(c) \in Transcripts /\ Arg(c) # None
  BY BusyRequest, RequestTypes, MemoryAssumption
     DEF StoreInv, SaveMessages, Asks, Store!Asks, Id, Arg
<1>2. /\ clearing = None /\ clearing' = None /\ UNCHANGED <<metadata, looked>>
      /\ sessions' = [sessions EXCEPT ![id] = Arg(c)] /\ Takes(c)
      /\ ~call[c].done /\ Store!Asks(c, Store!Writes)
      /\ call[c].request.kind = "save_messages"
  BY DEF SaveMessages, SessionsFree, Asks, Store!Asks, Store!Writes
<1>3. Maps'
  BY <1>1, <1>2 DEF StoreInv, Maps
<1>4. \A i \in Ids \ {id} : Held(i)' = Held(i)
  BY <1>1, <1>2 DEF StoreInv, Maps, Held
<1>5. Held(id) = [messages |-> IF sessions[id] = None THEN Empty ELSE sessions[id],
                  metadata |-> metadata[id],
                  exists |-> sessions[id] # None \/ metadata[id] # None]
  BY <1>2 DEF Held
<1>6. ASSUME NEW i \in Ids, i = id
      PROVE  Held(i)' = [messages |-> Arg(c), metadata |-> metadata[i], exists |-> TRUE]
  BY <1>1, <1>2, <1>6 DEF StoreInv, Maps, Held
<1>7. PICK i \in Ids : i = id
  BY <1>1
<1>8. Held(i)' = Store!After(call[c].request, Held(i))
  <2>1. call[c].request.arg = Arg(c)
    BY DEF Arg
  <2>2. Held(i).metadata = metadata[i]
    BY DEF Held
  <2> QED BY <1>2, <1>6, <1>7, <2>1, <2>2 DEF Store!After
<1> HIDE DEF id
<1>9. \A j \in Ids \ {i} : Held(j)' = Held(j) /\ metadata'[j] = metadata[j]
  BY <1>2, <1>4, <1>7
<1>10. i = Id(c) /\ metadata'[i] = metadata[i]
  BY <1>2, <1>7 DEF id
<1> QED BY <1>2, <1>3, <1>8, <1>9, <1>10, WriteKeeps

LEMMA SaveMetadataStep ==
  ASSUME StoreInv, NEW c \in Callers, SaveMetadata(c)
  PROVE  StoreInv' /\ Store!Effect(c)
<1> DEFINE id == Id(c)
<1>1. id \in Ids /\ Arg(c) \in Metadata /\ Arg(c) # None
  BY BusyRequest, RequestTypes, MemoryAssumption
     DEF StoreInv, SaveMetadata, Asks, Store!Asks, Id, Arg
<1>2. /\ UNCHANGED <<sessions, clearing, looked>>
      /\ metadata' = [metadata EXCEPT ![id] = Arg(c)] /\ Takes(c)
      /\ ~call[c].done /\ Store!Asks(c, Store!Writes)
      /\ call[c].request.kind = "save_metadata"
  BY DEF SaveMetadata, Asks, Store!Asks, Store!Writes
<1>3. Maps'
  BY <1>1, <1>2 DEF StoreInv, Maps
<1>4. \A i \in Ids \ {id} : Held(i)' = Held(i) /\ metadata'[i] = metadata[i]
  BY <1>1, <1>2 DEF StoreInv, Maps, Held
<1>5. PICK i \in Ids : i = id
  BY <1>1
<1>6. Held(i)' = [messages |-> Held(i).messages, metadata |-> Arg(c), exists |-> TRUE]
  BY <1>1, <1>2, <1>5 DEF StoreInv, Maps, Held
<1>7. Held(i)' = Store!After(call[c].request, Held(i))
  <2>1. call[c].request.arg = Arg(c)
    BY DEF Arg
  <2> QED BY <1>2, <1>6, <2>1 DEF Store!After
<1>8. /\ i = Id(c) /\ metadata'[i] # None
      /\ clearing # None => clearing.by # c /\ sessions'[clearing.id] = None
  BY <1>1, <1>2, <1>5 DEF StoreInv, Maps, LockHeld, Removed, Asks, Store!Asks
<1> HIDE DEF id
<1> QED BY <1>2, <1>3, <1>4, <1>5, <1>7, <1>8, WriteKeeps

LEMMA ClearMetadataStep ==
  ASSUME StoreInv, NEW c \in Callers, ClearMetadata(c)
  PROVE  StoreInv' /\ Store!Effect(c)
<1> DEFINE id == Id(c)
<1>1. id \in Ids
  BY BusyRequest, RequestTypes DEF StoreInv, ClearMetadata, Asks, Store!Asks, Id
<1>2. /\ UNCHANGED <<sessions, looked>> /\ clearing' = None /\ clearing # None
      /\ metadata' = [metadata EXCEPT ![id] = None] /\ Takes(c)
      /\ clearing.by = c /\ clearing.id = id /\ sessions[id] = None
      /\ ~call[c].done /\ Store!Asks(c, Store!Writes)
      /\ call[c].request.kind = "clear"
  BY DEF ClearMetadata, StoreInv, LockHeld, Removed, Asks, Store!Asks, Store!Writes
<1>3. Maps'
  BY <1>1, <1>2 DEF StoreInv, Maps
<1>4. \A i \in Ids \ {id} : Held(i)' = Held(i) /\ metadata'[i] = metadata[i]
  BY <1>1, <1>2 DEF StoreInv, Maps, Held
<1>5. PICK i \in Ids : i = id
  BY <1>1
<1>6. Held(i)' = Store!NoSession
  BY <1>1, <1>2, <1>5 DEF StoreInv, Maps, Held, Store!NoSession
<1>7. Held(i)' = Store!After(call[c].request, Held(i))
  BY <1>2, <1>6 DEF Store!After
<1>8. i = Id(c) /\ Held(i)'.exists = FALSE
  BY <1>5, <1>6 DEF Store!NoSession
<1> HIDE DEF id
<1> QED BY <1>2, <1>3, <1>4, <1>5, <1>7, <1>8, WriteKeeps

(* The first half of a clear cannot be seen. *)
LEMMA ClearSessionsStep ==
  ASSUME StoreInv, NEW c \in Callers, ClearSessions(c)
  PROVE  StoreInv' /\ UNCHANGED <<db, call>>
<1>1. Id(c) \in Ids
  BY BusyRequest, RequestTypes DEF StoreInv, ClearSessions, Asks, Store!Asks, Id
<1>2. /\ clearing = None /\ UNCHANGED <<metadata, looked, call>>
      /\ clearing' = [by |-> c, id |-> Id(c), removed |-> sessions[Id(c)]]
      /\ sessions' = [sessions EXCEPT ![Id(c)] = None]
      /\ ~call[c].done /\ Asks(c, "clear")
  BY DEF ClearSessions, SessionsFree, Lock
<1>3. \A i \in Ids : Held(i)' = Held(i)
  <2>1. clearing' # None
    BY <1>1, <1>2, MemoryAssumption DEF StoreInv, Maps
  <2>2. \A i \in Ids : sessions'[i] = IF i = Id(c) THEN None ELSE sessions[i]
    BY <1>1, <1>2 DEF StoreInv, Maps
  <2> QED BY <1>2, <2>1, <2>2 DEF Held
<1>4. Maps' /\ Removed' /\ LockHeld'
  BY <1>1, <1>2 DEF StoreInv, Maps, Removed, LockHeld, Asks, Store!Asks, Store!Busy, Id
<1>5. Current'
  <2> SUFFICES ASSUME NEW d \in Callers, NEW i \in Ids, Reading(d)', Id(d)' = i
               PROVE  Store!Answer(call'[d].request.kind, Held(i)') \in call'[d].seen
    BY DEF Current
  <2>1. Reading(d) /\ Id(d) = i
    BY <1>2 DEF Reading, Store!Asks, Store!Busy, Id
  <2>2. Store!Answer(call[d].request.kind, Held(i)) \in call[d].seen
    BY <2>1 DEF StoreInv, Current
  <2> HIDE DEF Store!Answer
  <2> QED BY <1>2, <1>3, <2>2
<1>6. Looked'
  BY <1>2 DEF StoreInv, Looked, Asks, Store!Asks, Store!Busy, Id
<1> QED BY <1>2, <1>3, <1>4, <1>5, <1>6 DEF StoreInv, db

-----------------------------------------------------------------------------
(* The replies. *)

LEMMA WriteReturnsStep ==
  ASSUME StoreInv, NEW c \in Callers, WriteReturns(c)
  PROVE  StoreInv' /\ Store!Return(c, [ok |-> TRUE]) /\ Store!Next
<1>1. /\ Store!Asks(c, Store!Writes) /\ call[c].done
      /\ Replies(c, [ok |-> TRUE]) /\ UNCHANGED <<sessions, metadata, clearing, looked>>
  BY DEF WriteReturns
<1>2. ~looked[c]
  BY <1>1 DEF StoreInv, Looked, Asks, Store!Asks, Store!Writes
<1>3. looked' \in [Callers -> BOOLEAN] /\ (clearing # None => clearing.by # c)
  BY <1>1 DEF StoreInv, LockHeld
<1>4. StoreInv' /\ UNCHANGED db
  BY <1>1, <1>2, <1>3, ReplyKeeps
<1>5. Store!Return(c, [ok |-> TRUE])
  BY <1>1, <1>4 DEF Store!Return, Replies, db
<1> QED BY <1>4, <1>5 DEF Store!Next

(* A read that has an answer it has seen. *)
LEMMA ReadReturns ==
  ASSUME StoreInv, NEW c \in Callers, Reading(c), NEW reply \in call[c].seen,
         Replies(c, reply), UNCHANGED <<sessions, metadata, clearing>>,
         looked' = [looked EXCEPT ![c] = FALSE]
  PROVE  StoreInv' /\ Store!Next
<1>1. reply \in Answers
  BY DEF StoreInv, Calls
<1>2. clearing # None => clearing.by # c
  BY DEF StoreInv, LockHeld, Asks, Reading, Store!Asks, Store!Reads
<1>3. /\ looked' \in [Callers -> BOOLEAN] /\ ~looked'[c]
      /\ \A d \in Callers : looked'[d] => looked[d]
  BY DEF StoreInv
<1>4. StoreInv' /\ UNCHANGED db
  BY <1>1, <1>2, <1>3, ReplyKeeps
<1>5. Store!Return(c, reply)
  BY <1>4 DEF Store!Return, Replies, db, Reading
<1> QED BY <1>4, <1>5 DEF Store!Next

(* Only an exists is between two locks. *)
LEMMA NotLooked ==
  ASSUME StoreInv, NEW c \in Callers, ~Asks(c, "exists"), UNCHANGED looked
  PROVE  looked' = [looked EXCEPT ![c] = FALSE]
BY DEF StoreInv, Looked

LEMMA LoadMessagesStep ==
  ASSUME StoreInv, NEW c \in Callers, LoadMessages(c)
  PROVE  StoreInv' /\ Store!Next
<1>1. /\ Asks(c, "load_messages") /\ clearing = None
      /\ UNCHANGED <<sessions, metadata, clearing, looked>>
  BY DEF LoadMessages, SessionsFree
<1>2. Reading(c) /\ call[c].request.kind = "load_messages" /\ ~Asks(c, "exists")
  BY <1>1 DEF Reading, Asks, Store!Asks, Store!Reads
<1>3. Id(c) \in Ids
  BY <1>2, BusyRequest, RequestTypes DEF StoreInv, Reading, Store!Asks, Id
<1>4. Store!Answer("load_messages", Held(Id(c))) \in call[c].seen
  BY <1>2, <1>3 DEF StoreInv, Current
<1>5. Store!Answer("load_messages", Held(Id(c)))
        = [messages |-> IF sessions[Id(c)] = None THEN Empty ELSE sessions[Id(c)]]
  BY <1>1 DEF Store!Answer, Held
<1>6. Replies(c, [messages |-> IF sessions[Id(c)] = None THEN Empty ELSE sessions[Id(c)]])
  BY DEF LoadMessages
<1>7. looked' = [looked EXCEPT ![c] = FALSE]
  BY <1>1, <1>2, NotLooked
<1> QED BY <1>1, <1>2, <1>4, <1>5, <1>6, <1>7, ReadReturns

LEMMA LoadMetadataStep ==
  ASSUME StoreInv, NEW c \in Callers, LoadMetadata(c)
  PROVE  StoreInv' /\ Store!Next
<1>1. /\ Asks(c, "load_metadata") /\ Replies(c, [metadata |-> metadata[Id(c)]])
      /\ UNCHANGED <<sessions, metadata, clearing, looked>>
  BY DEF LoadMetadata
<1>2. Reading(c) /\ call[c].request.kind = "load_metadata" /\ ~Asks(c, "exists")
  BY <1>1 DEF Reading, Asks, Store!Asks, Store!Reads
<1>3. Id(c) \in Ids
  BY <1>2, BusyRequest, RequestTypes DEF StoreInv, Reading, Store!Asks, Id
<1>4. Store!Answer("load_metadata", Held(Id(c))) \in call[c].seen
  BY <1>2, <1>3 DEF StoreInv, Current
<1>5. Store!Answer("load_metadata", Held(Id(c))) = [metadata |-> metadata[Id(c)]]
  BY DEF Store!Answer, Held
<1>6. looked' = [looked EXCEPT ![c] = FALSE]
  BY <1>1, <1>2, NotLooked
<1> QED BY <1>1, <1>2, <1>4, <1>5, <1>6, ReadReturns

(* What an exists knows of its session. *)
LEMMA ExistsCall ==
  ASSUME StoreInv, NEW c \in Callers, Asks(c, "exists")
  PROVE  /\ Reading(c) /\ Id(c) \in Ids
         /\ [exists |-> Held(Id(c)).exists] \in call[c].seen
<1>1. Reading(c) /\ call[c].request.kind = "exists"
  BY DEF Reading, Asks, Store!Asks, Store!Reads
<1>2. Id(c) \in Ids
  BY <1>1, BusyRequest, RequestTypes DEF StoreInv, Reading, Store!Asks, Id
<1>3. Store!Answer("exists", Held(Id(c))) \in call[c].seen
  BY <1>1, <1>2 DEF StoreInv, Current
<1>4. Store!Answer("exists", Held(Id(c))) = [exists |-> Held(Id(c)).exists]
  BY DEF Store!Answer
<1> QED BY <1>1, <1>2, <1>3, <1>4

LEMMA ExistsSessionsStep ==
  ASSUME StoreInv, NEW c \in Callers, ExistsSessions(c)
  PROVE  StoreInv' /\ (Store!Next \/ UNCHANGED <<db, call>>)
<1>1. /\ Asks(c, "exists") /\ ~looked[c] /\ clearing = None
      /\ UNCHANGED <<sessions, metadata, clearing>>
  BY DEF ExistsSessions, SessionsFree
<1>2. /\ Reading(c) /\ Id(c) \in Ids
      /\ [exists |-> Held(Id(c)).exists] \in call[c].seen
  BY <1>1, ExistsCall
<1>3. Held(Id(c)).exists = (sessions[Id(c)] # None \/ metadata[Id(c)] # None)
  BY <1>1 DEF Held
<1>4. CASE sessions[Id(c)] # None
  <2>1. Replies(c, [exists |-> TRUE]) /\ UNCHANGED looked
    BY <1>4 DEF ExistsSessions
  <2>2. [exists |-> TRUE] \in call[c].seen
    BY <1>2, <1>3, <1>4
  <2>3. looked' = [looked EXCEPT ![c] = FALSE]
    BY <1>1, <2>1 DEF StoreInv
  <2> QED BY <1>1, <1>2, <2>1, <2>2, <2>3, ReadReturns
<1>5. CASE sessions[Id(c)] = None
  <2>1. looked' = [looked EXCEPT ![c] = TRUE] /\ UNCHANGED call
    BY <1>5 DEF ExistsSessions
  <2>2. metadata[Id(c)] = None => [exists |-> FALSE] \in call[c].seen
    BY <1>2, <1>3, <1>5
  <2>3. Looked'
    BY <1>1, <2>1, <2>2 DEF StoreInv, Looked, Asks, Store!Asks, Store!Busy, Id
  <2>4. \A id \in Ids : Held(id)' = Held(id)
    BY <1>1 DEF Held
  <2>5. Maps' /\ LockHeld' /\ Removed' /\ UNCHANGED db
    BY <1>1, <2>1, <2>4
       DEF StoreInv, Maps, LockHeld, Removed, Asks, Store!Asks, Store!Busy, Id, db
  <2>6. Current'
    <3> HIDE DEF Store!Answer
    <3> QED BY <2>1, <2>4 DEF StoreInv, Current, Reading, Store!Asks, Store!Busy, Id
  <2>7. call' \in [Callers -> Calls] /\ looked' \in [Callers -> BOOLEAN]
    BY <2>1 DEF StoreInv
  <2> QED BY <2>1, <2>3, <2>5, <2>6, <2>7 DEF StoreInv
<1> QED BY <1>4, <1>5

LEMMA ExistsMetadataStep ==
  ASSUME StoreInv, NEW c \in Callers, ExistsMetadata(c)
  PROVE  StoreInv' /\ Store!Next
<1>1. /\ Asks(c, "exists") /\ looked[c] /\ Replies(c, [exists |-> metadata[Id(c)] # None])
      /\ UNCHANGED <<sessions, metadata, clearing>>
      /\ looked' = [looked EXCEPT ![c] = FALSE]
  BY DEF ExistsMetadata
<1>2. /\ Reading(c) /\ Id(c) \in Ids
      /\ [exists |-> Held(Id(c)).exists] \in call[c].seen
  BY <1>1, ExistsCall
<1>3. CASE metadata[Id(c)] # None
  BY <1>1, <1>2, <1>3, ReadReturns DEF Held
<1>4. CASE metadata[Id(c)] = None
  <2>1. [exists |-> FALSE] \in call[c].seen
    BY <1>1, <1>4 DEF StoreInv, Looked
  <2> QED BY <1>1, <1>2, <1>4, <2>1, ReadReturns
<1> QED BY <1>3, <1>4

-----------------------------------------------------------------------------
(***************************************************************************)
(* The step, and the theorems.                                             *)
(***************************************************************************)

LEMMA NextStep ==
  ASSUME StoreInv, [Next]_vars
  PROVE  StoreInv' /\ AbstractStep
<1>1. CASE UNCHANGED vars
  <2>1. \A id \in Ids : Held(id)' = Held(id)
    BY <1>1 DEF vars, Held
  <2>2. UNCHANGED <<db, call>>
    BY <1>1, <2>1 DEF vars, db
  <2>3. Current'
    <3> HIDE DEF Store!Answer
    <3> QED BY <1>1, <2>1 DEF vars, StoreInv, Current, Reading, Store!Asks, Store!Busy, Id
  <2> QED BY <1>1, <2>2, <2>3 DEF vars, StoreInv, Maps, LockHeld, Removed, Looked,
             Asks, Store!Asks, Store!Busy, Id, AbstractStep
<1>2. ASSUME NEW c \in Callers, NEW r \in Store!Requests, Invoke(c, r)
      PROVE  StoreInv' /\ Store!Next
  BY <1>2, InvokeStep DEF Store!Next
<1>3. ASSUME NEW c \in Callers, SaveMessages(c) \/ SaveMetadata(c) \/ ClearMetadata(c)
      PROVE  StoreInv' /\ Store!Next
  BY <1>3, SaveMessagesStep, SaveMetadataStep, ClearMetadataStep DEF Store!Next
<1>4. ASSUME NEW c \in Callers, LoadMessages(c) \/ LoadMetadata(c) \/ ExistsMetadata(c)
      PROVE  StoreInv' /\ Store!Next
  BY <1>4, LoadMessagesStep, LoadMetadataStep, ExistsMetadataStep
<1> QED BY <1>1, <1>2, <1>3, <1>4, ClearSessionsStep, ExistsSessionsStep, WriteReturnsStep
        DEF Next, AbstractStep

(* Spec keeps the types of its maps, and the write lock of sessions is     *)
(* only ever held by a clear that is between its two removals.             *)
THEOREM MemoryTypes == Spec => []TypeOK
<1>1. Init => StoreInv
  BY InitInv
<1>2. StoreInv /\ [Next]_vars => StoreInv'
  BY NextStep
<1>3. StoreInv => TypeOK
  BY InvTypes
<1> QED BY <1>1, <1>2, <1>3, PTL DEF Spec

(* Every operation of InMemorySessionStore is atomic, although the two     *)
(* maps have a lock each: the store implements SessionStore.               *)
THEOREM MemoryAtomic == Spec => Atomic
<1>1. Init => StoreInv /\ Store!Init
  BY InitInv
<1>2. StoreInv /\ [Next]_vars => StoreInv'
  BY NextStep
<1>3. StoreInv /\ [Next]_vars => [Store!Next]_<<db, call>>
  BY NextStep DEF AbstractStep
<1> QED BY <1>1, <1>2, <1>3, PTL DEF Spec, Atomic, Store!Spec, db
=============================================================================
