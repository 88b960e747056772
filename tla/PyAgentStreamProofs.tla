------------------------- MODULE PyAgentStreamProofs -------------------------
(***************************************************************************)
(* What an agent keeps of the streams of the Python binding, for any tasks *)
(* and streams.  An error and a persisted answer both end the worker, so a *)
(* stream never has both.  A close that is counted as early is in the      *)
(* channel before every finish, or was, and then the worker is gone.  Who  *)
(* works with the agent is at the head of the queue of its mutex, and who  *)
(* waits for it is in the queue, whatever is cancelled (Queued).           *)
(***************************************************************************)
EXTENDS PyAgentStream, TLAPS

CommandOps == {"next", "finish", "close"}
CommandSet == [op : CommandOps, task : Tasks \cup {None}]

Shapes ==
  /\ worker \in [Streams -> WorkerStates]
  /\ commands \in [Streams -> Seq(CommandSet)]
  /\ fact \in [Streams -> SUBSET Facts]

(* A close waits in the channel, and no finish before it. *)
CloseAhead(q) ==
  \E k \in DOMAIN q : q[k].op = "close" /\ \A i \in 1..(k - 1) : q[i].op # "finish"

(* A stream whose worker is at w, with the channel q and the facts f. *)
StreamInv(w, q, f) ==
  /\ "erred" \in f \/ "persisted" \in f => w = "done"
  /\ "closed early" \in f => w = "done" \/ (w # "finishing" /\ CloseAhead(q))
  /\ ~({"closed early", "persisted"} \subseteq f)
  /\ ~({"erred", "persisted"} \subseteq f)

PyInv == Shapes /\ \A s \in Streams : StreamInv(worker[s], commands[s], fact[s])

-----------------------------------------------------------------------------
(* The channel. *)
LEMMA AppendKeepsAhead ==
  ASSUME NEW q \in Seq(CommandSet), NEW c \in CommandSet, CloseAhead(q)
  PROVE  CloseAhead(Append(q, c))
BY DEF CloseAhead

LEMMA AppendClose ==
  ASSUME NEW q \in Seq(CommandSet), NEW c \in CommandSet, c.op = "close",
         \A i \in DOMAIN q : q[i].op # "finish"
  PROVE  CloseAhead(Append(q, c))
<1>1. Append(q, c)[Len(q) + 1] = c /\ Len(q) + 1 \in DOMAIN Append(q, c)
  OBVIOUS
<1>2. \A i \in 1..Len(q) : Append(q, c)[i] = q[i]
  OBVIOUS
<1> QED BY <1>1, <1>2 DEF CloseAhead

(* A command that is taken is the close itself, or the close stays ahead. *)
LEMMA TailKeepsAhead ==
  ASSUME NEW q \in Seq(CommandSet), CloseAhead(q), Head(q).op # "close"
  PROVE  /\ Head(q).op # "finish"
         /\ CloseAhead(Tail(q))
<1>1. PICK k \in DOMAIN q : q[k].op = "close" /\ \A i \in 1..(k - 1) : q[i].op # "finish"
  BY DEF CloseAhead
<1>2. k > 1 /\ q # <<>>
  BY <1>1
<1>3. Head(q).op # "finish"
  BY <1>1, <1>2
<1>4. /\ k - 1 \in DOMAIN Tail(q) /\ Tail(q)[k - 1] = q[k]
      /\ \A i \in 1..((k - 1) - 1) : Tail(q)[i] = q[i + 1]
  BY <1>1, <1>2
<1> QED BY <1>1, <1>3, <1>4 DEF CloseAhead

(* A cancelled call leaves its commands without a receiver. *)
LEMMA OrphanedKeepsAhead ==
  ASSUME NEW q \in Seq(CommandSet), NEW p,
         p = [i \in DOMAIN q |-> p[i]],
         \A i \in DOMAIN q : p[i] \in CommandSet /\ p[i].op = q[i].op
  PROVE  /\ p \in Seq(CommandSet)
         /\ CloseAhead(q) => CloseAhead(p)
<1>1. p \in Seq(CommandSet)
  OBVIOUS
<1>2. DOMAIN p = DOMAIN q
  OBVIOUS
<1> QED BY <1>1, <1>2 DEF CloseAhead

-----------------------------------------------------------------------------
LEMMA PyInitially == Init => PyInv
BY DEF Init, PyInv, Shapes, StreamInv, WorkerStates, Facts

LEMMA Unmoved ==
  ASSUME PyInv, UNCHANGED <<worker, commands, fact>>
  PROVE  PyInv'
BY DEF PyInv, Shapes

(* The steps of one stream; a step that concerns none keeps all three.     *)
LEMMA OneStream ==
  ASSUME PyInv, NEW s \in Streams,
         NEW w \in WorkerStates, worker' = [worker EXCEPT ![s] = w],
         NEW q \in Seq(CommandSet), commands' = [commands EXCEPT ![s] = q],
         NEW f \in SUBSET Facts, fact' = [fact EXCEPT ![s] = f],
         StreamInv(w, q, f)
  PROVE  PyInv'
<1>1. Shapes'
  BY DEF PyInv, Shapes
<1>2. ASSUME NEW x \in Streams
      PROVE  StreamInv(worker'[x], commands'[x], fact'[x])
  <2>1. CASE x = s
    BY <2>1 DEF PyInv, Shapes
  <2>2. CASE x # s
    BY <2>2 DEF PyInv, Shapes
  <2> QED BY <2>1, <2>2
<1> QED BY <1>1, <1>2 DEF PyInv

LEMMA Kept ==
  ASSUME PyInv, NEW s \in Streams
  PROVE  /\ worker[s] \in WorkerStates /\ worker = [worker EXCEPT ![s] = worker[s]]
         /\ commands[s] \in Seq(CommandSet) /\ commands = [commands EXCEPT ![s] = commands[s]]
         /\ fact[s] \in SUBSET Facts /\ fact = [fact EXCEPT ![s] = fact[s]]
         /\ StreamInv(worker[s], commands[s], fact[s])
BY DEF PyInv, Shapes

(* Only the worker moves, and not to serve a finish. *)
LEMMA WorkerMoves ==
  ASSUME PyInv, NEW s \in Streams, worker[s] # "done", NEW w \in WorkerStates,
         w # "finishing", ToWorker(s, w), UNCHANGED <<commands, fact>>
  PROVE  PyInv'
<1>1. StreamInv(w, commands[s], fact[s])
  BY Kept DEF StreamInv
<1> QED BY <1>1, Kept, OneStream DEF ToWorker

(* Only the fact that an iteration ended is added. *)
LEMMA ExhaustedNoted ==
  ASSUME PyInv, NEW s, Note(s, "exhausted"), UNCHANGED <<worker, commands>>
  PROVE  PyInv'
<1>1. CASE s \in Streams
  <2>1. fact[s] \cup {"exhausted"} \in SUBSET Facts
    BY <1>1, Kept DEF Facts
  <2>2. StreamInv(worker[s], commands[s], fact[s] \cup {"exhausted"})
    BY <1>1, Kept DEF StreamInv
  <2> QED BY <1>1, <2>1, <2>2, Kept, OneStream DEF Note
<1>2. CASE s \notin Streams
  BY <1>2, Unmoved DEF Note, PyInv, Shapes
<1> QED BY <1>1, <1>2

(* The worker returns, with what it notes at most. *)
LEMMA Quitting ==
  ASSUME PyInv, NEW s \in Streams, worker[s] # "done", Quits(s),
         \/ UNCHANGED fact
         \/ Note(s, "erred")
         \/ worker[s] = "finishing" /\ Note(s, "persisted")
  PROVE  PyInv'
<1>1. "done" \in WorkerStates /\ <<>> \in Seq(CommandSet)
  BY DEF WorkerStates
<1>2. "erred" \notin fact[s] /\ "persisted" \notin fact[s]
  BY Kept DEF StreamInv
<1>3. worker[s] = "finishing" => "closed early" \notin fact[s]
  BY Kept DEF StreamInv
<1>4. ASSUME NEW g \in {{}, {"erred"}, {"persisted"}},
             g = {"persisted"} => worker[s] = "finishing",
             fact' = [fact EXCEPT ![s] = fact[s] \cup g]
      PROVE  PyInv'
  <2>1. fact[s] \cup g \in SUBSET Facts
    BY Kept DEF Facts
  <2>2. StreamInv("done", <<>>, fact[s] \cup g)
    BY <1>2, <1>3, <1>4 DEF StreamInv
  <2> QED BY <1>1, <1>4, <2>1, <2>2, OneStream DEF Quits, ToWorker
<1>5. CASE UNCHANGED fact
  <2>1. fact' = [fact EXCEPT ![s] = fact[s] \cup {}]
    BY <1>5, Kept
  <2> QED BY <1>4, <2>1
<1> QED BY <1>4, <1>5 DEF Note

-----------------------------------------------------------------------------
(***************************************************************************)
(* The calls.                                                              *)
(***************************************************************************)

LEMMA SendKeeps ==
  ASSUME PyInv, NEW t \in Tasks, Send(t)
  PROVE  PyInv'
<1> DEFINE s == Of(t)
<1>1. CASE UNCHANGED commands
  BY <1>1, Unmoved DEF Send
<1>2. CASE s \notin Streams
  <2>1. UNCHANGED <<worker, commands, fact>>
    BY <1>2 DEF Send, PyInv, Shapes
  <2> QED BY <2>1, Unmoved
<1>3. ASSUME NEW c \in CommandSet, s \in Streams,
             commands' = [commands EXCEPT ![s] = Append(@, c)]
      PROVE  PyInv'
  <2>1. Append(commands[s], c) \in Seq(CommandSet)
    BY <1>3, Kept
  <2>2. StreamInv(worker[s], Append(commands[s], c), fact[s])
    BY <1>3, Kept, AppendKeepsAhead DEF StreamInv
  <2>3. UNCHANGED <<worker, fact>>
    BY DEF Send
  <2> HIDE DEF s
  <2> QED BY <1>3, <2>1, <2>2, <2>3, Kept, OneStream
<1>4. Command(IF task[t].op = "next" THEN "next" ELSE "finish", t) \in CommandSet
  BY DEF Command, CommandSet, CommandOps
<1> QED BY <1>1, <1>2, <1>3, <1>4 DEF Send

LEMMA SendCloseKeeps ==
  ASSUME PyInv, NEW t \in Tasks, SendClose(t)
  PROVE  PyInv'
<1>1. CASE Of(t) \notin Streams
  <2>1. UNCHANGED <<worker, commands, fact>>
    BY <1>1 DEF SendClose, Note, PyInv, Shapes
  <2> QED BY <2>1, Unmoved
<1>2. ASSUME NEW s \in Streams, s = Of(t)
      PROVE  PyInv'
  <2> DEFINE c == Command("close", None)
             q == Append(commands[s], c)
  <2>1. c \in CommandSet /\ c.op = "close"
    BY DEF Command, CommandSet, CommandOps
  <2>2. q \in Seq(CommandSet)
    BY <2>1, Kept
  <2>3. UNCHANGED worker
    BY DEF SendClose
  <2>4. CASE worker[s] = "done"
    <3>1. UNCHANGED <<commands, fact>>
      BY <1>2, <2>4 DEF SendClose, FinishRequested
    <3> QED BY <2>3, <3>1, Unmoved
  <2>5. CASE worker[s] # "done" /\ FinishRequested(s)
    <3>1. commands' = [commands EXCEPT ![s] = q] /\ UNCHANGED fact
      BY <1>2, <2>5 DEF SendClose
    <3>2. StreamInv(worker[s], q, fact[s])
      BY <2>1, Kept, AppendKeepsAhead DEF StreamInv
    <3> HIDE DEF q
    <3> QED BY <2>2, <2>3, <3>1, <3>2, Kept, OneStream
  <2>6. CASE worker[s] # "done" /\ ~FinishRequested(s)
    <3>1. /\ commands' = [commands EXCEPT ![s] = q]
          /\ fact' = [fact EXCEPT ![s] = fact[s] \cup {"closed early"}]
      BY <1>2, <2>6 DEF SendClose, Note, PyInv, Shapes
    <3>2. worker[s] # "finishing" /\ \A i \in DOMAIN commands[s] : commands[s][i].op # "finish"
      BY <2>6 DEF FinishRequested
    <3>3. CloseAhead(q)
      BY <2>1, <3>2, Kept, AppendClose
    <3>4. StreamInv(worker[s], q, fact[s] \cup {"closed early"})
      BY <2>6, <3>2, <3>3, Kept DEF StreamInv
    <3>5. fact[s] \cup {"closed early"} \in SUBSET Facts
      BY Kept DEF Facts
    <3> HIDE DEF q
    <3> QED BY <2>2, <2>3, <3>1, <3>4, <3>5, Kept, OneStream
  <2> QED BY <2>4, <2>5, <2>6
<1> QED BY <1>1, <1>2

LEMMA CancelKeeps ==
  ASSUME PyInv, NEW t \in Tasks, Cancel(t)
  PROVE  PyInv'
<1>1. UNCHANGED <<worker, fact>> /\ commands' = [s \in Streams |-> commands'[s]]
  BY DEF Cancel
<1>2. ASSUME NEW s \in Streams
      PROVE  /\ commands'[s] \in Seq(CommandSet)
             /\ StreamInv(worker[s], commands'[s], fact[s])
  <2> DEFINE q == commands[s]
             p == [i \in DOMAIN q |-> IF q[i].task = t THEN Command(q[i].op, None) ELSE q[i]]
  <2>1. commands'[s] = p
    BY DEF Cancel
  <2>2. \A i \in DOMAIN q : p[i] \in CommandSet /\ p[i].op = q[i].op
    <3>1. \A i \in DOMAIN q : q[i] \in CommandSet
      BY Kept
    <3> QED BY <3>1 DEF Command, CommandSet
  <2>3. p = [i \in DOMAIN q |-> p[i]]
    OBVIOUS
  <2>4. p \in Seq(CommandSet) /\ (CloseAhead(q) => CloseAhead(p))
    <3> HIDE DEF p
    <3> QED BY <2>2, <2>3, Kept, OrphanedKeepsAhead
  <2> HIDE DEF p
  <2> QED BY <2>1, <2>4, Kept DEF StreamInv
<1>3. Shapes'
  BY <1>1, <1>2 DEF PyInv, Shapes
<1> QED BY <1>1, <1>2, <1>3 DEF PyInv

-----------------------------------------------------------------------------
(***************************************************************************)
(* The worker.                                                             *)
(***************************************************************************)

LEMMA ServeKeeps ==
  ASSUME PyInv, NEW s \in Streams, Serve(s)
  PROVE  PyInv'
<1>1. /\ worker[s] = "serving" /\ commands[s] # <<>>
      /\ Head(commands[s]).op \in {"next", "finish"}
      /\ commands' = [commands EXCEPT ![s] = Tail(commands[s])] /\ UNCHANGED fact
  BY DEF Serve, Received
<1>2. PICK w \in {"reading", "finishing"} :
        /\ worker' = [worker EXCEPT ![s] = w]
        /\ w = "finishing" => Head(commands[s]).op = "finish"
  BY DEF Serve, Received, ToWorker
<1>3. Tail(commands[s]) \in Seq(CommandSet) /\ w \in WorkerStates
  BY <1>1, Kept DEF WorkerStates
<1>4. CloseAhead(commands[s]) => w # "finishing" /\ CloseAhead(Tail(commands[s]))
  BY <1>1, <1>2, Kept, TailKeepsAhead
<1>5. StreamInv(w, Tail(commands[s]), fact[s])
  BY <1>1, <1>4, Kept DEF StreamInv
<1> QED BY <1>1, <1>2, <1>3, <1>5, Kept, OneStream

LEMMA WorkerKeeps ==
  ASSUME PyInv, NEW s \in Streams, WorkerStep(s) \/ ProviderStep(s)
  PROVE  PyInv'
<1>1. CASE WaitLock(s)
  BY <1>1, WorkerMoves DEF WaitLock, WorkerStates
<1>2. CASE GotLock(s) \/ Opens(s)
  <2>1. CASE Quits(s) /\ UNCHANGED fact
    BY <1>2, <2>1, Quitting DEF GotLock, Opens
  <2>2. ASSUME NEW w \in {"opening", "serving"}, ToWorker(s, w), UNCHANGED <<commands, fact>>
        PROVE  PyInv'
    BY <1>2, <2>2, WorkerMoves DEF GotLock, Opens, WorkerStates
  <2> QED BY <1>2, <2>1, <2>2 DEF GotLock, Opens
<1>3. CASE Serve(s)
  BY <1>3, ServeKeeps
<1>4. CASE Close(s) \/ HandlesGone(s)
  BY <1>4, Quitting DEF Close, HandlesGone, Received
<1>5. CASE Read(s)
  BY <1>5, WorkerMoves DEF Read, WorkerStates
<1>6. CASE ReadFails(s)
  BY <1>6, Quitting DEF ReadFails
<1>7. CASE Finishes(s)
  BY <1>7, Quitting DEF Finishes
<1> QED BY <1>1, <1>2, <1>3, <1>4, <1>5, <1>6, <1>7 DEF WorkerStep, ProviderStep

LEMMA TaskKeeps ==
  ASSUME PyInv, NEW t \in Tasks, TaskStep(t) \/ AskStep(t)
  PROVE  PyInv'
<1>1. CASE Send(t)
  BY <1>1, SendKeeps
<1>2. CASE SendClose(t)
  BY <1>2, SendCloseKeeps
<1>3. CASE Store(t)
  BY <1>3, ExhaustedNoted, Unmoved DEF Store
<1>4. CASE \/ AskRuns(t) \/ TakeStart(t) \/ Started(t) \/ CheckClosed(t)
           \/ Receive(t) \/ Stopped(t) \/ AskStep(t)
  BY <1>4, Unmoved DEF AskRuns, TakeStart, Started, CheckClosed, Receive, Stopped,
                       AskStep, AskEnds, ToolReturns
<1> QED BY <1>1, <1>2, <1>3, <1>4 DEF TaskStep

LEMMA PythonKeeps ==
  ASSUME PyInv, PythonStep
  PROVE  PyInv'
<1>1. ASSUME NEW t \in Tasks, Cancel(t)
      PROVE  PyInv'
  BY <1>1, CancelKeeps
<1>2. ASSUME NEW t \in Tasks,
             Ask(t) \/ ToolCalled(t) \/ ToolAsks(t) \/ CancelNested(t)
      PROVE  PyInv'
  BY <1>2, Unmoved DEF Ask, ToolCalled, ToolAsks, CancelNested
<1>3. ASSUME NEW t \in Tasks, NEW s \in Streams, StreamText(t, s) \/ Stream(t, s)
      PROVE  PyInv'
  <2>1. worker[s] # "done" /\ ToWorker(s, "spawned") /\ UNCHANGED <<commands, fact>>
    BY <1>3 DEF StreamText, Stream, ToWorker
  <2> QED BY <2>1, WorkerMoves DEF WorkerStates
<1>4. ASSUME NEW t \in Tasks, NEW s \in Streams, NextAfterEnd(t, s)
      PROVE  PyInv'
  BY <1>4, ExhaustedNoted DEF NextAfterEnd
<1>5. ASSUME NEW t \in Tasks, NEW s \in Streams,
             StartClose(t, s) \/ \E op \in {"next", "finish"} : Call(t, s, op)
      PROVE  PyInv'
  BY <1>5, Unmoved DEF StartClose, Call
<1>6. CASE Take \/ \E s \in Streams : DropHandle(s)
  BY <1>6, Unmoved DEF Take, DropHandle
<1> QED BY <1>1, <1>2, <1>3, <1>4, <1>5, <1>6 DEF PythonStep

LEMMA SpecPyInv == Spec => []PyInv
<1>1. Init => PyInv
  BY PyInitially
<1>2. PyInv /\ [Next]_vars => PyInv'
  <2>1. PyInv /\ UNCHANGED vars => PyInv'
    BY Unmoved DEF vars
  <2> QED BY <2>1, PythonKeeps, TaskKeeps, WorkerKeeps DEF Next
<1> QED BY <1>1, <1>2, PTL DEF Spec

(* After close() has returned with no finish on its way, the answer of the *)
(* stream is never persisted, whatever any of the calls sends later.       *)
THEOREM EarlyCloseIsFinal == Spec => []ClosedNotPersisted
<1>1. PyInv => ClosedNotPersisted
  BY DEF PyInv, StreamInv, ClosedNotPersisted
<1> QED BY <1>1, SpecPyInv, PTL

(* No answer is persisted of a stream one of whose reads has failed. *)
THEOREM NoGapPersisted == Spec => []PersistedUnbroken
<1>1. PyInv => PersistedUnbroken
  BY DEF PyInv, StreamInv, PersistedUnbroken
<1> QED BY <1>1, SpecPyInv, PTL

-----------------------------------------------------------------------------
(***************************************************************************)
(* Who holds the mutex: whoever works with the agent is at the head of its *)
(* queue, so no two work with it, and whoever waits for it is in the queue.*)
(***************************************************************************)
TaskSet == [op : Ops, stream : Streams \cup {None}, at : Waits, got : Replies \cup {None}]
StateSet == [start : {"pending", "ok", "failed"}, taken : BOOLEAN, closed : BOOLEAN,
             response : BOOLEAN]

OnStream == {"cached", "starting", "checking", "sending", "reply", "storing", "closing"}

(* A call that is on a stream knows which. *)
CallTypes ==
  /\ task \in [Tasks -> TaskSet]
  /\ \A t \in Tasks : task[t].at \in OnStream => task[t].stream \in Streams

StreamTypes ==
  /\ serving \in [Streams -> Tasks \cup {None}]
  /\ state \in [Streams -> StateSet]
  /\ deltas \in [Streams -> 0..MaxDeltas]

Users == Tasks \cup Streams
Holding == {"opening", "serving", "reading", "finishing"}

(* A call that is at w, and the queue q. *)
CallQueued(w, q, t) ==
  /\ w \in {"running", "tool", "nested"} => q # <<>> /\ Head(q) = t
  /\ w = "nested" => \E i \in 2..Len(q) : q[i] = t
  /\ w = "mutex" => \E i \in 1..Len(q) : q[i] = t

(* A worker that is at w, the queue q, and whether the agent has moved. *)
WorkerQueued(w, q, s, m) ==
  /\ w \in Holding => q # <<>> /\ Head(q) = s /\ ~m
  /\ w = "locking" => \E i \in 1..Len(q) : q[i] = s

Queued ==
  /\ queue \in Seq(Users) /\ moved \in BOOLEAN
  /\ \A t \in Tasks : CallQueued(task[t].at, queue, t)
  /\ \A s \in Streams : WorkerQueued(worker[s], queue, s, moved)

(* An iteration that ended has its response cached. *)
Ended == \A s \in Streams : "exhausted" \in fact[s] => state[s].response

MutexInv == PyInv /\ CallTypes /\ StreamTypes /\ Queued /\ Ended

-----------------------------------------------------------------------------
(* The queue. *)
LEMMA QueueGrows ==
  ASSUME NEW q \in Seq(Users), NEW x \in Users
  PROVE  /\ Append(q, x) \in Seq(Users)
         /\ \E i \in 1..Len(Append(q, x)) : Append(q, x)[i] = x
         /\ q # <<>> => \E i \in 2..Len(Append(q, x)) : Append(q, x)[i] = x
         /\ q # <<>> => Append(q, x) # <<>> /\ Head(Append(q, x)) = Head(q)
         /\ \A w \in Waits, t \in Tasks : CallQueued(w, q, t) => CallQueued(w, Append(q, x), t)
         /\ \A w \in WorkerStates, s \in Streams, m \in BOOLEAN :
              WorkerQueued(w, q, s, m) => WorkerQueued(w, Append(q, x), s, m)
<1> DEFINE p == Append(q, x)
<1>1. /\ p \in Seq(Users) /\ Len(p) = Len(q) + 1 /\ Len(q) \in Nat
      /\ p[Len(q) + 1] = x /\ \A i \in 1..Len(q) : p[i] = q[i]
  OBVIOUS
<1>2. q # <<>> => p # <<>> /\ Head(p) = Head(q) /\ Len(q) + 1 \in 2..Len(p)
  OBVIOUS
<1>3. Len(q) + 1 \in 1..Len(p)
  BY <1>1
<1>4. \A i \in 1..Len(q) : i \in 1..Len(p)
  BY <1>1
<1>5. \A i \in 2..Len(q) : i \in 2..Len(p) /\ i \in 1..Len(q)
  BY <1>1
<1> HIDE DEF p
<1>6. ASSUME NEW w \in Waits, NEW t \in Tasks, CallQueued(w, q, t)
      PROVE  CallQueued(w, p, t)
  BY <1>1, <1>2, <1>4, <1>5, <1>6 DEF CallQueued
<1>7. ASSUME NEW w \in WorkerStates, NEW s \in Streams, NEW m \in BOOLEAN, WorkerQueued(w, q, s, m)
      PROVE  WorkerQueued(w, p, s, m)
  BY <1>1, <1>2, <1>4, <1>7 DEF WorkerQueued
<1> QED BY <1>1, <1>2, <1>3, <1>6, <1>7 DEF p

LEMMA QueueShrinks ==
  ASSUME NEW q \in Seq(Users), q # <<>>
  PROVE  /\ Tail(q) \in Seq(Users)
         /\ \A i \in 2..Len(q) : \E j \in 1..Len(Tail(q)) : Tail(q)[j] = q[i]
         /\ \A w \in Waits, t \in Tasks :
              t # Head(q) /\ CallQueued(w, q, t) => CallQueued(w, Tail(q), t)
         /\ \A w \in WorkerStates, s \in Streams, m \in BOOLEAN :
              s # Head(q) /\ WorkerQueued(w, q, s, m) => WorkerQueued(w, Tail(q), s, m)
<1> DEFINE p == Tail(q)
<1>1. /\ p \in Seq(Users) /\ Len(p) = Len(q) - 1 /\ Len(q) \in Nat /\ Len(q) >= 1
      /\ \A i \in 1..Len(p) : p[i] = q[i + 1]
      /\ Head(q) = q[1]
  OBVIOUS
<1> HIDE DEF p
<1>2. ASSUME NEW i \in 2..Len(q)
      PROVE  \E j \in 1..Len(p) : p[j] = q[i]
  <2>1. i - 1 \in 1..Len(p) /\ (i - 1) + 1 = i
    BY <1>1
  <2> QED BY <1>1, <2>1
<1>3. ASSUME NEW x, x # Head(q), NEW i \in 1..Len(q), q[i] = x
      PROVE  \E j \in 1..Len(p) : p[j] = x
  <2>1. i # 1
    BY <1>1, <1>3
  <2>2. i \in 2..Len(q)
    BY <1>1, <2>1
  <2> QED BY <1>2, <1>3, <2>2
<1>4. ASSUME NEW w \in Waits, NEW t \in Tasks, t # Head(q), CallQueued(w, q, t)
      PROVE  CallQueued(w, p, t)
  BY <1>3, <1>4 DEF CallQueued
<1>5. ASSUME NEW w \in WorkerStates, NEW s \in Streams, NEW m \in BOOLEAN, s # Head(q),
             WorkerQueued(w, q, s, m)
      PROVE  WorkerQueued(w, p, s, m)
  BY <1>3, <1>5 DEF WorkerQueued
<1> QED BY <1>1, <1>2, <1>4, <1>5 DEF p

LEMMA QueueLoses ==
  ASSUME NEW q \in Seq(Users), NEW x
  PROVE  /\ Without(q, x) \in Seq(Users)
         /\ \A w \in Waits, t \in Tasks :
              t # x /\ CallQueued(w, q, t) => CallQueued(w, Without(q, x), t)
         /\ \A w \in WorkerStates, s \in Streams, m \in BOOLEAN :
              s # x /\ WorkerQueued(w, q, s, m) => WorkerQueued(w, Without(q, x), s, m)
<1> DEFINE p == Without(q, x)
<1>1. CASE \A i \in 1..Len(q) : q[i] # x
  <2>1. p = q
    BY <1>1 DEF Without
  <2> QED BY <2>1
<1>2. ASSUME NEW k \in 1..Len(q), q[k] = x
      PROVE  /\ p \in Seq(Users)
             /\ \A w \in Waits, t \in Tasks : t # x /\ CallQueued(w, q, t) => CallQueued(w, p, t)
             /\ \A w \in WorkerStates, s \in Streams, m \in BOOLEAN :
                  s # x /\ WorkerQueued(w, q, s, m) => WorkerQueued(w, p, s, m)
  <2>1. p = [i \in 1..(Len(q) - 1) |-> IF \E j \in 1..i : q[j] = x THEN q[i + 1] ELSE q[i]]
    BY <1>2 DEF Without
  <2>2. Len(q) \in Nat /\ Len(q) - 1 \in Nat /\ \A i \in 1..Len(q) : q[i] \in Users
    BY <1>2
  <2>3. /\ p \in Seq(Users) /\ Len(p) = Len(q) - 1
        /\ \A i \in 1..(Len(q) - 1) :
             /\ (\E j \in 1..i : q[j] = x) => p[i] = q[i + 1]
             /\ (\A j \in 1..i : q[j] # x) => p[i] = q[i]
    <3>1. \A i \in 1..(Len(q) - 1) : p[i] \in Users
      BY <2>1, <2>2
    <3> QED BY <2>1, <2>2, <3>1
  <2> HIDE DEF p
  <2>4. ASSUME NEW y, y # x, NEW i \in 1..Len(q), q[i] = y
        PROVE  \E j \in 1..Len(p) : p[j] = y /\ (j = i \/ j = i - 1)
               /\ (j = i - 1 => \E h \in 1..j : q[h] = x)
    <3>1. CASE \E h \in 1..(i - 1) : q[h] = x
      <4>1. i - 1 \in 1..(Len(q) - 1) /\ (i - 1) + 1 = i
        BY <2>2, <3>1
      <4> QED BY <2>3, <2>4, <3>1, <4>1
    <3>2. CASE \A h \in 1..(i - 1) : q[h] # x
      <4>1. \A h \in 1..i : q[h] # x
        <5>1. \A h \in 1..i : h \in 1..(i - 1) \/ h = i
          BY <2>2
        <5> QED BY <2>4, <3>2, <5>1
      <4>2. i # Len(q)
        BY <1>2, <2>2, <4>1
      <4>3. i \in 1..(Len(q) - 1)
        BY <2>2, <4>2
      <4> QED BY <2>3, <2>4, <4>1, <4>3
    <3> QED BY <3>1, <3>2
  <2>5. ASSUME q # <<>>, Head(q) # x
        PROVE  p # <<>> /\ Head(p) = Head(q)
    <3>1. Head(q) = q[1] /\ 1 \in 1..Len(q)
      BY <2>2, <2>5
    <3>2. PICK j \in 1..Len(p) : p[j] = q[1] /\ (j = 1 \/ j = 0)
      BY <2>4, <2>5, <3>1
    <3>3. 1 \in 1..Len(p) /\ p[1] = q[1]
      BY <3>2
    <3> QED BY <2>3, <3>1, <3>3
  <2>6. ASSUME NEW w \in Waits, NEW t \in Tasks, t # x, CallQueued(w, q, t)
        PROVE  CallQueued(w, p, t)
    <3>1. w \in {"running", "tool", "nested"} => p # <<>> /\ Head(p) = t
      BY <2>5, <2>6 DEF CallQueued
    <3>2. w = "mutex" => \E i \in 1..Len(p) : p[i] = t
      BY <2>4, <2>6 DEF CallQueued
    <3>3. w = "nested" => \E i \in 2..Len(p) : p[i] = t
      <4> SUFFICES ASSUME w = "nested" PROVE \E i \in 2..Len(p) : p[i] = t
        OBVIOUS
      <4>1. PICK i \in 2..Len(q) : q[i] = t
        BY <2>6 DEF CallQueued
      <4>2. Head(q) = t /\ q # <<>>
        BY <2>6 DEF CallQueued
      <4>3. i \in 1..Len(q) /\ q[1] = t /\ q[1] # x
        BY <2>2, <2>6, <4>2
      <4>4. PICK j \in 1..Len(p) : p[j] = t /\ (j = i \/ j = i - 1)
                                   /\ (j = i - 1 => \E h \in 1..j : q[h] = x)
        BY <2>4, <2>6, <4>1, <4>3
      <4>5. j # 1
        <5>1. ASSUME j = 1 PROVE FALSE
          <6>1. j = i - 1
            BY <4>1, <4>4, <5>1
          <6>2. PICK h \in 1..j : q[h] = x
            BY <4>4, <6>1
          <6>3. h = 1
            BY <5>1
          <6> QED BY <4>3, <6>2, <6>3
        <5> QED BY <5>1
      <4>6. j \in 2..Len(p)
        BY <2>3, <4>5
      <4> QED BY <4>4, <4>6
    <3> QED BY <3>1, <3>2, <3>3 DEF CallQueued
  <2>7. ASSUME NEW w \in WorkerStates, NEW s \in Streams, NEW m \in BOOLEAN, s # x,
               WorkerQueued(w, q, s, m)
        PROVE  WorkerQueued(w, p, s, m)
    <3>1. w \in Holding => p # <<>> /\ Head(p) = s /\ ~m
      BY <2>5, <2>7 DEF WorkerQueued
    <3>2. w = "locking" => \E i \in 1..Len(p) : p[i] = s
      BY <2>4, <2>7 DEF WorkerQueued
    <3> QED BY <3>1, <3>2 DEF WorkerQueued
  <2> QED BY <2>3, <2>6, <2>7
<1> QED BY <1>1, <1>2

-----------------------------------------------------------------------------
LEMMA MutexInitially == Init => MutexInv
<1> SUFFICES ASSUME Init PROVE MutexInv
  OBVIOUS
<1>1. PyInv
  BY PyInitially
<1>2. CallTypes
  <2>1. NoCall \in TaskSet /\ NoCall.at \notin OnStream
    BY DEF NoCall, TaskSet, Ops, Waits, OnStream
  <2>2. task = [t \in Tasks |-> NoCall]
    BY DEF Init
  <2> QED BY <2>1, <2>2 DEF CallTypes
<1>3. StreamTypes
  <2>1. 0 \in 0..MaxDeltas
    BY PyAssumption
  <2>2. [start |-> "pending", taken |-> FALSE, closed |-> FALSE, response |-> FALSE] \in StateSet
    BY DEF StateSet
  <2>3. serving \in [Streams -> Tasks \cup {None}]
    BY DEF Init
  <2>4. state \in [Streams -> StateSet]
    BY <2>2 DEF Init
  <2>5. deltas \in [Streams -> 0..MaxDeltas]
    BY <2>1 DEF Init
  <2> QED BY <2>3, <2>4, <2>5 DEF StreamTypes
<1>4. Queued
  <2>1. queue = <<>> /\ moved \in BOOLEAN
    BY DEF Init
  <2>2. \A t \in Tasks : task[t].at = "idle"
    BY DEF Init, NoCall
  <2>3. \A s \in Streams : worker[s] = "none"
    BY DEF Init
  <2>4. queue \in Seq(Users)
    BY <2>1
  <2> QED BY <2>1, <2>2, <2>3, <2>4 DEF Queued, CallQueued, WorkerQueued, Holding
<1>5. Ended
  BY DEF Init, Ended
<1> QED BY <1>1, <1>2, <1>3, <1>4, <1>5 DEF MutexInv

(***************************************************************************)
(* The calls: one call of t changes, and is then at w.                     *)
(***************************************************************************)
Placed(t, w) ==
  CallTypes' /\ \A u \in Tasks : task'[u].at = IF u = t THEN w ELSE task[u].at

LEMMA OneCall ==
  ASSUME CallTypes, NEW t \in Tasks, NEW r \in TaskSet, r.at \in OnStream => r.stream \in Streams,
         task' = [task EXCEPT ![t] = r]
  PROVE  Placed(t, r.at)
BY DEF CallTypes, Placed

LEMMA CallGoes ==
  ASSUME CallTypes, NEW t \in Tasks, NEW w \in Waits, Goto(t, w),
         w \in OnStream => At(t, "cached") \/ At(t, "starting") \/ At(t, "checking")
                           \/ At(t, "sending") \/ At(t, "reply")
  PROVE  Placed(t, w)
<1> DEFINE r == [task[t] EXCEPT !.at = w]
<1>1. task[t] \in TaskSet /\ (w \in OnStream => task[t].stream \in Streams)
  BY DEF CallTypes, OnStream, At
<1>2. r \in TaskSet /\ r.at = w /\ r.stream = task[t].stream
  BY <1>1 DEF TaskSet
<1>3. task' = [task EXCEPT ![t] = r]
  BY DEF Goto
<1> HIDE DEF r
<1> QED BY <1>1, <1>2, <1>3, OneCall

LEMMA CallEnds ==
  ASSUME CallTypes, NEW t \in Tasks, Ends(t)
  PROVE  Placed(t, "idle")
<1>1. NoCall \in TaskSet /\ NoCall.at = "idle" /\ "idle" \notin OnStream
  BY DEF NoCall, TaskSet, Ops, Waits, OnStream
<1> QED BY <1>1, OneCall DEF Ends

(* A call starts at w, of the agent or of the stream s. *)
LEMMA CallStarts ==
  ASSUME CallTypes, NEW t \in Tasks, NEW op \in Ops, NEW w \in Waits, NEW s \in Streams \cup {None},
         w \in OnStream => s \in Streams,
         task' = [task EXCEPT ![t] = [NoCall EXCEPT !.op = op, !.stream = s, !.at = w]]
  PROVE  Placed(t, w)
<1> DEFINE r == [NoCall EXCEPT !.op = op, !.stream = s, !.at = w]
<1>1. r \in TaskSet /\ r.at = w /\ r.stream = s
  BY DEF NoCall, TaskSet
<1> HIDE DEF r
<1>2. task' = [task EXCEPT ![t] = r]
  BY DEF r
<1> QED BY <1>1, <1>2, OneCall

(* A reply reaches the call without moving it. *)
LEMMA Replied ==
  ASSUME CallTypes, StreamTypes, NEW s \in Streams, NEW got \in Replies, Responds(s, got)
  PROVE  CallTypes' /\ \A u \in Tasks : task'[u].at = task[u].at
<1>1. CASE serving[s] = None
  BY <1>1 DEF Responds, CallTypes
<1>2. CASE serving[s] # None
  <2> DEFINE t == serving[s]
             r == [task[t] EXCEPT !.got = got]
  <2>1. t \in Tasks /\ task[t] \in TaskSet
    BY <1>2 DEF StreamTypes, CallTypes
  <2>2. r \in TaskSet /\ r.at = task[t].at /\ r.stream = task[t].stream
    BY <2>1 DEF TaskSet
  <2>3. task' = [task EXCEPT ![t] = r]
    BY <1>2 DEF Responds
  <2>4. r.at \in OnStream => r.stream \in Streams
    BY <2>1, <2>2 DEF CallTypes
  <2> HIDE DEF r, t
  <2>5. Placed(t, r.at)
    BY <2>1, <2>2, <2>3, <2>4, OneCall
  <2> QED BY <2>2, <2>5 DEF Placed
<1> QED BY <1>1, <1>2

-----------------------------------------------------------------------------
(***************************************************************************)
(* The queue changes for x only.                                           *)
(***************************************************************************)
LEMMA Requeued ==
  ASSUME MutexInv, NEW x, UNCHANGED moved, queue' \in Seq(Users),
         \A w \in Waits, t \in Tasks :
           t # x /\ CallQueued(w, queue, t) => CallQueued(w, queue', t),
         \A w \in WorkerStates, s \in Streams, m \in BOOLEAN :
           s # x /\ WorkerQueued(w, queue, s, m) => WorkerQueued(w, queue', s, m),
         \A t \in Tasks : IF t = x THEN CallQueued(task'[t].at, queue', t)
                                   ELSE task'[t].at = task[t].at,
         \A s \in Streams : IF s = x THEN WorkerQueued(worker'[s], queue', s, moved)
                                     ELSE worker'[s] = worker[s]
  PROVE  Queued'
<1>1. \A t \in Tasks : task[t].at \in Waits
  BY DEF MutexInv, CallTypes, TaskSet
<1>2. \A s \in Streams : worker[s] \in WorkerStates
  BY DEF MutexInv, PyInv, Shapes
<1>3. moved' \in BOOLEAN /\ moved \in BOOLEAN
  BY DEF MutexInv, Queued
<1>4. ASSUME NEW t \in Tasks PROVE CallQueued(task'[t].at, queue', t)
  BY <1>1 DEF MutexInv, Queued
<1>5. ASSUME NEW s \in Streams PROVE WorkerQueued(worker'[s], queue', s, moved')
  BY <1>2, <1>3 DEF MutexInv, Queued
<1> QED BY <1>3, <1>4, <1>5 DEF Queued

(* A call moves without the queue; a worker does. *)
LEMMA CallMoves ==
  ASSUME MutexInv, NEW t \in Tasks, NEW w, Placed(t, w), CallQueued(w, queue, t),
         UNCHANGED <<queue, moved, worker>>
  PROVE  Queued'
<1>1. t \notin Streams /\ queue' \in Seq(Users)
  BY PyAssumption DEF MutexInv, Queued
<1>2. \A u \in Tasks : IF u = t THEN CallQueued(task'[u].at, queue', u)
                                ELSE task'[u].at = task[u].at
  BY DEF Placed
<1> QED BY <1>1, <1>2, Requeued

LEMMA WorkerGoes ==
  ASSUME MutexInv, NEW s \in Streams, NEW w, ToWorker(s, w), WorkerQueued(w, queue, s, moved),
         UNCHANGED <<queue, moved>>, \A u \in Tasks : task'[u].at = task[u].at
  PROVE  Queued'
<1>1. s \notin Tasks /\ queue' \in Seq(Users)
  BY PyAssumption DEF MutexInv, Queued
<1>2. \A x \in Streams : worker'[x] = IF x = s THEN w ELSE worker[x]
  BY DEF ToWorker, MutexInv, PyInv, Shapes
<1> QED BY <1>1, <1>2, Requeued

(* Neither changes its place. *)
LEMMA QueueRests ==
  ASSUME MutexInv, UNCHANGED <<queue, moved, worker>>, \A u \in Tasks : task'[u].at = task[u].at
  PROVE  Queued'
BY DEF MutexInv, Queued

LEMMA CallWaits ==
  ASSUME MutexInv, NEW t \in Tasks, NEW w, Placed(t, w), UNCHANGED <<moved, worker>>,
         queue' = Append(queue, t),
         w = "mutex" \/ (w = "nested" /\ queue # <<>> /\ Head(queue) = t)
  PROVE  Queued'
<1>1. t \notin Streams /\ queue \in Seq(Users) /\ t \in Users
  BY PyAssumption DEF MutexInv, Queued, Users
<1>2. CallQueued(w, queue', t)
  BY <1>1, QueueGrows DEF CallQueued
<1>3. /\ queue' \in Seq(Users)
      /\ \A v \in Waits, u \in Tasks : CallQueued(v, queue, u) => CallQueued(v, queue', u)
      /\ \A v \in WorkerStates, s \in Streams, m \in BOOLEAN :
           WorkerQueued(v, queue, s, m) => WorkerQueued(v, queue', s, m)
  BY <1>1, QueueGrows
<1> QED BY <1>1, <1>2, <1>3, Requeued DEF Placed

(* The head of the queue gives the agent back. *)
LEMMA CallLeaves ==
  ASSUME MutexInv, NEW t \in Tasks, NEW w, Placed(t, w), UNCHANGED <<moved, worker>>,
         queue # <<>>, Head(queue) = t, queue' = Tail(queue),
         w = "idle" \/ (w = "mutex" /\ \E i \in 2..Len(queue) : queue[i] = t)
  PROVE  Queued'
<1>1. t \notin Streams /\ queue \in Seq(Users)
  BY PyAssumption DEF MutexInv, Queued
<1>2. CallQueued(w, queue', t)
  <2>1. w = "mutex" => \E j \in 1..Len(queue') : queue'[j] = t
    BY <1>1, QueueShrinks
  <2> QED BY <2>1 DEF CallQueued
<1>3. /\ queue' \in Seq(Users)
      /\ \A v \in Waits, u \in Tasks :
           u # t /\ CallQueued(v, queue, u) => CallQueued(v, queue', u)
      /\ \A v \in WorkerStates, s \in Streams, m \in BOOLEAN :
           s # t /\ WorkerQueued(v, queue, s, m) => WorkerQueued(v, queue', s, m)
  BY <1>1, QueueShrinks
<1> QED BY <1>1, <1>2, <1>3, Requeued DEF Placed

LEMMA WorkerLeaves ==
  ASSUME MutexInv, NEW s \in Streams, queue # <<>>, Head(queue) = s, Quits(s), UNCHANGED moved,
         \A u \in Tasks : task'[u].at = task[u].at
  PROVE  Queued'
<1>1. s \notin Tasks /\ queue \in Seq(Users)
  BY PyAssumption DEF MutexInv, Queued
<1>2. \A x \in Streams : worker'[x] = IF x = s THEN "done" ELSE worker[x]
  BY DEF Quits, ToWorker, MutexInv, PyInv, Shapes
<1>3. WorkerQueued("done", queue', s, moved)
  BY DEF WorkerQueued, Holding
<1>4. /\ queue' \in Seq(Users)
      /\ \A v \in Waits, u \in Tasks :
           u # s /\ CallQueued(v, queue, u) => CallQueued(v, queue', u)
      /\ \A v \in WorkerStates, x \in Streams, m \in BOOLEAN :
           x # s /\ WorkerQueued(v, queue, x, m) => WorkerQueued(v, queue', x, m)
  BY <1>1, QueueShrinks DEF Quits
<1> QED BY <1>1, <1>2, <1>3, <1>4, Requeued

-----------------------------------------------------------------------------
(***************************************************************************)
(* The types of the calls, and the queue, after a step.                    *)
(***************************************************************************)
LEMMA TaskQueued ==
  ASSUME MutexInv, NEW t \in Tasks, TaskStep(t) \/ AskStep(t)
  PROVE  CallTypes' /\ Queued'
<1> USE DEF At
<1>1. CallTypes /\ queue \in Seq(Users) /\ task[t].at \in Waits
      /\ CallQueued(task[t].at, queue, t)
  BY DEF MutexInv, CallTypes, TaskSet, Queued
<1>2. ASSUME NEW w \in {"idle", "checking", "sending", "storing", "starting", "reply", "running"},
             Placed(t, w), UNCHANGED <<queue, moved, worker>>,
             w = "running" => CallQueued("running", queue, t)
      PROVE  CallTypes' /\ Queued'
  <2>1. CallQueued(w, queue, t)
    BY <1>2 DEF CallQueued
  <2> QED BY <1>2, <2>1, CallMoves DEF Placed
<1>3. CASE AskRuns(t)
  <2>1. queue # <<>> /\ Head(queue) = t
    BY <1>1, <1>3 DEF AskRuns, CallQueued
  <2>2. CASE moved
    <3>1. Placed(t, "idle") /\ queue' = Tail(queue)
      BY <1>1, <1>3, <2>2, CallEnds DEF AskRuns
    <3>2. UNCHANGED <<moved, worker>>
      BY <1>3 DEF AskRuns
    <3> QED BY <2>1, <3>1, <3>2, CallLeaves DEF Placed
  <2>3. CASE ~moved
    <3>1. Goto(t, "running") /\ UNCHANGED <<queue, moved, worker>>
      BY <1>3, <2>3 DEF AskRuns
    <3>2. Placed(t, "running")
      BY <1>1, <3>1, CallGoes DEF Waits, OnStream
    <3>3. CallQueued("running", queue, t)
      BY <2>1 DEF CallQueued
    <3> QED BY <1>2, <3>1, <3>2, <3>3
  <2> QED BY <2>2, <2>3
<1>4. CASE AskStep(t)
  <2>1. queue # <<>> /\ Head(queue) = t /\ UNCHANGED <<moved, worker>>
    BY <1>1, <1>4 DEF AskStep, AskEnds, ToolReturns, CallQueued
  <2>2. CASE Ends(t) /\ queue' = Tail(queue)
    BY <1>1, <2>1, <2>2, CallEnds, CallLeaves DEF Placed
  <2>3. CASE Goto(t, "running") /\ UNCHANGED queue
    <3>1. Placed(t, "running")
      BY <1>1, <2>3, CallGoes DEF Waits, OnStream
    <3>2. CallQueued("running", queue, t)
      BY <2>1 DEF CallQueued
    <3> QED BY <1>2, <2>1, <2>3, <3>1, <3>2
  <2> QED BY <1>4, <2>2, <2>3 DEF AskStep, AskEnds, ToolReturns
<1>5. CASE \/ TakeStart(t) \/ Started(t) \/ CheckClosed(t) \/ Send(t) \/ Receive(t)
           \/ Store(t) \/ Stopped(t) \/ SendClose(t)
  <2>1. UNCHANGED <<queue, moved, worker>>
    BY <1>5 DEF TakeStart, Started, CheckClosed, Send, Receive, Store, Stopped, SendClose
  <2>2. CASE Ends(t)
    BY <1>1, <1>2, <2>1, <2>2, CallEnds
  <2>3. ASSUME NEW w \in {"starting", "checking", "sending", "reply", "storing"}, Goto(t, w),
               task[t].at \in {"cached", "starting", "checking", "sending", "reply"}
        PROVE  CallTypes' /\ Queued'
    <3>1. Placed(t, w)
      BY <1>1, <2>3, CallGoes DEF Waits
    <3> QED BY <1>2, <2>1, <3>1
  <2>4. CASE /\ At(t, "reply")
             /\ task' = [task EXCEPT ![t].op = "drain", ![t].at = "sending", ![t].got = None]
    <3> DEFINE r == [task[t] EXCEPT !.op = "drain", !.at = "sending", !.got = None]
    <3>1. task[t] \in TaskSet /\ task[t].stream \in Streams
      BY <1>1, <2>4 DEF CallTypes, OnStream
    <3>2. r \in TaskSet /\ r.at = "sending" /\ r.stream = task[t].stream
      BY <3>1 DEF TaskSet, Ops, Waits
    <3>3. task' = [task EXCEPT ![t] = r]
      BY <2>4
    <3> HIDE DEF r
    <3>4. Placed(t, "sending")
      BY <1>1, <3>1, <3>2, <3>3, OneCall
    <3> QED BY <1>2, <2>1, <3>4
  <2>5. CASE TakeStart(t)
    BY <2>2, <2>3, <2>5 DEF TakeStart
  <2>6. CASE Started(t)
    BY <2>2, <2>3, <2>6 DEF Started
  <2>7. CASE CheckClosed(t)
    BY <2>2, <2>3, <2>7 DEF CheckClosed
  <2>8. CASE Send(t)
    BY <2>2, <2>3, <2>8 DEF Send
  <2>9. CASE Receive(t)
    BY <2>2, <2>3, <2>4, <2>9 DEF Receive
  <2>10. CASE Store(t) \/ Stopped(t) \/ SendClose(t)
    BY <2>2, <2>10 DEF Store, Stopped, SendClose
  <2> QED BY <1>5, <2>5, <2>6, <2>7, <2>8, <2>9, <2>10
<1> QED BY <1>3, <1>4, <1>5 DEF TaskStep

LEMMA PythonQueued ==
  ASSUME MutexInv, PythonStep
  PROVE  CallTypes' /\ Queued'
<1> USE DEF At
<1>1. CallTypes /\ queue \in Seq(Users) /\ \A t \in Tasks : CallQueued(task[t].at, queue, t)
  BY DEF MutexInv, Queued
<1>2. CASE Take
  <2>1. queue = <<>> /\ moved' = TRUE /\ UNCHANGED <<queue, task, worker>>
    BY <1>2 DEF Take
  <2>2. \A s \in Streams : WorkerQueued(worker[s], queue, s, TRUE)
    BY <2>1 DEF MutexInv, Queued, WorkerQueued
  <2> QED BY <1>1, <2>1, <2>2 DEF CallTypes, Queued
<1>3. ASSUME NEW t \in Tasks, Ask(t)
      PROVE  CallTypes' /\ Queued'
  <2>1. /\ task' = [task EXCEPT ![t] = [NoCall EXCEPT !.op = "ask", !.at = "mutex"]]
        /\ queue' = Append(queue, t) /\ UNCHANGED <<moved, worker>>
    BY <1>3 DEF Ask
  <2> DEFINE r == [NoCall EXCEPT !.op = "ask", !.at = "mutex"]
  <2>2. r \in TaskSet /\ r.at = "mutex" /\ r.at \notin OnStream
    BY DEF NoCall, TaskSet, Ops, Waits, OnStream
  <2>3. Placed(t, "mutex")
    <3> HIDE DEF r
    <3>1. task' = [task EXCEPT ![t] = r]
      BY <2>1 DEF r
    <3> QED BY <1>1, <2>2, <3>1, OneCall
  <2> QED BY <2>1, <2>3, CallWaits DEF Placed
<1>4. ASSUME NEW t \in Tasks, ToolCalled(t)
      PROVE  CallTypes' /\ Queued'
  <2>1. Goto(t, "tool") /\ UNCHANGED <<queue, moved, worker>> /\ CallQueued("tool", queue, t)
    BY <1>1, <1>4 DEF ToolCalled, CallQueued
  <2>2. Placed(t, "tool")
    BY <1>1, <2>1, CallGoes DEF Waits, OnStream
  <2> QED BY <2>1, <2>2, CallMoves DEF Placed
<1>5. ASSUME NEW t \in Tasks, ToolAsks(t)
      PROVE  CallTypes' /\ Queued'
  <2>1. /\ Goto(t, "nested") /\ queue' = Append(queue, t) /\ UNCHANGED <<moved, worker>>
        /\ queue # <<>> /\ Head(queue) = t
    BY <1>1, <1>5 DEF ToolAsks, CallQueued
  <2>2. Placed(t, "nested")
    BY <1>1, <2>1, CallGoes DEF Waits, OnStream
  <2> QED BY <2>1, <2>2, CallWaits DEF Placed
<1>6. ASSUME NEW t \in Tasks, CancelNested(t)
      PROVE  CallTypes' /\ Queued'
  <2>1. /\ Goto(t, "mutex") /\ queue' = Tail(queue) /\ UNCHANGED <<moved, worker>>
        /\ queue # <<>> /\ Head(queue) = t /\ \E i \in 2..Len(queue) : queue[i] = t
    BY <1>1, <1>6 DEF CancelNested, CallQueued
  <2>2. Placed(t, "mutex")
    BY <1>1, <2>1, CallGoes DEF Waits, OnStream
  <2> QED BY <2>1, <2>2, CallLeaves DEF Placed
<1>7. ASSUME NEW t \in Tasks, Cancel(t)
      PROVE  CallTypes' /\ Queued'
  <2>1. Placed(t, "idle") /\ queue' = Without(queue, t) /\ UNCHANGED <<moved, worker>>
    BY <1>1, <1>7, CallEnds DEF Cancel
  <2>2. t \notin Streams
    BY PyAssumption
  <2>3. CallQueued("idle", queue', t)
    BY DEF CallQueued
  <2>4. \A u \in Tasks : IF u = t THEN CallQueued(task'[u].at, queue', u)
                                  ELSE task'[u].at = task[u].at
    BY <2>1, <2>3 DEF Placed
  <2>5. /\ queue' \in Seq(Users)
        /\ \A w \in Waits, u \in Tasks :
             u # t /\ CallQueued(w, queue, u) => CallQueued(w, queue', u)
        /\ \A w \in WorkerStates, s \in Streams, m \in BOOLEAN :
             s # t /\ WorkerQueued(w, queue, s, m) => WorkerQueued(w, queue', s, m)
    BY <1>1, <2>1, QueueLoses
  <2> QED BY <2>1, <2>2, <2>4, <2>5, Requeued DEF Placed
<1>8. ASSUME NEW t \in Tasks, NEW s \in Streams, StreamText(t, s)
      PROVE  CallTypes' /\ Queued'
  <2>1. ToWorker(s, "spawned") /\ UNCHANGED <<queue, moved, task>>
    BY <1>8 DEF StreamText, ToWorker
  <2>2. WorkerQueued("spawned", queue, s, moved)
    BY DEF WorkerQueued, Holding
  <2> QED BY <1>1, <2>1, <2>2, WorkerGoes DEF CallTypes
<1>9. ASSUME NEW t \in Tasks, NEW s \in Streams, Stream(t, s)
      PROVE  CallTypes' /\ Queued'
  <2>1. /\ task' = [task EXCEPT ![t] = [NoCall EXCEPT !.op = "open", !.stream = s,
                                                      !.at = "starting"]]
        /\ worker' = [worker EXCEPT ![s] = "spawned"] /\ UNCHANGED <<queue, moved>>
    BY <1>9 DEF Stream
  <2>2. Placed(t, "starting")
    BY <1>1, <2>1, CallStarts DEF Ops, Waits, OnStream
  <2>3. \A x \in Streams : worker'[x] = IF x = s THEN "spawned" ELSE worker[x]
    BY <2>1 DEF MutexInv, PyInv, Shapes
  <2>4. ASSUME NEW u \in Tasks PROVE CallQueued(task'[u].at, queue', u)
    <3>1. CASE u = t
      BY <2>2, <3>1 DEF Placed, CallQueued
    <3>2. CASE u # t
      BY <1>1, <2>1, <2>2, <3>2 DEF Placed
    <3> QED BY <3>1, <3>2
  <2>5. ASSUME NEW x \in Streams PROVE WorkerQueued(worker'[x], queue', x, moved')
    <3>1. CASE x = s
      BY <2>3, <3>1 DEF WorkerQueued, Holding
    <3>2. CASE x # s
      BY <2>1, <2>3, <3>2 DEF MutexInv, Queued
    <3> QED BY <3>1, <3>2
  <2>6. queue' \in Seq(Users) /\ moved' \in BOOLEAN
    BY <2>1 DEF MutexInv, Queued
  <2> QED BY <2>2, <2>4, <2>5, <2>6 DEF Placed, Queued
<1>10. ASSUME NEW t \in Tasks, NEW s \in Streams, NEW op \in {"next", "finish", "close"},
              NEW w \in {"cached", "closing"},
              task' = [task EXCEPT ![t] = [NoCall EXCEPT !.op = op, !.stream = s, !.at = w]],
              UNCHANGED <<queue, moved, worker>>
       PROVE  CallTypes' /\ Queued'
  <2>1. Placed(t, w)
    BY <1>1, <1>10, CallStarts DEF Ops, Waits
  <2>2. CallQueued(w, queue, t)
    BY DEF CallQueued
  <2> QED BY <1>10, <2>1, <2>2, CallMoves DEF Placed
<1>11. ASSUME NEW t \in Tasks, NEW s \in Streams,
              StartClose(t, s) \/ \E op \in {"next", "finish"} : Call(t, s, op)
       PROVE  CallTypes' /\ Queued'
  <2>1. CASE StartClose(t, s)
    BY <1>10, <2>1 DEF StartClose
  <2>2. ASSUME NEW op \in {"next", "finish"}, Call(t, s, op)
        PROVE  CallTypes' /\ Queued'
    BY <1>10, <2>2 DEF Call
  <2> QED BY <1>11, <2>1, <2>2
<1>12. ASSUME UNCHANGED <<queue, moved, task, worker>>
       PROVE  CallTypes' /\ Queued'
  BY <1>1, <1>12, QueueRests DEF CallTypes
<1>13. ASSUME NEW t \in Tasks, NEW s \in Streams, NextAfterEnd(t, s) \/ DropHandle(s)
       PROVE  CallTypes' /\ Queued'
  BY <1>12, <1>13 DEF NextAfterEnd, DropHandle
<1>14. ASSUME NEW s \in Streams, DropHandle(s)
       PROVE  CallTypes' /\ Queued'
  BY <1>12, <1>14 DEF DropHandle
<1> QED BY <1>2, <1>3, <1>4, <1>5, <1>6, <1>7, <1>8, <1>9, <1>11, <1>13, <1>14 DEF PythonStep

LEMMA WorkerQueuedKept ==
  ASSUME MutexInv, NEW s \in Streams, WorkerStep(s) \/ ProviderStep(s)
  PROVE  CallTypes' /\ Queued'
<1>1. /\ CallTypes /\ StreamTypes /\ queue \in Seq(Users) /\ moved \in BOOLEAN
      /\ WorkerQueued(worker[s], queue, s, moved)
  BY DEF MutexInv, Queued
<1>2. UNCHANGED moved
  BY DEF WorkerStep, WaitLock, GotLock, Serve, Close, HandlesGone, ProviderStep, Opens, Read,
         ReadFails, Finishes
<1>3. CallTypes' /\ \A u \in Tasks : task'[u].at = task[u].at
  <2>1. CASE UNCHANGED task
    BY <1>1, <2>1 DEF CallTypes
  <2>2. CASE UNCHANGED task \/ \E got \in Replies : Responds(s, got)
    BY <1>1, <2>1, <2>2, Replied
  <2>3. CASE Read(s) \/ ReadFails(s) \/ Finishes(s)
    BY <2>2, <2>3 DEF Read, ReadFails, Finishes, Replies
  <2>4. CASE WorkerStep(s) \/ Opens(s)
    BY <2>1, <2>4 DEF WorkerStep, WaitLock, GotLock, Serve, Close, HandlesGone, Opens
  <2> QED BY <2>3, <2>4 DEF ProviderStep
<1>4. CASE Quits(s)
  <2>1. worker[s] \in Holding \/ (worker[s] = "locking" /\ Head(queue) = s)
    BY <1>4 DEF WorkerStep, WaitLock, GotLock, Serve, Close, HandlesGone, ProviderStep, Opens, Read,
         ReadFails, Finishes, Received, Holding, Quits, ToWorker, MutexInv, PyInv, Shapes
  <2>2. queue # <<>> /\ Head(queue) = s
    BY <1>1, <2>1 DEF WorkerQueued
  <2> QED BY <1>2, <1>3, <1>4, <2>2, WorkerLeaves
<1>5. CASE WaitLock(s)
  <2>1. /\ queue' = Append(queue, s) /\ s \notin Tasks /\ s \in Users
        /\ \A x \in Streams : worker'[x] = IF x = s THEN "locking" ELSE worker[x]
    BY <1>5, PyAssumption DEF WaitLock, ToWorker, MutexInv, PyInv, Shapes, Users
  <2>2. /\ queue' \in Seq(Users)
        /\ \A w \in Waits, u \in Tasks : CallQueued(w, queue, u) => CallQueued(w, queue', u)
        /\ \A w \in WorkerStates, x \in Streams, m \in BOOLEAN :
             WorkerQueued(w, queue, x, m) => WorkerQueued(w, queue', x, m)
        /\ \E i \in 1..Len(queue') : queue'[i] = s
    BY <1>1, <2>1, QueueGrows
  <2>3. WorkerQueued("locking", queue', s, moved)
    BY <2>2 DEF WorkerQueued, Holding
  <2> QED BY <1>2, <1>3, <2>1, <2>2, <2>3, Requeued
<1>6. ASSUME NEW w \in Holding, ToWorker(s, w), UNCHANGED queue,
             worker[s] \in Holding \/ (worker[s] = "locking" /\ Head(queue) = s /\ ~moved)
      PROVE  CallTypes' /\ Queued'
  <2>1. WorkerQueued(w, queue, s, moved)
    BY <1>1, <1>6 DEF WorkerQueued, Holding
  <2> QED BY <1>2, <1>3, <1>6, <2>1, WorkerGoes
<1>7. CASE GotLock(s)
  BY <1>4, <1>6, <1>7 DEF GotLock, Holding
<1>8. CASE Opens(s)
  BY <1>4, <1>6, <1>8 DEF Opens, Holding
<1>9. CASE Serve(s)
  BY <1>6, <1>9 DEF Serve, Received, Holding
<1>10. CASE Read(s)
  BY <1>6, <1>10 DEF Read, Holding
<1>11. CASE Close(s) \/ HandlesGone(s) \/ ReadFails(s) \/ Finishes(s)
  BY <1>4, <1>11 DEF Close, HandlesGone, ReadFails, Finishes
<1> QED BY <1>5, <1>7, <1>8, <1>9, <1>10, <1>11 DEF WorkerStep, ProviderStep

-----------------------------------------------------------------------------
(***************************************************************************)
(* What a stream shows, after a step.                                      *)
(***************************************************************************)
(* A stream whose flags become r and facts f; the others keep both. *)
LEMMA OneShown ==
  ASSUME MutexInv, NEW s \in Streams, NEW r \in StateSet, state' = [state EXCEPT ![s] = r],
         NEW f, fact' = [fact EXCEPT ![s] = f], "exhausted" \in f => r.response,
         UNCHANGED <<serving, deltas>>
  PROVE  StreamTypes' /\ Ended'
<1>1. StreamTypes /\ Ended
  BY DEF MutexInv
<1>2. StreamTypes'
  BY <1>1 DEF StreamTypes
<1>3. ASSUME NEW x \in Streams PROVE "exhausted" \in fact'[x] => state'[x].response
  <2>1. CASE x = s
    BY <1>1, <2>1 DEF MutexInv, PyInv, Shapes, StreamTypes
  <2>2. CASE x # s
    BY <1>1, <2>2 DEF MutexInv, PyInv, Shapes, StreamTypes, Ended
  <2> QED BY <2>1, <2>2
<1> QED BY <1>2, <1>3 DEF Ended

LEMMA NothingShown ==
  ASSUME MutexInv, UNCHANGED <<serving, state, deltas, fact>>
  PROVE  StreamTypes' /\ Ended'
BY DEF MutexInv, StreamTypes, Ended

LEMMA Flags ==
  ASSUME MutexInv, NEW s \in Streams
  PROVE  /\ state[s] \in StateSet
         /\ "exhausted" \in fact[s] => state[s].response
         /\ state = [state EXCEPT ![s] = state[s]]
         /\ fact = [fact EXCEPT ![s] = fact[s]]
         /\ [state[s] EXCEPT !.closed = TRUE] \in StateSet
         /\ [state[s] EXCEPT !.closed = TRUE].response = state[s].response
         /\ [state[s] EXCEPT !.taken = TRUE] \in StateSet
         /\ [state[s] EXCEPT !.taken = TRUE].response = state[s].response
         /\ \A start \in {"pending", "ok", "failed"} :
              /\ [state[s] EXCEPT !.start = start] \in StateSet
              /\ [state[s] EXCEPT !.start = start].response = state[s].response
<1>1. state[s] \in StateSet
  BY DEF MutexInv, StreamTypes
<1>2. "exhausted" \in fact[s] => state[s].response
  BY DEF MutexInv, Ended
<1>3. /\ state = [state EXCEPT ![s] = state[s]]
      /\ fact = [fact EXCEPT ![s] = fact[s]]
  BY DEF MutexInv, StreamTypes, PyInv, Shapes
<1>4. /\ [state[s] EXCEPT !.closed = TRUE] \in StateSet
      /\ [state[s] EXCEPT !.closed = TRUE].response = state[s].response
  BY <1>1 DEF StateSet
<1>5. /\ [state[s] EXCEPT !.taken = TRUE] \in StateSet
      /\ [state[s] EXCEPT !.taken = TRUE].response = state[s].response
  BY <1>1 DEF StateSet
<1>6. ASSUME NEW start \in {"pending", "ok", "failed"}
      PROVE  /\ [state[s] EXCEPT !.start = start] \in StateSet
             /\ [state[s] EXCEPT !.start = start].response = state[s].response
  BY <1>1 DEF StateSet
<1> QED BY <1>1, <1>2, <1>3, <1>4, <1>5, <1>6

(* A flag of the stream is set that is not the response. *)
LEMMA FlagSet ==
  ASSUME MutexInv, NEW s \in Streams,
         \/ MarkClosed(s)
         \/ state' = [state EXCEPT ![s].taken = TRUE]
         \/ \E start \in {"pending", "ok", "failed"} : Signal(s, start),
         UNCHANGED <<serving, deltas, fact>>
  PROVE  StreamTypes' /\ Ended'
<1>1. ASSUME NEW r \in StateSet, r.response = state[s].response,
             state' = [state EXCEPT ![s] = r]
      PROVE  StreamTypes' /\ Ended'
  <2>1. fact' = [fact EXCEPT ![s] = fact[s]] /\ ("exhausted" \in fact[s] => r.response)
    BY <1>1, Flags
  <2> QED BY <1>1, <2>1, OneShown
<1>2. CASE MarkClosed(s)
  <2>1. state' = [state EXCEPT ![s] = [state[s] EXCEPT !.closed = TRUE]]
    BY <1>2 DEF MarkClosed
  <2> QED BY <1>1, <2>1, Flags
<1>3. CASE state' = [state EXCEPT ![s].taken = TRUE]
  <2>1. state' = [state EXCEPT ![s] = [state[s] EXCEPT !.taken = TRUE]]
    BY <1>3
  <2> QED BY <1>1, <2>1, Flags
<1>4. ASSUME NEW start \in {"pending", "ok", "failed"}, Signal(s, start)
      PROVE  StreamTypes' /\ Ended'
  <2>1. state' = [state EXCEPT ![s] = [state[s] EXCEPT !.start = start]]
    BY <1>4 DEF Signal
  <2> QED BY <1>1, <2>1, Flags
<1> QED BY <1>2, <1>3, <1>4

LEMMA TaskShown ==
  ASSUME MutexInv, NEW t \in Tasks, TaskStep(t) \/ AskStep(t)
  PROVE  StreamTypes' /\ Ended'
<1> USE DEF At
<1> DEFINE s == Of(t)
<1>1. UNCHANGED <<serving, deltas>>
  BY DEF TaskStep, AskStep, AskRuns, AskEnds, ToolReturns, TakeStart, Started, CheckClosed, Send,
         Receive, Store, Stopped, SendClose
<1>2. task[t].at \in OnStream => s \in Streams
  BY DEF MutexInv, CallTypes, Of
<1>3. CASE \/ AskRuns(t) \/ AskStep(t) \/ CheckClosed(t) \/ Send(t) \/ Stopped(t)
  <2>1. UNCHANGED <<state, fact>>
    BY <1>3 DEF AskRuns, AskStep, AskEnds, ToolReturns, CheckClosed, Send, Stopped
  <2> QED BY <1>1, <2>1, NothingShown
<1>4. CASE TakeStart(t) \/ Started(t) \/ Receive(t)
  <2>1. UNCHANGED fact /\ s \in Streams
    BY <1>2, <1>4 DEF TakeStart, Started, Receive, OnStream
  <2>2. \/ UNCHANGED state \/ MarkClosed(s) \/ state' = [state EXCEPT ![s].taken = TRUE]
    BY <1>4 DEF TakeStart, Started, Receive
  <2> HIDE DEF s
  <2> QED BY <1>1, <2>1, <2>2, NothingShown, FlagSet
<1>5. CASE Store(t)
  <2> DEFINE r == [state[s] EXCEPT !.response = TRUE, !.closed = TRUE]
             f == IF task[t].op = "drain" THEN fact[s] \cup {"exhausted"} ELSE fact[s]
  <2>1. s \in Streams
    BY <1>2, <1>5 DEF Store, OnStream
  <2>2. state[s] \in StateSet
    BY <2>1, Flags
  <2>3. r \in StateSet /\ r.response
    BY <2>2 DEF StateSet
  <2>4. state' = [state EXCEPT ![s] = r]
    BY <1>5 DEF Store
  <2>5. fact' = [fact EXCEPT ![s] = f]
    BY <1>5, <2>1, Flags DEF Store, Note
  <2> HIDE DEF r, f, s
  <2> QED BY <1>1, <2>1, <2>3, <2>4, <2>5, OneShown
<1>6. CASE SendClose(t)
  <2> DEFINE f == IF FinishRequested(s) THEN fact[s] ELSE fact[s] \cup {"closed early"}
  <2>1. s \in Streams
    BY <1>2, <1>6 DEF SendClose, OnStream
  <2>2. fact' = [fact EXCEPT ![s] = f] /\ UNCHANGED state
    BY <1>6, <2>1, Flags DEF SendClose, Note
  <2>3. "exhausted" \in f => state[s].response
    BY <2>1, Flags
  <2>4. state[s] \in StateSet /\ state' = [state EXCEPT ![s] = state[s]]
    BY <2>1, <2>2, Flags
  <2> HIDE DEF f, s
  <2> QED BY <1>1, <2>1, <2>2, <2>3, <2>4, OneShown
<1> QED BY <1>3, <1>4, <1>5, <1>6 DEF TaskStep

LEMMA PythonShown ==
  ASSUME MutexInv, PythonStep
  PROVE  StreamTypes' /\ Ended'
<1>1. ASSUME NEW t \in Tasks, Cancel(t)
      PROVE  StreamTypes' /\ Ended'
  <2>1. /\ serving' = [s \in Streams |-> IF serving[s] = t THEN None ELSE serving[s]]
        /\ UNCHANGED <<state, deltas, fact>>
    BY <1>1 DEF Cancel
  <2>2. StreamTypes'
    BY <2>1 DEF MutexInv, StreamTypes
  <2> QED BY <2>1, <2>2 DEF MutexInv, Ended
<1>2. ASSUME NEW t \in Tasks,
             Ask(t) \/ ToolCalled(t) \/ ToolAsks(t) \/ CancelNested(t)
      PROVE  StreamTypes' /\ Ended'
  BY <1>2, NothingShown DEF Ask, ToolCalled, ToolAsks, CancelNested
<1>3. ASSUME NEW t \in Tasks, NEW s \in Streams,
             \/ StreamText(t, s) \/ \E op \in {"next", "finish"} : Call(t, s, op)
      PROVE  StreamTypes' /\ Ended'
  BY <1>3, NothingShown DEF StreamText, Call
<1>4. ASSUME NEW t \in Tasks, NEW s \in Streams, Stream(t, s) \/ StartClose(t, s)
      PROVE  StreamTypes' /\ Ended'
  BY <1>4, FlagSet DEF Stream, StartClose
<1>5. ASSUME NEW t \in Tasks, NEW s \in Streams, NextAfterEnd(t, s)
      PROVE  StreamTypes' /\ Ended'
  <2>1. /\ state[s].response /\ fact' = [fact EXCEPT ![s] = fact[s] \cup {"exhausted"}]
        /\ UNCHANGED <<serving, state, deltas>>
    BY <1>5 DEF NextAfterEnd, Note
  <2> QED BY <2>1, Flags, OneShown
<1>6. CASE Take \/ \E s \in Streams : DropHandle(s)
  BY <1>6, NothingShown DEF Take, DropHandle
<1> QED BY <1>1, <1>2, <1>3, <1>4, <1>5, <1>6 DEF PythonStep

LEMMA WorkerShown ==
  ASSUME MutexInv, NEW s \in Streams, WorkerStep(s) \/ ProviderStep(s)
  PROVE  StreamTypes' /\ Ended'
<1>1. StreamTypes /\ Ended /\ commands[s] \in Seq(CommandSet) /\ fact[s] \in SUBSET Facts
  BY Kept DEF MutexInv
<1>2. serving' \in [Streams -> Tasks \cup {None}]
  <2>1. CASE Serve(s)
    <3>1. commands[s] # <<>> /\ serving' = [serving EXCEPT ![s] = Head(commands[s]).task]
      BY <2>1 DEF Serve, Received
    <3>2. Head(commands[s]) \in CommandSet
      BY <1>1, <3>1
    <3> QED BY <1>1, <3>1, <3>2 DEF CommandSet, StreamTypes
  <2>2. CASE ~Serve(s)
    <3>1. UNCHANGED serving \/ serving' = [serving EXCEPT ![s] = None]
      BY <2>2 DEF WorkerStep, WaitLock, GotLock, Close, HandlesGone, ProviderStep, Opens, Read,
         ReadFails, Finishes, Quits
    <3> QED BY <1>1, <3>1 DEF StreamTypes
  <2> QED BY <2>1, <2>2
<1>3. deltas' \in [Streams -> 0..MaxDeltas]
  <2>1. CASE UNCHANGED deltas
    BY <1>1, <2>1 DEF StreamTypes
  <2>2. CASE deltas[s] < MaxDeltas /\ deltas' = [deltas EXCEPT ![s] = @ + 1]
    <3>1. deltas[s] + 1 \in 0..MaxDeltas
      BY <1>1, <2>2, PyAssumption DEF StreamTypes
    <3> QED BY <1>1, <2>2, <3>1 DEF StreamTypes
  <2> QED BY <2>1, <2>2 DEF WorkerStep, WaitLock, GotLock, Serve, Close, HandlesGone, ProviderStep,
         Opens, Read, ReadFails, Finishes
<1>4. PICK r \in StateSet : state' = [state EXCEPT ![s] = r] /\ r.response = state[s].response
  <2>1. UNCHANGED state \/ \E start \in {"pending", "ok", "failed"} : Signal(s, start)
    BY DEF WorkerStep, WaitLock, GotLock, Serve, Close, HandlesGone, ProviderStep,
         Opens, Read, ReadFails, Finishes
  <2>2. CASE UNCHANGED state
    BY <2>2, Flags
  <2>3. ASSUME NEW start \in {"pending", "ok", "failed"}, Signal(s, start)
        PROVE  \E r \in StateSet : state' = [state EXCEPT ![s] = r]
                                   /\ r.response = state[s].response
    <3>1. state' = [state EXCEPT ![s] = [state[s] EXCEPT !.start = start]]
      BY <2>3 DEF Signal
    <3> QED BY <3>1, Flags
  <2> QED BY <2>1, <2>2, <2>3
<1>5. PICK g \in {{}, {"erred"}, {"persisted"}} : fact' = [fact EXCEPT ![s] = fact[s] \cup g]
  <2>1. CASE UNCHANGED fact
    <3>1. fact' = [fact EXCEPT ![s] = fact[s] \cup {}]
      BY <2>1, Flags
    <3> QED BY <3>1
  <2>2. CASE Note(s, "erred") \/ Note(s, "persisted")
    BY <2>2 DEF Note
  <2>3. UNCHANGED fact \/ Note(s, "erred") \/ Note(s, "persisted")
    BY DEF WorkerStep, WaitLock, GotLock, Serve, Close, HandlesGone, ProviderStep,
         Opens, Read, ReadFails, Finishes
  <2> QED BY <2>1, <2>2, <2>3
<1>6. StreamTypes'
  BY <1>1, <1>2, <1>3, <1>4 DEF StreamTypes
<1>7. ASSUME NEW x \in Streams PROVE "exhausted" \in fact'[x] => state'[x].response
  <2>1. CASE x = s
    BY <1>1, <1>4, <1>5, <2>1, Flags DEF MutexInv, PyInv, Shapes, StreamTypes
  <2>2. CASE x # s
    BY <1>1, <1>4, <1>5, <2>2 DEF MutexInv, PyInv, Shapes, StreamTypes, Ended
  <2> QED BY <2>1, <2>2
<1> QED BY <1>6, <1>7 DEF Ended

LEMMA SpecMutexInv == Spec => []MutexInv
<1>1. Init => MutexInv
  BY MutexInitially
<1>2. MutexInv /\ [Next]_vars => CallTypes' /\ Queued' /\ StreamTypes' /\ Ended'
  <2>1. MutexInv /\ UNCHANGED vars => CallTypes' /\ Queued' /\ StreamTypes' /\ Ended'
    BY NothingShown, QueueRests DEF vars, MutexInv, CallTypes
  <2> QED BY <2>1, PythonQueued, PythonShown, TaskQueued, TaskShown, WorkerQueuedKept, WorkerShown
          DEF Next
<1>3. PyInv' /\ CallTypes' /\ Queued' /\ StreamTypes' /\ Ended' => MutexInv'
  BY DEF MutexInv
<1> QED BY <1>1, <1>2, <1>3, SpecPyInv, PTL DEF Spec

(* Whoever works with the agent, a worker of a stream or an ask, holds its *)
(* mutex, so no two of them do, and a worker has an agent that was not     *)
(* taken away; a stream whose iteration ended has its response cached.     *)
THEOREM AgentHeldByOne == Spec => []TypeOK
<1>1. MutexInv => TypeOK
  <2> SUFFICES ASSUME MutexInv PROVE TypeOK
    OBVIOUS
  <2>1. queue \in Seq(Tasks \cup Streams)
    BY DEF MutexInv, Queued, Users
  <2>2. ASSUME NEW t \in Tasks
        PROVE  /\ task[t].op \in Ops /\ task[t].at \in Waits
               /\ task[t].got \in Replies \cup {None}
               /\ At(t, "running") => Head(queue) = t
    BY DEF MutexInv, CallTypes, TaskSet, Queued, CallQueued, At
  <2>3. ASSUME NEW s \in Streams
        PROVE  /\ worker[s] \in WorkerStates /\ fact[s] \subseteq Facts
               /\ worker[s] \in {"opening", "serving", "reading", "finishing"}
                    => queue # <<>> /\ Head(queue) = s /\ ~moved
               /\ deltas[s] \in 0..MaxDeltas
               /\ "exhausted" \in fact[s] => state[s].response
    BY DEF MutexInv, PyInv, Shapes, Queued, WorkerQueued, Holding, StreamTypes, Ended
  <2> QED BY <2>1, <2>2, <2>3 DEF TypeOK
<1> QED BY <1>1, SpecMutexInv, PTL
=============================================================================
