---------------------------- MODULE PyAgentStream ----------------------------
(***************************************************************************)
(* The Python binding of an agent and its streams                          *)
(* (crates/arcone-agent-py/src/lib.rs).  The agent is behind a tokio Mutex *)
(* (first come, first served).  A stream is a worker task that holds the   *)
(* mutex from the opening of the stream to its end and serves commands,    *)
(* one at a time, from an unbounded channel; the Python object shares with *)
(* its clones a start signal, a closed flag and the cached response.       *)
(*                                                                         *)
(* Python tasks run concurrently with the worker, on several threads: a    *)
(* step is the code between two accesses to shared state.  asyncio may     *)
(* cancel a call at an await.  The provider behind agent.stream() decides  *)
(* what next_text() and finish() come back with (module AgentRuntime says  *)
(* what they do to the history); the handler of a Python tool, which an    *)
(* ask awaits while it holds the mutex, decides what it does.              *)
(***************************************************************************)
EXTENDS Naturals, Sequences

CONSTANTS Tasks,       \* Python tasks that use the agent
          Streams,     \* the streams they may open
          MaxDeltas,   \* bound: text deltas of one stream
          MaxCommands, \* bound: no new call while so many commands wait
          None

ASSUME PyAssumption ==
  /\ None \notin Tasks \cup Streams /\ Tasks \cap Streams = {}
  /\ MaxDeltas \in Nat /\ MaxCommands \in Nat

VARIABLES
  queue,      \* who holds the agent's mutex (the head), and who waits for it;
              \* an ask whose tool asks the same agent is in it twice
  moved,      \* the agent was taken out of the mutex
  task,       \* task -> its running call
  worker,     \* stream -> where its worker is
  serving,    \* stream -> the task whose command the worker works on, or None
  commands,   \* stream -> the channel
  state,      \* stream -> PyAgentStreamState and the start signal
  handle,     \* stream -> Python still holds the stream object
  deltas,     \* stream -> the deltas read so far
  fact        \* auxiliary: stream -> what happened to it

vars == <<queue, moved, task, worker, serving, commands, state, handle, deltas, fact>>

Ops == {"none", "ask", "open", "next", "finish", "drain", "close"}
Waits == {"idle", "mutex", "running", "tool", "nested", "cached", "starting", "checking", "sending",
          "reply", "storing", "closing"}
Replies == {"delta", "end", "error", "response"}
WorkerStates == {"none", "spawned", "locking", "opening", "serving", "reading",
                 "finishing", "done"}
Facts == {"closed early", "persisted", "erred", "exhausted"}

NoCall == [op |-> "none", stream |-> None, at |-> "idle", got |-> None]

Command(op, t) == [op |-> op, task |-> t]

Init ==
  /\ queue = <<>>
  /\ moved = FALSE
  /\ task = [t \in Tasks |-> NoCall]
  /\ worker = [s \in Streams |-> "none"]
  /\ serving = [s \in Streams |-> None]
  /\ commands = [s \in Streams |-> <<>>]
  /\ state = [s \in Streams |-> [start |-> "pending", taken |-> FALSE,
                                 closed |-> FALSE, response |-> FALSE]]
  /\ handle = [s \in Streams |-> FALSE]
  /\ deltas = [s \in Streams |-> 0]
  /\ fact = [s \in Streams |-> {}]

Of(t)     == task[t].stream
At(t, w)  == task[t].at = w
Goto(t, w) == task' = [task EXCEPT ![t].at = w]
Ends(t)   == task' = [task EXCEPT ![t] = NoCall]
Idle(t)   == task[t].op = "none"
Note(s, f) == fact' = [fact EXCEPT ![s] = @ \cup {f}]
MarkClosed(s) == state' = [state EXCEPT ![s].closed = TRUE]

(* The queue when x gives up its place in it.                              *)
Without(q, x) ==
  IF \A i \in 1..Len(q) : q[i] # x THEN q
  ELSE [i \in 1..(Len(q) - 1) |-> IF \E j \in 1..i : q[j] = x THEN q[i + 1] ELSE q[i]]

-----------------------------------------------------------------------------
(***************************************************************************)
(* Calls on the agent.                                                     *)
(***************************************************************************)

(* ask, ask_text and clear_session: wait for the mutex, then run.          *)
Ask(t) ==
  /\ Idle(t)
  /\ queue' = Append(queue, t)
  /\ task' = [task EXCEPT ![t] = [NoCall EXCEPT !.op = "ask", !.at = "mutex"]]
  /\ UNCHANGED <<moved, worker, serving, commands, state, handle, deltas, fact>>

(* The mutex is granted; agent_moved_error returns at once. *)
AskRuns(t) ==
  /\ At(t, "mutex") /\ Head(queue) = t
  /\ IF moved THEN Ends(t) /\ queue' = Tail(queue)
              ELSE Goto(t, "running") /\ UNCHANGED queue
  /\ UNCHANGED <<moved, worker, serving, commands, state, handle, deltas, fact>>

AskEnds(t) ==
  /\ At(t, "running")
  /\ Ends(t)
  /\ queue' = Tail(queue)
  /\ UNCHANGED <<moved, worker, serving, commands, state, handle, deltas, fact>>

(* PythonTool::call: the model calls a tool, and its handler is started on *)
(* the event loop.  (One that is not a coroutine is done at once.)         *)
ToolCalled(t) ==
  /\ At(t, "running")
  /\ Goto(t, "tool")
  /\ UNCHANGED <<queue, moved, worker, serving, commands, state, handle, deltas, fact>>

(* Its output is the tool's message, or a ToolExecution error ends the ask. *)
ToolReturns(t) ==
  /\ At(t, "tool")
  /\ \/ Goto(t, "running") /\ UNCHANGED queue
     \/ Ends(t) /\ queue' = Tail(queue)
  /\ UNCHANGED <<moved, worker, serving, commands, state, handle, deltas, fact>>

(* The handler awaits a call of the agent that called it. *)
ToolAsks(t) ==
  /\ At(t, "tool")
  /\ queue' = Append(queue, t)
  /\ Goto(t, "nested")
  /\ UNCHANGED <<moved, worker, serving, commands, state, handle, deltas, fact>>

(* The outer ask is cancelled.  The handler is a task of the event loop    *)
(* and goes on, with its own ask.                                          *)
CancelNested(t) ==
  /\ At(t, "nested")
  /\ queue' = Tail(queue)
  /\ Goto(t, "mutex")
  /\ UNCHANGED <<moved, worker, serving, commands, state, handle, deltas, fact>>

(* take, for a team and for KnowledgeAgent.from_agent (which does not give *)
(* the agent back when its retriever is refused): the agent leaves.        *)
(* try_lock refuses when it is busy.                                       *)
Take ==
  /\ queue = <<>> /\ ~moved
  /\ moved' = TRUE
  /\ UNCHANGED <<queue, task, worker, serving, commands, state, handle, deltas, fact>>

(* stream_text: the worker is spawned and the stream object returned. *)
StreamText(t, s) ==
  /\ Idle(t) /\ worker[s] = "none"
  /\ worker' = [worker EXCEPT ![s] = "spawned"]
  /\ handle' = [handle EXCEPT ![s] = TRUE]
  /\ UNCHANGED <<queue, moved, task, serving, commands, state, deltas, fact>>

(* stream: the worker is spawned and its start awaited. *)
Stream(t, s) ==
  /\ Idle(t) /\ worker[s] = "none"
  /\ worker' = [worker EXCEPT ![s] = "spawned"]
  /\ state' = [state EXCEPT ![s].taken = TRUE]
  /\ task' = [task EXCEPT ![t] = [NoCall EXCEPT !.op = "open", !.stream = s,
                                                !.at = "starting"]]
  /\ UNCHANGED <<queue, moved, serving, commands, handle, deltas, fact>>

-----------------------------------------------------------------------------
(***************************************************************************)
(* Calls on a stream: __anext__ (next_delta) and finish (finish_stream).   *)
(***************************************************************************)

Room(s) == Len(commands[s]) < MaxCommands

(* Both first look for the cached response. *)
Call(t, s, op) ==
  /\ Idle(t) /\ handle[s] /\ Room(s)
  /\ ~state[s].response
  /\ task' = [task EXCEPT ![t] = [NoCall EXCEPT !.op = op, !.stream = s,
                                                !.at = "cached"]]
  /\ UNCHANGED <<queue, moved, worker, serving, commands, state, handle, deltas, fact>>

(* __anext__ ends the iteration when the response is cached. *)
NextAfterEnd(t, s) ==
  /\ Idle(t) /\ handle[s] /\ state[s].response
  /\ Note(s, "exhausted")
  /\ UNCHANGED <<queue, moved, task, worker, serving, commands, state, handle, deltas>>

(* await_started: the first caller takes the start signal, and waits.      *)
TakeStart(t) ==
  LET s == Of(t) IN
  /\ At(t, "cached")
  /\ \/ /\ state[s].closed
        /\ Ends(t) /\ UNCHANGED state
     \/ /\ ~state[s].closed /\ ~state[s].taken
        /\ state' = [state EXCEPT ![s].taken = TRUE]
        /\ Goto(t, "starting")
     \/ /\ ~state[s].closed /\ state[s].taken
        /\ Goto(t, "checking") /\ UNCHANGED state
  /\ UNCHANGED <<queue, moved, worker, serving, commands, handle, deltas, fact>>

(* The start signal arrives: stream() returns the object, the other calls  *)
(* go on; a failed start closes the stream and is raised.                  *)
Started(t) ==
  LET s == Of(t) IN
  /\ At(t, "starting") /\ state[s].start # "pending"
  /\ \/ /\ state[s].start = "failed"
        /\ MarkClosed(s) /\ Ends(t) /\ UNCHANGED handle
     \/ /\ state[s].start = "ok" /\ task[t].op = "open"
        /\ handle' = [handle EXCEPT ![s] = TRUE]
        /\ Ends(t) /\ UNCHANGED state
     \/ /\ state[s].start = "ok" /\ task[t].op # "open"
        /\ Goto(t, "checking") /\ UNCHANGED <<state, handle>>
  /\ UNCHANGED <<queue, moved, worker, serving, commands, deltas, fact>>

(* is_closed: the call gives up. *)
CheckClosed(t) ==
  /\ At(t, "checking")
  /\ IF state[Of(t)].closed THEN Ends(t) ELSE Goto(t, "sending")
  /\ UNCHANGED <<queue, moved, worker, serving, commands, state, handle, deltas, fact>>

(* The command is sent; without a receiver the call fails.                 *)
Send(t) ==
  LET s == Of(t) IN
  /\ At(t, "sending")
  /\ IF worker[s] = "done"
     THEN Ends(t) /\ UNCHANGED commands
     ELSE /\ commands' = [commands EXCEPT ![s] = Append(@,
                Command(IF task[t].op = "next" THEN "next" ELSE "finish", t))]
          /\ Goto(t, "reply")
  /\ UNCHANGED <<queue, moved, worker, serving, state, handle, deltas, fact>>

(* The worker's reply: a delta is returned; after the end the same call    *)
(* asks for the response; an error closes the stream.                      *)
Receive(t) ==
  LET s == Of(t) IN
  /\ At(t, "reply") /\ task[t].got # None
  /\ \/ /\ task[t].got = "delta"
        /\ Ends(t) /\ UNCHANGED state
     \/ /\ task[t].got = "end"
        /\ task' = [task EXCEPT ![t].op = "drain", ![t].at = "sending", ![t].got = None]
        /\ UNCHANGED state
     \/ /\ task[t].got = "error"
        /\ MarkClosed(s) /\ Ends(t)
     \/ /\ task[t].got = "response"
        /\ MarkClosed(s) /\ Goto(t, "storing")
  /\ UNCHANGED <<queue, moved, worker, serving, commands, handle, deltas, fact>>

(* store_response; __anext__ then raises StopAsyncIteration.               *)
Store(t) ==
  LET s == Of(t) IN
  /\ At(t, "storing")
  /\ state' = [state EXCEPT ![s].response = TRUE, ![s].closed = TRUE]
  /\ IF task[t].op = "drain" THEN Note(s, "exhausted") ELSE UNCHANGED fact
  /\ Ends(t)
  /\ UNCHANGED <<queue, moved, worker, serving, commands, handle, deltas>>

(* The worker is gone and with it the sender of the reply.                 *)
Stopped(t) ==
  /\ At(t, "reply") /\ task[t].got = None /\ worker[Of(t)] = "done"
  /\ Ends(t)
  /\ UNCHANGED <<queue, moved, worker, serving, commands, state, handle, deltas, fact>>

(* Mutated: a cancelled call leaves its place in the queue of the mutex.   *)
CancelKeepsGuard(t) ==
  /\ task[t].at \in {"mutex", "running", "tool", "starting", "reply"}
  /\ Ends(t)
  /\ queue' = queue
  /\ serving' = [s \in Streams |-> IF serving[s] = t THEN None ELSE serving[s]]
  /\ commands' = [s \in Streams |->
       [i \in DOMAIN commands[s] |-> IF commands[s][i].task = t
                                     THEN Command(commands[s][i].op, None)
                                     ELSE commands[s][i]]]
  /\ UNCHANGED <<moved, worker, state, handle, deltas, fact>>

(* asyncio cancels the call at an await: the future and its receivers are  *)
(* dropped, a command it sent stays in the channel.                        *)
Cancel(t) ==
  /\ task[t].at \in {"mutex", "running", "tool", "starting", "reply"}
  /\ Ends(t)
  /\ queue' = Without(queue, t)
  /\ serving' = [s \in Streams |-> IF serving[s] = t THEN None ELSE serving[s]]
  /\ commands' = [s \in Streams |->
       [i \in DOMAIN commands[s] |-> IF commands[s][i].task = t
                                     THEN Command(commands[s][i].op, None)
                                     ELSE commands[s][i]]]
  /\ UNCHANGED <<moved, worker, state, handle, deltas, fact>>

(* close: the flag is set, then the command is sent. *)
StartClose(t, s) ==
  /\ Idle(t) /\ handle[s] /\ Room(s)
  /\ MarkClosed(s)
  /\ task' = [task EXCEPT ![t] = [NoCall EXCEPT !.op = "close", !.stream = s,
                                                !.at = "closing"]]
  /\ UNCHANGED <<queue, moved, worker, serving, commands, handle, deltas, fact>>

FinishRequested(s) ==
  \/ worker[s] \in {"finishing", "done"}
  \/ \E i \in DOMAIN commands[s] : commands[s][i].op = "finish"

SendClose(t) ==
  LET s == Of(t) IN
  /\ At(t, "closing")
  /\ IF worker[s] = "done" THEN UNCHANGED commands
     ELSE commands' = [commands EXCEPT ![s] = Append(@, Command("close", None))]
  /\ IF FinishRequested(s) THEN UNCHANGED fact ELSE Note(s, "closed early")
  /\ Ends(t)
  /\ UNCHANGED <<queue, moved, worker, serving, state, handle, deltas>>

(* Python drops the stream object. *)
DropHandle(s) ==
  /\ handle[s]
  /\ handle' = [handle EXCEPT ![s] = FALSE]
  /\ UNCHANGED <<queue, moved, task, worker, serving, commands, state, deltas, fact>>

-----------------------------------------------------------------------------
(***************************************************************************)
(* The worker (run_agent_stream_worker).                                   *)
(***************************************************************************)
ToWorker(s, w) == worker' = [worker EXCEPT ![s] = w]

(* It returns: the AgentStream is dropped, and then the guard. *)
Quits(s) ==
  /\ ToWorker(s, "done")
  /\ queue' = Tail(queue)
  /\ commands' = [commands EXCEPT ![s] = <<>>]
  /\ serving' = [serving EXCEPT ![s] = None]

Signal(s, start) == state' = [state EXCEPT ![s].start = start]

(* respond_to.send: nobody listens when the call was cancelled.            *)
Responds(s, got) ==
  task' = IF serving[s] = None THEN task ELSE [task EXCEPT ![serving[s]].got = got]

WaitLock(s) ==
  /\ worker[s] = "spawned"
  /\ ToWorker(s, "locking")
  /\ queue' = Append(queue, s)
  /\ UNCHANGED <<moved, task, serving, commands, state, handle, deltas, fact>>

(* Mutated: an agent that was taken is not noticed. *)
GotLockUnchecked(s) ==
  /\ worker[s] = "locking" /\ Head(queue) = s
  /\ ToWorker(s, "opening")
  /\ UNCHANGED <<queue, moved, task, serving, commands, state, handle, deltas, fact>>

(* The mutex is granted; the start of a stream without an agent fails. *)
GotLock(s) ==
  /\ worker[s] = "locking" /\ Head(queue) = s
  /\ IF moved
     THEN Signal(s, "failed") /\ Quits(s)
     ELSE ToWorker(s, "opening") /\ UNCHANGED <<queue, serving, commands, state>>
  /\ UNCHANGED <<moved, task, handle, deltas, fact>>

(* agent.stream(prompt) comes back. *)
Opens(s) ==
  /\ worker[s] = "opening"
  /\ \/ Signal(s, "ok") /\ ToWorker(s, "serving") /\ UNCHANGED <<queue, serving, commands>>
     \/ Signal(s, "failed") /\ Quits(s)
  /\ UNCHANGED <<moved, task, handle, deltas, fact>>

Received(s, op) ==
  worker[s] = "serving" /\ commands[s] # <<>> /\ Head(commands[s]).op = op

(* Next: next_text is called; Finish: finish is. *)
Serve(s) ==
  /\ Received(s, "next") \/ Received(s, "finish")
  /\ serving' = [serving EXCEPT ![s] = Head(commands[s]).task]
  /\ ToWorker(s, IF Received(s, "next") THEN "reading" ELSE "finishing")
  /\ commands' = [commands EXCEPT ![s] = Tail(@)]
  /\ UNCHANGED <<queue, moved, task, state, handle, deltas, fact>>

(* Mutated: Close only ends a stream that has nothing else to do. *)
CloseIgnored(s) ==
  /\ Received(s, "close")
  /\ commands' = [commands EXCEPT ![s] = Tail(@)]
  /\ UNCHANGED <<queue, moved, task, worker, serving, state, handle, deltas, fact>>

Close(s) ==
  /\ Received(s, "close")
  /\ Quits(s)
  /\ UNCHANGED <<moved, task, state, handle, deltas, fact>>

(* Every sender is gone and the channel is empty: recv returns None.       *)
HandlesGone(s) ==
  /\ worker[s] = "serving" /\ commands[s] = <<>>
  /\ ~handle[s] /\ \A t \in Tasks : Of(t) # s
  /\ Quits(s)
  /\ UNCHANGED <<moved, task, state, handle, deltas, fact>>

(* next_text returns a delta, or the end of the stream. *)
Read(s) ==
  /\ worker[s] = "reading"
  /\ \/ /\ deltas[s] < MaxDeltas
        /\ deltas' = [deltas EXCEPT ![s] = @ + 1]
        /\ Responds(s, "delta")
     \/ Responds(s, "end") /\ UNCHANGED deltas
  /\ ToWorker(s, "serving")
  /\ serving' = [serving EXCEPT ![s] = None]
  /\ UNCHANGED <<queue, moved, commands, state, handle, fact>>

(* Mutated: the worker goes on after an error, and a finish may succeed.   *)
ReadFailsContinues(s) ==
  /\ worker[s] = "reading"
  /\ Responds(s, "error")
  /\ Note(s, "erred")
  /\ ToWorker(s, "serving")
  /\ serving' = [serving EXCEPT ![s] = None]
  /\ UNCHANGED <<queue, moved, commands, state, handle, deltas>>

(* next_text fails: the worker returns and the stream rolls back.          *)
ReadFails(s) ==
  /\ worker[s] = "reading"
  /\ Responds(s, "error")
  /\ Note(s, "erred")
  /\ Quits(s)
  /\ UNCHANGED <<moved, state, handle, deltas>>

(* finish: the answer is kept by the agent, though the response may not    *)
(* convert; or it fails and the stream rolls back.                         *)
Finishes(s) ==
  /\ worker[s] = "finishing"
  /\ \/ Note(s, "persisted") /\ (Responds(s, "response") \/ Responds(s, "error"))
     \/ Responds(s, "error") /\ UNCHANGED fact
  /\ Quits(s)
  /\ UNCHANGED <<moved, state, handle, deltas>>

-----------------------------------------------------------------------------
(* What the runtime does for a call that is under way. *)
TaskStep(t) ==
  \/ AskRuns(t)
  \/ TakeStart(t) \/ Started(t) \/ CheckClosed(t) \/ Send(t) \/ Receive(t)
  \/ Store(t) \/ Stopped(t) \/ SendClose(t)

(* What the worker does by itself, and what it awaits of the provider.     *)
WorkerStep(s) == WaitLock(s) \/ GotLock(s) \/ Serve(s) \/ Close(s) \/ HandlesGone(s)
ProviderStep(s) == Opens(s) \/ Read(s) \/ ReadFails(s) \/ Finishes(s)

(* What an ask awaits: the provider, and the handler of a tool unless it   *)
(* asks its own agent.                                                     *)
AskStep(t) == AskEnds(t) \/ ToolReturns(t)

(* What Python does. *)
PythonStep ==
  \/ Take
  \/ \E t \in Tasks : Ask(t) \/ Cancel(t) \/ ToolCalled(t) \/ ToolAsks(t) \/ CancelNested(t)
  \/ \E t \in Tasks, s \in Streams :
       \/ StreamText(t, s) \/ Stream(t, s) \/ NextAfterEnd(t, s)
       \/ StartClose(t, s)
       \/ \E op \in {"next", "finish"} : Call(t, s, op)
  \/ \E s \in Streams : DropHandle(s)

Next ==
  \/ PythonStep
  \/ \E t \in Tasks : TaskStep(t) \/ AskStep(t)
  \/ \E s \in Streams : WorkerStep(s) \/ ProviderStep(s)

Spec == Init /\ [][Next]_vars

(* Both runtimes poll what is ready.                                       *)
RuntimeFairness ==
  /\ \A t \in Tasks : WF_vars(TaskStep(t))
  /\ \A s \in Streams : WF_vars(WorkerStep(s))

(* The provider answers: an open, a read, a finish or an ask comes back,   *)
(* after finitely many tool calls (max_tool_rounds); so does the handler   *)
(* of a tool that does not wait for its own agent.                         *)
ProviderFairness ==
  /\ \A s \in Streams : WF_vars(ProviderStep(s))
  /\ \A t \in Tasks : SF_vars(AskEnds(t)) /\ WF_vars(AskStep(t))

FairSpec == Spec /\ RuntimeFairness /\ ProviderFairness
StalledSpec == Spec /\ RuntimeFairness

-----------------------------------------------------------------------------
(* Types, and: a worker that works with the agent holds its mutex, alone;  *)
(* an iteration that ended normally has its response cached.               *)
TypeOK ==
  /\ queue \in Seq(Tasks \cup Streams)
  /\ \A t \in Tasks : /\ task[t].op \in Ops /\ task[t].at \in Waits
                      /\ task[t].got \in Replies \cup {None}
                      /\ At(t, "running") => Head(queue) = t
  /\ \A s \in Streams :
       /\ worker[s] \in WorkerStates /\ fact[s] \subseteq Facts
       /\ worker[s] \in {"opening", "serving", "reading", "finishing"}
            => queue # <<>> /\ Head(queue) = s /\ ~moved
       /\ deltas[s] \in 0..MaxDeltas
       /\ "exhausted" \in fact[s] => state[s].response

(* Once close() has returned and no finish was on its way, the answer is   *)
(* not persisted, whatever the calls still pending send after it: partial  *)
(* text does not reach history or the session.                             *)
ClosedNotPersisted ==
  \A s \in Streams : ~({"closed early", "persisted"} \subseteq fact[s])

(* An answer is persisted only if every read of the stream succeeded: a    *)
(* finish() after a failed __anext__ does not persist a text with a gap,   *)
(* although AgentStream::finish by itself would.                           *)
PersistedUnbroken ==
  \A s \in Streams : ~({"erred", "persisted"} \subseteq fact[s])

(* What a call waits for is the agent's mutex. *)
WaitsForAgent(t) ==
  \/ At(t, "mutex") \/ At(t, "nested")
  \/ task[t].at \in {"starting", "reply"} /\ worker[Of(t)] = "locking"

(* The agent is kept by an open stream that Python still holds and has     *)
(* neither closed nor asked to finish, or by an ask whose tool waits for   *)
(* the same agent.                                                         *)
AgentKept ==
  LET holder == Head(queue) IN
  \/ /\ holder \in Streams /\ worker[holder] \in {"serving", "reading"}
     /\ handle[holder] \/ \E t \in Tasks : Of(t) = holder
     /\ "closed early" \notin fact[holder] /\ ~FinishRequested(holder)
  \/ holder \in Tasks /\ At(holder, "nested")

(* Every call comes back, a call on a stream also when its command is      *)
(* queued behind a close or a finish that ends the worker, unless it waits *)
(* for an agent that is kept: by a stream that is neither finished, closed *)
(* nor dropped, or by a tool that asks its own agent.                      *)
CallsReturn ==
  \A t \in Tasks : []<>(Idle(t) \/ (WaitsForAgent(t) /\ AgentKept))

(* A closed stream gives the agent back, or it waits for an agent that is  *)
(* kept by somebody else and has not got it yet.                           *)
CloseReleases ==
  \A s \in Streams :
    "closed early" \in fact[s] ~> worker[s] = "done" \/ (worker[s] = "locking" /\ AgentKept)
=============================================================================
