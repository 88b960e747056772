---------------------------- MODULE AgentRuntime ----------------------------
(***************************************************************************)
(* The agent runtime (src/agent/runtime.rs): Agent::ask with its tool      *)
(* loop, ask_json, stream / AgentStream, set_session, clear_history and    *)
(* clear_session, for several agents over one shared session store.        *)
(*                                                                         *)
(* A call runs on &mut self: an agent runs one call at a time, and a step  *)
(* of the model is the code between two await points.  Agents interleave   *)
(* at the awaits, and the caller may drop the future at any of them.       *)
(* A store operation takes effect atomically at some moment of its await   *)
(* (module SessionStore and its implementations); it may fail, and it may  *)
(* fail after it took effect, when the acknowledgement of a commit is lost.*)
(***************************************************************************)
EXTENDS Transcript, FiniteSets

CONSTANTS Agents,
          Sessions,
          None,            \* Option::None: no session, no turn, no agent
          MayBind,         \* agent -> the sessions its owner binds it to
          MayCall,         \* the Apis the application uses
          MaxToolRounds    \* config.max_tool_rounds

ASSUME NoneAssumption == None \notin Agents \cup Sessions \cup Turns
ASSUME BindingAssumption == MayBind \in [Agents -> SUBSET (Sessions \cup {None})]
ASSUME RoundsAssumption == MaxToolRounds \in Nat

VARIABLES
  history,      \* agent -> Agent::history
  session,      \* agent -> Agent::session_id
  format,       \* agent -> config.response_format
  call,         \* agent -> the running call: where it waits and its locals
  store,        \* session -> the persisted messages
  turns,        \* auxiliary: turn -> who asked it, where, how, its outcome
  cleared       \* auxiliary: turns a clear removed from a store, with the
                \* turns whose calls raced with it

vars == <<history, session, format, call, store, turns, cleared>>

Apis == {"ask", "json", "stream"}
Stages == {"input", "output"}     \* the guardrail stages of an agent
Formats == {"text", "json"}

(***************************************************************************)
(* What became of a turn.  "saved": its answer is in the store, the call   *)
(* still runs.  "unsure": the call returned an error from its save or from *)
(* what follows it, and "cut": an ask was dropped there; "rejected" and    *)
(* "abandoned" are the same before the save.  (A finish() that is dropped  *)
(* in its save counts as unsure: it rolls back as one that fails.)         *)
(***************************************************************************)
Fates == {"unasked", "running", "saved", "answered", "unsure", "cut", "rejected",
          "abandoned"}
Persistable == {"saved", "answered", "unsure", "cut"}

TurnInfo == [by : Agents \cup {None}, session : Sessions \cup {None},
             api : Apis, vetted : SUBSET Stages, fate : Fates]

(* The awaits a call can be at. *)
AskStates    == {"chatting", "tools", "vetting", "saving", "composing"}
StreamStates == {"opening", "streaming", "draining", "finishing"}
States == {"idle", "clearing", "screening", "loading"} \cup AskStates \cup StreamStates

(***************************************************************************)
(* The locals of a call: the turn it asks, tool_rounds, the tool calls of  *)
(* this round without a reply, previous_format, initial_history_len and    *)
(* (auxiliary) the history the stream started from.                        *)
(***************************************************************************)
Call == [at : States, turn : Turns \cup {None}, rounds : 0..MaxToolRounds,
         left : 0..MaxCalls, prevFormat : Formats, initialLen : Nat,
         opened : Seq(Message)]

(* The locals of a call on turn t that found the format f and history h.   *)
Locals(s, t, f, h) == [at |-> s, turn |-> t, rounds |-> 0, left |-> 0,
                       prevFormat |-> f, initialLen |-> Len(h), opened |-> h]

Idle == Locals("idle", None, "text", <<>>)

Turn(a)  == call[a].turn
Info(a)  == turns[call[a].turn]
Bound(a) == session[a] # None

At(a, s) == call[a].at = s
Goto(a, s) == call' = [call EXCEPT ![a].at = s]
Push(a, m) == history' = [history EXCEPT ![a] = Append(@, m)]
SetFate(a, f) == turns' = [turns EXCEPT ![Turn(a)].fate = f]

Init ==
  /\ history = [a \in Agents |-> <<>>]
  /\ session \in {f \in [Agents -> Sessions \cup {None}] :
                    \A a \in Agents : f[a] \in MayBind[a]}
  /\ format = [a \in Agents |-> "text"]
  /\ call = [a \in Agents |-> Idle]
  /\ store = [s \in Sessions |-> <<>>]
  /\ turns = [t \in Turns |-> [by |-> None, session |-> None, api |-> "ask",
                               vetted |-> {}, fate |-> "unasked"]]
  /\ cleared = {}

-----------------------------------------------------------------------------
(***************************************************************************)
(* Operations without a model call.                                        *)
(***************************************************************************)

(* set_session: another session is attached; the local history stays. *)
SetSession(a, s) ==
  /\ At(a, "idle")
  /\ s \in MayBind[a] \ {None, session[a]}
  /\ session' = [session EXCEPT ![a] = s]
  /\ UNCHANGED <<history, format, call, store, turns, cleared>>

ClearHistory(a) ==
  /\ At(a, "idle")
  /\ history' = [history EXCEPT ![a] = <<>>]
  /\ UNCHANGED <<session, format, call, store, turns, cleared>>

(* clear_session: the local history goes first, then the store is awaited. *)
ClearSession(a) ==
  /\ At(a, "idle")
  /\ history' = [history EXCEPT ![a] = <<>>]
  /\ Goto(a, IF Bound(a) THEN "clearing" ELSE "idle")
  /\ UNCHANGED <<session, format, store, turns, cleared>>

(* The calls that have loaded the session of a and not returned. *)
Racing(a) ==
  {Turn(b) : b \in {b \in Agents : /\ call[b].at \in AskStates \cup StreamStates
                                  /\ session[b] = session[a]}}

StoreClear(a) ==
  /\ store' = [store EXCEPT ![session[a]] = <<>>]
  /\ cleared' = cleared \cup {<<t, Racing(a)>> : t \in TurnsIn(store[session[a]])}

(* The clear returns, Ok or Err, or its future is dropped. *)
ClearReturns(a) ==
  /\ At(a, "clearing")
  /\ StoreClear(a) \/ UNCHANGED <<store, cleared>>
  /\ Goto(a, "idle")
  /\ UNCHANGED <<history, session, format, turns>>

-----------------------------------------------------------------------------
(***************************************************************************)
(* How a call ends.  ask_json restores the response format in the code     *)
(* that follows its ask().await: on every return, but not when the future  *)
(* is dropped.                                                             *)
(***************************************************************************)
(* Mutated: a save that fails returns before the restore. *)
RestoreFormatUnlessSaving(a) ==
  format' = [format EXCEPT ![a] = IF Info(a).api = "json" /\ ~At(a, "saving")
                                  THEN call[a].prevFormat ELSE @]

RestoreFormat(a) ==
  format' = [format EXCEPT ![a] = IF Info(a).api = "json" THEN call[a].prevFormat ELSE @]

Ends(a, fate) ==
  /\ SetFate(a, fate)
  /\ call' = [call EXCEPT ![a] = Idle]

Return(a, fate) == Ends(a, fate) /\ RestoreFormat(a)

Dropped(a, fate) == Ends(a, fate) /\ UNCHANGED format

(* The call fails with history as it is. *)
FailsAt(a, s) ==
  /\ At(a, s)
  /\ Return(a, "rejected")
  /\ UNCHANGED <<history, session, store, cleared>>

(* A fresh turn t is asked through the api, in a call with these locals. *)
Begin(a, t, api, locals) ==
  /\ At(a, "idle") /\ api \in MayCall
  /\ turns[t].fate = "unasked"
  /\ turns' = [turns EXCEPT ![t] = [by |-> a, session |-> session[a], api |-> api,
                                    vetted |-> {}, fate |-> "running"]]
  /\ call' = [call EXCEPT ![a] = locals]

Waiting(s, t) == Locals(s, t, "text", <<>>)

-----------------------------------------------------------------------------
(***************************************************************************)
(* ask, up to the first call of the model.                                 *)
(***************************************************************************)

(* ask and ask_text, up to the await of the input guardrails. *)
Ask(a, t) ==
  /\ Begin(a, t, "ask", Waiting("screening", t))
  /\ UNCHANGED <<history, session, format, store, cleared>>

(* ask_json: the JSON response format is set for the ask it wraps. *)
AskJson(a, t) ==
  /\ Begin(a, t, "json", Locals("screening", t, format[a], <<>>))
  /\ format' = [format EXCEPT ![a] = "json"]
  /\ UNCHANGED <<history, session, store, cleared>>

(* The input guardrails block the question, or one of them fails. *)
InputBlocked(a) == FailsAt(a, "screening")

(* build_request: the whole history, after the system prompt, and the      *)
(* response format the agent has now.  Nothing changes it while the model  *)
(* is awaited.                                                             *)
BuildRequest(a) == [messages |-> history[a], format |-> format[a]]

(* history.push(user), and the model is called with the whole history. *)
StartLoop(a, h) ==
  /\ history' = [history EXCEPT ![a] = Append(h, User(Turn(a)))]
  /\ Goto(a, "chatting")

(* They let it pass: a session loads first, otherwise the loop starts. *)
InputPasses(a) ==
  /\ At(a, "screening")
  /\ turns' = [turns EXCEPT ![Turn(a)].vetted = @ \cup {"input"}]
  /\ IF Bound(a)
     THEN Goto(a, "loading") /\ UNCHANGED history
     ELSE StartLoop(a, history[a])
  /\ UNCHANGED <<session, format, store, cleared>>

(* Mutated: the session is only loaded when nothing is held locally. *)
LoadOkUnlessCached(a) ==
  /\ At(a, "loading") /\ Info(a).api # "stream"
  /\ StartLoop(a, IF history[a] = <<>> THEN store[session[a]] ELSE history[a])
  /\ UNCHANGED <<session, format, store, turns, cleared>>

(* Mutated: what was loaded is dropped. *)
LoadOkForgotten(a) ==
  /\ At(a, "loading") /\ Info(a).api # "stream"
  /\ StartLoop(a, <<>>)
  /\ UNCHANGED <<session, format, store, turns, cleared>>

(* load_messages answers: the local history is replaced. *)
LoadOk(a) ==
  /\ At(a, "loading") /\ Info(a).api # "stream"
  /\ StartLoop(a, store[session[a]])
  /\ UNCHANGED <<session, format, store, turns, cleared>>

(* load_messages fails: ask and stream return before they touch history. *)
LoadFails(a) == FailsAt(a, "loading")

-----------------------------------------------------------------------------
(***************************************************************************)
(* The tool loop of ask.                                                   *)
(***************************************************************************)

(* client.chat fails, or the response has no choice.  History keeps what   *)
(* the call pushed so far.                                                 *)
ChatFails(a) == FailsAt(a, "chatting")

(* The model requests n tools in a round the budget allows. *)
ModelCallsTools(a, n) ==
  /\ At(a, "chatting")
  /\ call[a].rounds < MaxToolRounds
  /\ Push(a, Calls(Turn(a), n))
  /\ call' = [call EXCEPT ![a] =
               [call[a] EXCEPT !.rounds = @ + 1, !.left = n, !.at = "tools"]]
  /\ UNCHANGED <<session, format, store, turns, cleared>>

(* Mutated: the history is saved before the budget is checked. *)
ToolLoopExceededSaved(a, n) ==
  /\ At(a, "chatting")
  /\ call[a].rounds >= MaxToolRounds
  /\ Push(a, Calls(Turn(a), n))
  /\ store' = IF Bound(a) THEN [store EXCEPT ![session[a]] = history'[a]] ELSE store
  /\ Return(a, "rejected")
  /\ UNCHANGED <<session, cleared>>

(* ToolLoopExceeded: the request is pushed before the budget is checked. *)
ToolLoopExceeded(a, n) ==
  /\ At(a, "chatting")
  /\ call[a].rounds >= MaxToolRounds
  /\ Push(a, Calls(Turn(a), n))
  /\ Return(a, "rejected")
  /\ UNCHANGED <<session, store, cleared>>

(* Mutated: the model is called again after the first reply. *)
FirstToolReplies(a) ==
  /\ At(a, "tools")
  /\ Push(a, ToolMsg(Turn(a), call[a].left))
  /\ call' = [call EXCEPT ![a].left = 0, ![a].at = "chatting"]
  /\ UNCHANGED <<session, format, store, turns, cleared>>

(* A tool answers; after the last one the model is called again. *)
ToolReplies(a) ==
  /\ At(a, "tools")
  /\ Push(a, ToolMsg(Turn(a), call[a].left))
  /\ call' = [call EXCEPT ![a] =
               [call[a] EXCEPT !.left = @ - 1,
                               !.at = IF call[a].left = 1 THEN "chatting" ELSE "tools"]]
  /\ UNCHANGED <<session, format, store, turns, cleared>>

(* UnknownTool, InvalidToolArguments, or the tool's own error. *)
ToolFails(a) == FailsAt(a, "tools")

(* Mutated: after a tool round the draft skips the output guardrails. *)
ModelAnswersUnchecked(a) ==
  /\ At(a, "chatting")
  /\ IF call[a].rounds > 0 /\ Bound(a)
     THEN Push(a, Answer(Turn(a))) /\ Goto(a, "saving")
     ELSE Goto(a, "vetting") /\ UNCHANGED history
  /\ UNCHANGED <<session, format, store, turns, cleared>>

(* A response without tool calls is the draft answer. *)
ModelAnswers(a) ==
  /\ At(a, "chatting")
  /\ Goto(a, "vetting")
  /\ UNCHANGED <<history, session, format, store, turns, cleared>>

(* The output guardrails block the draft, or one of them fails. *)
OutputBlocked(a) == FailsAt(a, "vetting")

OutputPasses(a) ==
  /\ At(a, "vetting")
  /\ Push(a, Answer(Turn(a)))
  /\ turns' = [turns EXCEPT ![Turn(a)].vetted = @ \cup {"output"}]
  /\ Goto(a, IF Bound(a) THEN "saving" ELSE "composing")
  /\ UNCHANGED <<session, format, store, cleared>>

(* save_messages replaces what the session holds. *)
StoreSave(a) == store' = [store EXCEPT ![session[a]] = history[a]]

SaveOk(a) ==
  /\ At(a, "saving")
  /\ StoreSave(a)
  /\ SetFate(a, "saved")
  /\ Goto(a, "composing")
  /\ UNCHANGED <<history, session, format, cleared>>

SaveFails(a) ==
  /\ At(a, "saving")
  /\ StoreSave(a) \/ UNCHANGED store
  /\ Return(a, "unsure")
  /\ UNCHANGED <<history, session, cleared>>

(* compose_response: the composer may fail after the turn was saved. *)
Compose(a) ==
  /\ At(a, "composing")
  /\ Return(a, "answered") \/ Return(a, "unsure")
  /\ UNCHANGED <<history, session, store, cleared>>

(* The caller drops the ask at an await: nothing of it runs any more. *)
DropAsk(a) ==
  /\ call[a].at \in AskStates \cup {"screening", "loading"}
  /\ Info(a).api # "stream"
  /\ \/ At(a, "saving") /\ StoreSave(a)
     \/ UNCHANGED store
  /\ Dropped(a, IF call[a].at \in {"saving", "composing"} THEN "cut" ELSE "abandoned")
  /\ UNCHANGED <<history, session, cleared>>

-----------------------------------------------------------------------------
(***************************************************************************)
(* stream and AgentStream.  Neither guardrails nor the composer take part. *)
(***************************************************************************)

(* Mutated: the length is taken after the question is pushed. *)
OpeningLate(t, h) ==
  [Locals("opening", t, "text", h) EXCEPT !.initialLen = @ + 1]

(* initial_history_len is taken, the question pushed, the stream opened. *)
Opening(t, h) == Locals("opening", t, "text", h)

Stream(a, t) ==
  /\ IF Bound(a)
     THEN /\ Begin(a, t, "stream", Waiting("loading", t))
          /\ UNCHANGED history
     ELSE /\ Begin(a, t, "stream", Opening(t, history[a]))
          /\ Push(a, User(t))
  /\ UNCHANGED <<session, format, store, cleared>>

(* Mutated: what was loaded is appended to the local history. *)
StreamLoadAppends(a) ==
  /\ At(a, "loading") /\ Info(a).api = "stream"
  /\ LET h == history[a] \o store[session[a]] IN
     /\ history' = [history EXCEPT ![a] = Append(h, User(Turn(a)))]
     /\ call' = [call EXCEPT ![a] = Opening(Turn(a), h)]
  /\ UNCHANGED <<session, format, store, turns, cleared>>

StreamLoadOk(a) ==
  /\ At(a, "loading") /\ Info(a).api = "stream"
  /\ LET h == store[session[a]] IN
     /\ history' = [history EXCEPT ![a] = Append(h, User(Turn(a)))]
     /\ call' = [call EXCEPT ![a] = Opening(Turn(a), h)]
  /\ UNCHANGED <<session, format, store, turns, cleared>>

OpenOk(a) ==
  /\ At(a, "opening")
  /\ Goto(a, "streaming")
  /\ UNCHANGED <<history, session, format, store, turns, cleared>>

(* history.truncate(initial_history_len), in stream and in Drop. *)
Rollback(a) ==
  history' = [history EXCEPT ![a] = Truncate(@, call[a].initialLen)]

(* The stream does not open; or the AgentStream is dropped before it is    *)
(* finished: by its owner, or by finish() when draining fails or finish()  *)
(* itself is dropped.                                                      *)
StreamFails(a) ==
  /\ call[a].at \in {"opening", "streaming", "draining"}
  /\ Rollback(a)
  /\ Return(a, "rejected")
  /\ UNCHANGED <<session, store, cleared>>

(* The future of stream() is dropped: before the AgentStream exists there  *)
(* is no destructor to roll the question back.                             *)
DropOpening(a) ==
  /\ call[a].at \in {"loading", "opening"} /\ Info(a).api = "stream"
  /\ Dropped(a, "abandoned")
  /\ UNCHANGED <<history, session, store, cleared>>

(* finish() first drains the stream; next_text touches no agent state. *)
Finish(a) ==
  /\ At(a, "streaming")
  /\ Goto(a, "draining")
  /\ UNCHANGED <<history, session, format, store, turns, cleared>>

(* The stream ended: the answer is pushed and, with a session, saved. *)
Drained(a) ==
  /\ At(a, "draining")
  /\ Push(a, Answer(Turn(a)))
  /\ IF Bound(a)
     THEN Goto(a, "finishing") /\ UNCHANGED <<turns, format>>
     ELSE Return(a, "answered")
  /\ UNCHANGED <<session, store, cleared>>

FinishOk(a) ==
  /\ At(a, "finishing")
  /\ StoreSave(a)
  /\ Return(a, "answered")
  /\ UNCHANGED <<history, session, cleared>>

(* The save fails, or the future of finish() is dropped while it saves. *)
FinishFails(a) ==
  /\ At(a, "finishing")
  /\ StoreSave(a) \/ UNCHANGED store
  /\ Rollback(a)
  /\ Return(a, "unsure")
  /\ UNCHANGED <<session, cleared>>

-----------------------------------------------------------------------------
Step(a) ==
  \/ \E s \in Sessions : SetSession(a, s)
  \/ ClearHistory(a) \/ ClearSession(a) \/ ClearReturns(a)
  \/ \E t \in Turns : Ask(a, t) \/ AskJson(a, t) \/ Stream(a, t)
  \/ InputBlocked(a) \/ InputPasses(a) \/ LoadOk(a) \/ LoadFails(a)
  \/ ChatFails(a) \/ ModelAnswers(a)
  \/ \E n \in 1..MaxCalls : ModelCallsTools(a, n) \/ ToolLoopExceeded(a, n)
  \/ ToolReplies(a) \/ ToolFails(a)
  \/ OutputBlocked(a) \/ OutputPasses(a)
  \/ SaveOk(a) \/ SaveFails(a) \/ Compose(a) \/ DropAsk(a)
  \/ StreamLoadOk(a) \/ OpenOk(a) \/ StreamFails(a) \/ DropOpening(a)
  \/ Finish(a) \/ Drained(a) \/ FinishOk(a) \/ FinishFails(a)

Next == \E a \in Agents : Step(a)

Spec == Init /\ [][Next]_vars

-----------------------------------------------------------------------------
(***************************************************************************)
(* Properties.                                                             *)
(***************************************************************************)

(* Type correctness of every variable of the runtime. *)
TypeOK ==
  /\ history \in [Agents -> Seq(Message)]
  /\ session \in [Agents -> Sessions \cup {None}]
  /\ format \in [Agents -> Formats]
  /\ call \in [Agents -> Call]
  /\ store \in [Sessions -> Seq(Message)]
  /\ turns \in [Turns -> TurnInfo]
  /\ cleared \in SUBSET (Turns \X SUBSET (Turns \cup {None}))

(* A session store never holds a question without its answer, a requested  *)
(* tool call without its reply, or half a turn, whatever call failed, was  *)
(* dropped or ran concurrently: ask and finish save only complete turns.   *)
StoredTranscriptsComplete == \A s \in Sessions : Closed(store[s])

(* The call failed or was dropped and left no answer. *)
Failed(t) == turns[t].fate \in {"unsure", "cut", "rejected", "abandoned"}

(* An agent is asking the model, with build_request().                     *)
Requesting(a) == call[a].at \in {"chatting", "opening"}

(* What the model is sent obeys the protocol of the chat API, for an agent *)
(* with a session always, because load_messages replaces what a failed ask *)
(* left behind; for one without, as long as its history keeps no failed    *)
(* turn - and streams that fail keep none, because they roll back.         *)
RequestsWellPaired ==
  \A a \in Agents :
    LET sent == BuildRequest(a).messages IN
    /\ Requesting(a)
    /\ Bound(a) \/ \A t \in TurnsIn(sent) : ~Failed(t)
    => /\ WellPaired(sent)
       /\ sent # <<>> /\ ModelMaySpeak(sent[Len(sent)])

(* No transcript leaks into another session, neither into what is stored   *)
(* nor into what the model is sent, although set_session keeps the local   *)
(* history of the session before.                                          *)
SessionIsolation ==
  /\ \A s \in Sessions : \A t \in TurnsIn(store[s]) : turns[t].session = s
  /\ \A a \in Agents :
       Requesting(a) /\ Bound(a)
       => \A t \in TurnsIn(BuildRequest(a).messages) : turns[t].session = session[a]

(* A turn whose call failed or was dropped before it tried to save is in   *)
(* no store, ever: no later call of this or another agent, which may start *)
(* from a history that still holds it, writes it.                          *)
FailedTurnsLeaveNoTrace ==
  \A s \in Sessions : \A t \in TurnsIn(store[s]) : turns[t].fate \in Persistable

(* A turn is stored once: no retry, reload or save of a session writes its *)
(* question or its answer a second time.                                   *)
StoredTurnsDistinct ==
  \A s \in Sessions : \A i, j \in 1..Len(store[s]) :
    /\ store[s][i].turn = store[s][j].turn
    /\ store[s][i].role = store[s][j].role
    /\ store[s][i].role \in {"user", "answer"}
    => i = j

(* A stored turn put through ask or ask_json passed the guardrails at both *)
(* stages.                                                                 *)
AskedTurnsVetted ==
  \A s \in Sessions : \A t \in TurnsIn(store[s]) :
    turns[t].api # "stream" => turns[t].vetted = Stages

(* A plain ask runs in JSON mode only if an ask_json of the same agent was *)
(* dropped before, at whatever await: every return of ask_json, Ok or Err, *)
(* a failed save or composer included, restores the response format.       *)
JsonModeLeaksOnlyByDrop ==
  \A a \in Agents :
    call[a].at = "chatting" /\ Info(a).api = "ask" /\ BuildRequest(a).format = "json"
    => \E t \in Turns : /\ turns[t].by = a /\ turns[t].api = "json"
                        /\ turns[t].fate \in {"abandoned", "cut"}

(* A stream that ends without an answer leaves the history it started from *)
(* (the one exception is a future of stream() dropped before it returns).  *)
StreamRollsBack ==
  [][\A a \in Agents :
       /\ call[a].at \in StreamStates /\ call'[a].at = "idle"
       /\ turns'[Turn(a)].fate \in {"rejected", "unsure"}
       => history'[a] = call[a].opened]_vars

(* An answered turn of a session stays in its store until the session is   *)
(* cleared: the next save of the session contains it.                      *)
NoAnsweredTurnLost ==
  \A t \in Turns : turns[t].fate = "answered" /\ turns[t].session # None
    => t \in TurnsIn(store[turns[t].session]) \cup {c[1] : c \in cleared}

(* What a clear removed comes back only through a call that had loaded the *)
(* session before: its turn is there too.  Agents that are idle when       *)
(* another one clears the session may hold the turns in their own history, *)
(* and never write them back.                                              *)
ClearedReturnsByRaceOnly ==
  \A s \in Sessions : \A c \in cleared :
    c[1] \in TurnsIn(store[s]) => TurnsIn(store[s]) \cap c[2] # {}
=============================================================================
