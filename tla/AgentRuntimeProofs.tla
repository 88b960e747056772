------------------------- MODULE AgentRuntimeProofs -------------------------
(***************************************************************************)
(* Proofs about AgentRuntime, for any agents, sessions, turns, bindings    *)
(* and bounds: types, the transcripts the agents keep and the store holds  *)
(* (what is stored is complete turns, a stream that fails rolls back), and *)
(* whose turns a session may hold.                                         *)
(***************************************************************************)
EXTENDS AgentRuntime, TLAPS

-----------------------------------------------------------------------------
(***************************************************************************)
(* Facts about transcripts.                                                *)
(***************************************************************************)

(* The constructors build messages. *)
LEMMA MessageType ==
  ASSUME NEW t \in Turns
  PROVE  /\ User(t) \in Message
         /\ Answer(t) \in Message
         /\ \A n \in 0..MaxCalls : Calls(t, n) \in Message /\ ToolMsg(t, n) \in Message
BY MaxCallsAssumption DEF User, Answer, Calls, ToolMsg, Message, Roles

(* Vec::truncate keeps a transcript a transcript. *)
LEMMA TruncateType ==
  ASSUME NEW h \in Seq(Message), NEW n \in Nat
  PROVE  Truncate(h, n) \in Seq(Message)
BY DEF Truncate

(* The turns of a transcript are turns. *)
LEMMA TurnsInType ==
  ASSUME NEW h \in Seq(Message)
  PROVE  TurnsIn(h) \subseteq Turns
<1>1. \A i \in 1..Len(h) : h[i] \in Message
  OBVIOUS
<1> QED BY <1>1 DEF TurnsIn, Message

LEMMA AppendType ==
  ASSUME NEW h \in Seq(Message), NEW m \in Message
  PROVE  Append(h, m) \in Seq(Message)
OBVIOUS

-----------------------------------------------------------------------------
(***************************************************************************)
(* Type correctness.                                                       *)
(***************************************************************************)

(* The locals a call starts with. *)
LEMMA LocalsType ==
  ASSUME NEW s \in States, NEW t \in Turns \cup {None}, NEW f \in Formats,
         NEW h \in Seq(Message)
  PROVE  Locals(s, t, f, h) \in Call
BY MaxCallsAssumption, RoundsAssumption DEF Locals, Call

LEMMA IdleType == Idle \in Call
<1>1. "idle" \in States /\ "text" \in Formats /\ <<>> \in Seq(Message)
  BY DEF States, Formats
<1> QED BY <1>1, LocalsType DEF Idle

(* The locals ask, ask_json and stream start with. *)
LEMMA StartType ==
  ASSUME NEW t \in Turns
  PROVE  /\ Waiting("screening", t) \in Call
         /\ Waiting("loading", t) \in Call
         /\ \A f \in Formats : Locals("screening", t, f, <<>>) \in Call
         /\ \A h \in Seq(Message) : Opening(t, h) \in Call
<1>1. {"screening", "loading", "opening"} \subseteq States
  BY DEF States, StreamStates
<1>2. "text" \in Formats /\ <<>> \in Seq(Message)
  BY DEF Formats
<1> QED BY <1>1, <1>2, LocalsType DEF Waiting, Opening

(* A fresh turn that begins leaves call and turns well typed. *)
LEMMA BeginType ==
  ASSUME TypeOK, NEW a \in Agents, NEW t \in Turns, NEW api \in Apis,
         NEW locals \in Call, Begin(a, t, api, locals)
  PROVE  call' \in [Agents -> Call] /\ turns' \in [Turns -> TurnInfo]
<1>1. session[a] \in Sessions \cup {None}
  BY DEF TypeOK
<1>2. [by |-> a, session |-> session[a], api |-> api, vetted |-> {},
       fate |-> "running"] \in TurnInfo
  BY <1>1 DEF TurnInfo, Fates
<1> QED BY <1>2 DEF TypeOK, Begin

(* The updates the actions make to them. *)
LEMMA AtType ==
  ASSUME NEW c \in Call, NEW s \in States
  PROVE  [c EXCEPT !.at = s] \in Call
BY DEF Call

LEMMA LeftType ==
  ASSUME NEW c \in Call, NEW s \in States, c.left \in 1..MaxCalls
  PROVE  [c EXCEPT !.left = @ - 1, !.at = s] \in Call
<1>1. c.left - 1 \in 0..MaxCalls
  BY MaxCallsAssumption
<1> QED BY <1>1 DEF Call

LEMMA RoundType ==
  ASSUME NEW c \in Call, NEW n \in 1..MaxCalls, c.rounds < MaxToolRounds
  PROVE  [c EXCEPT !.rounds = @ + 1, !.left = n, !.at = "tools"] \in Call
<1>1. c.rounds + 1 \in 0..MaxToolRounds
  BY RoundsAssumption DEF Call
<1>2. n \in 0..MaxCalls /\ "tools" \in States
  BY MaxCallsAssumption DEF States, AskStates
<1> QED BY <1>1, <1>2 DEF Call

(* A call that ends, with whatever outcome, leaves call, turns and format  *)
(* well typed.                                                             *)
LEMMA EndsType ==
  ASSUME TypeOK, NEW a \in Agents, NEW f \in Fates, Ends(a, f),
         Turn(a) \in Turns
  PROVE  call' \in [Agents -> Call] /\ turns' \in [Turns -> TurnInfo]
BY IdleType DEF TypeOK, Ends, SetFate, Turn, TurnInfo

LEMMA ReturnType ==
  ASSUME TypeOK, NEW a \in Agents, NEW f \in Fates, Return(a, f),
         Turn(a) \in Turns
  PROVE  /\ call' \in [Agents -> Call] /\ turns' \in [Turns -> TurnInfo]
         /\ format' \in [Agents -> Formats]
<1>1. Ends(a, f) /\ RestoreFormat(a)
  BY DEF Return
<1>2. format' \in [Agents -> Formats]
  BY <1>1 DEF TypeOK, RestoreFormat, Call
<1> QED BY <1>1, <1>2, EndsType

(***************************************************************************)
(* What holds of a running call, besides its type: the turn is the agent's *)
(* own, asked in the session the agent is bound to; it is running, or      *)
(* saved; the store is only awaited with a session; the states of ask and  *)
(* of stream do not mix; and a round awaits the tools it still needs.      *)
(***************************************************************************)
Running(a) == call[a].at \notin {"idle", "clearing"}

OwnTurn(a) ==
  /\ Turn(a) \in Turns
  /\ Info(a).by = a
  /\ Info(a).session = session[a]
  /\ Info(a).fate = IF At(a, "composing") /\ Bound(a) THEN "saved" ELSE "running"

CallOK(a) ==
  /\ Running(a) => OwnTurn(a)
  /\ call[a].at \in {"clearing", "loading", "saving", "finishing"} => Bound(a)
  /\ call[a].at \in StreamStates => Info(a).api = "stream"
  /\ call[a].at \in AskStates \cup {"screening"} => Info(a).api # "stream"
  /\ At(a, "tools") => call[a].left > 0

CallInv == \A a \in Agents : CallOK(a)

(* Where a call goes next leaves it well typed. *)
LEMMA GotoType ==
  ASSUME TypeOK, NEW a \in Agents, NEW s \in States, Goto(a, s)
  PROVE  call' \in [Agents -> Call]
<1>1. call[a] \in Call
  BY DEF TypeOK
<1>2. [call[a] EXCEPT !.at = s] \in Call
  BY <1>1, AtType
<1> QED BY <1>2 DEF TypeOK, Goto

(* What the partial updates of a call and of a turn keep. *)
LEMMA GotoKeeps ==
  ASSUME TypeOK, NEW a \in Agents, NEW s, Goto(a, s)
  PROVE  /\ call'[a].at = s /\ call'[a].turn = call[a].turn
         /\ call'[a].left = call[a].left
         /\ call'[a].opened = call[a].opened
         /\ call'[a].initialLen = call[a].initialLen
         /\ call'[a].prevFormat = call[a].prevFormat
<1>1. call[a] \in Call /\ call'[a] = [call[a] EXCEPT !.at = s]
  BY DEF TypeOK, Goto
<1> QED BY <1>1 DEF Call

LEMMA SetFateKeeps ==
  ASSUME TypeOK, NEW a \in Agents, NEW f, SetFate(a, f), Turn(a) \in Turns
  PROVE  /\ turns'[Turn(a)].fate = f
         /\ turns'[Turn(a)].by = Info(a).by /\ turns'[Turn(a)].api = Info(a).api
         /\ turns'[Turn(a)].session = Info(a).session
<1>1. Info(a) \in TurnInfo /\ turns'[Turn(a)] = [Info(a) EXCEPT !.fate = f]
  BY DEF TypeOK, SetFate, Info, Turn
<1> QED BY <1>1 DEF TurnInfo

LEMMA VettedKeeps ==
  ASSUME TypeOK, NEW a \in Agents, NEW v, Turn(a) \in Turns,
         turns' = [turns EXCEPT ![Turn(a)].vetted = @ \cup v]
  PROVE  /\ turns'[Turn(a)].fate = Info(a).fate
         /\ turns'[Turn(a)].by = Info(a).by /\ turns'[Turn(a)].api = Info(a).api
         /\ turns'[Turn(a)].session = Info(a).session
<1>1. /\ Info(a) \in TurnInfo
      /\ turns'[Turn(a)] = [Info(a) EXCEPT !.vetted = Info(a).vetted \cup v]
  BY DEF TypeOK, Info, Turn
<1> QED BY <1>1 DEF TurnInfo

(* An action of one agent keeps every variable well typed. *)
LEMMA StepType ==
  ASSUME TypeOK, CallInv, NEW a \in Agents, Step(a)
  PROVE  TypeOK'
<1> USE MaxCallsAssumption, RoundsAssumption, NoneAssumption, IdleType
<1>0. CallOK(a)
  BY DEF CallInv
<1>t. Running(a) => Turn(a) \in Turns
  BY <1>0 DEF CallOK, OwnTurn
<1>l. call[a].at \in {"clearing", "loading", "saving", "finishing"}
        => session[a] \in Sessions
  BY <1>0 DEF CallOK, Bound, TypeOK
<1>1. ASSUME NEW s \in Sessions, SetSession(a, s) PROVE TypeOK'
  BY <1>1 DEF TypeOK, SetSession
<1>2. CASE ClearHistory(a)
  BY <1>2 DEF TypeOK, ClearHistory
<1>3. CASE ClearSession(a)
  <2>1. PICK s \in States : Goto(a, s)
    BY <1>3 DEF ClearSession, States
  <2> QED BY <1>3, <2>1, GotoType DEF TypeOK, ClearSession
<1>4. CASE ClearReturns(a)
  <2>1. "idle" \in States
    BY DEF States
  <2>2. store[session[a]] \in Seq(Message)
    BY <1>4, <1>l DEF TypeOK, ClearReturns, At
  <2>3. TurnsIn(store[session[a]]) \subseteq Turns
    BY <2>2, TurnsInType
  <2>4. <<>> \in Seq(Message)
    OBVIOUS
  <2>5. store' \in [Sessions -> Seq(Message)]
    BY <1>4, <2>4 DEF TypeOK, ClearReturns, StoreClear
  <2>6. Racing(a) \subseteq Turns \cup {None}
    BY DEF Racing, Turn, TypeOK, Call
  <2>7. cleared' \in SUBSET (Turns \X SUBSET (Turns \cup {None}))
    BY <1>4, <2>3, <2>6 DEF TypeOK, ClearReturns, StoreClear
  <2> QED BY <1>4, <2>1, <2>5, <2>7, GotoType DEF TypeOK, ClearReturns
<1>5. ASSUME NEW t \in Turns, Ask(a, t) PROVE TypeOK'
  <2>1. Waiting("screening", t) \in Call /\ "ask" \in Apis
    BY StartType DEF Apis, Formats
  <2>2. call' \in [Agents -> Call] /\ turns' \in [Turns -> TurnInfo]
    BY <1>5, <2>1, BeginType DEF Ask
  <2> QED BY <1>5, <2>2 DEF TypeOK, Ask
<1>6. ASSUME NEW t \in Turns, AskJson(a, t) PROVE TypeOK'
  <2>1. format[a] \in Formats /\ "json" \in Apis
    BY DEF TypeOK, Apis
  <2>2. Locals("screening", t, format[a], <<>>) \in Call
    BY <2>1, StartType
  <2>3. call' \in [Agents -> Call] /\ turns' \in [Turns -> TurnInfo]
    BY <1>6, <2>1, <2>2, BeginType DEF AskJson
  <2> QED BY <1>6, <2>3 DEF TypeOK, AskJson, Formats
<1>7. ASSUME NEW t \in Turns, Stream(a, t) PROVE TypeOK'
  <2>1. history[a] \in Seq(Message) /\ Append(history[a], User(t)) \in Seq(Message)
    BY MessageType, AppendType DEF TypeOK
  <2>2. history' \in [Agents -> Seq(Message)]
    BY <1>7, <2>1 DEF TypeOK, Stream, Push
  <2>3. /\ Waiting("loading", t) \in Call /\ Opening(t, history[a]) \in Call
        /\ "stream" \in Apis
    BY <2>1, StartType DEF Apis, Formats
  <2>4. call' \in [Agents -> Call] /\ turns' \in [Turns -> TurnInfo]
    BY <1>7, <2>3, BeginType DEF Stream
  <2> QED BY <1>7, <2>2, <2>4 DEF TypeOK, Stream
<1>8. ASSUME NEW s \in States \ {"idle", "clearing"}, FailsAt(a, s) PROVE TypeOK'
  <2>1. Turn(a) \in Turns /\ "rejected" \in Fates
    BY <1>8, <1>t DEF FailsAt, Running, At, Fates
  <2>2. QED BY <1>8, <2>1, ReturnType DEF FailsAt, TypeOK
<1>9. CASE InputPasses(a)
  <2>1. Turn(a) \in Turns
    BY <1>9, <1>t DEF InputPasses, At, Running
  <2>2. turns' \in [Turns -> TurnInfo]
    BY <1>9, <2>1 DEF TypeOK, InputPasses, TurnInfo, Stages
  <2>3. history' \in [Agents -> Seq(Message)]
    <3>1. Append(history[a], User(Turn(a))) \in Seq(Message)
      BY <2>1, MessageType, AppendType DEF TypeOK
    <3> QED BY <1>9, <3>1 DEF TypeOK, InputPasses, StartLoop
  <2>4. PICK s \in States : Goto(a, s)
    BY <1>9 DEF InputPasses, StartLoop, States, AskStates
  <2> QED BY <1>9, <2>2, <2>3, <2>4, GotoType DEF TypeOK, InputPasses
<1>10. CASE LoadOk(a)
  <2>1. store[session[a]] \in Seq(Message) /\ User(Turn(a)) \in Message
    BY <1>10, <1>l, <1>t, MessageType DEF TypeOK, LoadOk, At, Running
  <2>2. history' \in [Agents -> Seq(Message)]
    BY <1>10, <2>1 DEF TypeOK, LoadOk, StartLoop
  <2>3. call' \in [Agents -> Call]
    BY <1>10 DEF TypeOK, LoadOk, StartLoop, Goto, Call, States, AskStates
  <2> QED BY <1>10, <2>2, <2>3 DEF TypeOK, LoadOk
<1>11. ASSUME NEW n \in 1..MaxCalls, ModelCallsTools(a, n) PROVE TypeOK'
  <2>1. Calls(Turn(a), n) \in Message
    BY <1>11, <1>t, MessageType DEF ModelCallsTools, At, Running
  <2>2. history' \in [Agents -> Seq(Message)]
    BY <1>11, <2>1 DEF TypeOK, ModelCallsTools, Push
  <2>3. call' \in [Agents -> Call]
    <3>1. call[a] \in Call /\ call[a].rounds < MaxToolRounds
      BY <1>11 DEF TypeOK, ModelCallsTools
    <3>2. [call[a] EXCEPT !.rounds = @ + 1, !.left = n, !.at = "tools"] \in Call
      BY <3>1, RoundType
    <3> QED BY <1>11, <3>2 DEF TypeOK, ModelCallsTools
  <2> QED BY <1>11, <2>2, <2>3 DEF TypeOK, ModelCallsTools
<1>12. ASSUME NEW n \in 1..MaxCalls, ToolLoopExceeded(a, n) PROVE TypeOK'
  <2>1. /\ Calls(Turn(a), n) \in Message /\ Turn(a) \in Turns
        /\ "rejected" \in Fates
    BY <1>12, <1>t, MessageType DEF ToolLoopExceeded, At, Running, Fates
  <2>2. history' \in [Agents -> Seq(Message)]
    BY <1>12, <2>1 DEF TypeOK, ToolLoopExceeded, Push
  <2> QED BY <1>12, <2>1, <2>2, ReturnType DEF TypeOK, ToolLoopExceeded
<1>13. CASE ToolReplies(a)
  <2>1. ToolMsg(Turn(a), call[a].left) \in Message
    BY <1>13, <1>t, MessageType DEF TypeOK, ToolReplies, At, Running, Call
  <2>2. history' \in [Agents -> Seq(Message)]
    BY <1>13, <2>1 DEF TypeOK, ToolReplies, Push
  <2>3. call[a].left \in 1..MaxCalls
    BY <1>13, <1>0 DEF TypeOK, ToolReplies, CallOK, Call
  <2>4. call' \in [Agents -> Call]
    <3>1. call[a] \in Call
      BY DEF TypeOK
    <3>2. \A s \in {"chatting", "tools"} :
            [call[a] EXCEPT !.left = @ - 1, !.at = s] \in Call
      BY <2>3, <3>1, LeftType DEF States, AskStates
    <3> QED BY <1>13, <3>2 DEF TypeOK, ToolReplies
  <2> QED BY <1>13, <2>2, <2>4 DEF TypeOK, ToolReplies
<1>14. CASE ModelAnswers(a)
  BY <1>14 DEF TypeOK, ModelAnswers, Goto, Call, States, AskStates
<1>15. CASE OutputPasses(a)
  <2>1. Answer(Turn(a)) \in Message /\ Turn(a) \in Turns
    BY <1>15, <1>t, MessageType DEF OutputPasses, At, Running
  <2>2. history' \in [Agents -> Seq(Message)]
    BY <1>15, <2>1 DEF TypeOK, OutputPasses, Push
  <2>3. call' \in [Agents -> Call]
    BY <1>15 DEF TypeOK, OutputPasses, Goto, Call, States, AskStates
  <2>4. turns' \in [Turns -> TurnInfo]
    BY <1>15, <2>1 DEF TypeOK, OutputPasses, TurnInfo, Stages
  <2> QED BY <1>15, <2>2, <2>3, <2>4 DEF TypeOK, OutputPasses
<1>s. ASSUME StoreSave(a) PROVE store' \in [Sessions -> Seq(Message)]
  BY <1>s DEF TypeOK, StoreSave
<1>16. CASE SaveOk(a)
  <2>1. Turn(a) \in Turns
    BY <1>16, <1>t DEF SaveOk, At, Running
  <2>2. call' \in [Agents -> Call]
    BY <1>16 DEF TypeOK, SaveOk, Goto, Call, States, AskStates
  <2>3. turns' \in [Turns -> TurnInfo]
    BY <1>16, <2>1 DEF TypeOK, SaveOk, SetFate, TurnInfo, Fates
  <2> QED BY <1>16, <1>s, <2>2, <2>3 DEF TypeOK, SaveOk
<1>17. CASE SaveFails(a)
  <2>1. Turn(a) \in Turns /\ "unsure" \in Fates
    BY <1>17, <1>t DEF SaveFails, At, Running, Fates
  <2> QED BY <1>17, <1>s, <2>1, ReturnType DEF TypeOK, SaveFails
<1>18. CASE Compose(a)
  <2>1. Turn(a) \in Turns /\ "unsure" \in Fates /\ "answered" \in Fates
    BY <1>18, <1>t DEF Compose, At, Running, Fates
  <2> QED BY <1>18, <2>1, ReturnType DEF TypeOK, Compose
<1>19. CASE DropAsk(a)
  <2>1. PICK f \in Fates : Ends(a, f)
    BY <1>19 DEF DropAsk, Dropped, Fates
  <2>2. Turn(a) \in Turns
    BY <1>19, <1>t DEF DropAsk, Running, AskStates
  <2> QED BY <1>19, <1>s, <2>1, <2>2, EndsType DEF TypeOK, DropAsk, Dropped
<1>20. CASE StreamLoadOk(a)
  <2>1. /\ store[session[a]] \in Seq(Message)
        /\ Turn(a) \in Turns /\ User(Turn(a)) \in Message
    BY <1>20, <1>l, <1>t, MessageType DEF TypeOK, StreamLoadOk, At, Running
  <2>2. history' \in [Agents -> Seq(Message)]
    BY <1>20, <2>1 DEF TypeOK, StreamLoadOk
  <2>3. Opening(Turn(a), store[session[a]]) \in Call
    BY <2>1, StartType DEF Formats
  <2>4. call' \in [Agents -> Call]
    BY <1>20, <2>3 DEF TypeOK, StreamLoadOk
  <2> QED BY <1>20, <2>2, <2>4 DEF TypeOK, StreamLoadOk
<1>21. CASE OpenOk(a)
  BY <1>21 DEF TypeOK, OpenOk, Goto, Call, States, StreamStates
<1>r. ASSUME Rollback(a) PROVE history' \in [Agents -> Seq(Message)]
  BY <1>r, TruncateType DEF TypeOK, Rollback, Call
<1>22. CASE StreamFails(a)
  <2>1. Turn(a) \in Turns /\ "rejected" \in Fates
    BY <1>22, <1>t DEF StreamFails, Running, Fates
  <2> QED BY <1>22, <1>r, <2>1, ReturnType DEF TypeOK, StreamFails
<1>23. CASE DropOpening(a)
  <2>1. Turn(a) \in Turns /\ "abandoned" \in Fates
    BY <1>23, <1>t DEF DropOpening, Running, Fates
  <2> QED BY <1>23, <2>1, EndsType DEF TypeOK, DropOpening, Dropped
<1>24. CASE Finish(a)
  BY <1>24 DEF TypeOK, Finish, Goto, Call, States, StreamStates
<1>25. CASE Drained(a)
  <2>1. Answer(Turn(a)) \in Message /\ Turn(a) \in Turns /\ "answered" \in Fates
    BY <1>25, <1>t, MessageType DEF Drained, At, Running, Fates
  <2>2. history' \in [Agents -> Seq(Message)]
    BY <1>25, <2>1 DEF TypeOK, Drained, Push
  <2>3. CASE Bound(a)
    <3>1. "finishing" \in States /\ Goto(a, "finishing")
      BY <1>25, <2>3 DEF Drained, States, StreamStates
    <3> QED BY <1>25, <2>2, <2>3, <3>1, GotoType DEF TypeOK, Drained
  <2>4. CASE ~Bound(a)
    BY <1>25, <2>1, <2>2, <2>4, ReturnType DEF TypeOK, Drained
  <2> QED BY <2>3, <2>4
<1>26. CASE FinishOk(a)
  <2>1. Turn(a) \in Turns /\ "answered" \in Fates
    BY <1>26, <1>t DEF FinishOk, At, Running, Fates
  <2> QED BY <1>26, <1>s, <2>1, ReturnType DEF TypeOK, FinishOk
<1>27. CASE FinishFails(a)
  <2>1. Turn(a) \in Turns /\ "unsure" \in Fates
    BY <1>27, <1>t DEF FinishFails, At, Running, Fates
  <2> QED BY <1>27, <1>r, <1>s, <2>1, ReturnType DEF TypeOK, FinishFails
<1>28. {"screening", "loading", "chatting", "tools", "vetting"}
         \subseteq States \ {"idle", "clearing"}
  BY DEF States, AskStates
<1> QED
  BY <1>1, <1>2, <1>3, <1>4, <1>5, <1>6, <1>7, <1>8, <1>9, <1>10, <1>11, <1>12,
     <1>13, <1>14, <1>15, <1>16, <1>17, <1>18, <1>19, <1>20, <1>21, <1>22, <1>23,
     <1>24, <1>25, <1>26, <1>27, <1>28
  DEF Step, InputBlocked, LoadFails, ChatFails, ToolFails, OutputBlocked

-----------------------------------------------------------------------------
(***************************************************************************)
(* A step of one agent leaves what the other agents hold alone, and of the *)
(* turns changes only its own or one nobody asked yet.                     *)
(***************************************************************************)
TurnFrame(a, t) ==
  \/ turns'[t] = turns[t]
  \/ turns[t].fate = "unasked"
  \/ Running(a) /\ t = Turn(a)

Frame(a) ==
  /\ \A b \in Agents \ {a} :
       history'[b] = history[b] /\ session'[b] = session[b] /\ call'[b] = call[b]
  /\ \A t \in Turns : TurnFrame(a, t)

LEMMA StepFrame ==
  ASSUME TypeOK, NEW a \in Agents, Step(a)
  PROVE  Frame(a)
<1>e. ASSUME NEW f, Ends(a, f), Running(a)
      PROVE  /\ \A b \in Agents \ {a} : call'[b] = call[b]
             /\ \A t \in Turns : TurnFrame(a, t)
  BY <1>e DEF Ends, SetFate, TypeOK, TurnFrame
<1>g. ASSUME NEW s, Goto(a, s) PROVE \A b \in Agents \ {a} : call'[b] = call[b]
  BY <1>g DEF Goto, TypeOK
<1>h. ASSUME NEW h, history' = [history EXCEPT ![a] = h]
      PROVE  \A b \in Agents \ {a} : history'[b] = history[b]
  BY <1>h DEF TypeOK
<1>f. ASSUME NEW s, s \notin {"idle", "clearing"}, FailsAt(a, s) PROVE Frame(a)
  BY <1>f, <1>e DEF Frame, TurnFrame, FailsAt, Return, Running, At
<1>1. CASE \E s \in Sessions : SetSession(a, s)
  BY <1>1 DEF Frame, TurnFrame, SetSession, TypeOK
<1>2. CASE ClearHistory(a) \/ ClearSession(a) \/ ClearReturns(a)
  BY <1>2, <1>g, <1>h DEF Frame, TurnFrame, ClearHistory, ClearSession, ClearReturns
<1>3. CASE \E t \in Turns : Ask(a, t) \/ AskJson(a, t) \/ Stream(a, t)
  <2>1. PICK t \in Turns : \E api, c : Begin(a, t, api, c)
    BY <1>3 DEF Ask, AskJson, Stream
  <2>2. /\ \A b \in Agents \ {a} : call'[b] = call[b]
        /\ \A u \in Turns : turns'[u] = turns[u] \/ turns[u].fate = "unasked"
    BY <2>1 DEF Begin, TypeOK
  <2> QED BY <1>3, <2>2, <1>h DEF Frame, TurnFrame, Ask, AskJson, Stream, Push
<1>4. CASE InputPasses(a) \/ LoadOk(a) \/ StreamLoadOk(a)
  BY <1>4, <1>g, <1>h
  DEF Frame, TurnFrame, InputPasses, LoadOk, StreamLoadOk, StartLoop, Running, At, TypeOK
<1>5. CASE ModelAnswers(a) \/ OpenOk(a) \/ Finish(a)
  BY <1>5, <1>g DEF Frame, TurnFrame, ModelAnswers, OpenOk, Finish
<1>6. CASE \E n \in 1..MaxCalls : ModelCallsTools(a, n) \/ ToolLoopExceeded(a, n)
  BY <1>6, <1>e, <1>h
  DEF Frame, TurnFrame, ModelCallsTools, ToolLoopExceeded, Push, Return, Running, At, TypeOK
<1>7. CASE ToolReplies(a)
  BY <1>7, <1>h DEF Frame, TurnFrame, ToolReplies, Push, TypeOK
<1>8. CASE OutputPasses(a) \/ SaveOk(a)
  BY <1>8, <1>g, <1>h
  DEF Frame, TurnFrame, OutputPasses, SaveOk, Push, SetFate, Running, At, TypeOK
<1>9. CASE SaveFails(a) \/ Compose(a) \/ FinishOk(a)
  BY <1>9, <1>e DEF Frame, TurnFrame, SaveFails, Compose, FinishOk, Return, Running, At
<1>10. CASE DropAsk(a) \/ DropOpening(a)
  BY <1>10, <1>e DEF Frame, TurnFrame, DropAsk, DropOpening, Dropped, Running, AskStates
<1>11. CASE StreamFails(a) \/ FinishFails(a)
  BY <1>11, <1>e, <1>h
  DEF Frame, TurnFrame, StreamFails, FinishFails, Rollback, Return, Running, At
<1>12. CASE Drained(a)
  BY <1>12, <1>e, <1>g, <1>h DEF Frame, TurnFrame, Drained, Push, Return, Running, At
<1> QED
  BY <1>f, <1>1, <1>2, <1>3, <1>4, <1>5, <1>6, <1>7, <1>8, <1>9, <1>10, <1>11, <1>12
  DEF Step, InputBlocked, LoadFails, ChatFails, ToolFails, OutputBlocked

(* What CallOK says of another agent is not disturbed. *)
LEMMA OthersCallOK ==
  ASSUME TypeOK, CallInv, NEW a \in Agents, NEW b \in Agents \ {a}, Step(a)
  PROVE  CallOK(b)'
<1>1. /\ call'[b] = call[b] /\ session'[b] = session[b]
      /\ \A t \in Turns : TurnFrame(a, t)
  BY StepFrame DEF Frame
<1>2. CallOK(a) /\ CallOK(b)
  BY DEF CallInv
<1>3. CASE Running(b)
  <2>1. OwnTurn(b)
    BY <1>2, <1>3 DEF CallOK
  <2>2. turns'[Turn(b)] = turns[Turn(b)]
    BY <1>1, <1>2, <2>1 DEF CallOK, OwnTurn, Turn, Info, Running, TurnFrame
  <2> QED BY <1>1, <1>2, <2>1, <2>2
          DEF CallOK, OwnTurn, Turn, Info, Running, At, Bound
<1>4. CASE ~Running(b)
  BY <1>1, <1>2, <1>4 DEF CallOK, Running, At, Bound, StreamStates, AskStates
<1> QED BY <1>3, <1>4

(* Nor what it says of the agent that takes the step. *)
LEMMA OwnCallOK ==
  ASSUME TypeOK, CallInv, NEW a \in Agents, Step(a)
  PROVE  CallOK(a)'
<1>0. CallOK(a) /\ TypeOK'
  BY StepType DEF CallInv
<1>t. Running(a) => Turn(a) \in Turns
  BY <1>0 DEF CallOK, OwnTurn
<1>i. ASSUME call'[a].at = "idle" PROVE CallOK(a)'
  BY <1>i DEF CallOK, Running, At, AskStates, StreamStates
<1>e. ASSUME NEW f, Ends(a, f) PROVE CallOK(a)'
  BY <1>e, <1>i DEF Ends, Idle, Locals, TypeOK
<1>f. ASSUME NEW s, FailsAt(a, s) PROVE CallOK(a)'
  BY <1>f, <1>e DEF FailsAt, Return
<1>1. CASE \E s \in Sessions : SetSession(a, s)
  BY <1>1, <1>i DEF SetSession, At
<1>2. CASE ClearHistory(a) \/ ClearReturns(a)
  BY <1>2, <1>i, GotoKeeps DEF ClearHistory, ClearReturns, At
<1>3. CASE ClearSession(a)
  BY <1>3, <1>0
  DEF ClearSession, Goto, At, Bound, TypeOK, CallOK, Running, AskStates, StreamStates
<1>4. CASE \E t \in Turns : Ask(a, t) \/ AskJson(a, t) \/ Stream(a, t)
  <2>1. PICK t \in Turns, api \in Apis, s \in {"screening", "loading", "opening"} :
          /\ \E f, h : Begin(a, t, api, Locals(s, t, f, h))
          /\ s = "loading" => Bound(a)
          /\ s = "screening" <=> api # "stream"
          /\ session' = session
    BY <1>4 DEF Ask, AskJson, Stream, Waiting, Opening, Apis
  <2>2. /\ call'[a].at = s /\ call'[a].turn = t
        /\ turns'[t] = [by |-> a, session |-> session[a], api |-> api,
                        vetted |-> {}, fate |-> "running"]
    BY <2>1 DEF Begin, Locals, TypeOK
  <2> QED BY <2>1, <2>2
          DEF CallOK, OwnTurn, Turn, Info, Running, At, Bound, AskStates, StreamStates
<1>5. CASE InputPasses(a)
  <2>1. /\ call'[a].at \in {"loading", "chatting"} /\ call'[a].turn = call[a].turn
        /\ call'[a].at = "loading" => Bound(a)
        /\ session' = session
        /\ At(a, "screening")
        /\ turns' = [turns EXCEPT ![Turn(a)].vetted = @ \cup {"input"}]
    <3>1. \E s \in {"loading", "chatting"} : Goto(a, s) /\ (s = "loading" => Bound(a))
      BY <1>5 DEF InputPasses, StartLoop
    <3> QED BY <1>5, <3>1, GotoKeeps DEF InputPasses
  <2>2. /\ turns'[Turn(a)].by = Info(a).by /\ turns'[Turn(a)].api = Info(a).api
        /\ turns'[Turn(a)].fate = Info(a).fate
        /\ turns'[Turn(a)].session = Info(a).session
    BY <2>1, <1>t, VettedKeeps DEF Running, At
  <2> QED BY <2>1, <2>2, <1>0
          DEF CallOK, OwnTurn, Turn, Info, Running, At, Bound, AskStates, StreamStates
<1>6. CASE LoadOk(a) \/ ModelAnswers(a) \/ OpenOk(a) \/ Finish(a)
  <2>1. turns' = turns /\ session' = session
    BY <1>6 DEF LoadOk, ModelAnswers, OpenOk, Finish
  <2>2. CASE LoadOk(a) \/ ModelAnswers(a)
    <3>1. /\ call'[a].at \in {"chatting", "vetting"}
          /\ call'[a].turn = call[a].turn
      <4>1. Goto(a, "chatting") \/ Goto(a, "vetting")
        BY <2>2 DEF LoadOk, ModelAnswers, StartLoop
      <4> QED BY <4>1, GotoKeeps
    <3>2. Info(a).api # "stream" /\ call[a].at \in {"loading", "chatting"}
      BY <2>2, <1>0 DEF LoadOk, ModelAnswers, At, CallOK, AskStates
    <3> QED BY <2>1, <3>1, <3>2, <1>0
            DEF CallOK, OwnTurn, Turn, Info, Running, At, AskStates, StreamStates
  <2>3. CASE OpenOk(a) \/ Finish(a)
    <3>1. /\ call'[a].at \in {"streaming", "draining"}
          /\ call'[a].turn = call[a].turn
      BY <2>3, GotoKeeps DEF OpenOk, Finish
    <3>2. Info(a).api = "stream" /\ call[a].at \in {"opening", "streaming"}
      BY <2>3, <1>0 DEF OpenOk, Finish, At, CallOK, StreamStates
    <3> QED BY <2>1, <3>1, <3>2, <1>0
            DEF CallOK, OwnTurn, Turn, Info, Running, At, AskStates, StreamStates
  <2> QED BY <1>6, <2>2, <2>3
<1>7. CASE \E n \in 1..MaxCalls : ModelCallsTools(a, n)
  <2>1. /\ At(a, "chatting") /\ turns' = turns /\ session' = session
        /\ call'[a].at = "tools" /\ call'[a].turn = call[a].turn
        /\ call'[a].left > 0
    BY <1>7 DEF ModelCallsTools, TypeOK, Call
  <2> QED BY <2>1, <1>0
          DEF CallOK, OwnTurn, Turn, Info, Running, At, AskStates, StreamStates
<1>8. CASE ToolReplies(a)
  <2>1. /\ At(a, "tools") /\ turns' = turns /\ session' = session
        /\ call'[a].at = IF call[a].left = 1 THEN "chatting" ELSE "tools"
        /\ call'[a].turn = call[a].turn /\ call'[a].left = call[a].left - 1
        /\ call[a].left \in Nat
    BY <1>8, MaxCallsAssumption DEF ToolReplies, TypeOK, Call
  <2> QED BY <2>1, <1>0
          DEF CallOK, OwnTurn, Turn, Info, Running, At, AskStates, StreamStates
<1>9. CASE OutputPasses(a)
  <2>1. PICK s \in {"saving", "composing"} :
          Goto(a, s) /\ (Bound(a) <=> s = "saving") /\ At(a, "vetting")
    BY <1>9 DEF OutputPasses
  <2>2. call'[a].at = s /\ call'[a].turn = call[a].turn /\ session' = session
    BY <1>9, <2>1, GotoKeeps DEF OutputPasses
  <2>3. /\ turns'[Turn(a)].by = Info(a).by /\ turns'[Turn(a)].api = Info(a).api
        /\ turns'[Turn(a)].fate = Info(a).fate
        /\ turns'[Turn(a)].session = Info(a).session
    BY <1>9, <1>t, VettedKeeps DEF OutputPasses, Running, At
  <2> QED BY <2>1, <2>2, <2>3, <1>0
          DEF CallOK, OwnTurn, Turn, Info, Running, At, Bound, AskStates, StreamStates
<1>10. CASE SaveOk(a)
  <2>1. call'[a].at = "composing" /\ call'[a].turn = call[a].turn /\ session' = session
    BY <1>10, GotoKeeps DEF SaveOk
  <2>2. /\ turns'[Turn(a)].by = Info(a).by /\ turns'[Turn(a)].api = Info(a).api
        /\ turns'[Turn(a)].fate = "saved"
        /\ turns'[Turn(a)].session = Info(a).session
    BY <1>10, <1>t, SetFateKeeps DEF SaveOk, Running, At
  <2> QED BY <1>10, <2>1, <2>2, <1>0
          DEF SaveOk, CallOK, OwnTurn, Turn, Info, Running, At, Bound, AskStates,
              StreamStates
<1>11. CASE StreamLoadOk(a)
  <2>1. /\ At(a, "loading") /\ Info(a).api = "stream"
        /\ turns' = turns /\ session' = session
        /\ call'[a].at = "opening" /\ call'[a].turn = call[a].turn
    BY <1>11 DEF StreamLoadOk, Opening, Locals, TypeOK, Turn
  <2> QED BY <2>1, <1>0
          DEF CallOK, OwnTurn, Turn, Info, Running, At, AskStates, StreamStates
<1>12. CASE Drained(a)
  <2>1. CASE Bound(a)
    <3>1. /\ call'[a].at = "finishing" /\ call'[a].turn = call[a].turn
          /\ turns' = turns /\ session' = session
      BY <1>12, <2>1, GotoKeeps DEF Drained
    <3> QED BY <1>12, <2>1, <3>1, <1>0
            DEF Drained, CallOK, OwnTurn, Turn, Info, Running, At, Bound, AskStates,
                StreamStates
  <2>2. CASE ~Bound(a)
    BY <1>12, <2>2, <1>e DEF Drained, Return
  <2> QED BY <2>1, <2>2
<1>13. CASE \/ \E n \in 1..MaxCalls : ToolLoopExceeded(a, n)
            \/ SaveFails(a) \/ Compose(a) \/ DropAsk(a)
            \/ StreamFails(a) \/ DropOpening(a) \/ FinishOk(a) \/ FinishFails(a)
  BY <1>13, <1>e
  DEF ToolLoopExceeded, SaveFails, Compose, DropAsk, StreamFails, DropOpening,
      FinishOk, FinishFails, Return, Dropped
<1> QED
  BY <1>f, <1>1, <1>2, <1>3, <1>4, <1>5, <1>6, <1>7, <1>8, <1>9, <1>10, <1>11, <1>12,
     <1>13
  DEF Step, InputBlocked, LoadFails, ChatFails, ToolFails, OutputBlocked

(***************************************************************************)
(* The type invariant, with what CallInv adds to it, is inductive.         *)
(***************************************************************************)
LEMMA InitCallInv == Init => TypeOK /\ CallInv
<1> SUFFICES ASSUME Init PROVE TypeOK /\ CallInv
  OBVIOUS
<1>1. <<>> \in Seq(Message)
  OBVIOUS
<1>2. [by |-> None, session |-> None, api |-> "ask", vetted |-> {},
       fate |-> "unasked"] \in TurnInfo
  BY DEF TurnInfo, Apis, Fates
<1>3. TypeOK
  BY <1>1, <1>2, IdleType DEF Init, TypeOK, Formats
<1>4. \A a \in Agents : call[a].at = "idle"
  BY DEF Init, Idle, Locals
<1>5. CallInv
  BY <1>4 DEF CallInv, CallOK, Running, At, AskStates, StreamStates
<1> QED BY <1>3, <1>5

LEMMA NextCallInv == TypeOK /\ CallInv /\ [Next]_vars => (TypeOK /\ CallInv)'
<1> SUFFICES ASSUME TypeOK, CallInv, [Next]_vars PROVE (TypeOK /\ CallInv)'
  OBVIOUS
<1>1. ASSUME NEW a \in Agents, Step(a) PROVE (TypeOK /\ CallInv)'
  BY <1>1, StepType, OwnCallOK, OthersCallOK DEF CallInv
<1>2. CASE UNCHANGED vars
  BY <1>2 DEF vars, TypeOK, CallInv, CallOK, Running, OwnTurn, Turn, Info, At, Bound
<1> QED BY <1>1, <1>2 DEF Next

LEMMA RuntimeInvariant == Spec => [](TypeOK /\ CallInv)
BY InitCallInv, NextCallInv, PTL DEF Spec

(* Every variable of the runtime keeps its type, for any number of agents, *)
(* sessions and turns: indexes and counters stay in their bounds, and what *)
(* the agents push, truncate, load and save is a transcript.               *)
THEOREM TypeCorrect == Spec => []TypeOK
BY RuntimeInvariant, PTL

-----------------------------------------------------------------------------
Last(h) == h[Len(h)]

(* In turn t, the model may speak next. *)
Speaking(h, t) ==
  WellPaired(h) /\ h # <<>> /\ ModelMaySpeak(Last(h)) /\ Last(h).turn = t

(* In turn t, the last message leaves the tool calls n, n-1, ..., 1 open. *)
Calling(h, t, n) ==
  /\ WellPaired(h) /\ h # <<>> /\ Last(h).turn = t
  /\ \/ Last(h).role = "calls" /\ Last(h).call = n
     \/ Last(h).role = "tool" /\ Last(h).call = n + 1

(***************************************************************************)
(* Why what is stored is complete: an agent with a session starts its loop *)
(* from a stored transcript, extends it as the chat API wants, and saves   *)
(* it after an answer.  Without a session nothing is promised: the history *)
(* may hold a turn that failed.                                            *)
(***************************************************************************)
HistoryOK(a) ==
  /\ call[a].at \in {"chatting", "vetting"} => Speaking(history[a], Turn(a))
  /\ call[a].at = "tools" => Calling(history[a], Turn(a), call[a].left)
  /\ call[a].at \in {"saving", "finishing"} => Closed(history[a])
  /\ call[a].at \in {"opening", "streaming", "draining"} => Closed(call[a].opened)

(* What a stream added to the history it started from. *)
StreamOK(a) ==
  /\ call[a].at \in {"opening", "streaming", "draining"}
       => history[a] = Append(call[a].opened, User(Turn(a)))
  /\ call[a].at = "finishing"
       => history[a] = Append(Append(call[a].opened, User(Turn(a))), Answer(Turn(a)))
  /\ call[a].at \in StreamStates => call[a].initialLen = Len(call[a].opened)

TranscriptInv ==
  /\ StoredTranscriptsComplete
  /\ \A a \in Agents : (Bound(a) => HistoryOK(a)) /\ StreamOK(a)

-----------------------------------------------------------------------------
(***************************************************************************)
(* Facts about transcripts.                                                *)
(***************************************************************************)

(* A message the protocol allows next extends a well paired transcript.    *)
LEMMA AppendPairs ==
  ASSUME NEW h \in Seq(Message), NEW m \in Message, WellPaired(h),
         h = <<>> => m.role = "user",
         h # <<>> => MayFollow(Last(h), m)
  PROVE  /\ WellPaired(Append(h, m)) /\ Append(h, m) # <<>>
         /\ Last(Append(h, m)) = m
<1> DEFINE g == Append(h, m)
<1>1. /\ g \in Seq(Message) /\ Len(g) = Len(h) + 1 /\ g[Len(g)] = m
      /\ \A i \in 1..Len(h) : g[i] = h[i]
  OBVIOUS
<1>2. g[1].role = "user"
  <2>1. CASE h = <<>>
    BY <2>1, <1>1
  <2>2. CASE h # <<>>
    <3>1. 1 \in 1..Len(h)
      BY <2>2
    <3> QED BY <2>2, <3>1, <1>1 DEF WellPaired
  <2> QED BY <2>1, <2>2
<1>3. ASSUME NEW i \in 1..(Len(g) - 1) PROVE MayFollow(g[i], g[i + 1])
  <2>1. CASE i = Len(h)
    <3>1. h # <<>> /\ i \in 1..Len(h)
      BY <2>1, <1>1
    <3>2. g[i] = Last(h) /\ g[i + 1] = m
      BY <2>1, <3>1, <1>1 DEF Last
    <3> QED BY <3>1, <3>2
  <2>2. CASE i # Len(h)
    <3>1. i \in 1..(Len(h) - 1) /\ i \in 1..Len(h) /\ i + 1 \in 1..Len(h)
      BY <2>2, <1>1
    <3>2. g[i] = h[i] /\ g[i + 1] = h[i + 1]
      BY <3>1, <1>1
    <3> QED BY <3>1, <3>2 DEF WellPaired
  <2> QED BY <2>1, <2>2
<1>4. g # <<>>
  BY <1>1
<1> QED BY <1>1, <1>2, <1>3, <1>4 DEF WellPaired, Last

(* The roles of the messages the agent pushes. *)
LEMMA PushedRoles ==
  ASSUME NEW t, NEW n
  PROVE  /\ User(t).role = "user" /\ User(t).turn = t
         /\ Answer(t).role = "answer" /\ Answer(t).turn = t
         /\ Calls(t, n).role = "calls" /\ Calls(t, n).turn = t /\ Calls(t, n).call = n
         /\ ToolMsg(t, n).role = "tool" /\ ToolMsg(t, n).turn = t
         /\ ToolMsg(t, n).call = n
BY DEF User, Answer, Calls, ToolMsg

(* A question extends complete turns, an answer or a request what the      *)
(* model may answer to, and a reply the open tool calls.                   *)
LEMMA AskPairs ==
  ASSUME NEW h \in Seq(Message), NEW t \in Turns, Closed(h)
  PROVE  Speaking(Append(h, User(t)), t)
<1>1. h # <<>> => MayFollow(Last(h), User(t))
  BY PushedRoles DEF Closed, Last, MayFollow
<1> QED BY <1>1, AppendPairs, PushedRoles, MessageType
        DEF Closed, Speaking, ModelMaySpeak

LEMMA AnswerCloses ==
  ASSUME NEW h \in Seq(Message), NEW t \in Turns, Speaking(h, t)
  PROVE  Closed(Append(h, Answer(t)))
<1>1. MayFollow(Last(h), Answer(t))
  BY PushedRoles DEF Speaking, MayFollow
<1>2. WellPaired(Append(h, Answer(t))) /\ Last(Append(h, Answer(t))) = Answer(t)
  BY <1>1, AppendPairs, MessageType DEF Speaking
<1> QED BY <1>2, PushedRoles DEF Closed, Last

LEMMA CallsPair ==
  ASSUME NEW h \in Seq(Message), NEW t \in Turns, NEW n \in 1..MaxCalls,
         Speaking(h, t)
  PROVE  Calling(Append(h, Calls(t, n)), t, n)
<1>1. MayFollow(Last(h), Calls(t, n))
  BY PushedRoles DEF Speaking, MayFollow
<1>2. Calls(t, n) \in Message
  BY MessageType, MaxCallsAssumption
<1> QED BY <1>1, <1>2, AppendPairs, PushedRoles DEF Speaking, Calling

LEMMA ReplyPairs ==
  ASSUME NEW h \in Seq(Message), NEW t \in Turns, NEW n \in 1..MaxCalls,
         Calling(h, t, n)
  PROVE  /\ n = 1 => Speaking(Append(h, ToolMsg(t, n)), t)
         /\ n > 1 => Calling(Append(h, ToolMsg(t, n)), t, n - 1)
<1>1. MayFollow(Last(h), ToolMsg(t, n))
  BY PushedRoles DEF Calling, MayFollow
<1>2. ToolMsg(t, n) \in Message
  BY MessageType, MaxCallsAssumption
<1>3. /\ WellPaired(Append(h, ToolMsg(t, n))) /\ Append(h, ToolMsg(t, n)) # <<>>
      /\ Last(Append(h, ToolMsg(t, n))) = ToolMsg(t, n)
  BY <1>1, <1>2, AppendPairs DEF Calling
<1> QED BY <1>3, PushedRoles DEF Speaking, Calling, ModelMaySpeak

(* Truncating to the length before the pushes takes the pushes back. *)
LEMMA TruncatePrefix ==
  ASSUME NEW h \in Seq(Message), NEW g \in Seq(Message), Len(g) > Len(h),
         \A i \in 1..Len(h) : g[i] = h[i]
  PROVE  Truncate(g, Len(h)) = h
<1>1. SubSeq(g, 1, Len(h)) = h
  OBVIOUS
<1> QED BY <1>1 DEF Truncate

LEMMA TruncateUndoes ==
  ASSUME NEW h \in Seq(Message), NEW m \in Message, NEW k \in Message
  PROVE  /\ Truncate(Append(h, m), Len(h)) = h
         /\ Truncate(Append(Append(h, m), k), Len(h)) = h
<1>1. /\ Append(h, m) \in Seq(Message) /\ Len(Append(h, m)) = Len(h) + 1
      /\ \A i \in 1..Len(h) : Append(h, m)[i] = h[i]
  OBVIOUS
<1>2. Truncate(Append(h, m), Len(h)) = h
  <2>1. Len(Append(h, m)) > Len(h)
    BY <1>1
  <2> QED BY <1>1, <2>1, TruncatePrefix
<1>3. Truncate(Append(Append(h, m), k), Len(h)) = h
  <2> DEFINE g == Append(Append(h, m), k)
  <2>1. g \in Seq(Message) /\ Len(g) = Len(h) + 2
    BY <1>1
  <2>2. \A i \in 1..Len(h) : g[i] = h[i]
    BY <1>1
  <2>3. Len(g) > Len(h)
    BY <2>1
  <2> HIDE DEF g
  <2>4. Truncate(g, Len(h)) = h
    BY <2>1, <2>2, <2>3, TruncatePrefix
  <2> QED BY <2>4 DEF g
<1> QED BY <1>2, <1>3

-----------------------------------------------------------------------------
(* A store operation leaves only complete turns behind. *)
LEMMA StoreOK ==
  ASSUME TypeOK, CallInv, TranscriptInv, NEW a \in Agents, Step(a)
  PROVE  StoredTranscriptsComplete'
<1>0. CallOK(a) /\ (Bound(a) => HistoryOK(a)) /\ StoredTranscriptsComplete
  BY DEF CallInv, TranscriptInv
<1>1. CASE StoreSave(a) /\ call[a].at \in {"saving", "finishing"}
  <2>1. Closed(history[a])
    BY <1>0, <1>1 DEF CallOK, HistoryOK
  <2>2. \A s \in Sessions : store'[s] = store[s] \/ store'[s] = history[a]
    BY <1>1 DEF StoreSave, TypeOK
  <2> QED BY <2>1, <2>2, <1>0 DEF StoredTranscriptsComplete
<1>2. CASE StoreClear(a)
  <2>1. Closed(<<>>)
    BY DEF Closed, WellPaired
  <2>2. \A s \in Sessions : store'[s] = store[s] \/ store'[s] = <<>>
    BY <1>2 DEF StoreClear, TypeOK
  <2> QED BY <2>1, <2>2, <1>0 DEF StoredTranscriptsComplete
<1>3. CASE UNCHANGED store
  BY <1>3, <1>0 DEF StoredTranscriptsComplete
<1>4. \/ StoreSave(a) /\ call[a].at \in {"saving", "finishing"}
      \/ StoreClear(a)
      \/ UNCHANGED store
  BY DEF Step, SetSession, ClearHistory, ClearSession, ClearReturns, Ask, AskJson,
         Stream, InputBlocked, InputPasses, LoadOk, LoadFails, ChatFails, ModelAnswers,
         ModelCallsTools, ToolLoopExceeded, ToolReplies, ToolFails, OutputBlocked,
         OutputPasses, SaveOk, SaveFails, Compose, DropAsk, StreamLoadOk, OpenOk,
         StreamFails, DropOpening, Finish, Drained, FinishOk, FinishFails, FailsAt, At
<1> QED BY <1>1, <1>2, <1>3, <1>4

(* What an agent holds, after a step of its own. *)
LEMMA OwnTranscript ==
  ASSUME TypeOK, CallInv, TranscriptInv, NEW a \in Agents, Step(a)
  PROVE  (Bound(a) => HistoryOK(a))' /\ StreamOK(a)'
<1> DEFINE Goal == (Bound(a) => HistoryOK(a))' /\ StreamOK(a)'
<1>0. /\ CallOK(a) /\ (Bound(a) => HistoryOK(a)) /\ StreamOK(a)
      /\ history[a] \in Seq(Message) /\ StoredTranscriptsComplete
  BY DEF CallInv, TranscriptInv, TypeOK
<1>t. Running(a) => Turn(a) \in Turns
  BY <1>0 DEF CallOK, OwnTurn
<1>i. ASSUME call'[a].at \in {"idle", "clearing", "screening", "loading", "composing"}
      PROVE Goal
  BY <1>i DEF HistoryOK, StreamOK, StreamStates
<1>e. ASSUME NEW f, Ends(a, f) PROVE Goal
  BY <1>e, <1>i DEF Ends, Idle, Locals, TypeOK
<1>f. ASSUME NEW s, FailsAt(a, s) PROVE Goal
  BY <1>f, <1>e DEF FailsAt, Return
<1>1. CASE \/ \E s \in Sessions : SetSession(a, s)
           \/ ClearHistory(a) \/ ClearSession(a) \/ ClearReturns(a)
  <2>1. CASE \E s \in Sessions : SetSession(a, s)
    BY <2>1, <1>i DEF SetSession, At
  <2>2. CASE ClearHistory(a)
    BY <2>2, <1>i DEF ClearHistory, At
  <2>3. CASE ClearSession(a) \/ ClearReturns(a)
    <3>1. Goto(a, "idle") \/ Goto(a, "clearing")
      BY <2>3 DEF ClearSession, ClearReturns
    <3> QED BY <3>1, <1>i, GotoKeeps
  <2> QED BY <1>1, <2>1, <2>2, <2>3
<1>2. CASE \E t \in Turns : Ask(a, t) \/ AskJson(a, t)
  <2>1. PICK t \in Turns : \E f, api : Begin(a, t, api, Locals("screening", t, f, <<>>))
    BY <1>2 DEF Ask, AskJson, Waiting
  <2>2. call'[a].at = "screening"
    BY <2>1 DEF Begin, Locals, TypeOK
  <2> QED BY <2>2, <1>i
<1>3. ASSUME NEW t \in Turns, Stream(a, t) PROVE Goal
  <2>1. CASE Bound(a)
    <3>1. call'[a].at = "loading"
      BY <1>3, <2>1 DEF Stream, Begin, Waiting, Locals, TypeOK
    <3> QED BY <3>1, <1>i
  <2>2. CASE ~Bound(a)
    <3>1. call'[a] = Locals("opening", t, "text", history[a])
      BY <1>3, <2>2 DEF Stream, Begin, Opening, TypeOK
    <3>2. history'[a] = Append(history[a], User(t)) /\ session' = session
      BY <1>3, <2>2 DEF Stream, Push, TypeOK
    <3> QED BY <2>2, <3>1, <3>2 DEF Locals, StreamOK, Bound, Turn
  <2> QED BY <2>1, <2>2
<1>4. CASE InputPasses(a)
  <2>1. CASE Bound(a)
    BY <1>4, <2>1, <1>i, GotoKeeps DEF InputPasses
  <2>2. CASE ~Bound(a)
    <3>1. call'[a].at = "chatting" /\ session' = session
      BY <1>4, <2>2, GotoKeeps DEF InputPasses, StartLoop
    <3> QED BY <2>2, <3>1 DEF StreamOK, StreamStates, Bound
  <2> QED BY <2>1, <2>2
<1>5. CASE LoadOk(a)
  <2>1. session[a] \in Sessions /\ Turn(a) \in Turns
    BY <1>5, <1>0, <1>t DEF LoadOk, At, CallOK, Bound, TypeOK, Running
  <2>2. Closed(store[session[a]]) /\ store[session[a]] \in Seq(Message)
    BY <2>1, <1>0 DEF StoredTranscriptsComplete, TypeOK
  <2>3. /\ history'[a] = Append(store[session[a]], User(Turn(a)))
        /\ call'[a].at = "chatting" /\ call'[a].turn = Turn(a)
    BY <1>5, GotoKeeps DEF LoadOk, StartLoop, TypeOK, Turn
  <2>4. Speaking(history'[a], Turn(a))
    BY <2>1, <2>2, <2>3, AskPairs
  <2> QED BY <2>3, <2>4 DEF HistoryOK, StreamOK, StreamStates, Turn
<1>6. CASE \E n \in 1..MaxCalls : ModelCallsTools(a, n)
  <2>1. PICK n \in 1..MaxCalls : ModelCallsTools(a, n)
    BY <1>6
  <2>2. /\ At(a, "chatting") /\ session' = session
        /\ history'[a] = Append(history[a], Calls(Turn(a), n))
        /\ call'[a].at = "tools" /\ call'[a].turn = Turn(a) /\ call'[a].left = n
    BY <2>1 DEF ModelCallsTools, Push, TypeOK, Call, Turn
  <2>3. Bound(a) => Calling(history'[a], Turn(a), n)
    BY <2>2, <1>0, <1>t, CallsPair DEF HistoryOK, At, Running
  <2> QED BY <2>2, <2>3 DEF HistoryOK, StreamOK, StreamStates, Turn, Bound
<1>7. CASE ToolReplies(a)
  <2>1. call[a].left \in 1..MaxCalls /\ At(a, "tools") /\ session' = session
    BY <1>7, <1>0, MaxCallsAssumption DEF ToolReplies, CallOK, TypeOK, Call
  <2>2. /\ history'[a] = Append(history[a], ToolMsg(Turn(a), call[a].left))
        /\ call'[a].at = IF call[a].left = 1 THEN "chatting" ELSE "tools"
        /\ call'[a].turn = Turn(a) /\ call'[a].left = call[a].left - 1
    BY <1>7 DEF ToolReplies, Push, TypeOK, Call, Turn
  <2>3. Bound(a) => Calling(history[a], Turn(a), call[a].left)
    BY <2>1, <1>0 DEF HistoryOK, At
  <2>4. Bound(a) => /\ call[a].left = 1 => Speaking(history'[a], Turn(a))
                    /\ call[a].left > 1
                         => Calling(history'[a], Turn(a), call[a].left - 1)
    BY <2>1, <2>2, <2>3, <1>0, <1>t, ReplyPairs DEF Running, At
  <2> QED BY <2>1, <2>2, <2>4 DEF HistoryOK, StreamOK, StreamStates, Turn, Bound
<1>8. CASE ModelAnswers(a)
  <2>1. /\ At(a, "chatting") /\ history' = history /\ session' = session
        /\ call'[a].at = "vetting" /\ call'[a].turn = Turn(a)
    BY <1>8, GotoKeeps DEF ModelAnswers, Turn
  <2> QED BY <2>1, <1>0 DEF HistoryOK, StreamOK, StreamStates, Turn, Bound, At
<1>9. CASE OutputPasses(a)
  <2>1. /\ At(a, "vetting") /\ history'[a] = Append(history[a], Answer(Turn(a)))
        /\ session' = session
        /\ call'[a].at \in {"saving", "composing"}
        /\ call'[a].at = "saving" => Bound(a)
    BY <1>9, GotoKeeps DEF OutputPasses, Push, TypeOK
  <2>2. Bound(a) => Closed(history'[a])
    BY <2>1, <1>0, <1>t, AnswerCloses DEF HistoryOK, At, Running
  <2> QED BY <2>1, <2>2 DEF HistoryOK, StreamOK, StreamStates, Bound
<1>10. CASE SaveOk(a)
  BY <1>10, <1>i, GotoKeeps DEF SaveOk
<1>11. CASE StreamLoadOk(a)
  <2>1. session[a] \in Sessions /\ Turn(a) \in Turns
    BY <1>11, <1>0, <1>t DEF StreamLoadOk, At, CallOK, Bound, TypeOK, Running
  <2>2. Closed(store[session[a]]) /\ store[session[a]] \in Seq(Message)
    BY <2>1, <1>0 DEF StoredTranscriptsComplete, TypeOK
  <2>3. /\ history'[a] = Append(store[session[a]], User(Turn(a)))
        /\ call'[a] = Locals("opening", Turn(a), "text", store[session[a]])
    BY <1>11 DEF StreamLoadOk, Opening, TypeOK
  <2> QED BY <2>2, <2>3 DEF Locals, HistoryOK, StreamOK, StreamStates, Turn
<1>12. CASE OpenOk(a) \/ Finish(a)
  <2>1. /\ call[a].at \in {"opening", "streaming"}
        /\ history' = history /\ session' = session
        /\ call'[a].at \in {"streaming", "draining"} /\ call'[a].turn = call[a].turn
        /\ call'[a].opened = call[a].opened
        /\ call'[a].initialLen = call[a].initialLen
    BY <1>12, GotoKeeps DEF OpenOk, Finish, At
  <2> QED BY <2>1, <1>0 DEF HistoryOK, StreamOK, StreamStates, Turn, Bound
<1>13. CASE Drained(a)
  <2>1. CASE Bound(a)
    <3>1. /\ At(a, "draining") /\ history'[a] = Append(history[a], Answer(Turn(a)))
          /\ call'[a].at = "finishing" /\ call'[a].turn = call[a].turn
          /\ call'[a].opened = call[a].opened
          /\ call'[a].initialLen = call[a].initialLen
      BY <1>13, <2>1, GotoKeeps DEF Drained, Push, TypeOK
    <3>2. Closed(call[a].opened) /\ history[a] = Append(call[a].opened, User(Turn(a)))
      BY <2>1, <3>1, <1>0 DEF HistoryOK, StreamOK, At
    <3>3. call[a].opened \in Seq(Message) /\ Turn(a) \in Turns
      BY <3>1, <1>t DEF TypeOK, Call, Running, At
    <3>4. Closed(history'[a])
      BY <3>1, <3>2, <3>3, <1>0, AskPairs, AnswerCloses
    <3>5. call[a].initialLen = Len(call[a].opened)
      BY <3>1, <1>0 DEF StreamOK, StreamStates, At
    <3> QED BY <3>1, <3>2, <3>4, <3>5 DEF HistoryOK, StreamOK, StreamStates, Turn
  <2>2. CASE ~Bound(a)
    BY <1>13, <2>2, <1>e DEF Drained, Return
  <2> QED BY <2>1, <2>2
<1>14. CASE \/ \E n \in 1..MaxCalls : ToolLoopExceeded(a, n)
            \/ SaveFails(a) \/ Compose(a) \/ DropAsk(a)
            \/ StreamFails(a) \/ DropOpening(a) \/ FinishOk(a) \/ FinishFails(a)
  BY <1>14, <1>e
  DEF ToolLoopExceeded, SaveFails, Compose, DropAsk, StreamFails, DropOpening,
      FinishOk, FinishFails, Return, Dropped
<1> QED
  BY <1>f, <1>1, <1>2, <1>3, <1>4, <1>5, <1>6, <1>7, <1>8, <1>9, <1>10, <1>11, <1>12,
     <1>13, <1>14
  DEF Step, InputBlocked, LoadFails, ChatFails, ToolFails, OutputBlocked

(* What an agent holds is not disturbed by a step of another. *)
LEMMA OthersTranscript ==
  ASSUME TypeOK, CallInv, TranscriptInv, NEW a \in Agents, NEW b \in Agents \ {a},
         Step(a)
  PROVE  (Bound(b) => HistoryOK(b))' /\ StreamOK(b)'
<1>1. history'[b] = history[b] /\ session'[b] = session[b] /\ call'[b] = call[b]
  BY StepFrame DEF Frame
<1>2. (Bound(b) => HistoryOK(b)) /\ StreamOK(b)
  BY DEF TranscriptInv
<1> QED BY <1>1, <1>2 DEF HistoryOK, StreamOK, Bound, Turn

LEMMA InitTranscriptInv == Init => TranscriptInv
<1> SUFFICES ASSUME Init PROVE TranscriptInv
  OBVIOUS
<1>1. Closed(<<>>)
  BY DEF Closed, WellPaired
<1>2. StoredTranscriptsComplete
  BY <1>1 DEF Init, StoredTranscriptsComplete
<1>3. \A a \in Agents : call[a].at = "idle"
  BY DEF Init, Idle, Locals
<1> QED BY <1>2, <1>3 DEF TranscriptInv, HistoryOK, StreamOK, StreamStates

LEMMA NextTranscriptInv ==
  TypeOK /\ CallInv /\ TranscriptInv /\ [Next]_vars => TranscriptInv'
<1> SUFFICES ASSUME TypeOK, CallInv, TranscriptInv, [Next]_vars PROVE TranscriptInv'
  OBVIOUS
<1>1. ASSUME NEW a \in Agents, Step(a) PROVE TranscriptInv'
  BY <1>1, StoreOK, OwnTranscript, OthersTranscript DEF TranscriptInv
<1>2. CASE UNCHANGED vars
  BY <1>2 DEF vars, TranscriptInv, StoredTranscriptsComplete, HistoryOK, StreamOK,
              Bound, Turn
<1> QED BY <1>1, <1>2 DEF Next

LEMMA TranscriptInvariant == Spec => []TranscriptInv
BY RuntimeInvariant, InitTranscriptInv, NextTranscriptInv, PTL DEF Spec

(* What a session store holds is always a sequence of complete turns,      *)
(* whatever calls of whatever agents fail, are dropped or run concurrently *)
(* over the same session.                                                  *)
THEOREM StoredComplete == Spec => []StoredTranscriptsComplete
<1>1. TranscriptInv => StoredTranscriptsComplete
  BY DEF TranscriptInv
<1> QED BY <1>1, TranscriptInvariant, PTL

(* A step that ends a stream without an answer rolls the history back.     *)
LEMMA StepRollsBack ==
  ASSUME TypeOK, CallInv, TranscriptInv, NEW a \in Agents, NEW b \in Agents, Step(b),
         call[a].at \in StreamStates, call'[a].at = "idle",
         turns'[Turn(a)].fate \in {"rejected", "unsure"}
  PROVE  history'[a] = call[a].opened
<1>0. CallOK(a) /\ StreamOK(a) /\ Running(a)
  BY DEF CallInv, TranscriptInv, StreamStates, Running
<1>1. b = a
  BY <1>0, StepFrame DEF Frame, StreamStates
<1>2. /\ Turn(a) \in Turns /\ Info(a).fate = "running" /\ Info(a).api = "stream"
      /\ call[a].opened \in Seq(Message)
  BY <1>0 DEF CallOK, OwnTurn, At, StreamStates, TypeOK, Call
<1>3. CASE Rollback(a)
  <2>1. history'[a] = Truncate(history[a], Len(call[a].opened))
    BY <1>3, <1>0 DEF Rollback, TypeOK, StreamOK
  <2>2. User(Turn(a)) \in Message /\ Answer(Turn(a)) \in Message
    BY <1>2, MessageType
  <2> QED BY <2>1, <2>2, <1>0, <1>2, TruncateUndoes DEF StreamOK, StreamStates
<1>4. CASE ~Rollback(a)
  <2>1. \/ DropOpening(a) \/ FinishOk(a) \/ Return(a, "answered")
        \/ \E s \in {"streaming", "draining", "finishing"} :
             Goto(a, s) /\ UNCHANGED turns
    <3>1. \/ OpenOk(a) \/ StreamFails(a) \/ DropOpening(a)
          \/ Finish(a) \/ Drained(a) \/ FinishOk(a) \/ FinishFails(a)
      <4>1. call[a].at \in {"opening", "streaming", "draining", "finishing"}
        BY DEF StreamStates
      <4>2. ~(\E t \in Turns : Ask(a, t) \/ AskJson(a, t) \/ Stream(a, t))
        BY <4>1 DEF Ask, AskJson, Stream, Begin, At
      <4>3. ~(\E s \in Sessions : SetSession(a, s))
        BY <4>1 DEF SetSession, At
      <4>4. ~(\E n \in 1..MaxCalls : ModelCallsTools(a, n) \/ ToolLoopExceeded(a, n))
        BY <4>1 DEF ModelCallsTools, ToolLoopExceeded, At
      <4>5. ~(ClearHistory(a) \/ ClearSession(a) \/ ClearReturns(a))
        BY <4>1 DEF ClearHistory, ClearSession, ClearReturns, At
      <4>6. ~(\/ InputBlocked(a) \/ InputPasses(a) \/ LoadOk(a) \/ LoadFails(a)
              \/ ChatFails(a) \/ ModelAnswers(a) \/ ToolReplies(a) \/ ToolFails(a)
              \/ StreamLoadOk(a))
        BY <4>1 DEF InputBlocked, InputPasses, LoadOk, LoadFails, ChatFails,
                    ModelAnswers, ToolReplies, ToolFails, StreamLoadOk, FailsAt, At
      <4>7. ~(\/ OutputBlocked(a) \/ OutputPasses(a) \/ SaveOk(a) \/ SaveFails(a)
              \/ Compose(a) \/ DropAsk(a))
        BY <4>1 DEF OutputBlocked, OutputPasses, SaveOk, SaveFails, Compose, DropAsk,
                    FailsAt, At, AskStates
      <4> QED BY <1>1, <4>2, <4>3, <4>4, <4>5, <4>6, <4>7 DEF Step
    <3> QED BY <3>1, <1>4 DEF OpenOk, StreamFails, Finish, Drained, FinishFails
  <2>2. CASE DropOpening(a) \/ FinishOk(a) \/ Return(a, "answered")
    <3>1. SetFate(a, "abandoned") \/ SetFate(a, "answered")
      BY <2>2 DEF DropOpening, FinishOk, Dropped, Return, Ends
    <3> QED BY <3>1, <1>2, SetFateKeeps
  <2>3. CASE \E s \in {"streaming", "draining", "finishing"} :
               Goto(a, s) /\ UNCHANGED turns
    BY <2>3, GotoKeeps
  <2> QED BY <2>1, <2>2, <2>3
<1> QED BY <1>3, <1>4

(* A stream that ends without an answer leaves the history it started      *)
(* from, whatever the history was and wherever the stream failed.          *)
THEOREM StreamsRollBack == Spec => StreamRollsBack
<1> DEFINE A == \A a \in Agents :
                  /\ call[a].at \in StreamStates /\ call'[a].at = "idle"
                  /\ turns'[Turn(a)].fate \in {"rejected", "unsure"}
                  => history'[a] = call[a].opened
<1>1. TypeOK /\ CallInv /\ TranscriptInv /\ [Next]_vars => [A]_vars
  BY StepRollsBack DEF Next
<1>2. Spec => [][A]_vars
  BY <1>1, RuntimeInvariant, TranscriptInvariant, PTL DEF Spec
<1> QED BY <1>2 DEF StreamRollsBack

-----------------------------------------------------------------------------
(***************************************************************************)
(* The sessions the agents share and the turns these hold: whose turns a   *)
(* store and a request may contain, how often, and what failures, clears   *)
(* and concurrent calls leave of them.                                     *)
(***************************************************************************)

(* The call has its history: what it loaded, and what it added since.      *)
Loaded(a) == call[a].at \in (AskStates \ {"composing"}) \cup StreamStates

(* The last of these states: the answer is there. *)
Answered(a) == call[a].at \in {"saving", "finishing"}

Held(a) == TurnsIn(history[a])

(***************************************************************************)
(* What a store may hold of a session s.                                   *)
(***************************************************************************)
StoredTurn(t, s) ==
  /\ turns[t].session = s
  /\ turns[t].fate \in Persistable
  /\ turns[t].api # "stream" => turns[t].vetted = Stages

(* Every question and every answer of the transcript is there once. *)
Once(h) ==
  \A i, j \in 1..Len(h) :
    h[i].turn = h[j].turn /\ h[i].role = h[j].role /\ h[i].role \in {"user", "answer"} => i = j

Unanswered(h, t) == \A i \in 1..Len(h) : h[i].turn = t => h[i].role # "answer"

(* The guardrails the turn of a has passed by now. *)
VettedOK(a) ==
  /\ call[a].at \in {"chatting", "tools", "vetting"} \/ (At(a, "loading") /\ Info(a).api # "stream")
       => "input" \in Info(a).vetted
  /\ At(a, "saving") => Info(a).vetted = Stages

(***************************************************************************)
(* Why a store holds nothing else: a call of a bound agent works on turns  *)
(* the store held when it loaded, and on its own, which no store holds     *)
(* while it runs; and it saves its own only after the guardrails.          *)
(***************************************************************************)
HeldOK(a) ==
  /\ Turn(a) \in Held(a)
  /\ \A t \in Held(a) : t = Turn(a) \/ StoredTurn(t, session[a])
  /\ Once(history[a])
  /\ ~Answered(a) => Unanswered(history[a], Turn(a))

StoresOK ==
  \A s \in Sessions : Once(store[s]) /\ \A t \in TurnsIn(store[s]) : StoredTurn(t, s)

SessionInv ==
  /\ StoresOK
  /\ \A a \in Agents : VettedOK(a) /\ (Bound(a) /\ Loaded(a) => HeldOK(a))

(***************************************************************************)
(* Why a cleared turn comes back by a race only: a call that holds it had  *)
(* loaded before the clear, so its own turn, which it also holds, is among *)
(* those that raced with the clear.                                        *)
(***************************************************************************)
ByRace(h) == \A c \in cleared : c[1] \in TurnsIn(h) => TurnsIn(h) \cap c[2] # {}

RaceInv ==
  /\ \A c \in cleared : turns[c[1]].fate \in Persistable
  /\ \A s \in Sessions : ByRace(store[s])
  /\ \A a \in Agents : Bound(a) /\ Loaded(a) => ByRace(history[a])

(***************************************************************************)
(* Why what the model is sent is well paired without a session, too: each  *)
(* failure that breaks the history leaves its own, failed turn in it.      *)
(***************************************************************************)
Unfailed(h) == \A t \in TurnsIn(h) : ~Failed(t)

LocalOK(a) ==
  /\ HistoryOK(a)
  /\ call[a].at \in {"idle", "screening", "composing"} => Closed(history[a])

LocalInv == \A a \in Agents : ~Bound(a) /\ Unfailed(history[a]) => LocalOK(a)

(***************************************************************************)
(* Why only a drop leaks the JSON format: otherwise it is that of a        *)
(* running ask_json, which will restore what it found.                     *)
(***************************************************************************)
Leaked(a) ==
  \E t \in Turns : /\ turns[t].by = a /\ turns[t].api = "json"
                   /\ turns[t].fate \in {"abandoned", "cut"}

InJson(a) == Running(a) /\ Info(a).api = "json"

JsonInv ==
  \A a \in Agents :
    /\ format[a] = "json" => Leaked(a) \/ InJson(a)
    /\ InJson(a) /\ call[a].prevFormat = "json" => Leaked(a)

(***************************************************************************)
(* Why nothing answered is lost where every session has one agent: nobody  *)
(* else writes the store between its load and its save.                    *)
(***************************************************************************)
OwnSessions == \A a, b \in Agents : a # b => MayBind[a] \cap MayBind[b] \subseteq {None}

Kept(t) ==
  turns[t].session # None =>
    t \in TurnsIn(store[turns[t].session]) \cup {c[1] : c \in cleared}

KeptInv ==
  /\ \A a \in Agents : session[a] \in MayBind[a]
  /\ \A t \in Turns : turns[t].fate \in {"saved", "answered"} => Kept(t)
  /\ \A a \in Agents : Bound(a) /\ Loaded(a) => TurnsIn(store[session[a]]) \subseteq Held(a)
-----------------------------------------------------------------------------
(***************************************************************************)
(* Facts about transcripts.                                                *)
(***************************************************************************)

(* What one more message adds. *)
LEMMA Appended ==
  ASSUME NEW h \in Seq(Message), NEW m \in Message
  PROVE  /\ Append(h, m) \in Seq(Message) /\ Len(Append(h, m)) = Len(h) + 1
         /\ \A i \in 1..Len(h) : Append(h, m)[i] = h[i]
         /\ Append(h, m)[Len(h) + 1] = m
OBVIOUS

LEMMA TurnsAppend ==
  ASSUME NEW h \in Seq(Message), NEW m \in Message
  PROVE  TurnsIn(Append(h, m)) = TurnsIn(h) \cup {m.turn}
<1> DEFINE g == Append(h, m)
<1>1. /\ Len(g) = Len(h) + 1 /\ g[Len(h) + 1] = m /\ Len(h) \in Nat
      /\ \A i \in 1..Len(h) : g[i] = h[i]
  BY Appended
<1> HIDE DEF g
<1>2. TurnsIn(g) \subseteq TurnsIn(h) \cup {m.turn}
  <2> SUFFICES ASSUME NEW i \in 1..Len(g) PROVE g[i].turn \in TurnsIn(h) \cup {m.turn}
    BY DEF TurnsIn
  <2>1. i \in 1..Len(h) \/ i = Len(h) + 1
    BY <1>1
  <2> QED BY <1>1, <2>1 DEF TurnsIn
<1>3. TurnsIn(h) \cup {m.turn} \subseteq TurnsIn(g)
  <2>1. \A i \in 1..Len(h) : i \in 1..Len(g)
    BY <1>1
  <2>2. Len(h) + 1 \in 1..Len(g)
    BY <1>1
  <2> QED BY <1>1, <2>1, <2>2 DEF TurnsIn
<1> QED BY <1>2, <1>3 DEF g

(* A question or an answer that is new keeps the others single. *)
LEMMA OnceAppend ==
  ASSUME NEW h \in Seq(Message), NEW m \in Message, Once(h),
         m.role \in {"user", "answer"} =>
           \A i \in 1..Len(h) : ~(h[i].turn = m.turn /\ h[i].role = m.role)
  PROVE  Once(Append(h, m))
<1> DEFINE g == Append(h, m)
<1>1. /\ Len(g) = Len(h) + 1 /\ g[Len(h) + 1] = m /\ Len(h) \in Nat
      /\ \A i \in 1..Len(h) : g[i] = h[i]
  BY Appended
<1> HIDE DEF g
<1> SUFFICES ASSUME NEW i \in 1..Len(g), NEW j \in 1..Len(g),
                    g[i].turn = g[j].turn, g[i].role = g[j].role,
                    g[i].role \in {"user", "answer"}
             PROVE  i = j
  BY DEF Once, g
<1>2. (i \in 1..Len(h) \/ i = Len(h) + 1) /\ (j \in 1..Len(h) \/ j = Len(h) + 1)
  BY <1>1
<1>3. CASE i \in 1..Len(h) /\ j \in 1..Len(h)
  BY <1>1, <1>3 DEF Once
<1>4. CASE i = Len(h) + 1 /\ j \in 1..Len(h)
  BY <1>1, <1>4
<1>5. CASE i \in 1..Len(h) /\ j = Len(h) + 1
  BY <1>1, <1>5
<1>6. CASE i = Len(h) + 1 /\ j = Len(h) + 1
  BY <1>6
<1> QED BY <1>2, <1>3, <1>4, <1>5, <1>6

LEMMA UnansweredAppend ==
  ASSUME NEW h \in Seq(Message), NEW m \in Message, NEW t, Unanswered(h, t),
         m.role # "answer"
  PROVE  Unanswered(Append(h, m), t)
<1> DEFINE g == Append(h, m)
<1>1. /\ Len(g) = Len(h) + 1 /\ g[Len(h) + 1] = m /\ Len(h) \in Nat
      /\ \A i \in 1..Len(h) : g[i] = h[i]
  BY Appended
<1> HIDE DEF g
<1> SUFFICES ASSUME NEW i \in 1..Len(g), g[i].turn = t PROVE g[i].role # "answer"
  BY DEF Unanswered, g
<1>2. i \in 1..Len(h) \/ i = Len(h) + 1
  BY <1>1
<1> QED BY <1>1, <1>2 DEF Unanswered

(* An empty transcript, and a turn that is not in one. *)
LEMMA Absent ==
  ASSUME NEW h
  PROVE  /\ TurnsIn(<<>>) = {} /\ Once(<<>>)
         /\ \A t : t \notin TurnsIn(h) => Unanswered(h, t)
         /\ \A t : t \notin TurnsIn(h) => \A i \in 1..Len(h) : h[i].turn # t
BY DEF TurnsIn, Once, Unanswered

-----------------------------------------------------------------------------
(***************************************************************************)
(* What a step changes.                                                    *)
(***************************************************************************)

(* A turn that is over keeps its fate; one that is saved is at most        *)
(* reported.                                                               *)
LEMMA TurnSettles ==
  ASSUME TypeOK, CallInv, NEW a \in Agents, Step(a), NEW t \in Turns
  PROVE  /\ turns[t].fate \notin {"unasked", "running", "saved"} => turns'[t] = turns[t]
         /\ turns[t].fate = "saved" =>
              /\ turns'[t].fate \in {"saved", "answered", "unsure", "cut"}
              /\ turns'[t].session = turns[t].session /\ turns'[t].api = turns[t].api
              /\ turns'[t].vetted = turns[t].vetted /\ turns'[t].by = turns[t].by
<1>1. TurnFrame(a, t)
  BY StepFrame DEF Frame
<1>2. CASE turns'[t] = turns[t]
  BY <1>2
<1>3. CASE turns[t].fate = "unasked"
  BY <1>3
<1>4. CASE Running(a) /\ t = Turn(a)
  <2>1. OwnTurn(a)
    BY <1>4 DEF CallInv, CallOK
  <2>2. CASE ~(At(a, "composing") /\ Bound(a))
    BY <1>4, <2>1, <2>2 DEF OwnTurn, Info, Turn
  <2>3. CASE At(a, "composing") /\ Bound(a)
    <3>1. Compose(a) \/ DropAsk(a)
      BY <2>3 DEF Step, SetSession, ClearHistory, ClearSession, ClearReturns, Ask, AskJson,
         Stream, Begin, InputBlocked, InputPasses, LoadOk, LoadFails, ChatFails, ModelAnswers,
         ModelCallsTools, ToolLoopExceeded, ToolReplies, ToolFails, OutputBlocked,
         OutputPasses, SaveOk, SaveFails, StreamLoadOk, OpenOk,
         StreamFails, DropOpening, Finish, Drained, FinishOk, FinishFails, FailsAt, At
    <3>2. PICK f \in {"answered", "unsure", "cut"} : SetFate(a, f)
      BY <2>3, <3>1 DEF Compose, DropAsk, Return, Dropped, Ends, At
    <3>3. Info(a) \in TurnInfo /\ turns'[t] = [Info(a) EXCEPT !.fate = f]
      BY <1>4, <3>2 DEF TypeOK, SetFate, Info, Turn
    <3>4. turns[t] = Info(a) /\ turns[t].fate = "saved"
      BY <1>4, <2>1, <2>3 DEF OwnTurn, Info, Turn
    <3> QED BY <3>3, <3>4 DEF TurnInfo
  <2> QED BY <2>2, <2>3
<1> QED BY <1>1, <1>2, <1>3, <1>4 DEF TurnFrame

(* What a store may hold of a session it may hold for ever, and a failure  *)
(* is not undone.                                                          *)
LEMMA StoredTurnStays ==
  ASSUME TypeOK, CallInv, NEW a \in Agents, Step(a), NEW t \in Turns, NEW s
  PROVE  /\ StoredTurn(t, s) => StoredTurn(t, s)'
         /\ turns[t].fate \in Persistable => turns'[t].fate \in Persistable
         /\ Failed(t) => Failed(t)'
BY TurnSettles DEF StoredTurn, Persistable, Failed

(* A step saves to the store of the agent, clears it, or leaves every      *)
(* store alone.                                                            *)
LEMMA StoreMoves ==
  ASSUME TypeOK, CallInv, NEW a \in Agents, Step(a)
  PROVE  \/ /\ StoreSave(a) /\ Answered(a) /\ UNCHANGED cleared
            /\ turns'[Turn(a)].fate \in Persistable
            /\ turns'[Turn(a)].session = Info(a).session
            /\ turns'[Turn(a)].api = Info(a).api /\ turns'[Turn(a)].vetted = Info(a).vetted
         \/ StoreClear(a) /\ At(a, "clearing") /\ UNCHANGED turns
         \/ UNCHANGED <<store, cleared>>
<1>1. \/ SaveOk(a) \/ SaveFails(a) \/ DropAsk(a) \/ FinishOk(a) \/ FinishFails(a)
      \/ ClearReturns(a)
      \/ UNCHANGED <<store, cleared>>
  BY DEF Step, SetSession, ClearHistory, ClearSession, Ask, AskJson,
         Stream, InputBlocked, InputPasses, LoadOk, LoadFails, ChatFails, ModelAnswers,
         ModelCallsTools, ToolLoopExceeded, ToolReplies, ToolFails, OutputBlocked,
         OutputPasses, Compose, StreamLoadOk, OpenOk,
         StreamFails, DropOpening, Finish, Drained, FailsAt
<1>2. CASE ClearReturns(a)
  BY <1>2 DEF ClearReturns
<1>3. CASE /\ SaveOk(a) \/ SaveFails(a) \/ DropAsk(a) \/ FinishOk(a) \/ FinishFails(a)
           /\ ~UNCHANGED <<store, cleared>>
  <2>1. StoreSave(a) /\ Answered(a) /\ UNCHANGED cleared
    BY <1>3 DEF SaveOk, SaveFails, DropAsk, FinishOk, FinishFails, Answered, At
  <2>2. PICK f \in {"saved", "unsure", "cut", "answered"} : SetFate(a, f)
    BY <1>3, <2>1 DEF SaveOk, SaveFails, DropAsk, FinishOk, FinishFails, Return, Dropped,
                      Ends, Answered, At
  <2>3. Turn(a) \in Turns
    BY <2>1 DEF CallInv, CallOK, OwnTurn, Running, Answered
  <2>4. Info(a) \in TurnInfo /\ turns'[Turn(a)] = [Info(a) EXCEPT !.fate = f]
    BY <2>2, <2>3 DEF TypeOK, SetFate, Info, Turn
  <2> QED BY <2>1, <2>4 DEF TurnInfo, Persistable
<1> QED BY <1>1, <1>2, <1>3

(* A call of a bound agent that has its history after a step has just      *)
(* loaded it, or extends it: by nothing, by a request for tools or a       *)
(* reply, or by the answer.                                                *)
Grows(a) ==
  /\ UNCHANGED <<store, cleared>> /\ session'[a] = session[a]
  /\ Running(a) /\ call'[a].turn = Turn(a)
  /\ \/ UNCHANGED turns
     \/ /\ At(a, "vetting")
        /\ turns' = [turns EXCEPT ![Turn(a)].vetted = @ \cup {"output"}]
  /\ \/ /\ At(a, "loading") /\ ~Answered(a)'
        /\ history'[a] = Append(store[session[a]], User(Turn(a)))
     \/ /\ Loaded(a) /\ ~Answered(a) /\ ~Answered(a)'
        /\ \/ history'[a] = history[a]
           \/ \E m \in Message : /\ m.turn = Turn(a) /\ m.role \in {"calls", "tool"}
                                 /\ history'[a] = Append(history[a], m)
     \/ /\ Loaded(a) /\ ~Answered(a) /\ Answered(a)'
        /\ history'[a] = Append(history[a], Answer(Turn(a)))

LEMMA LoadedMoves ==
  ASSUME TypeOK, CallInv, NEW a \in Agents, Step(a), Bound(a)', Loaded(a)'
  PROVE  Grows(a)
<1>0. /\ CallOK(a) /\ (Running(a) => Turn(a) \in Turns)
      /\ call'[a].at \in {"chatting", "tools", "vetting", "saving"} \cup StreamStates
  BY DEF CallInv, CallOK, OwnTurn, Loaded, AskStates
<1>e. ~\E f : Ends(a, f)
  BY <1>0 DEF Ends, Idle, Locals, TypeOK, StreamStates
<1>f. ~\E s : FailsAt(a, s)
  BY <1>e DEF FailsAt, Return
<1>g. ASSUME NEW s \in {"idle", "clearing", "screening", "loading", "composing"}, Goto(a, s)
      PROVE FALSE
  BY <1>g, <1>0, GotoKeeps DEF StreamStates
<1>1. CASE \E s \in Sessions : SetSession(a, s)
  BY <1>1, <1>0 DEF SetSession, At, StreamStates
<1>2. CASE ClearHistory(a) \/ ClearSession(a) \/ ClearReturns(a) \/ SaveOk(a)
  <2>1. CASE ClearHistory(a)
    BY <2>1, <1>0 DEF ClearHistory, At, StreamStates
  <2>2. CASE ClearSession(a)
    <3>1. Goto(a, "idle") \/ Goto(a, "clearing")
      BY <2>2 DEF ClearSession
    <3> QED BY <3>1, <1>g
  <2>3. CASE ClearReturns(a) \/ SaveOk(a)
    BY <2>3, <1>g DEF ClearReturns, SaveOk
  <2> QED BY <1>2, <2>1, <2>2, <2>3
<1>3. CASE \E t \in Turns : Ask(a, t) \/ AskJson(a, t)
  <2>1. call'[a].at = "screening"
    BY <1>3 DEF Ask, AskJson, Waiting, Begin, Locals, TypeOK
  <2> QED BY <2>1, <1>0 DEF StreamStates
<1>4. ASSUME NEW t \in Turns, Stream(a, t) PROVE FALSE
  <2>1. Bound(a)
    BY <1>4 DEF Stream, Bound
  <2>2. call'[a].at = "loading"
    BY <1>4, <2>1 DEF Stream, Begin, Waiting, Locals, TypeOK
  <2> QED BY <2>2, <1>0 DEF StreamStates
<1>5. CASE InputPasses(a)
  <2>1. Bound(a)
    BY <1>5 DEF InputPasses, Bound
  <2> QED BY <1>5, <2>1, <1>g DEF InputPasses
<1>6. CASE LoadOk(a)
  <2>1. Goto(a, "chatting") /\ At(a, "loading")
        /\ UNCHANGED <<session, store, turns, cleared>>
        /\ history'[a] = Append(store[session[a]], User(Turn(a)))
    BY <1>6 DEF LoadOk, StartLoop, TypeOK
  <2>2. call'[a].at = "chatting" /\ call'[a].turn = Turn(a)
    BY <2>1, GotoKeeps DEF Turn
  <2> QED BY <2>1, <2>2 DEF Grows, Answered, Running, At
<1>7. CASE StreamLoadOk(a)
  <2>1. At(a, "loading")
        /\ UNCHANGED <<session, store, turns, cleared>>
        /\ history'[a] = Append(store[session[a]], User(Turn(a)))
        /\ call'[a] = Opening(Turn(a), store[session[a]])
    BY <1>7 DEF StreamLoadOk, TypeOK
  <2>2. call'[a].at = "opening" /\ call'[a].turn = Turn(a)
    BY <2>1 DEF Opening, Locals
  <2> QED BY <2>1, <2>2 DEF Grows, Answered, Running, At
<1>8. ASSUME NEW n \in 1..MaxCalls, ModelCallsTools(a, n) PROVE Grows(a)
  <2>1. /\ At(a, "chatting") /\ UNCHANGED <<session, store, turns, cleared>>
        /\ history'[a] = Append(history[a], Calls(Turn(a), n))
        /\ call'[a].at = "tools" /\ call'[a].turn = Turn(a)
    BY <1>8 DEF ModelCallsTools, Push, TypeOK, Call, Turn
  <2>2. /\ Calls(Turn(a), n) \in Message /\ Calls(Turn(a), n).turn = Turn(a)
        /\ Calls(Turn(a), n).role = "calls"
    BY <2>1, <1>0, MessageType, PushedRoles, MaxCallsAssumption DEF Running, At
  <2> QED BY <2>1, <2>2 DEF Grows, Answered, Loaded, AskStates, Running, At
<1>9. CASE ToolReplies(a)
  <2>1. /\ At(a, "tools") /\ UNCHANGED <<session, store, turns, cleared>>
        /\ history'[a] = Append(history[a], ToolMsg(Turn(a), call[a].left))
        /\ call'[a].at \in {"chatting", "tools"} /\ call'[a].turn = Turn(a)
        /\ call[a].left \in 0..MaxCalls
    BY <1>9 DEF ToolReplies, Push, TypeOK, Call, Turn
  <2>2. /\ ToolMsg(Turn(a), call[a].left) \in Message
        /\ ToolMsg(Turn(a), call[a].left).turn = Turn(a)
        /\ ToolMsg(Turn(a), call[a].left).role = "tool"
    BY <2>1, <1>0, MessageType, PushedRoles DEF Running, At
  <2> QED BY <2>1, <2>2 DEF Grows, Answered, Loaded, AskStates, Running, At
<1>10. CASE ModelAnswers(a) \/ OpenOk(a) \/ Finish(a)
  <2>1. /\ call[a].at \in {"chatting", "opening", "streaming"}
        /\ UNCHANGED <<history, session, store, turns, cleared>>
        /\ \E s \in {"vetting", "streaming", "draining"} : Goto(a, s)
    BY <1>10 DEF ModelAnswers, OpenOk, Finish, At
  <2>2. call'[a].at \in {"vetting", "streaming", "draining"} /\ call'[a].turn = Turn(a)
    BY <2>1, GotoKeeps DEF Turn
  <2> QED BY <2>1, <2>2 DEF Grows, Answered, Loaded, AskStates, StreamStates, Running
<1>11. CASE OutputPasses(a)
  <2>1. /\ At(a, "vetting") /\ UNCHANGED <<session, store, cleared>>
        /\ history'[a] = Append(history[a], Answer(Turn(a)))
        /\ turns' = [turns EXCEPT ![Turn(a)].vetted = @ \cup {"output"}]
        /\ Goto(a, "saving")
    BY <1>11, <1>g DEF OutputPasses, Push, TypeOK
  <2>2. call'[a].at = "saving" /\ call'[a].turn = Turn(a)
    BY <2>1, GotoKeeps DEF Turn
  <2> QED BY <2>1, <2>2 DEF Grows, Answered, Loaded, AskStates, Running, At
<1>12. CASE Drained(a)
  <2>1. /\ At(a, "draining") /\ UNCHANGED <<session, store, cleared>>
        /\ history'[a] = Append(history[a], Answer(Turn(a)))
        /\ UNCHANGED turns /\ Goto(a, "finishing")
    BY <1>12, <1>e DEF Drained, Push, Return, TypeOK
  <2>2. call'[a].at = "finishing" /\ call'[a].turn = Turn(a)
    BY <2>1, GotoKeeps DEF Turn
  <2> QED BY <2>1, <2>2 DEF Grows, Answered, Loaded, StreamStates, Running, At
<1>13. CASE \/ \E n \in 1..MaxCalls : ToolLoopExceeded(a, n)
            \/ SaveFails(a) \/ Compose(a) \/ DropAsk(a)
            \/ StreamFails(a) \/ DropOpening(a) \/ FinishOk(a) \/ FinishFails(a)
  BY <1>13, <1>e
  DEF ToolLoopExceeded, SaveFails, Compose, DropAsk, StreamFails, DropOpening,
      FinishOk, FinishFails, Return, Dropped
<1> QED
  BY <1>f, <1>1, <1>2, <1>3, <1>4, <1>5, <1>6, <1>7, <1>8, <1>9, <1>10, <1>11, <1>12,
     <1>13
  DEF Step, InputBlocked, LoadFails, ChatFails, ToolFails, OutputBlocked

-----------------------------------------------------------------------------
(***************************************************************************)
(* Which turns a store and a history hold.                                 *)
(***************************************************************************)

(* The turn of a call that has not been saved is in no store. *)
LEMMA NotStored ==
  ASSUME TypeOK, CallInv, SessionInv, NEW a \in Agents, Running(a), ~At(a, "composing"),
         NEW s \in Sessions
  PROVE  Turn(a) \notin TurnsIn(store[s])
<1>1. Info(a).fate = "running"
  BY DEF CallInv, CallOK, OwnTurn
<1> QED BY <1>1 DEF SessionInv, StoresOK, StoredTurn, Persistable, Info, Turn

(* What a call of a bound agent holds, after a step of its own. *)
LEMMA OwnHeld ==
  ASSUME TypeOK, CallInv, SessionInv, NEW a \in Agents, Step(a), Bound(a)', Loaded(a)'
  PROVE  HeldOK(a)'
<1> DEFINE h == history[a]
           t == Turn(a)
           s == session[a]
           HoldsOwnAndStored(g) == t \in TurnsIn(g) /\ \A u \in TurnsIn(g) : u = t \/ StoredTurn(u, s)
<1>0. Grows(a)
  BY LoadedMoves
<1>1. /\ s \in Sessions /\ session'[a] = s /\ Turn(a)' = t /\ t \in Turns
      /\ h \in Seq(Message) /\ store[s] \in Seq(Message)
  BY <1>0 DEF Grows, Turn, CallInv, CallOK, OwnTurn, TypeOK, Bound
<1>2. Loaded(a) => HeldOK(a)
  BY <1>1 DEF SessionInv, Bound
<1>m. /\ User(t) \in Message /\ User(t).turn = t /\ User(t).role = "user"
      /\ Answer(t) \in Message /\ Answer(t).turn = t /\ Answer(t).role = "answer"
  BY <1>1, MessageType DEF User, Answer
<1> SUFFICES /\ HoldsOwnAndStored(history'[a]) /\ Once(history'[a])
             /\ ~Answered(a)' => Unanswered(history'[a], t)
  <2>1. TurnsIn(history'[a]) \subseteq Turns
    BY StepType, TurnsInType DEF TypeOK
  <2>2. ASSUME NEW u \in Turns, StoredTurn(u, s) PROVE StoredTurn(u, session[a])'
    BY <1>1, <2>2, StoredTurnStays DEF StoredTurn
  <2>3. /\ TurnsIn(history'[a]) = Held(a)' /\ Turn(a)' = t
    BY <1>1 DEF Held
  <2>4. \A u \in Held(a)' : u = Turn(a)' \/ StoredTurn(u, session[a])'
    BY <2>1, <2>2, <2>3
  <2> QED BY <2>3, <2>4 DEF HeldOK
<1> HIDE DEF h, t, s
<1>3. ASSUME NEW m \in Message, m.turn = t, HoldsOwnAndStored(h)
      PROVE  HoldsOwnAndStored(Append(h, m))
  BY <1>1, <1>3, TurnsAppend
<1>4. CASE At(a, "loading") /\ ~Answered(a)' /\ history'[a] = Append(store[s], User(t))
  <2>1. t \notin TurnsIn(store[s])
    BY <1>1, <1>4, NotStored DEF t, Running, At
  <2>2. TurnsIn(history'[a]) = TurnsIn(store[s]) \cup {t}
    BY <1>1, <1>4, <1>m, TurnsAppend
  <2>3. HoldsOwnAndStored(history'[a])
    BY <1>1, <2>2 DEF SessionInv, StoresOK
  <2>4. Once(store[s])
    BY <1>1 DEF SessionInv, StoresOK
  <2>5. \A i \in 1..Len(store[s]) : store[s][i].turn # t
    BY <2>1, Absent
  <2>6. Once(history'[a])
    BY <1>1, <1>4, <1>m, <2>4, <2>5, OnceAppend
  <2>7. Unanswered(store[s], t)
    BY <2>1, Absent
  <2>8. Unanswered(history'[a], t)
    BY <1>1, <1>4, <1>m, <2>7, UnansweredAppend
  <2> QED BY <2>3, <2>6, <2>8
<1>5. CASE Loaded(a) /\ ~Answered(a) /\ history'[a] = h
  BY <1>2, <1>5 DEF HeldOK, Held, h, t, s
<1>6. ASSUME Loaded(a), ~Answered(a), ~Answered(a)',
             NEW m \in Message, m.turn = t, m.role \in {"calls", "tool"},
             history'[a] = Append(h, m)
      PROVE  /\ HoldsOwnAndStored(history'[a]) /\ Once(history'[a])
             /\ ~Answered(a)' => Unanswered(history'[a], t)
  <2>1. HoldsOwnAndStored(h) /\ Once(h) /\ Unanswered(h, t)
    BY <1>2, <1>6 DEF HeldOK, Held, h, t, s
  <2>2. HoldsOwnAndStored(history'[a])
    BY <1>3, <1>6, <2>1
  <2>3. Once(history'[a])
    BY <1>1, <1>6, <2>1, OnceAppend
  <2>4. Unanswered(history'[a], t)
    BY <1>1, <1>6, <2>1, UnansweredAppend
  <2> QED BY <2>2, <2>3, <2>4
<1>7. CASE Loaded(a) /\ ~Answered(a) /\ Answered(a)' /\ history'[a] = Append(h, Answer(t))
  <2>1. HoldsOwnAndStored(h) /\ Once(h) /\ Unanswered(h, t)
    BY <1>2, <1>7 DEF HeldOK, Held, h, t, s
  <2>2. HoldsOwnAndStored(history'[a])
    BY <1>3, <1>7, <1>m, <2>1
  <2>3. \A i \in 1..Len(h) : ~(h[i].turn = t /\ h[i].role = "answer")
    BY <2>1 DEF Unanswered
  <2>4. Once(history'[a])
    BY <1>1, <1>7, <1>m, <2>1, <2>3, OnceAppend
  <2> QED BY <1>7, <2>2, <2>4
<1> QED BY <1>0, <1>4, <1>5, <1>6, <1>7 DEF Grows, h, t, s

(* What has vetted its turn by now. *)
LEMMA OwnVetted ==
  ASSUME TypeOK, CallInv, SessionInv, NEW a \in Agents, Step(a)
  PROVE  VettedOK(a)'
<1>0. CallOK(a) /\ VettedOK(a) /\ (Running(a) => Turn(a) \in Turns)
  BY DEF CallInv, CallOK, OwnTurn, SessionInv
<1>i. ASSUME call'[a].at \notin {"chatting", "tools", "vetting", "loading", "saving"}
      PROVE VettedOK(a)'
  BY <1>i DEF VettedOK, At
<1>e. ASSUME NEW f, Ends(a, f) PROVE VettedOK(a)'
  BY <1>e, <1>i DEF Ends, Idle, Locals, TypeOK
<1>f. ASSUME NEW s, FailsAt(a, s) PROVE VettedOK(a)'
  BY <1>f, <1>e DEF FailsAt, Return
<1>1. CASE \/ \E s \in Sessions : SetSession(a, s)
           \/ ClearHistory(a) \/ ClearSession(a) \/ ClearReturns(a) \/ SaveOk(a)
  <2>1. CASE (\E s \in Sessions : SetSession(a, s)) \/ ClearHistory(a)
    BY <2>1, <1>i DEF SetSession, ClearHistory, At
  <2>2. CASE ClearSession(a) \/ ClearReturns(a) \/ SaveOk(a)
    <3>1. Goto(a, "idle") \/ Goto(a, "clearing") \/ Goto(a, "composing")
      BY <2>2 DEF ClearSession, ClearReturns, SaveOk
    <3> QED BY <3>1, <1>i, GotoKeeps
  <2> QED BY <1>1, <2>1, <2>2
<1>2. CASE \E t \in Turns : Ask(a, t) \/ AskJson(a, t)
  <2>1. call'[a].at = "screening"
    BY <1>2 DEF Ask, AskJson, Waiting, Begin, Locals, TypeOK
  <2> QED BY <2>1, <1>i
<1>3. ASSUME NEW t \in Turns, Stream(a, t) PROVE VettedOK(a)'
  <2>1. /\ call'[a].at \in {"loading", "opening"} /\ call'[a].turn = t
        /\ turns'[t].api = "stream"
    BY <1>3 DEF Stream, Begin, Waiting, Opening, Locals, TypeOK
  <2> QED BY <2>1 DEF VettedOK, At, Info, Turn
<1>4. CASE InputPasses(a)
  <2>1. /\ At(a, "screening") /\ Turn(a) \in Turns
        /\ turns' = [turns EXCEPT ![Turn(a)].vetted = @ \cup {"input"}]
        /\ \E s \in {"loading", "chatting"} : Goto(a, s)
    BY <1>4, <1>0 DEF InputPasses, StartLoop, Running, At
  <2>2. call'[a].at \in {"loading", "chatting"} /\ call'[a].turn = Turn(a)
    BY <2>1, GotoKeeps DEF Turn
  <2>3. "input" \in turns'[Turn(a)].vetted
    <3>1. turns[Turn(a)] \in TurnInfo
      BY <2>1 DEF TypeOK
    <3>2. turns'[Turn(a)] = [turns[Turn(a)] EXCEPT !.vetted = turns[Turn(a)].vetted \cup {"input"}]
      BY <2>1 DEF TypeOK
    <3> QED BY <3>1, <3>2 DEF TurnInfo
  <2> QED BY <2>2, <2>3 DEF VettedOK, At, Info, Turn
<1>5. CASE \/ LoadOk(a) \/ ModelAnswers(a) \/ ToolReplies(a)
           \/ \E n \in 1..MaxCalls : ModelCallsTools(a, n)
  <2>1. /\ UNCHANGED turns
        /\ call[a].at \in {"chatting", "tools"} \/ (At(a, "loading") /\ Info(a).api # "stream")
    BY <1>5 DEF LoadOk, ModelAnswers, ToolReplies, ModelCallsTools, At
  <2>2. call'[a].at \in {"chatting", "tools", "vetting"} /\ call'[a].turn = call[a].turn
    <3>1. CASE LoadOk(a) \/ ModelAnswers(a)
      <4>1. Goto(a, "chatting") \/ Goto(a, "vetting")
        BY <3>1 DEF LoadOk, ModelAnswers, StartLoop
      <4> QED BY <4>1, GotoKeeps
    <3>2. CASE ToolReplies(a)
      BY <3>2 DEF ToolReplies, TypeOK, Call
    <3>3. CASE \E n \in 1..MaxCalls : ModelCallsTools(a, n)
      BY <3>3 DEF ModelCallsTools, TypeOK, Call
    <3> QED BY <1>5, <3>1, <3>2, <3>3
  <2>3. "input" \in Info(a).vetted
    BY <1>0, <2>1 DEF VettedOK
  <2> QED BY <2>1, <2>2, <2>3 DEF VettedOK, At, Info, Turn
<1>6. CASE OutputPasses(a)
  <2>1. /\ At(a, "vetting") /\ Turn(a) \in Turns
        /\ turns' = [turns EXCEPT ![Turn(a)].vetted = @ \cup {"output"}]
        /\ \E s \in {"saving", "composing"} : Goto(a, s)
    BY <1>6, <1>0 DEF OutputPasses, Running, At
  <2>2. call'[a].at \in {"saving", "composing"} /\ call'[a].turn = Turn(a)
    BY <2>1, GotoKeeps DEF Turn
  <2>3. turns'[Turn(a)].vetted = Stages
    <3>1. turns[Turn(a)] \in TurnInfo /\ "input" \in turns[Turn(a)].vetted
      BY <1>0, <2>1 DEF TypeOK, VettedOK, At, Info, Turn
    <3>2. turns'[Turn(a)] = [turns[Turn(a)] EXCEPT !.vetted = turns[Turn(a)].vetted \cup {"output"}]
      BY <2>1 DEF TypeOK
    <3>3. turns'[Turn(a)].vetted = turns[Turn(a)].vetted \cup {"output"}
      BY <3>1, <3>2 DEF TurnInfo
    <3>4. turns[Turn(a)].vetted \subseteq Stages
      BY <3>1 DEF TurnInfo
    <3> QED BY <3>1, <3>3, <3>4 DEF Stages
  <2> QED BY <2>2, <2>3 DEF VettedOK, At, Info, Turn
<1>7. CASE StreamLoadOk(a) \/ OpenOk(a) \/ Finish(a) \/ Drained(a)
  <2>1. CASE StreamLoadOk(a)
    <3>1. call'[a].at = "opening"
      BY <2>1 DEF StreamLoadOk, Opening, Locals, TypeOK
    <3> QED BY <3>1, <1>i
  <2>2. CASE \E s \in {"streaming", "draining", "finishing"} : Goto(a, s)
    BY <2>2, <1>i, GotoKeeps
  <2> QED BY <1>7, <2>1, <2>2, <1>e DEF OpenOk, Finish, Drained, Return
<1>8. CASE \/ \E n \in 1..MaxCalls : ToolLoopExceeded(a, n)
           \/ SaveFails(a) \/ Compose(a) \/ DropAsk(a)
           \/ StreamFails(a) \/ DropOpening(a) \/ FinishOk(a) \/ FinishFails(a)
  BY <1>8, <1>e
  DEF ToolLoopExceeded, SaveFails, Compose, DropAsk, StreamFails, DropOpening,
      FinishOk, FinishFails, Return, Dropped
<1> QED
  BY <1>f, <1>1, <1>2, <1>3, <1>4, <1>5, <1>6, <1>7, <1>8
  DEF Step, InputBlocked, LoadFails, ChatFails, ToolFails, OutputBlocked

(* A call of another agent that runs keeps its turn as it is.              *)
LEMMA OthersTurn ==
  ASSUME TypeOK, CallInv, NEW a \in Agents, Step(a), NEW b \in Agents \ {a}
  PROVE  /\ history'[b] = history[b] /\ session'[b] = session[b] /\ call'[b] = call[b]
         /\ Running(b) => Turn(b) \in Turns /\ turns'[Turn(b)] = turns[Turn(b)]
<1>1. Frame(a)
  BY StepFrame
<1>2. ASSUME Running(b) PROVE Turn(b) \in Turns /\ turns'[Turn(b)] = turns[Turn(b)]
  <2>1. OwnTurn(b) /\ (Running(a) => OwnTurn(a))
    BY <1>2 DEF CallInv, CallOK
  <2>2. turns[Turn(b)].fate # "unasked" /\ (Running(a) => Turn(a) # Turn(b))
    BY <2>1 DEF OwnTurn, Info, Turn
  <2> QED BY <1>1, <2>1, <2>2 DEF Frame, TurnFrame, OwnTurn
<1> QED BY <1>1, <1>2 DEF Frame

(* What another agent holds is not disturbed. *)
LEMMA OthersHeld ==
  ASSUME TypeOK, CallInv, SessionInv, NEW a \in Agents, Step(a), NEW b \in Agents \ {a}
  PROVE  VettedOK(b)' /\ (Bound(b) /\ Loaded(b) => HeldOK(b))'
<1>1. /\ history'[b] = history[b] /\ session'[b] = session[b] /\ call'[b] = call[b]
      /\ Running(b) => Turn(b) \in Turns /\ turns'[Turn(b)] = turns[Turn(b)]
  BY OthersTurn
<1>2. VettedOK(b) /\ (Bound(b) /\ Loaded(b) => HeldOK(b))
  BY DEF SessionInv
<1>3. VettedOK(b)'
  BY <1>1, <1>2 DEF VettedOK, At, Info, Turn, Running
<1>4. ASSUME Bound(b)', Loaded(b)' PROVE HeldOK(b)'
  <2>1. HeldOK(b)
    BY <1>1, <1>2, <1>4 DEF Bound, Loaded
  <2>2. Held(b) \subseteq Turns
    BY TurnsInType DEF TypeOK, Held
  <2>3. ASSUME NEW u \in Turns, StoredTurn(u, session[b]) PROVE StoredTurn(u, session[b])'
    BY <1>1, <2>3, StoredTurnStays DEF StoredTurn
  <2> QED BY <1>1, <2>1, <2>2, <2>3 DEF HeldOK, Held, Turn, Answered
<1> QED BY <1>3, <1>4

(* What a store holds after a save is what the call held. *)
LEMMA OwnStores ==
  ASSUME TypeOK, CallInv, SessionInv, NEW a \in Agents, Step(a)
  PROVE  StoresOK'
<1>0. StoresOK /\ CallOK(a)
  BY DEF SessionInv, CallInv
<1>1. \A s \in Sessions : TurnsIn(store[s]) \subseteq Turns
  BY TurnsInType DEF TypeOK
<1>2. \A u \in Turns : \A s : StoredTurn(u, s) => StoredTurn(u, s)'
  BY StoredTurnStays
<1>3. ASSUME NEW s \in Sessions, store'[s] = store[s]
      PROVE  Once(store'[s]) /\ \A u \in TurnsIn(store'[s]) : StoredTurn(u, s)'
  BY <1>0, <1>1, <1>2, <1>3 DEF StoresOK
<1>4. CASE /\ StoreSave(a) /\ Answered(a)
           /\ turns'[Turn(a)].fate \in Persistable
           /\ turns'[Turn(a)].session = Info(a).session
           /\ turns'[Turn(a)].api = Info(a).api /\ turns'[Turn(a)].vetted = Info(a).vetted
  <2>1. Bound(a) /\ Loaded(a) /\ OwnTurn(a)
    BY <1>0, <1>4 DEF CallOK, Answered, Loaded, AskStates, StreamStates, Running
  <2>2. HeldOK(a) /\ VettedOK(a)
    BY <2>1 DEF SessionInv
  <2>3. Info(a).api # "stream" => Info(a).vetted = Stages
    BY <1>0, <1>4, <2>2 DEF CallOK, Answered, VettedOK, At, StreamStates
  <2>4. Held(a) \subseteq Turns
    BY TurnsInType DEF TypeOK, Held
  <2>5. ASSUME NEW s \in Sessions, s = session[a], NEW u \in Held(a)
        PROVE  StoredTurn(u, s)'
    <3>1. CASE u = Turn(a)
      BY <1>4, <2>1, <2>3, <2>5, <3>1 DEF StoredTurn, OwnTurn
    <3>2. CASE u # Turn(a)
      BY <1>2, <2>2, <2>4, <2>5, <3>2 DEF HeldOK
    <3> QED BY <3>1, <3>2
  <2>6. ASSUME NEW s \in Sessions
        PROVE  store'[s] = IF s = session[a] THEN history[a] ELSE store[s]
    BY <1>4 DEF StoreSave, TypeOK
  <2>7. ASSUME NEW s \in Sessions
        PROVE  Once(store'[s]) /\ \A u \in TurnsIn(store'[s]) : StoredTurn(u, s)'
    <3>1. CASE s = session[a]
      BY <2>2, <2>5, <2>6, <3>1 DEF HeldOK, Held
    <3>2. CASE s # session[a]
      BY <1>3, <2>6, <3>2
    <3> QED BY <3>1, <3>2
  <2> QED BY <2>7 DEF StoresOK
<1>5. CASE StoreClear(a) /\ At(a, "clearing")
  <2>1. session[a] \in Sessions
    BY <1>0, <1>5 DEF CallOK, Bound, TypeOK, At
  <2>2. \A s \in Sessions : store'[s] = store[s] \/ store'[s] = <<>>
    BY <1>5, <2>1 DEF StoreClear, TypeOK
  <2> QED BY <1>3, <2>2, Absent DEF StoresOK
<1>6. CASE UNCHANGED store
  BY <1>3, <1>6 DEF StoresOK
<1> QED BY <1>4, <1>5, <1>6, StoreMoves

LEMMA InitSessionInv == Init => SessionInv
<1> SUFFICES ASSUME Init PROVE SessionInv
  OBVIOUS
<1>1. \A s \in Sessions : store[s] = <<>>
  BY DEF Init
<1>2. \A a \in Agents : call[a].at = "idle"
  BY DEF Init, Idle, Locals
<1> QED BY <1>1, <1>2, Absent
        DEF SessionInv, StoresOK, VettedOK, Loaded, AskStates, StreamStates, At

LEMMA NextSessionInv == TypeOK /\ CallInv /\ SessionInv /\ [Next]_vars => SessionInv'
<1> SUFFICES ASSUME TypeOK, CallInv, SessionInv, [Next]_vars PROVE SessionInv'
  OBVIOUS
<1>1. ASSUME NEW a \in Agents, Step(a) PROVE SessionInv'
  <2>1. ASSUME NEW b \in Agents PROVE VettedOK(b)' /\ (Bound(b) /\ Loaded(b) => HeldOK(b))'
    BY <1>1, OwnHeld, OwnVetted, OthersHeld
  <2> QED BY <1>1, <2>1, OwnStores DEF SessionInv
<1>2. CASE UNCHANGED vars
  BY <1>2 DEF vars, SessionInv, StoresOK, StoredTurn, VettedOK, HeldOK, Held, Bound, Loaded,
              Answered, Turn, Info, At
<1> QED BY <1>1, <1>2 DEF Next

LEMMA SessionInvariant == Spec => []SessionInv
BY RuntimeInvariant, InitSessionInv, NextSessionInv, PTL DEF Spec

(* No transcript leaks into another session, for any agents bound to any   *)
(* sessions: what is stored is of the session, and what an agent sends is  *)
(* of the session it is bound to, whatever it held before set_session.     *)
THEOREM Isolated == Spec => []SessionIsolation
<1>1. CallInv /\ SessionInv => SessionIsolation
  <2> SUFFICES ASSUME CallInv, SessionInv PROVE SessionIsolation
    OBVIOUS
  <2>1. \A s \in Sessions : \A t \in TurnsIn(store[s]) : turns[t].session = s
    BY DEF SessionInv, StoresOK, StoredTurn
  <2>2. ASSUME NEW a \in Agents, Requesting(a), Bound(a),
               NEW t \in TurnsIn(BuildRequest(a).messages)
        PROVE  turns[t].session = session[a]
    <3>1. HeldOK(a) /\ OwnTurn(a)
      BY <2>2 DEF SessionInv, CallInv, CallOK, Requesting, Loaded, AskStates, StreamStates,
                  Running
    <3> QED BY <2>2, <3>1 DEF BuildRequest, HeldOK, Held, StoredTurn, OwnTurn, Info, Turn
  <2> QED BY <2>1, <2>2 DEF SessionIsolation
<1> QED BY <1>1, RuntimeInvariant, SessionInvariant, PTL

(* A turn whose call failed or was dropped before it tried to save is in   *)
(* no store: no later call of any agent writes it, though histories of     *)
(* agents may still hold it.                                               *)
THEOREM NoTrace == Spec => []FailedTurnsLeaveNoTrace
<1>1. SessionInv => FailedTurnsLeaveNoTrace
  BY DEF SessionInv, StoresOK, StoredTurn, FailedTurnsLeaveNoTrace
<1> QED BY <1>1, SessionInvariant, PTL

(* A question and an answer are stored once, whatever is loaded, saved and *)
(* retried by whatever agents.                                             *)
THEOREM StoredOnce == Spec => []StoredTurnsDistinct
<1>1. SessionInv => StoredTurnsDistinct
  BY DEF SessionInv, StoresOK, Once, StoredTurnsDistinct
<1> QED BY <1>1, SessionInvariant, PTL

(* A stored turn of ask or ask_json passed the guardrails of both stages,  *)
(* after however many rounds of tools.                                     *)
THEOREM Vetted == Spec => []AskedTurnsVetted
<1>1. SessionInv => AskedTurnsVetted
  BY DEF SessionInv, StoresOK, StoredTurn, AskedTurnsVetted
<1> QED BY <1>1, SessionInvariant, PTL

-----------------------------------------------------------------------------
(***************************************************************************)
(* How a cleared turn comes back.                                          *)
(***************************************************************************)

(* What a call adds to its history is its own turn, which nobody cleared.  *)
LEMMA OwnRace ==
  ASSUME TypeOK, CallInv, SessionInv, RaceInv, NEW a \in Agents, Step(a),
         Bound(a)', Loaded(a)'
  PROVE  ByRace(history[a])'
<1>0. Grows(a)
  BY LoadedMoves
<1>1. /\ session[a] \in Sessions /\ Bound(a) /\ Turn(a) \in Turns
      /\ history[a] \in Seq(Message) /\ store[session[a]] \in Seq(Message)
      /\ cleared' = cleared
  BY <1>0 DEF Grows, Turn, CallInv, CallOK, OwnTurn, TypeOK, Bound
<1>2. /\ Loaded(a) => ByRace(history[a])
      /\ ByRace(store[session[a]])
  BY <1>1 DEF RaceInv
<1>m. /\ User(Turn(a)) \in Message /\ User(Turn(a)).turn = Turn(a)
      /\ Answer(Turn(a)) \in Message /\ Answer(Turn(a)).turn = Turn(a)
  BY <1>1, MessageType DEF User, Answer
<1>3. ASSUME Info(a).fate = "running", NEW h \in Seq(Message), ByRace(h),
             NEW m \in Message, m.turn = Turn(a), history'[a] = Append(h, m)
      PROVE  ByRace(history[a])'
  <2>1. \A c \in cleared : c[1] # Turn(a)
    BY <1>3 DEF RaceInv, Persistable, Info, Turn
  <2>2. TurnsIn(history'[a]) = TurnsIn(h) \cup {Turn(a)}
    BY <1>3, TurnsAppend
  <2> QED BY <1>1, <1>3, <2>1, <2>2 DEF ByRace
<1>4. CASE At(a, "composing")
  BY <1>0, <1>4 DEF Grows, Loaded, At, AskStates, StreamStates
<1>5. CASE ~At(a, "composing")
  <2>1. Info(a).fate = "running"
    BY <1>0, <1>5 DEF Grows, CallInv, CallOK, OwnTurn
  <2>2. CASE history'[a] = Append(store[session[a]], User(Turn(a)))
    BY <1>1, <1>2, <1>3, <1>m, <2>1, <2>2
  <2>3. CASE Loaded(a) /\ history'[a] = history[a]
    BY <1>1, <1>2, <2>3 DEF ByRace
  <2>4. ASSUME Loaded(a), NEW m \in Message, m.turn = Turn(a),
               history'[a] = Append(history[a], m)
        PROVE  ByRace(history[a])'
    BY <1>1, <1>2, <1>3, <2>1, <2>4
  <2> QED BY <1>0, <1>m, <2>2, <2>3, <2>4 DEF Grows
<1> QED BY <1>4, <1>5

(* A clear records the calls that hold what it removes: they are of the    *)
(* session, and loaded it.                                                 *)
LEMMA ClearRaces ==
  ASSUME TypeOK, CallInv, SessionInv, RaceInv, NEW a \in Agents, StoreClear(a),
         At(a, "clearing"), UNCHANGED turns
  PROVE  /\ \A c \in cleared' : turns'[c[1]].fate \in Persistable
         /\ \A s \in Sessions : ByRace(store[s])'
         /\ \A b \in Agents \ {a} :
              /\ Bound(b) /\ Loaded(b)
              /\ history'[b] = history[b]
              => ByRace(history[b])'
<1> DEFINE gone == TurnsIn(store[session[a]])
<1>1. session[a] \in Sessions
  BY DEF CallInv, CallOK, Bound, TypeOK, At
<1>2. \A t \in gone : StoredTurn(t, session[a])
  BY <1>1 DEF SessionInv, StoresOK
<1>3. /\ cleared' = cleared \cup {<<t, Racing(a)>> : t \in gone}
      /\ \A s \in Sessions : store'[s] = IF s = session[a] THEN <<>> ELSE store[s]
  BY DEF StoreClear, TypeOK
<1> HIDE DEF gone
<1>4. \A c \in cleared' : c \in cleared \/ (c[1] \in gone /\ c[2] = Racing(a))
  BY <1>3
<1>5. \A c \in cleared' : turns'[c[1]].fate \in Persistable
  BY <1>2, <1>4 DEF RaceInv, StoredTurn
<1>6. ASSUME NEW s \in Sessions PROVE ByRace(store[s])'
  <2>1. CASE s = session[a]
    BY <1>3, <2>1, Absent DEF ByRace
  <2>2. CASE s # session[a]
    <3>1. store'[s] = store[s]
      BY <1>3, <2>2
    <3>2. ASSUME NEW c \in cleared', c[1] \in TurnsIn(store[s])
          PROVE  c \in cleared
      <4>1. StoredTurn(c[1], s)
        BY <3>2 DEF SessionInv, StoresOK
      <4> QED BY <1>2, <1>4, <2>2, <4>1 DEF StoredTurn
    <3> QED BY <3>1, <3>2 DEF ByRace, RaceInv
  <2> QED BY <2>1, <2>2
<1>7. ASSUME NEW b \in Agents \ {a}, Bound(b), Loaded(b), history'[b] = history[b]
      PROVE  ByRace(history[b])'
  <2>1. HeldOK(b) /\ ByRace(history[b])
    BY <1>7 DEF SessionInv, RaceInv
  <2>2. ASSUME NEW c \in cleared', c \notin cleared, c[1] \in TurnsIn(history[b])
        PROVE  TurnsIn(history[b]) \cap c[2] # {}
    <3>1. c[1] \in gone /\ c[2] = Racing(a)
      BY <1>4, <2>2
    <3>2. session[b] = session[a]
      <4>1. CASE c[1] = Turn(b)
        <5>1. Info(b).session = session[b]
          BY <1>7 DEF CallInv, CallOK, OwnTurn, Running, Loaded, AskStates, StreamStates
        <5> QED BY <1>2, <3>1, <4>1, <5>1 DEF StoredTurn, Info, Turn
      <4>2. CASE StoredTurn(c[1], session[b])
        BY <1>2, <3>1, <4>2 DEF StoredTurn
      <4> QED BY <2>1, <2>2, <4>1, <4>2 DEF HeldOK, Held
    <3>3. Turn(b) \in Racing(a)
      BY <1>7, <3>2 DEF Racing, Loaded
    <3> QED BY <2>1, <3>1, <3>3 DEF HeldOK, Held
  <2> QED BY <1>7, <2>1, <2>2 DEF ByRace
<1> QED BY <1>5, <1>6, <1>7

LEMMA StepRaceInv ==
  ASSUME TypeOK, CallInv, SessionInv, RaceInv, NEW a \in Agents, Step(a)
  PROVE  RaceInv'
<1>1. \A b \in Agents \ {a} :
        history'[b] = history[b] /\ session'[b] = session[b] /\ call'[b] = call[b]
  BY OthersTurn
<1>2. CASE UNCHANGED cleared /\ \A s \in Sessions : ByRace(store[s])'
  <2>1. \A c \in cleared : c[1] \in Turns
    BY DEF TypeOK
  <2>2. \A c \in cleared' : turns'[c[1]].fate \in Persistable
    BY <1>2, <2>1, StoredTurnStays DEF RaceInv
  <2>3. ASSUME NEW b \in Agents, Bound(b)', Loaded(b)' PROVE ByRace(history[b])'
    <3>1. CASE b = a
      BY <2>3, <3>1, OwnRace
    <3>2. CASE b # a
      <4>1. Bound(b) /\ Loaded(b) /\ history'[b] = history[b]
        BY <1>1, <2>3, <3>2 DEF Bound, Loaded
      <4> QED BY <1>2, <4>1 DEF RaceInv, ByRace
    <3> QED BY <3>1, <3>2
  <2> QED BY <1>2, <2>2, <2>3 DEF RaceInv
<1>3. CASE StoreSave(a) /\ Answered(a) /\ UNCHANGED cleared
  <2>1. Bound(a) /\ Loaded(a)
    BY <1>3 DEF CallInv, CallOK, Answered, Loaded, AskStates, StreamStates
  <2>2. \A s \in Sessions : store'[s] = store[s] \/ store'[s] = history[a]
    BY <1>3 DEF StoreSave, TypeOK
  <2>3. \A s \in Sessions : ByRace(store[s])'
    BY <1>3, <2>1, <2>2 DEF RaceInv, ByRace
  <2> QED BY <1>2, <1>3, <2>3
<1>4. CASE UNCHANGED <<store, cleared>>
  <2>1. \A s \in Sessions : ByRace(store[s])'
    BY <1>4 DEF RaceInv, ByRace
  <2> QED BY <1>2, <1>4, <2>1
<1>5. CASE StoreClear(a) /\ At(a, "clearing") /\ UNCHANGED turns
  <2>1. CASE Bound(a)' /\ Loaded(a)'
    BY <1>4, <2>1, LoadedMoves DEF Grows
  <2>2. CASE ~(Bound(a)' /\ Loaded(a)')
    <3>1. ASSUME NEW b \in Agents, Bound(b)', Loaded(b)' PROVE ByRace(history[b])'
      <4>1. b # a
        BY <2>2, <3>1
      <4>2. Bound(b) /\ Loaded(b) /\ history'[b] = history[b]
        BY <1>1, <3>1, <4>1 DEF Bound, Loaded
      <4> QED BY <1>5, <4>1, <4>2, ClearRaces
    <3> QED BY <1>5, <3>1, ClearRaces DEF RaceInv
  <2> QED BY <2>1, <2>2
<1> QED BY <1>3, <1>4, <1>5, StoreMoves

LEMMA RaceInvariant == Spec => []RaceInv
<1>1. Init => RaceInv
  <2> SUFFICES ASSUME Init PROVE RaceInv
    OBVIOUS
  <2>1. cleared = {}
    BY DEF Init
  <2> QED BY <2>1 DEF RaceInv, ByRace
<1>2. TypeOK /\ CallInv /\ SessionInv /\ RaceInv /\ [Next]_vars => RaceInv'
  <2> SUFFICES ASSUME TypeOK, CallInv, SessionInv, RaceInv, [Next]_vars PROVE RaceInv'
    OBVIOUS
  <2>1. CASE UNCHANGED vars
    BY <2>1 DEF vars, RaceInv, ByRace, Bound, Loaded
  <2> QED BY <2>1, StepRaceInv DEF Next
<1> QED BY <1>1, <1>2, RuntimeInvariant, SessionInvariant, PTL DEF Spec

(* What a clear removed comes back only with the turn of a call that had   *)
(* loaded the session before the clear, for any number of agents, clears   *)
(* and calls in progress.                                                  *)
THEOREM ReturnsByRaceOnly == Spec => []ClearedReturnsByRaceOnly
<1>1. RaceInv => ClearedReturnsByRaceOnly
  BY DEF RaceInv, ByRace, ClearedReturnsByRaceOnly
<1> QED BY <1>1, RaceInvariant, PTL

-----------------------------------------------------------------------------
(***************************************************************************)
(* Where the JSON format comes from.                                       *)
(***************************************************************************)

(* A step of a call sets the format, restores it, leaves it in a call that *)
(* goes on, or leaves it behind with a dropped turn.                       *)
FormatMoves(a) ==
  \/ ~Running(a) /\ ~Running(a)' /\ UNCHANGED format
  \/ ~Running(a) /\ Running(a)' /\ UNCHANGED format /\ Info(a)'.api # "json"
  \/ ~Running(a) /\ InJson(a)' /\ call'[a].prevFormat = format[a]
  \/ /\ Running(a) /\ Running(a)' /\ UNCHANGED format
     /\ Info(a)'.api = Info(a).api
     /\ Info(a).api = "json" => call'[a].prevFormat = call[a].prevFormat
  \/ Running(a) /\ ~Running(a)' /\ RestoreFormat(a)
  \/ /\ Running(a) /\ ~Running(a)' /\ UNCHANGED format
     /\ \E f \in {"abandoned", "cut"} : SetFate(a, f)

LEMMA StepFormat ==
  ASSUME TypeOK, CallInv, NEW a \in Agents, Step(a)
  PROVE  FormatMoves(a)
<1>0. CallOK(a) /\ (Running(a) => Turn(a) \in Turns)
  BY DEF CallInv, CallOK, OwnTurn
<1>e. ASSUME NEW f, Ends(a, f) PROVE call'[a].at = "idle" /\ ~Running(a)'
  BY <1>e DEF Ends, Idle, Locals, TypeOK, Running
<1>r. ASSUME NEW f, Return(a, f), Running(a) PROVE FormatMoves(a)
  BY <1>r, <1>e DEF Return, FormatMoves
<1>d. ASSUME NEW f \in {"abandoned", "cut"}, Dropped(a, f), Running(a) PROVE FormatMoves(a)
  BY <1>d, <1>e DEF Dropped, Ends, FormatMoves
<1>f. ASSUME NEW s \in States \ {"idle", "clearing"}, FailsAt(a, s) PROVE FormatMoves(a)
  BY <1>f, <1>r DEF FailsAt, Running, At
<1>g. ASSUME NEW s \in States \ {"idle", "clearing"}, Goto(a, s), Running(a),
             UNCHANGED format, turns'[Turn(a)].api = Info(a).api
      PROVE FormatMoves(a)
  <2>1. /\ call'[a].at = s /\ call'[a].turn = call[a].turn
        /\ call'[a].prevFormat = call[a].prevFormat
    BY <1>g, GotoKeeps
  <2> QED BY <1>g, <2>1 DEF FormatMoves, Running, Info, Turn
<1>s. {"screening", "loading", "chatting", "tools", "vetting", "saving", "composing",
       "streaming", "draining", "finishing"} \subseteq States \ {"idle", "clearing"}
  BY DEF States, AskStates, StreamStates
<1>1. CASE (\E s \in Sessions : SetSession(a, s)) \/ ClearHistory(a)
  BY <1>1 DEF SetSession, ClearHistory, At, Running, FormatMoves
<1>2. CASE ClearSession(a) \/ ClearReturns(a)
  <2>1. \E s \in {"idle", "clearing"} : Goto(a, s)
    BY <1>2 DEF ClearSession, ClearReturns
  <2>2. ~Running(a)'
    BY <2>1, GotoKeeps DEF Running
  <2> QED BY <1>2, <2>2 DEF ClearSession, ClearReturns, At, Running, FormatMoves
<1>3. ASSUME NEW t \in Turns, Ask(a, t) \/ Stream(a, t) PROVE FormatMoves(a)
  <2>1. PICK s \in {"screening", "loading", "opening"}, api \in {"ask", "stream"} :
          \E f, h : Begin(a, t, api, Locals(s, t, f, h))
    BY <1>3 DEF Ask, Stream, Waiting, Opening
  <2>2. /\ ~Running(a) /\ call'[a].at = s /\ call'[a].turn = t /\ turns'[t].api = api
    BY <2>1 DEF Begin, Locals, TypeOK, At, Running
  <2> QED BY <1>3, <2>2 DEF Ask, Stream, FormatMoves, Running, Info, Turn
<1>4. ASSUME NEW t \in Turns, AskJson(a, t) PROVE FormatMoves(a)
  <2>1. /\ ~Running(a) /\ call'[a].at = "screening" /\ call'[a].prevFormat = format[a]
        /\ call'[a].turn = t /\ turns'[t].api = "json"
    BY <1>4 DEF AskJson, Begin, Locals, TypeOK, At, Running
  <2> QED BY <2>1 DEF FormatMoves, InJson, Running, Info, Turn
<1>5. CASE InputPasses(a)
  <2>1. /\ Running(a) /\ UNCHANGED format /\ \E s \in {"loading", "chatting"} : Goto(a, s)
        /\ turns' = [turns EXCEPT ![Turn(a)].vetted = @ \cup {"input"}]
    BY <1>5 DEF InputPasses, StartLoop, Running, At
  <2> QED BY <1>0, <1>g, <1>s, <2>1, VettedKeeps
<1>6. CASE LoadOk(a) \/ ModelAnswers(a) \/ OpenOk(a) \/ Finish(a)
  <2>1. /\ Running(a) /\ UNCHANGED <<format, turns>>
        /\ \E s \in {"chatting", "vetting", "streaming", "draining"} : Goto(a, s)
    BY <1>6 DEF LoadOk, StartLoop, ModelAnswers, OpenOk, Finish, Running, At
  <2> QED BY <1>g, <1>s, <2>1 DEF Info, Turn
<1>7. CASE ToolReplies(a)
  <2>1. /\ Running(a) /\ UNCHANGED <<format, turns>>
        /\ call'[a].at \in {"chatting", "tools"} /\ call'[a].turn = call[a].turn
        /\ call'[a].prevFormat = call[a].prevFormat
    BY <1>7 DEF ToolReplies, TypeOK, Call, At, Running
  <2> QED BY <2>1 DEF FormatMoves, Running, Info, Turn
<1>8. ASSUME NEW n \in 1..MaxCalls, ModelCallsTools(a, n) PROVE FormatMoves(a)
  <2>1. /\ Running(a) /\ UNCHANGED <<format, turns>>
        /\ call'[a].at = "tools" /\ call'[a].turn = call[a].turn
        /\ call'[a].prevFormat = call[a].prevFormat
    BY <1>8 DEF ModelCallsTools, TypeOK, Call, At, Running
  <2> QED BY <2>1 DEF FormatMoves, Running, Info, Turn
<1>9. CASE OutputPasses(a)
  <2>1. /\ Running(a) /\ UNCHANGED format /\ \E s \in {"saving", "composing"} : Goto(a, s)
        /\ turns' = [turns EXCEPT ![Turn(a)].vetted = @ \cup {"output"}]
    BY <1>9 DEF OutputPasses, Running, At
  <2> QED BY <1>0, <1>g, <1>s, <2>1, VettedKeeps
<1>10. CASE SaveOk(a)
  <2>1. /\ Running(a) /\ UNCHANGED format /\ Goto(a, "composing") /\ SetFate(a, "saved")
    BY <1>10 DEF SaveOk, Running, At
  <2> QED BY <1>0, <1>g, <1>s, <2>1, SetFateKeeps
<1>11. CASE StreamLoadOk(a)
  <2>1. /\ Running(a) /\ UNCHANGED <<format, turns>> /\ Info(a).api = "stream"
        /\ call'[a].at = "opening" /\ call'[a].turn = call[a].turn
    BY <1>11 DEF StreamLoadOk, Opening, Locals, TypeOK, Turn, At, Running
  <2> QED BY <2>1 DEF FormatMoves, Running, Info, Turn
<1>12. CASE Drained(a)
  <2>1. CASE Bound(a)
    <3>1. Running(a) /\ UNCHANGED <<format, turns>> /\ Goto(a, "finishing")
      BY <1>12, <2>1 DEF Drained, Running, At
    <3> QED BY <1>g, <1>s, <3>1 DEF Info, Turn
  <2>2. CASE ~Bound(a)
    BY <1>12, <2>2, <1>r DEF Drained, Running, At
  <2> QED BY <2>1, <2>2
<1>13. CASE \/ \E n \in 1..MaxCalls : ToolLoopExceeded(a, n)
            \/ SaveFails(a) \/ Compose(a) \/ StreamFails(a) \/ FinishOk(a) \/ FinishFails(a)
  BY <1>13, <1>r
  DEF ToolLoopExceeded, SaveFails, Compose, StreamFails, FinishOk, FinishFails, Running, At
<1>14. CASE DropAsk(a) \/ DropOpening(a)
  BY <1>14, <1>d DEF DropAsk, DropOpening, Running, AskStates
<1> QED
  BY <1>f, <1>s, <1>1, <1>2, <1>3, <1>4, <1>5, <1>6, <1>7, <1>8, <1>9, <1>10, <1>11,
     <1>12, <1>13, <1>14
  DEF Step, InputBlocked, LoadFails, ChatFails, ToolFails, OutputBlocked

LEMMA FormatFrame ==
  ASSUME TypeOK, NEW a \in Agents, Step(a), NEW b \in Agents \ {a}
  PROVE  format'[b] = format[b]
<1>1. CASE UNCHANGED format \/ \E f \in Formats : format' = [format EXCEPT ![a] = f]
  BY <1>1 DEF TypeOK
<1>2. ASSUME RestoreFormat(a) PROVE format'[b] = format[b]
  BY <1>2 DEF RestoreFormat, TypeOK
<1>3. \/ UNCHANGED format \/ RestoreFormat(a)
      \/ \E f \in Formats : format' = [format EXCEPT ![a] = f]
  BY DEF Step, SetSession, ClearHistory, ClearSession, ClearReturns, Ask, AskJson,
         Stream, InputBlocked, InputPasses, LoadOk, LoadFails, ChatFails, ModelAnswers,
         ModelCallsTools, ToolLoopExceeded, ToolReplies, ToolFails, OutputBlocked,
         OutputPasses, SaveOk, SaveFails, Compose, DropAsk, StreamLoadOk, OpenOk,
         StreamFails, DropOpening, Finish, Drained, FinishOk, FinishFails, FailsAt,
         Return, Dropped, Formats
<1> QED BY <1>1, <1>2, <1>3

(* A dropped turn stays dropped. *)
LEMMA LeakStays ==
  ASSUME TypeOK, CallInv, NEW a \in Agents, Step(a), NEW b \in Agents, Leaked(b)
  PROVE  Leaked(b)'
BY TurnSettles DEF Leaked

LEMMA StepJson ==
  ASSUME TypeOK, CallInv, JsonInv, NEW a \in Agents, Step(a)
  PROVE  JsonInv'
<1> SUFFICES ASSUME NEW b \in Agents
             PROVE  /\ format'[b] = "json" => Leaked(b)' \/ InJson(b)'
                    /\ InJson(b)' /\ call'[b].prevFormat = "json" => Leaked(b)'
  BY DEF JsonInv
<1>0. /\ format[b] = "json" => Leaked(b) \/ InJson(b)
      /\ InJson(b) /\ call[b].prevFormat = "json" => Leaked(b)
      /\ Leaked(b) => Leaked(b)'
  BY LeakStays DEF JsonInv
<1>1. CASE b # a
  <2>1. /\ call'[b] = call[b] /\ format'[b] = format[b]
        /\ Running(b) => turns'[Turn(b)] = turns[Turn(b)]
    BY <1>1, OthersTurn, FormatFrame
  <2>2. InJson(b)' => InJson(b)
    BY <2>1 DEF InJson, Running, Info, Turn
  <2>3. CASE Running(b)
    <3>1. Running(b)' /\ Info(b)' = Info(b)
      BY <2>1, <2>3 DEF Running, Info, Turn
    <3> QED BY <1>0, <2>1, <2>2, <2>3, <3>1 DEF InJson
  <2>4. CASE ~Running(b)
    BY <1>0, <2>1, <2>2, <2>4 DEF InJson
  <2> QED BY <2>3, <2>4
<1>2. CASE b = a
  <2>0. FormatMoves(a)
    BY StepFormat
  <2>1. CASE ~Running(a) /\ ~Running(a)' /\ UNCHANGED format
    BY <1>0, <1>2, <2>1 DEF InJson
  <2>2. CASE ~Running(a) /\ Running(a)' /\ UNCHANGED format /\ Info(a)'.api # "json"
    BY <1>0, <1>2, <2>2 DEF InJson
  <2>3. CASE ~Running(a) /\ InJson(a)' /\ call'[a].prevFormat = format[a]
    BY <1>0, <1>2, <2>3 DEF InJson
  <2>4. CASE /\ Running(a) /\ Running(a)' /\ UNCHANGED format
             /\ Info(a)'.api = Info(a).api
             /\ Info(a).api = "json" => call'[a].prevFormat = call[a].prevFormat
    BY <1>0, <1>2, <2>4 DEF InJson
  <2>5. CASE Running(a) /\ ~Running(a)' /\ RestoreFormat(a)
    <3>1. format'[a] = IF Info(a).api = "json" THEN call[a].prevFormat ELSE format[a]
      BY <2>5 DEF RestoreFormat, TypeOK
    <3> QED BY <1>0, <1>2, <2>5, <3>1 DEF InJson
  <2>6. CASE /\ Running(a) /\ ~Running(a)' /\ UNCHANGED format
             /\ \E f \in {"abandoned", "cut"} : SetFate(a, f)
    <3>1. ASSUME Info(a).api = "json" PROVE Leaked(a)'
      <4>1. Turn(a) \in Turns /\ Info(a).by = a
        BY <2>6 DEF CallInv, CallOK, OwnTurn
      <4> QED BY <2>6, <3>1, <4>1, SetFateKeeps DEF Leaked
    <3> QED BY <1>0, <1>2, <2>6, <3>1 DEF InJson
  <2> QED BY <2>0, <2>1, <2>2, <2>3, <2>4, <2>5, <2>6 DEF FormatMoves
<1> QED BY <1>1, <1>2

(* A plain ask is in JSON mode only after an ask_json of the same agent    *)
(* was dropped: all other ends of a call, also of one that found the JSON  *)
(* format already there, restore what it found.                            *)
THEOREM JsonByDropOnly == Spec => []JsonModeLeaksOnlyByDrop
<1>1. Init => JsonInv
  BY DEF Init, Idle, Locals, JsonInv, InJson, Running
<1>2. TypeOK /\ CallInv /\ JsonInv /\ [Next]_vars => JsonInv'
  <2> SUFFICES ASSUME TypeOK, CallInv, JsonInv, [Next]_vars PROVE JsonInv'
    OBVIOUS
  <2>1. CASE UNCHANGED vars
    BY <2>1 DEF vars, JsonInv, Leaked, InJson, Running, Info, Turn
  <2> QED BY <2>1, StepJson DEF Next
<1>3. JsonInv => JsonModeLeaksOnlyByDrop
  BY DEF JsonInv, JsonModeLeaksOnlyByDrop, BuildRequest, Leaked, InJson
<1> QED BY <1>1, <1>2, <1>3, RuntimeInvariant, PTL DEF Spec

-----------------------------------------------------------------------------
(***************************************************************************)
(* What an agent without a session sends.                                  *)
(***************************************************************************)

(* A history without failed turns has had none before, as far as the step  *)
(* kept it.                                                                *)
LEMMA UnfailedBefore ==
  ASSUME TypeOK, CallInv, NEW a \in Agents, Step(a),
         NEW h \in Seq(Message), NEW g, TurnsIn(h) \subseteq TurnsIn(g), Unfailed(g)'
  PROVE  \A t \in TurnsIn(h) : ~Failed(t) /\ ~Failed(t)'
BY TurnsInType, StoredTurnStays DEF Unfailed

LEMMA OwnLocal ==
  ASSUME TypeOK, CallInv, TranscriptInv, LocalInv, NEW a \in Agents, Step(a),
         ~Bound(a)', Unfailed(history[a])'
  PROVE  LocalOK(a)'
<1> DEFINE h == history[a]
           t == Turn(a)
<1>0. /\ CallOK(a) /\ StreamOK(a) /\ h \in Seq(Message) /\ history'[a] \in Seq(Message)
      /\ (Running(a) => t \in Turns /\ User(t) \in Message /\ Answer(t) \in Message)
  BY StepType, MessageType DEF CallInv, CallOK, OwnTurn, TranscriptInv, TypeOK
<1>b. ~Bound(a) /\ call[a].at \notin {"clearing", "loading", "saving", "finishing"}
  <2>1. session'[a] = session[a] \/ session'[a] # None
    BY DEF Step, SetSession, ClearHistory, ClearSession, ClearReturns, Ask, AskJson,
         Stream, InputBlocked, InputPasses, LoadOk, LoadFails, ChatFails, ModelAnswers,
         ModelCallsTools, ToolLoopExceeded, ToolReplies, ToolFails, OutputBlocked,
         OutputPasses, SaveOk, SaveFails, Compose, DropAsk, StreamLoadOk, OpenOk,
         StreamFails, DropOpening, Finish, Drained, FinishOk, FinishFails, FailsAt, TypeOK
  <2> QED BY <1>0, <2>1 DEF Bound, CallOK
<1>u. ASSUME TurnsIn(h) \subseteq TurnsIn(history'[a]) PROVE LocalOK(a) /\ Unfailed(h)
  <2>1. Unfailed(h)
    BY <1>0, <1>u, UnfailedBefore DEF Unfailed
  <2> QED BY <1>b, <2>1 DEF LocalInv
<1>a. ASSUME NEW m \in Message, history'[a] = Append(h, m) PROVE LocalOK(a)
  BY <1>0, <1>a, <1>u, TurnsAppend
<1>s. ASSUME history'[a] = h PROVE LocalOK(a) /\ Unfailed(h)
  BY <1>s, <1>u
<1>i. ASSUME call'[a].at \in {"idle", "screening", "composing"}, Closed(history'[a])
      PROVE  LocalOK(a)'
  BY <1>i DEF LocalOK, HistoryOK
<1>e. ASSUME NEW f, Ends(a, f), Closed(history'[a]) PROVE LocalOK(a)'
  BY <1>e, <1>i DEF Ends, Idle, Locals, TypeOK
(* A failed turn in the history. *)
<1>x. ASSUME NEW f \in {"unsure", "cut", "rejected", "abandoned"}, Ends(a, f), Running(a)
      PROVE  t \notin TurnsIn(history'[a])
  <2>1. turns'[t].fate = f
    BY <1>0, <1>x, SetFateKeeps DEF Ends
  <2>2. \A u \in TurnsIn(history'[a]) : turns'[u].fate \notin {"unsure", "cut", "rejected", "abandoned"}
    BY DEF Unfailed, Failed
  <2> QED BY <2>1, <2>2
<1> HIDE DEF h, t
<1>w. ASSUME call[a].at \in {"chatting", "tools", "vetting"}, history'[a] = h
      PROVE  t \in TurnsIn(h)
  <2>1. h # <<>> /\ Last(h).turn = t
    BY <1>s, <1>w DEF LocalOK, HistoryOK, Speaking, Calling, h, t
  <2>2. Len(h) \in 1..Len(h)
    BY <1>0, <2>1
  <2> QED BY <2>1, <2>2 DEF Last, TurnsIn
<1>c. ASSUME call[a].at \in {"idle", "screening", "composing"}, history'[a] = h
      PROVE  Closed(history'[a])
  BY <1>c, <1>s DEF LocalOK, h
<1>k. ASSUME NEW f \in {"unsure", "cut", "rejected", "abandoned"}, Ends(a, f), history'[a] = h,
             call[a].at \in {"screening", "chatting", "tools", "vetting", "composing"}
      PROVE  LocalOK(a)'
  BY <1>k, <1>x, <1>w, <1>c, <1>e DEF Running
<1>f. ASSUME NEW s, FailsAt(a, s),
             s \in {"screening", "loading", "chatting", "tools", "vetting"}
      PROVE  LocalOK(a)'
  BY <1>f, <1>b, <1>k DEF FailsAt, Return, At, h
<1>1. CASE (\E s \in Sessions : SetSession(a, s)) \/ ClearReturns(a)
  BY <1>1, <1>b, NoneAssumption DEF SetSession, ClearReturns, At, Bound, TypeOK
<1>2. CASE ClearHistory(a) \/ ClearSession(a)
  <2>1. history'[a] = <<>>
    BY <1>2 DEF ClearHistory, ClearSession, TypeOK
  <2>2. Closed(<<>>)
    BY DEF Closed, WellPaired
  <2>3. call'[a].at = "idle"
    <3>1. CASE ClearHistory(a)
      BY <3>1 DEF ClearHistory, At
    <3>2. CASE ClearSession(a)
      BY <1>b, <3>2, GotoKeeps DEF ClearSession
    <3> QED BY <1>2, <3>1, <3>2
  <2> QED BY <1>i, <2>1, <2>2, <2>3
<1>3. CASE \E u \in Turns : Ask(a, u) \/ AskJson(a, u)
  <2>1. call'[a].at = "screening" /\ history'[a] = h /\ call[a].at = "idle"
    BY <1>3 DEF Ask, AskJson, Waiting, Begin, Locals, TypeOK, At, h
  <2> QED BY <1>c, <1>i, <2>1
<1>4. ASSUME NEW u \in Turns, Stream(a, u) PROVE LocalOK(a)'
  <2>1. /\ call[a].at = "idle" /\ history'[a] = Append(h, User(u))
        /\ call'[a] = Locals("opening", u, "text", h)
    BY <1>4, <1>b DEF Stream, Begin, Opening, Push, At, TypeOK, h
  <2>2. LocalOK(a)
    BY <1>a, <2>1, MessageType
  <2> QED BY <2>1, <2>2 DEF LocalOK, HistoryOK, Locals, h
<1>5. CASE InputPasses(a)
  <2>1. /\ call[a].at = "screening" /\ history'[a] = Append(h, User(t))
        /\ Goto(a, "chatting")
    BY <1>5, <1>b DEF InputPasses, StartLoop, At, TypeOK, h, t
  <2>2. t \in Turns /\ User(t) \in Message /\ call'[a].at = "chatting" /\ Turn(a)' = t
    BY <1>0, <2>1, GotoKeeps DEF Running, Turn, t
  <2>3. LocalOK(a)
    BY <1>a, <2>1, <2>2
  <2>4. Speaking(history'[a], t)
    BY <1>0, <2>1, <2>2, <2>3, AskPairs DEF LocalOK, h
  <2> QED BY <2>2, <2>4 DEF LocalOK, HistoryOK
<1>6. CASE \/ LoadOk(a) \/ StreamLoadOk(a) \/ SaveOk(a) \/ SaveFails(a)
           \/ FinishOk(a) \/ FinishFails(a)
  BY <1>6, <1>b DEF LoadOk, StreamLoadOk, SaveOk, SaveFails, FinishOk, FinishFails, At
<1>7. ASSUME NEW n \in 1..MaxCalls, ModelCallsTools(a, n) PROVE LocalOK(a)'
  <2>1. /\ call[a].at = "chatting" /\ history'[a] = Append(h, Calls(t, n))
        /\ call'[a].at = "tools" /\ Turn(a)' = t /\ call'[a].left = n
    BY <1>7 DEF ModelCallsTools, Push, TypeOK, Call, Turn, At, h, t
  <2>2. t \in Turns /\ Calls(t, n) \in Message
    BY <1>0, <2>1, MessageType, MaxCallsAssumption DEF Running
  <2>3. Speaking(h, t)
    BY <1>a, <2>1, <2>2 DEF LocalOK, HistoryOK, h, t
  <2>4. Calling(history'[a], t, n)
    BY <1>0, <2>1, <2>2, <2>3, CallsPair
  <2> QED BY <2>1, <2>4 DEF LocalOK, HistoryOK
<1>8. CASE ToolReplies(a)
  <2> DEFINE n == call[a].left
  <2>1. /\ call[a].at = "tools" /\ history'[a] = Append(h, ToolMsg(t, n))
        /\ call'[a].at = IF n = 1 THEN "chatting" ELSE "tools"
        /\ Turn(a)' = t /\ call'[a].left = n - 1
    BY <1>8 DEF ToolReplies, Push, TypeOK, Call, Turn, At, h, t
  <2>2. n \in 1..MaxCalls
    BY <1>0, <2>1, MaxCallsAssumption DEF CallOK, TypeOK, Call, At
  <2>3. t \in Turns /\ ToolMsg(t, n) \in Message
    BY <1>0, <2>1, <2>2, MessageType, MaxCallsAssumption DEF Running
  <2>4. Calling(h, t, n)
    BY <1>a, <2>1, <2>3 DEF LocalOK, HistoryOK, h, t
  <2> HIDE DEF n
  <2>5. /\ n = 1 => Speaking(history'[a], t)
        /\ n > 1 => Calling(history'[a], t, n - 1)
    BY <1>0, <2>1, <2>2, <2>3, <2>4, ReplyPairs
  <2> QED BY <2>1, <2>2, <2>5 DEF LocalOK, HistoryOK
<1>9. CASE ModelAnswers(a)
  <2>1. /\ call[a].at = "chatting" /\ history'[a] = h
        /\ call'[a].at = "vetting" /\ Turn(a)' = t
    BY <1>9, GotoKeeps DEF ModelAnswers, Turn, At, h, t
  <2>2. Speaking(h, t)
    BY <1>s, <2>1 DEF LocalOK, HistoryOK, h, t
  <2> QED BY <2>1, <2>2 DEF LocalOK, HistoryOK
<1>10. CASE OutputPasses(a)
  <2>1. /\ call[a].at = "vetting" /\ history'[a] = Append(h, Answer(t))
        /\ Goto(a, "composing")
    BY <1>10, <1>b DEF OutputPasses, Push, TypeOK, At, h, t
  <2>2. t \in Turns /\ Answer(t) \in Message /\ call'[a].at = "composing"
    BY <1>0, <2>1, GotoKeeps DEF Running
  <2>3. Speaking(h, t)
    BY <1>a, <2>1, <2>2 DEF LocalOK, HistoryOK, h, t
  <2> QED BY <1>0, <1>i, <2>1, <2>2, <2>3, AnswerCloses
<1>11. CASE Compose(a)
  <2>1. call[a].at = "composing" /\ history'[a] = h /\ \E f : Ends(a, f)
    BY <1>11 DEF Compose, Return, At, h
  <2> QED BY <1>c, <1>e, <2>1
<1>12. CASE DropAsk(a)
  <2>1. /\ call[a].at \in {"screening", "chatting", "tools", "vetting", "composing"}
        /\ history'[a] = h
        /\ \E f \in {"cut", "abandoned"} : Ends(a, f)
    BY <1>12, <1>b DEF DropAsk, Dropped, AskStates, h
  <2> QED BY <1>k, <2>1
<1>13. ASSUME NEW n \in 1..MaxCalls, ToolLoopExceeded(a, n) PROVE FALSE
  <2>1. /\ Running(a) /\ history'[a] = Append(h, Calls(t, n)) /\ Ends(a, "rejected")
    BY <1>13 DEF ToolLoopExceeded, Push, Return, TypeOK, At, Running, h, t
  <2>2. Calls(t, n) \in Message /\ Calls(t, n).turn = t
    BY <1>0, <2>1, MessageType, MaxCallsAssumption DEF Calls
  <2>3. t \in TurnsIn(history'[a])
    BY <1>0, <2>1, <2>2, TurnsAppend
  <2> QED BY <1>x, <2>1, <2>3
<1>q. ASSUME call[a].at \in {"opening", "streaming", "draining"}
      PROVE  /\ call[a].opened \in Seq(Message) /\ t \in Turns
             /\ User(t) \in Message /\ User(t).turn = t
             /\ h = Append(call[a].opened, User(t))
             /\ TurnsIn(h) = TurnsIn(call[a].opened) \cup {t}
             /\ ~Failed(t)
             /\ call[a].initialLen = Len(call[a].opened)
  <2>1. call[a].opened \in Seq(Message) /\ t \in Turns /\ User(t) \in Message
    BY <1>0, <1>q DEF TypeOK, Call, Running
  <2>2. h = Append(call[a].opened, User(t)) /\ call[a].initialLen = Len(call[a].opened)
    BY <1>0, <1>q DEF StreamOK, StreamStates, h, t
  <2>3. User(t).turn = t
    BY DEF User
  <2>4. ~Failed(t)
    BY <1>0, <1>q DEF CallOK, OwnTurn, Running, Failed, Info, At, Turn, t
  <2> QED BY <2>1, <2>2, <2>3, <2>4, TurnsAppend
<1>14. CASE OpenOk(a) \/ Finish(a)
  <2>1. /\ call[a].at \in {"opening", "streaming"} /\ history'[a] = h
        /\ call'[a].at \in {"streaming", "draining"} /\ call'[a].opened = call[a].opened
    BY <1>14, GotoKeeps DEF OpenOk, Finish, At, h
  <2>2. Closed(call[a].opened)
    BY <1>s, <2>1 DEF LocalOK, HistoryOK
  <2> QED BY <2>1, <2>2 DEF LocalOK, HistoryOK
<1>15. CASE StreamFails(a)
  <2>1. /\ call[a].at \in {"opening", "streaming", "draining"} /\ Ends(a, "rejected")
        /\ history'[a] = Truncate(h, call[a].initialLen)
    BY <1>15 DEF StreamFails, Return, Rollback, TypeOK, h
  <2>2. history'[a] = call[a].opened
    BY <1>q, <2>1, TruncateUndoes
  <2>3. Unfailed(h)
    <3>1. \A u \in TurnsIn(call[a].opened) : ~Failed(u)
      BY <1>q, <2>1, <2>2, UnfailedBefore
    <3> QED BY <1>q, <2>1, <3>1 DEF Unfailed
  <2>4. Closed(call[a].opened)
    BY <1>b, <2>1, <2>3 DEF LocalInv, LocalOK, HistoryOK, h
  <2> QED BY <1>e, <2>1, <2>2, <2>4
<1>16. CASE DropOpening(a)
  <2>1. call[a].at = "opening" /\ history'[a] = h /\ Ends(a, "abandoned") /\ Running(a)
    BY <1>16, <1>b DEF DropOpening, Dropped, Running, h
  <2>2. t \in TurnsIn(h)
    BY <1>q, <2>1
  <2> QED BY <1>x, <2>1, <2>2
<1>17. CASE Drained(a)
  <2>1. /\ call[a].at = "draining" /\ history'[a] = Append(h, Answer(t))
        /\ \E f : Ends(a, f)
    BY <1>17, <1>b DEF Drained, Push, Return, At, TypeOK, h, t
  <2>2. t \in Turns /\ Answer(t) \in Message
    BY <1>0, <2>1 DEF Running
  <2>3. Closed(call[a].opened)
    BY <1>a, <2>1, <2>2 DEF LocalOK, HistoryOK
  <2>4. Closed(history'[a])
    BY <1>0, <1>q, <2>1, <2>2, <2>3, AskPairs, AnswerCloses
  <2> QED BY <1>e, <2>1, <2>4
<1> QED
  BY <1>f, <1>1, <1>2, <1>3, <1>4, <1>5, <1>6, <1>7, <1>8, <1>9, <1>10, <1>11, <1>12,
     <1>13, <1>14, <1>15, <1>16, <1>17
  DEF Step, InputBlocked, LoadFails, ChatFails, ToolFails, OutputBlocked

LEMMA StepLocalInv ==
  ASSUME TypeOK, CallInv, TranscriptInv, LocalInv, NEW a \in Agents, Step(a)
  PROVE  LocalInv'
<1> SUFFICES ASSUME NEW b \in Agents, ~Bound(b)', Unfailed(history[b])'
             PROVE  LocalOK(b)'
  BY DEF LocalInv
<1>1. CASE b = a
  BY <1>1, OwnLocal
<1>2. CASE b # a
  <2>1. history'[b] = history[b] /\ session'[b] = session[b] /\ call'[b] = call[b]
    BY <1>2, OthersTurn
  <2>2. history[b] \in Seq(Message)
    BY DEF TypeOK
  <2>3. Unfailed(history[b])
    BY <2>1, <2>2, UnfailedBefore DEF Unfailed
  <2>4. LocalOK(b)
    BY <2>1, <2>3 DEF LocalInv, Bound
  <2> QED BY <2>1, <2>4 DEF LocalOK, HistoryOK, Turn
<1> QED BY <1>1, <1>2

(* What the model is sent obeys the protocol of the chat API, for an agent *)
(* with a session whatever failed before, and for one without as long as   *)
(* no failed turn is left in its history.                                  *)
THEOREM SentWellPaired == Spec => []RequestsWellPaired
<1>1. Init => LocalInv
  <2> SUFFICES ASSUME Init, NEW a \in Agents PROVE LocalOK(a)
    BY DEF LocalInv
  <2>1. call[a].at = "idle" /\ history[a] = <<>>
    BY DEF Init, Idle, Locals
  <2>2. Closed(<<>>)
    BY DEF Closed, WellPaired
  <2> QED BY <2>1, <2>2 DEF LocalOK, HistoryOK
<1>2. TypeOK /\ CallInv /\ TranscriptInv /\ LocalInv /\ [Next]_vars => LocalInv'
  <2> SUFFICES ASSUME TypeOK, CallInv, TranscriptInv, LocalInv, [Next]_vars
               PROVE  LocalInv'
    OBVIOUS
  <2>1. CASE UNCHANGED vars
    BY <2>1 DEF vars, LocalInv, LocalOK, HistoryOK, Unfailed, Failed, Bound, Turn
  <2> QED BY <2>1, StepLocalInv DEF Next
<1>3. TypeOK /\ CallInv /\ TranscriptInv /\ LocalInv => RequestsWellPaired
  <2> SUFFICES ASSUME TypeOK, CallInv, TranscriptInv, LocalInv, NEW a \in Agents,
                      Requesting(a), Bound(a) \/ \A t \in TurnsIn(history[a]) : ~Failed(t)
               PROVE  /\ WellPaired(history[a])
                      /\ history[a] # <<>> /\ ModelMaySpeak(history[a][Len(history[a])])
    BY DEF RequestsWellPaired, BuildRequest
  <2>1. HistoryOK(a) /\ StreamOK(a)
    BY DEF TranscriptInv, LocalInv, LocalOK, Unfailed
  <2>2. CASE call[a].at = "chatting"
    BY <2>1, <2>2 DEF HistoryOK, Speaking, Last
  <2>3. CASE call[a].at = "opening"
    <3>1. Closed(call[a].opened) /\ history[a] = Append(call[a].opened, User(Turn(a)))
      BY <2>1, <2>3 DEF HistoryOK, StreamOK
    <3>2. call[a].opened \in Seq(Message) /\ Turn(a) \in Turns
      BY <2>3 DEF TypeOK, Call, CallInv, CallOK, OwnTurn, Running
    <3>3. Speaking(history[a], Turn(a))
      BY <3>1, <3>2, AskPairs
    <3> QED BY <3>3 DEF Speaking, Last
  <2> QED BY <2>2, <2>3 DEF Requesting
<1> QED BY <1>1, <1>2, <1>3, RuntimeInvariant, TranscriptInvariant, PTL DEF Spec

-----------------------------------------------------------------------------
(***************************************************************************)
(* What stays stored.                                                      *)
(***************************************************************************)

(* A turn that is answered or saved after a step was so before, or is that *)
(* of the call, which saved it, or has no session to save it in.           *)
LEMMA StepAnswers ==
  ASSUME TypeOK, CallInv, NEW a \in Agents, Step(a), NEW t \in Turns,
         turns'[t].fate \in {"saved", "answered"}
  PROVE  /\ turns'[t].session = turns[t].session
         /\ \/ turns[t].fate \in {"saved", "answered"}
            \/ /\ t = Turn(a) /\ turns[t].session = session[a]
               /\ session[a] = None \/ (StoreSave(a) /\ Answered(a) /\ Bound(a))
<1>0. CallOK(a) /\ (Running(a) => Turn(a) \in Turns)
  BY DEF CallInv, CallOK, OwnTurn
<1>u. CASE turns'[t] = turns[t]
  BY <1>u
<1>v. ASSUME NEW v, turns' = [turns EXCEPT ![Turn(a)].vetted = @ \cup v], Running(a)
      PROVE  turns'[t].fate = turns[t].fate /\ turns'[t].session = turns[t].session
  <2>1. CASE t = Turn(a)
    BY <1>0, <1>v, <2>1, VettedKeeps DEF Info, Turn
  <2>2. CASE t # Turn(a)
    BY <1>v, <2>2 DEF TypeOK
  <2> QED BY <2>1, <2>2
<1>f. ASSUME NEW f, SetFate(a, f), Running(a), turns'[t] # turns[t]
      PROVE  t = Turn(a) /\ f \in {"saved", "answered"} /\ turns'[t].session = turns[t].session
             /\ turns[t].session = session[a]
  <2>1. t = Turn(a)
    BY <1>f DEF SetFate, TypeOK
  <2> QED BY <1>0, <1>f, <2>1, SetFateKeeps DEF CallOK, OwnTurn, Info, Turn
<1>1. CASE \E u \in Turns : Ask(a, u) \/ AskJson(a, u) \/ Stream(a, u)
  <2>1. PICK u \in Turns : \E api, c : Begin(a, u, api, c)
    BY <1>1 DEF Ask, AskJson, Stream
  <2>2. u = t => turns'[t].fate = "running"
    BY <2>1 DEF Begin, TypeOK
  <2> QED BY <1>u, <2>1, <2>2 DEF Begin, TypeOK
<1>2. CASE InputPasses(a) \/ OutputPasses(a)
  <2>1. Running(a) /\ \E v : turns' = [turns EXCEPT ![Turn(a)].vetted = @ \cup v]
    BY <1>2 DEF InputPasses, OutputPasses, Running, At
  <2> QED BY <1>v, <2>1
<1>3. CASE SaveOk(a) \/ FinishOk(a)
  <2>1. /\ Running(a) /\ StoreSave(a) /\ Answered(a) /\ Bound(a)
        /\ \E f : SetFate(a, f)
    BY <1>0, <1>3 DEF SaveOk, FinishOk, Return, Ends, Running, Answered, At, CallOK
  <2> QED BY <1>f, <1>u, <2>1
<1>4. CASE Compose(a)
  <2>1. Running(a) /\ \E f : SetFate(a, f)
    BY <1>4 DEF Compose, Return, Ends, Running, At
  <2>2. session[a] = None \/ Info(a).fate = "saved"
    BY <1>0, <1>4, <2>1 DEF Compose, CallOK, OwnTurn, Bound
  <2> QED BY <1>f, <1>u, <2>1, <2>2 DEF Info, Turn
<1>5. CASE Drained(a)
  <2>1. Running(a) /\ (UNCHANGED turns \/ (session[a] = None /\ \E f : SetFate(a, f)))
    BY <1>5 DEF Drained, Return, Ends, Running, At, Bound
  <2> QED BY <1>f, <1>u, <2>1
<1>6. CASE \E f \in {"rejected", "unsure", "cut", "abandoned"} : SetFate(a, f) /\ Running(a)
  BY <1>f, <1>u, <1>6
<1>7. \/ \E u \in Turns : Ask(a, u) \/ AskJson(a, u) \/ Stream(a, u)
      \/ InputPasses(a) \/ OutputPasses(a) \/ SaveOk(a) \/ FinishOk(a) \/ Compose(a)
      \/ Drained(a)
      \/ \E f \in {"rejected", "unsure", "cut", "abandoned"} : SetFate(a, f) /\ Running(a)
      \/ UNCHANGED turns
  <2>1. ASSUME NEW s \in {"screening", "loading", "chatting", "tools", "vetting"},
               FailsAt(a, s)
        PROVE  SetFate(a, "rejected") /\ Running(a)
    BY <2>1 DEF FailsAt, Return, Ends, At, Running
  <2>2. ASSUME \/ \E n \in 1..MaxCalls : ToolLoopExceeded(a, n)
               \/ SaveFails(a) \/ DropAsk(a) \/ StreamFails(a) \/ DropOpening(a)
               \/ FinishFails(a)
        PROVE  \E f \in {"rejected", "unsure", "cut", "abandoned"} : SetFate(a, f) /\ Running(a)
    BY <2>2 DEF ToolLoopExceeded, SaveFails, DropAsk, StreamFails, DropOpening, FinishFails,
                Return, Dropped, Ends, At, Running, AskStates
  <2>3. \/ \E s \in Sessions : SetSession(a, s)
        \/ ClearHistory(a) \/ ClearSession(a) \/ ClearReturns(a)
        \/ LoadOk(a) \/ ModelAnswers(a) \/ ToolReplies(a)
        \/ \E n \in 1..MaxCalls : ModelCallsTools(a, n)
        \/ StreamLoadOk(a) \/ OpenOk(a) \/ Finish(a)
        => UNCHANGED turns
    BY DEF SetSession, ClearHistory, ClearSession, ClearReturns, LoadOk, ModelAnswers,
           ToolReplies, ModelCallsTools, StreamLoadOk, OpenOk, Finish
  <2> QED BY <2>1, <2>2, <2>3
          DEF Step, InputBlocked, LoadFails, ChatFails, ToolFails, OutputBlocked
<1> QED BY <1>u, <1>1, <1>2, <1>3, <1>4, <1>5, <1>6, <1>7

(* A call that has its history holds what the store holds: only it writes  *)
(* the store.                                                              *)
LEMMA OwnKept ==
  ASSUME TypeOK, CallInv, KeptInv, NEW a \in Agents, Step(a), Bound(a)', Loaded(a)'
  PROVE  TurnsIn(store[session[a]])' \subseteq Held(a)'
<1>0. Grows(a)
  BY LoadedMoves
<1>1. /\ session[a] \in Sessions /\ Bound(a) /\ Turn(a) \in Turns
      /\ history[a] \in Seq(Message) /\ store[session[a]] \in Seq(Message)
      /\ store' = store /\ session'[a] = session[a]
      /\ Loaded(a) => TurnsIn(store[session[a]]) \subseteq TurnsIn(history[a])
  BY <1>0 DEF Grows, CallInv, CallOK, OwnTurn, TypeOK, Bound, KeptInv, Held
<1>m. User(Turn(a)) \in Message /\ Answer(Turn(a)) \in Message
  BY <1>1, MessageType
<1>2. TurnsIn(store[session[a]]) \subseteq TurnsIn(history'[a])
  <2>1. ASSUME NEW h \in Seq(Message), NEW m \in Message, history'[a] = Append(h, m),
               TurnsIn(store[session[a]]) \subseteq TurnsIn(h)
        PROVE  TurnsIn(store[session[a]]) \subseteq TurnsIn(history'[a])
    BY <2>1, TurnsAppend
  <2>2. CASE history'[a] = Append(store[session[a]], User(Turn(a)))
    BY <1>1, <1>m, <2>1, <2>2
  <2>3. CASE Loaded(a) /\ history'[a] = history[a]
    BY <1>1, <2>3
  <2>4. ASSUME Loaded(a), NEW m \in Message, history'[a] = Append(history[a], m)
        PROVE  TurnsIn(store[session[a]]) \subseteq TurnsIn(history'[a])
    BY <1>1, <2>1, <2>4
  <2> QED BY <1>0, <1>m, <2>2, <2>3, <2>4 DEF Grows
<1> QED BY <1>1, <1>2 DEF Held

(* What a save or a clear does to what a store holds. *)
LEMMA StoreKeeps ==
  ASSUME TypeOK, CallInv, SessionInv, KeptInv, NEW a \in Agents, Step(a),
         NEW s \in Sessions, NEW t \in TurnsIn(store[s]) \cup {c[1] : c \in cleared}
  PROVE  t \in TurnsIn(store'[s]) \cup {c[1] : c \in cleared'}
<1>1. CASE StoreSave(a) /\ Answered(a) /\ UNCHANGED cleared
  <2>1. TurnsIn(store[session[a]]) \subseteq Held(a)
    BY <1>1 DEF CallInv, CallOK, KeptInv, Answered, Loaded, AskStates, StreamStates
  <2>2. store'[s] = IF s = session[a] THEN history[a] ELSE store[s]
    BY <1>1 DEF StoreSave, TypeOK
  <2> QED BY <1>1, <2>1, <2>2 DEF Held
<1>2. CASE StoreClear(a)
  <2>1. cleared' = cleared \cup {<<u, Racing(a)>> : u \in TurnsIn(store[session[a]])}
        /\ store'[s] = IF s = session[a] THEN <<>> ELSE store[s]
    BY <1>2 DEF StoreClear, TypeOK
  <2>2. CASE t \in {c[1] : c \in cleared}
    BY <2>1, <2>2
  <2>3. CASE t \in TurnsIn(store[s]) /\ s = session[a]
    <3>1. <<t, Racing(a)>> \in cleared'
      BY <2>1, <2>3
    <3>2. <<t, Racing(a)>>[1] = t
      OBVIOUS
    <3> QED BY <3>1, <3>2
  <2>4. CASE t \in TurnsIn(store[s]) /\ s # session[a]
    BY <2>1, <2>4
  <2> QED BY <2>2, <2>3, <2>4
<1> QED BY <1>1, <1>2, StoreMoves

LEMMA StepKept ==
  ASSUME OwnSessions, TypeOK, CallInv, SessionInv, KeptInv, NEW a \in Agents, Step(a)
  PROVE  KeptInv'
<1>1. \A b \in Agents : session'[b] \in MayBind[b]
  <2>1. session' = session \/ \E s \in MayBind[a] : session' = [session EXCEPT ![a] = s]
    BY DEF Step, SetSession, ClearHistory, ClearSession, ClearReturns, Ask, AskJson,
         Stream, InputBlocked, InputPasses, LoadOk, LoadFails, ChatFails, ModelAnswers,
         ModelCallsTools, ToolLoopExceeded, ToolReplies, ToolFails, OutputBlocked,
         OutputPasses, SaveOk, SaveFails, Compose, DropAsk, StreamLoadOk, OpenOk,
         StreamFails, DropOpening, Finish, Drained, FinishOk, FinishFails, FailsAt
  <2> QED BY <2>1 DEF KeptInv, TypeOK
<1>2. ASSUME NEW t \in Turns, turns'[t].fate \in {"saved", "answered"}
      PROVE  Kept(t)'
  <2> SUFFICES ASSUME turns'[t].session # None
               PROVE  t \in TurnsIn(store'[turns'[t].session]) \cup {c[1] : c \in cleared'}
    BY DEF Kept
  <2>1. /\ turns'[t].session = turns[t].session
        /\ \/ turns[t].fate \in {"saved", "answered"}
           \/ /\ t = Turn(a) /\ turns[t].session = session[a]
              /\ session[a] = None \/ (StoreSave(a) /\ Answered(a) /\ Bound(a))
    BY <1>2, StepAnswers
  <2>2. turns[t].session \in Sessions
    BY <2>1 DEF TypeOK, TurnInfo
  <2>3. CASE turns[t].fate \in {"saved", "answered"}
    <3>1. t \in TurnsIn(store[turns[t].session]) \cup {c[1] : c \in cleared}
      BY <2>1, <2>3 DEF KeptInv, Kept
    <3> QED BY <2>1, <2>2, <3>1, StoreKeeps
  <2>4. CASE /\ t = Turn(a) /\ turns[t].session = session[a]
             /\ StoreSave(a) /\ Answered(a) /\ Bound(a)
    <3>1. t \in Held(a)
      BY <2>4 DEF SessionInv, HeldOK, Answered, Loaded, AskStates, StreamStates
    <3>2. store'[session[a]] = history[a]
      BY <2>2, <2>4 DEF StoreSave, TypeOK
    <3> QED BY <2>1, <2>4, <3>1, <3>2 DEF Held
  <2> QED BY <2>1, <2>3, <2>4
<1>3. ASSUME NEW b \in Agents, Bound(b)', Loaded(b)'
      PROVE  TurnsIn(store[session[b]])' \subseteq Held(b)'
  <2>1. CASE b = a
    BY <1>3, <2>1, OwnKept
  <2>2. CASE b # a
    <3>1. history'[b] = history[b] /\ session'[b] = session[b] /\ call'[b] = call[b]
      BY <2>2, OthersTurn
    <3>2. Bound(b) /\ session[b] \in Sessions /\ TurnsIn(store[session[b]]) \subseteq Held(b)
      BY <1>3, <3>1 DEF KeptInv, Bound, Loaded, TypeOK
    <3>3. Bound(a) => session[a] # session[b]
      BY <2>2, <3>2 DEF OwnSessions, KeptInv, Bound
    <3>4. store'[session[b]] = store[session[b]]
      <4>1. CASE StoreSave(a) /\ Answered(a)
        <5>1. Bound(a)
          BY <4>1 DEF CallInv, CallOK, Answered
        <5> QED BY <3>2, <3>3, <4>1, <5>1 DEF StoreSave, TypeOK
      <4>2. CASE StoreClear(a) /\ At(a, "clearing")
        <5>1. Bound(a)
          BY <4>2 DEF CallInv, CallOK, At
        <5> QED BY <3>2, <3>3, <4>2, <5>1 DEF StoreClear, TypeOK
      <4> QED BY <4>1, <4>2, StoreMoves
    <3> QED BY <3>1, <3>2, <3>4 DEF Held
  <2> QED BY <2>1, <2>2
<1> QED BY <1>1, <1>2, <1>3 DEF KeptInv

(* Where no session is bound to two agents, an answered turn stays in its  *)
(* store until the session is cleared, however its agent moves between its *)
(* sessions and whatever calls fail or are dropped.  Without the           *)
(* assumption this is false: a concurrent save overwrites it.              *)
THEOREM NothingLost ==
  ASSUME OwnSessions
  PROVE  Spec => []NoAnsweredTurnLost
<1>1. Init => KeptInv
  <2> SUFFICES ASSUME Init PROVE KeptInv
    OBVIOUS
  <2>1. /\ \A t \in Turns : turns[t].fate = "unasked"
        /\ \A a \in Agents : call[a].at = "idle" /\ session[a] \in MayBind[a]
    BY DEF Init, Idle, Locals
  <2> QED BY <2>1 DEF KeptInv, Loaded, AskStates, StreamStates
<1>2. TypeOK /\ CallInv /\ SessionInv /\ KeptInv /\ [Next]_vars => KeptInv'
  <2> SUFFICES ASSUME TypeOK, CallInv, SessionInv, KeptInv, [Next]_vars PROVE KeptInv'
    OBVIOUS
  <2>1. CASE UNCHANGED vars
    BY <2>1 DEF vars, KeptInv, Kept, Held, Loaded, Bound
  <2> QED BY <2>1, StepKept DEF Next
<1>3. KeptInv => NoAnsweredTurnLost
  BY DEF KeptInv, Kept, NoAnsweredTurnLost
<1> QED BY <1>1, <1>2, <1>3, RuntimeInvariant, SessionInvariant, PTL DEF Spec
=============================================================================
