-------------------------- MODULE GuardedAskProofs --------------------------
(***************************************************************************)
(* Proofs about GuardedAsk, for every pipeline of guardrails, every team   *)
(* and every bound on handoffs: the routing loop ends, a reply reports     *)
(* every guardrail decision that was made for it, a block is final, a      *)
(* knowledge agent hands its agent only a prompt with a context, how far   *)
(* private data gets past a redacting guardrail, in the histories too, and *)
(* what is asked and answered has gone through every rewriting that is     *)
(* reported, in its order.                                                 *)
(***************************************************************************)
EXTENDS GuardedAsk, SequenceTheorems, FiniteSetTheorems, TLAPS

(* The fields of the two records; their types do not matter here.          *)
Shape ==
  /\ pipe = [by |-> pipe.by, stage |-> pipe.stage, next |-> pipe.next,
             text |-> pipe.text, events |-> pipe.events]
  /\ call = [question |-> call.question, agent |-> call.agent, handoffs |-> call.handoffs,
             chunks |-> call.chunks, retrieved |-> call.retrieved, past |-> call.past,
             events |-> call.events,
             agentEvents |-> call.agentEvents, message |-> call.message,
             composed |-> call.composed, fallback |-> call.fallback,
             draft |-> call.draft, usedFallback |-> call.usedFallback]

(* Owner and agent have their guardrails before the first request, and     *)
(* keep them.                                                              *)
HasPipelines == owner.guards \in [Parties -> Seq(Kinds)]

LEMMA PipelinesInit == Init => HasPipelines
BY GuardedAssumption DEF Init, HasPipelines

LEMMA OwnerStays == [Next]_vars => UNCHANGED owner
<1> SUFFICES ASSUME [Next]_vars PROVE UNCHANGED owner
  OBVIOUS
<1>1. CASE UNCHANGED vars
  BY <1>1 DEF vars
<1>2. ASSUME NEW r, Returns(r) PROVE UNCHANGED owner
  BY <1>2 DEF Returns
<1>3. ASSUME NEW c, Responds(c) PROVE UNCHANGED owner
  BY <1>2, <1>3 DEF Responds
<1>4. CASE Ask \/ \E id \in Ids : AskWithAgent(id)
  BY <1>4 DEF Ask, AskWithAgent, Begins
<1>5. CASE CheckNext \/ Retrieve \/ AgentInputPassed \/ Chat \/ AgentOutputPassed \/ Save
           \/ AgentComposes \/ Answered
  BY <1>5 DEF CheckNext, Retrieve, AgentInputPassed, Chat, AgentOutputPassed, Save,
             AgentComposes, Answered
<1>6. CASE OwnerInputBlocked \/ AgentBlocked \/ Fails \/ OwnerComposes
  BY <1>2, <1>6 DEF OwnerInputBlocked, AgentBlocked, Fails, OwnerComposes, Errs
<1>7. CASE OwnerInputPassed \/ DirectInputPassed
  BY <1>2, <1>7 DEF OwnerInputPassed, DirectInputPassed, Errs, TakesQuestion
<1>8. CASE Route
  BY <1>2, <1>8 DEF Route, RouteTo, HandOff
<1>9. CASE OwnerContextBlocked \/ OwnerContextPassed \/ OwnerOutputBlocked \/ OwnerOutputPassed
  BY <1>2, <1>3, <1>9 DEF OwnerContextBlocked, OwnerContextPassed, OwnerOutputBlocked,
                          OwnerOutputPassed, RespondsFallback, AsksAgent, Errs
<1> QED BY <1>1, <1>4, <1>5, <1>6, <1>7, <1>8, <1>9 DEF Next

LEMMA PipelinesStep == HasPipelines /\ [Next]_vars => HasPipelines'
BY OwnerStays DEF HasPipelines

(* Whether the state is in (or was stopped in) a pipeline.                 *)
In(by, stage) == at \in {"checking", "blocked"} /\ pipe.by = by /\ pipe.stage = stage

Handoffs == Seq(Members \X Members)

(***************************************************************************)
(* Why routing ends: the router is asked once per handoff of the request,  *)
(* and once more.                                                          *)
(***************************************************************************)
RouteInv ==
  /\ Shape
  /\ call.handoffs \in Handoffs
  /\ routes \in Nat /\ routes <= MaxHandoffRounds + 1
  /\ In("owner", "input") => routes = 0 /\ call.handoffs = <<>>
  /\ at = "routing" => routes = Len(call.handoffs) /\ routes <= MaxHandoffRounds

(* No request has been made. *)
LEMMA RouteInit == Init => RouteInv
BY GuardedAssumption DEF Init, RouteInv, Shape, In, Handoffs, NoPipe, NoCall

(* A request that ends leaves nothing. *)
LEMMA RouteReturns ==
  ASSUME NEW r, Returns(r), RouteInv, UNCHANGED routes
  PROVE  RouteInv'
BY DEF Returns, RouteInv, Shape, In, Handoffs, NoPipe, NoCall, Goto

(* The start of a pipeline, at any stage but the first.                    *)
LEMMA RouteStart ==
  ASSUME NEW by, NEW stage, NEW text, StartCheck(by, stage, text), RouteInv,
         <<by, stage>> # <<"owner", "input">>,
         Shape', UNCHANGED <<call.handoffs, routes>>
  PROVE  RouteInv'
BY DEF StartCheck, RouteInv, Shape, In, Goto

(* Everything but the router and the input stage of the owner.             *)
LEMMA RouteOthers ==
  ASSUME RouteInv, UNCHANGED routes,
         \/ OwnerContextBlocked \/ OwnerContextPassed \/ OwnerOutputBlocked
         \/ OwnerOutputPassed \/ OwnerComposes \/ AgentInputPassed \/ Chat
         \/ AgentBlocked \/ AgentOutputPassed \/ Save \/ AgentComposes \/ Answered
         \/ Retrieve \/ OwnerInputBlocked \/ Fails
  PROVE  RouteInv'
<1>1. CASE \E r : Returns(r)
  BY <1>1, RouteReturns
<1>2. CASE \E by, stage, text : /\ <<by, stage>> # <<"owner", "input">>
                                /\ StartCheck(by, stage, text)
                                /\ Shape' /\ UNCHANGED call.handoffs
  BY <1>2, RouteStart
<1>3. CASE /\ at' \notin {"checking", "blocked", "routing"}
           /\ Shape' /\ UNCHANGED call.handoffs
  BY <1>3 DEF RouteInv, In
<1>4. ASSUME NEW c, Responds(c), c.handoffs = call.handoffs, 
             pipe' = NoPipe /\ call' = c => Shape'
      PROVE  (\E r : Returns(r)) \/ (at' = "owner composing" /\ Shape' /\ UNCHANGED call.handoffs)
  BY <1>4 DEF Responds, Goto
<1>5. ASSUME RespondsFallback
      PROVE  (\E r : Returns(r)) \/ (at' = "owner composing" /\ Shape' /\ UNCHANGED call.handoffs)
  <2> DEFINE c == [call EXCEPT !.draft = Fallback, !.usedFallback = TRUE,
                               !.events = @ \o pipe.events]
  <2>1. c.handoffs = call.handoffs /\ (pipe' = NoPipe /\ call' = c => Shape')
    BY DEF RouteInv, Shape, NoPipe
  <2> QED BY <1>5, <2>1, <1>4 DEF RespondsFallback
<1>6. CASE OwnerContextBlocked
  BY <1>6, <1>5, <1>1, <1>3 DEF OwnerContextBlocked
<1>7. CASE OwnerContextPassed
  <2>1. CASE call.chunks = 0 \/ pipe.text.blank
    BY <1>7, <2>1, <1>5, <1>1, <1>3 DEF OwnerContextPassed
  <2>2. CASE ~(call.chunks = 0 \/ pipe.text.blank)
    <3>1. AgentAsk(Prompt(call.question, pipe.text)) /\ call' = [call EXCEPT !.events = @ \o pipe.events]
      BY <1>7, <2>2 DEF OwnerContextPassed, AsksAgent
    <3>2. Shape' /\ UNCHANGED call.handoffs
      BY <3>1 DEF RouteInv, Shape, AgentAsk, StartCheck
    <3> QED BY <3>1, <3>2, <1>2 DEF AgentAsk
  <2> QED BY <2>1, <2>2
<1>8. CASE OwnerOutputBlocked
  BY <1>8, <1>5, <1>1, <1>3 DEF OwnerOutputBlocked, Errs
<1>9. CASE OwnerOutputPassed
  <2> DEFINE r == Rewrite(call, pipe.text)
             c == [r EXCEPT !.events = @ \o pipe.events,
                     !.draft = IF Team THEN Content(r.message, r.composed) ELSE pipe.text]
  <2>1. c.handoffs = call.handoffs /\ (pipe' = NoPipe /\ call' = c => Shape')
    BY DEF RouteInv, Shape, NoPipe, Rewrite
  <2>2. Responds(c)
    BY <1>9 DEF OwnerOutputPassed
  <2> HIDE DEF c
  <2> QED BY <2>1, <2>2, <1>4, <1>1, <1>3
<1>10. CASE OwnerComposes \/ AgentBlocked \/ OwnerInputBlocked \/ Fails
  BY <1>10, <1>1 DEF OwnerComposes, AgentBlocked, OwnerInputBlocked, Fails, Errs
<1>11. CASE AgentInputPassed \/ AgentOutputPassed \/ Save \/ AgentComposes
  BY <1>11, <1>3 DEF AgentInputPassed, AgentOutputPassed, Save, AgentComposes, Goto,
                     RouteInv, Shape, NoPipe
<1>12. CASE Chat
  <2>1. PICK answer \in Answers : StartCheck("agent", "output", answer)
    BY <1>12 DEF Chat
  <2>2. Shape' /\ UNCHANGED call.handoffs
    BY <1>12, <2>1 DEF RouteInv, Shape, StartCheck, Chat
  <2> QED BY <2>1, <2>2, <1>2
<1>13. CASE Answered
  <2>1. StartCheck("owner", "output", Content(call.message, call.composed))
    BY <1>13 DEF Answered, OwnerCheck
  <2>2. Shape' /\ UNCHANGED call.handoffs
    BY <1>13, <2>1 DEF RouteInv, Shape, StartCheck, Answered
  <2> QED BY <2>1, <2>2, <1>2
<1>14. CASE Retrieve
  <2>1. PICK n \in 0..MaxChunks, private \in SUBSET {"context"} :
          /\ call' = [call EXCEPT !.chunks = n, !.retrieved = private]
          /\ StartCheck("owner", "context", Fresh("context", private, n = 0))
    BY <1>14 DEF Retrieve, OwnerCheck
  <2>2. Shape' /\ UNCHANGED call.handoffs
    BY <2>1 DEF RouteInv, Shape, StartCheck
  <2> QED BY <2>1, <2>2, <1>2
<1> QED BY <1>6, <1>7, <1>8, <1>9, <1>10, <1>11, <1>12, <1>13, <1>14

(* The router, a guardrail decision, the first stage, and a new request.   *)
LEMMA RouteStep == RouteInv /\ [Next]_vars => RouteInv'
<1> SUFFICES ASSUME RouteInv, [Next]_vars PROVE RouteInv'
  OBVIOUS
<1>1. CASE UNCHANGED vars
  BY <1>1 DEF vars, RouteInv, Shape, In
<1>2. ASSUME NEW id, Begins(id) PROVE RouteInv'
  <2>1. PICK private \in SUBSET {"question"} :
          StartCheck("owner", "input", Fresh("question", private, FALSE))
    BY <1>2 DEF Begins, OwnerCheck
  <2>2. call' = [NoCall EXCEPT !.agent = id] /\ routes' = 0 /\ at' = "checking"
    BY <1>2, <2>1 DEF Begins, StartCheck, Goto
  <2>3. Shape' /\ call'.handoffs = <<>>
    BY <2>1, <2>2 DEF Shape, NoCall, StartCheck
  <2>4. call'.handoffs \in Handoffs
    BY <2>3 DEF Handoffs
  <2> QED BY <2>2, <2>3, <2>4, GuardedAssumption DEF RouteInv, In
<1>3. CASE CheckNext
  <2>1. PICK d \in Decisions(Guards(pipe.by)[pipe.next], pipe.text, pipe.stage) :
          \E event :
            /\ pipe' = [pipe EXCEPT !.events = Append(@, event), !.next = @ + 1,
                         !.text = After(d, [by |-> pipe.by, guard |-> pipe.next])]
            /\ IF d.action = "block"
               THEN Goto("blocked") /\ call' = [call EXCEPT !.fallback = d.fallback]
               ELSE UNCHANGED <<at, call>>
    BY <1>3 DEF CheckNext
  <2>2. Shape' /\ UNCHANGED <<pipe.by, pipe.stage, call.handoffs>>
    BY <2>1 DEF RouteInv, Shape
  <2>3. at = "checking" /\ at' \in {"checking", "blocked"} /\ UNCHANGED routes
    BY <1>3, <2>1 DEF CheckNext, Goto
  <2> QED BY <2>2, <2>3 DEF RouteInv, In
<1>4. CASE OwnerInputPassed \/ DirectInputPassed
  <2>1. CASE Errs
    BY <2>1, RouteReturns DEF Errs, aux
  <2>2. CASE ~Errs
    <3>1. /\ call' = [call EXCEPT !.question = pipe.text, !.events = pipe.events]
          /\ UNCHANGED routes
          /\ \/ AgentAsk(pipe.text)
             \/ at' \in {"routing", "retrieving"} /\ pipe' = NoPipe
      BY <1>4, <2>2 DEF OwnerInputPassed, DirectInputPassed, TakesQuestion, Goto
    <3>2. UNCHANGED call.handoffs /\ Shape'
      BY <3>1 DEF RouteInv, Shape, AgentAsk, StartCheck, NoPipe
    <3>3. routes = 0 /\ call.handoffs = <<>>
      BY <1>4 DEF OwnerInputPassed, DirectInputPassed, Passed, RouteInv, In
    <3>4. CASE AgentAsk(pipe.text)
      BY <3>1, <3>2, <3>4, RouteStart DEF AgentAsk
    <3>5. CASE at' \in {"routing", "retrieving"}
      BY <3>1, <3>2, <3>3, <3>5, GuardedAssumption DEF RouteInv, In
    <3> QED BY <3>1, <3>4, <3>5
  <2> QED BY <2>1, <2>2
<1>5. CASE Route
  <2>1. PICK d \in RouteDecisions :
          IF d.handoff = None THEN RouteTo(d.to) ELSE HandOff(d.handoff, d.to)
    BY <1>5 DEF Route
  <2>2. routes' = routes + 1 /\ routes = Len(call.handoffs) /\ routes <= MaxHandoffRounds
    BY <1>5 DEF Route, RouteInv
  <2>3. routes' \in Nat /\ routes' <= MaxHandoffRounds + 1
    BY <2>2, GuardedAssumption DEF RouteInv
  <2>4. ASSUME NEW r, Returns(r) PROVE RouteInv'
    BY <2>4, <2>3, GuardedAssumption DEF Returns, RouteInv, Shape, In, Handoffs, NoPipe, NoCall, Goto
  <2>5. CASE RouteTo(d.to) /\ d.to \in Members
    <3>1. AgentAsk(call.question) /\ call' = [call EXCEPT !.agent = d.to]
      BY <2>5 DEF RouteTo, EnsureAgentExists
    <3>2. UNCHANGED call.handoffs /\ Shape'
      BY <3>1 DEF RouteInv, Shape, AgentAsk, StartCheck
    <3> QED BY <3>1, <3>2, <2>3 DEF RouteInv, In, AgentAsk, StartCheck, Goto
  <2>6. ASSUME HandOff(d.handoff, d.to), ~\E r : Returns(r) PROVE RouteInv'
    <3>1. /\ call' = [call EXCEPT !.handoffs = Append(@, <<d.handoff, d.to>>)]
          /\ UNCHANGED <<at, pipe>> /\ Len(call.handoffs) < MaxHandoffRounds
          /\ d.handoff \in Members /\ d.to \in Members
      <4>1. /\ ~(Len(call.handoffs) >= MaxHandoffRounds)
            /\ d.handoff \in Members /\ d.to \in Members
        BY <2>6 DEF HandOff, EnsureAgentExists
      <4>2. Len(call.handoffs) < MaxHandoffRounds
        BY <4>1, <2>2, GuardedAssumption DEF RouteInv
      <4> QED BY <4>1, <4>2, <2>6 DEF HandOff, EnsureAgentExists
    <3>2. call'.handoffs = Append(call.handoffs, <<d.handoff, d.to>>) /\ Shape'
      BY <3>1 DEF RouteInv, Shape
    <3>3. call'.handoffs \in Handoffs /\ Len(call'.handoffs) = Len(call.handoffs) + 1
      BY <3>1, <3>2 DEF RouteInv, Handoffs
    <3>4. at' = "routing"
      BY <1>5, <3>1 DEF Route
    <3> QED BY <3>1, <3>2, <3>3, <3>4, <2>2, <2>3, GuardedAssumption DEF RouteInv, In
  <2> QED BY <2>1, <2>4, <2>5, <2>6 DEF RouteTo, EnsureAgentExists
<1>6. CASE /\ UNCHANGED routes /\ ~UNCHANGED vars /\ ~CheckNext /\ ~Route
           /\ ~(OwnerInputPassed \/ DirectInputPassed) /\ ~\E id : Begins(id)
  BY <1>6, RouteOthers DEF Next, Ask, AskWithAgent
<1>7. ASSUME Next, ~CheckNext, ~Route, ~(OwnerInputPassed \/ DirectInputPassed),
             ~\E id : Begins(id)
      PROVE  UNCHANGED routes
  BY <1>7 DEF Next, Ask, AskWithAgent, OwnerInputBlocked, Retrieve, OwnerContextBlocked, OwnerContextPassed,
        AsksAgent,
        AgentInputPassed, Chat, AgentBlocked, AgentOutputPassed, Save, AgentComposes,
        Answered, OwnerOutputBlocked, OwnerOutputPassed, OwnerComposes, Fails, Errs, aux
<1> QED BY <1>1, <1>2, <1>3, <1>4, <1>5, <1>6, <1>7

(* The router is asked at most once more than max_handoff_rounds allows,   *)
(* and every handoff is between agents of the team, whatever it answers.   *)
THEOREM RoutingBounded == Spec => []RoutingEnds
<1>1. RouteInv => RoutingEnds
  BY DEF RouteInv, RoutingEnds, Handoffs
<1> QED BY <1>1, RouteInit, RouteStep, PTL DEF Spec
-----------------------------------------------------------------------------
(***************************************************************************)
(* Why a reply reports every decision: the decisions of a request are      *)
(* those the owner has, those it has from the agent and those of the check *)
(* in progress.                                                            *)
(***************************************************************************)
Events == [by : Parties, stage : {"input", "context", "output"}, guard : Nat,
           action : {"allow", "modify", "block"}]

EventLists ==
  /\ log \in Seq(Events) /\ call.events \in Seq(Events) /\ call.agentEvents \in Seq(Events)
  /\ pipe.events \in Seq(Events)
  /\ pipe.by \in Parties /\ pipe.stage \in {"input", "context", "output"} /\ pipe.next \in Nat \ {0}

(* Whose events the log is made of, at each await. *)
Accounted ==
  /\ In("owner", "input") => log = pipe.events
  /\ In("owner", "context") \/ In("owner", "output") \/ In("agent", "input")
       => log = call.events \o pipe.events
  /\ In("agent", "output") => log = (call.events \o call.agentEvents) \o pipe.events
  /\ at \in {"routing", "retrieving", "owner composing"} => log = call.events
  /\ at \in {"chatting", "saving", "agent composing", "answered"}
       => log = call.events \o call.agentEvents
  /\ at # "idle" => reply.result = "none"
  /\ EventsComplete

ReportInv == RouteInv /\ HasPipelines /\ EventLists /\ Accounted

(* An event at the end of two lists is at the end of the second. *)
LEMMA JoinLists ==
  ASSUME NEW a \in Seq(Events), NEW b \in Seq(Events), NEW e \in Events
  PROVE  Append(a \o b, e) = a \o Append(b, e)
<1>1. a \o b \in Seq(Events) /\ <<e>> \in Seq(Events)
  OBVIOUS
<1>2. Append(a \o b, e) = (a \o b) \o <<e>> /\ Append(b, e) = b \o <<e>>
  BY <1>1, AppendIsConcat
<1>3. (a \o b) \o <<e>> = a \o (b \o <<e>>)
  BY <1>1, ConcatAssociative
<1> QED BY <1>2, <1>3

(* What a guardrail may decide. *)
LEMMA DecisionActions ==
  ASSUME NEW kind \in Kinds, NEW t, NEW stage, NEW d \in Decisions(kind, t, stage)
  PROVE  d.action \in {"allow", "modify", "block"}
BY DEF Decisions, Redact, EmptyAnswer, NoHallucination, Custom, Allow, Modify, Block, Kinds

(* No request has been made. *)
LEMMA ReportInit == Init => ReportInv
<1> SUFFICES ASSUME Init PROVE ReportInv
  OBVIOUS
<1>1. RouteInv
  BY RouteInit
<1>2. EventLists
  BY DEF Init, EventLists, NoPipe, NoCall, Parties
<1>3. Accounted
  BY DEF Init, Accounted, In, NoReply, EventsComplete
<1> QED BY <1>1, <1>2, <1>3, PipelinesInit DEF ReportInv

(* A request ends, with all its events or without an answer. *)
LEMMA ReportReturns ==
  ASSUME NEW r, Returns(r), EventLists, UNCHANGED log,
         r.result \in {"answer", "fallback"} => r.events = log
  PROVE  EventLists' /\ Accounted'
<1>1. EventLists'
  BY DEF Returns, EventLists, NoPipe, NoCall, Parties
<1>2. Accounted'
  BY DEF Returns, Accounted, In, EventsComplete, Goto
<1> QED BY <1>1, <1>2

(* A request fails. *)
LEMMA ReportErrs ==
  ASSUME Returns([NoReply EXCEPT !.result = "error"]), EventLists, UNCHANGED log
  PROVE  EventLists' /\ Accounted'
BY ReportReturns DEF NoReply

(* A pipeline begins, with no event of its own. *)
LEMMA ReportStarts ==
  ASSUME NEW by \in Parties, NEW stage \in {"context", "output", "input"}, NEW text,
         StartCheck(by, stage, text), EventLists, UNCHANGED <<log, reply>>,
         reply.result = "none", <<by, stage>> # <<"owner", "input">>,
         call'.events \in Seq(Events), call'.agentEvents \in Seq(Events),
         log = IF <<by, stage>> = <<"agent", "output">>
               THEN call'.events \o call'.agentEvents ELSE call'.events
  PROVE  EventLists' /\ Accounted'
<1>1. pipe'.by = by /\ pipe'.stage = stage /\ pipe'.events = <<>> /\ pipe'.next = 1
      /\ at' = "checking"
  BY DEF StartCheck, Goto
<1>2. EventLists'
  BY <1>1 DEF EventLists
<1>3. log \o <<>> = log
  BY ConcatEmptySeq DEF EventLists
<1>4. Accounted'
  BY <1>1, <1>3 DEF Accounted, In, EventsComplete
<1> QED BY <1>2, <1>4

(* The owner has its answer, or its fallback. *)
LEMMA ReportResponds ==
  ASSUME NEW c, Responds(c), EventLists, Accounted, at # "idle", UNCHANGED log,
         c.events = log, c.agentEvents \in Seq(Events)
  PROVE  EventLists' /\ Accounted'
<1>1. CASE "owner" \in owner.composes
  <2>1. at' = "owner composing" /\ pipe' = NoPipe /\ call' = c /\ UNCHANGED reply
    BY <1>1 DEF Responds, Goto
  <2>2. EventLists'
    <3>1. pipe'.events = <<>> /\ pipe'.by = "owner" /\ pipe'.stage = "input" /\ pipe'.next = 1
      BY <2>1 DEF NoPipe
    <3>2. log' = log /\ call'.events = log /\ call'.agentEvents \in Seq(Events)
      BY <2>1
    <3> QED BY <3>1, <3>2 DEF EventLists, Parties
  <2>3. Accounted'
    BY <2>1 DEF Accounted, In, EventsComplete
  <2> QED BY <2>2, <2>3
<1>2. CASE "owner" \notin owner.composes
  BY <1>2, ReportReturns DEF Responds, Reply
<1> QED BY <1>1, <1>2

(* Every step keeps the account. *)
LEMMA ReportStep == ReportInv /\ [Next]_vars => ReportInv'
<1> SUFFICES ASSUME RouteInv, HasPipelines, EventLists, Accounted, [Next]_vars
             PROVE  EventLists' /\ Accounted'
  BY RouteStep, PipelinesStep DEF ReportInv
<1> USE DEF Parties
<1>1. CASE UNCHANGED vars
  BY <1>1 DEF vars, EventLists, Accounted, In, EventsComplete
<1>2. ASSUME NEW id, Begins(id) PROVE EventLists' /\ Accounted'
  <2>1. /\ at' = "checking" /\ pipe'.by = "owner" /\ pipe'.stage = "input" /\ pipe'.next = 1
        /\ pipe'.events = <<>> /\ log' = <<>> /\ reply' = NoReply
        /\ call'.events = <<>> /\ call'.agentEvents = <<>>
    BY <1>2 DEF Begins, OwnerCheck, StartCheck, Goto, NoCall
  <2>2. EventLists'
    BY <2>1 DEF EventLists
  <2>3. Accounted'
    BY <2>1 DEF Accounted, In, NoReply, EventsComplete
  <2> QED BY <2>2, <2>3
<1>3. CASE CheckNext
  <2>1. PICK d \in Decisions(Guards(pipe.by)[pipe.next], pipe.text, pipe.stage) :
          LET event == [by |-> pipe.by, stage |-> pipe.stage, guard |-> pipe.next,
                        action |-> d.action]
          IN  /\ pipe' = [pipe EXCEPT !.events = Append(@, event), !.next = @ + 1,
                          !.text = After(d, [by |-> pipe.by, guard |-> pipe.next])]
              /\ log' = Append(log, event)
              /\ IF d.action = "block"
                 THEN Goto("blocked") /\ call' = [call EXCEPT !.fallback = d.fallback]
                 ELSE UNCHANGED <<at, call>>
    BY <1>3 DEF CheckNext
  <2> DEFINE event == [by |-> pipe.by, stage |-> pipe.stage, guard |-> pipe.next,
                       action |-> d.action]
  <2>2. Guards(pipe.by)[pipe.next] \in Kinds
    <3>1. Guards(pipe.by) \in Seq(Kinds) /\ pipe.next \in 1..Len(Guards(pipe.by))
      BY <1>3 DEF CheckNext, Guards, HasPipelines, EventLists
    <3> QED BY <3>1
  <2>3. event \in Events
    BY <2>2, DecisionActions DEF EventLists, Events
  <2>4. /\ pipe'.events = Append(pipe.events, event) /\ pipe'.next = pipe.next + 1
        /\ UNCHANGED <<pipe.by, pipe.stage>>
    BY <2>1 DEF RouteInv, Shape
  <2>5. UNCHANGED <<call.events, call.agentEvents>>
    BY <2>1 DEF RouteInv, Shape
  <2>6. /\ at = "checking" /\ at' \in {"checking", "blocked"} /\ UNCHANGED reply
        /\ log' = Append(log, event)
    BY <1>3, <2>1 DEF CheckNext, Goto
  <2> HIDE DEF event
  <2>7. /\ Append(log, event) \in Seq(Events) /\ Append(pipe.events, event) \in Seq(Events)
        /\ call.events \o call.agentEvents \in Seq(Events)
    BY <2>3 DEF EventLists
  <2>8. EventLists'
    BY <2>4, <2>5, <2>6, <2>7 DEF EventLists
  <2>9. \A own \in Seq(Events) :
          log = own \o pipe.events => log' = own \o pipe'.events
    <3>1. SUFFICES ASSUME NEW own \in Seq(Events), log = own \o pipe.events
                   PROVE  Append(log, event) = own \o Append(pipe.events, event)
      BY <2>4, <2>6
    <3>2. pipe.events \in Seq(Events)
      BY DEF EventLists
    <3>3. Append(own \o pipe.events, event) = own \o Append(pipe.events, event)
      BY <2>3, <3>2, JoinLists, Zenon
    <3> QED BY <3>1, <3>3
  <2>10. Accounted'
    <3>1. In("owner", "input")' => log' = pipe'.events
      BY <2>4, <2>6 DEF Accounted, In
    <3>2. In("owner", "context")' \/ In("owner", "output")' \/ In("agent", "input")'
            => log' = call'.events \o pipe'.events
      <4>1. log = call.events \o pipe.events => log' = call.events \o pipe'.events
        BY <2>9 DEF EventLists
      <4> QED BY <4>1, <2>4, <2>5, <2>6 DEF Accounted, In
    <3>3. In("agent", "output")'
            => log' = (call'.events \o call'.agentEvents) \o pipe'.events
      <4>1. log = (call.events \o call.agentEvents) \o pipe.events
              => log' = (call.events \o call.agentEvents) \o pipe'.events
        BY <2>7, <2>9
      <4>2. In("agent", "output")' => In("agent", "output")
        BY <2>4, <2>6 DEF In
      <4> QED BY <4>1, <4>2, <2>5 DEF Accounted
    <3>4. reply'.result = "none" /\ at' \in {"checking", "blocked"}
      BY <2>6 DEF Accounted
    <3> QED BY <3>1, <3>2, <3>3, <3>4 DEF Accounted, EventsComplete
  <2> QED BY <2>8, <2>10
<1>4. CASE OwnerInputBlocked \/ AgentBlocked \/ Fails
  BY <1>4, ReportErrs DEF OwnerInputBlocked, AgentBlocked, Fails, Errs, aux
<1>5. CASE OwnerInputPassed \/ DirectInputPassed
  <2>1. CASE Errs
    BY <2>1, ReportErrs DEF Errs, aux
  <2>2. CASE ~Errs
    <3>1. /\ call' = [call EXCEPT !.question = pipe.text, !.events = pipe.events]
          /\ UNCHANGED <<log, reply>>
          /\ \/ AgentAsk(pipe.text)
             \/ at' \in {"routing", "retrieving"} /\ pipe' = NoPipe
      BY <1>5, <2>2 DEF OwnerInputPassed, DirectInputPassed, TakesQuestion, Goto
    <3>2. call'.events = pipe.events /\ UNCHANGED call.agentEvents
      BY <3>1 DEF RouteInv, Shape
    <3>3. log = pipe.events /\ reply.result = "none"
      BY <1>5 DEF OwnerInputPassed, DirectInputPassed, Passed, Accounted, In
    <3>4. CASE AgentAsk(pipe.text)
      BY <3>1, <3>2, <3>3, <3>4, ReportStarts DEF AgentAsk, EventLists
    <3>5. CASE at' \in {"routing", "retrieving"} /\ pipe' = NoPipe
      <4>1. EventLists'
        BY <3>1, <3>2, <3>5 DEF EventLists, NoPipe
      <4>2. Accounted'
        BY <3>1, <3>2, <3>3, <3>5 DEF Accounted, In, EventsComplete
      <4> QED BY <4>1, <4>2
    <3> QED BY <3>1, <3>4, <3>5
  <2> QED BY <2>1, <2>2
<1>6. CASE Route
  <2>1. PICK d \in RouteDecisions :
          IF d.handoff = None THEN RouteTo(d.to) ELSE HandOff(d.handoff, d.to)
    BY <1>6 DEF Route
  <2>2. at = "routing" /\ log = call.events /\ reply.result = "none"
    BY <1>6 DEF Route, Accounted
  <2>3. UNCHANGED log
    BY <2>1 DEF RouteTo, HandOff
  <2>4. CASE Returns([NoReply EXCEPT !.result = "error"])
    BY <2>3, <2>4, ReportErrs
  <2>5. CASE AgentAsk(call.question) /\ call' = [call EXCEPT !.agent = d.to] /\ UNCHANGED reply
    <3>1. UNCHANGED <<call.events, call.agentEvents>>
      BY <2>5 DEF RouteInv, Shape
    <3> QED BY <2>2, <2>3, <2>5, <3>1, ReportStarts DEF AgentAsk, EventLists
  <2>6. CASE /\ call' = [call EXCEPT !.handoffs = Append(@, <<d.handoff, d.to>>)]
             /\ UNCHANGED <<at, pipe, reply>>
    <3>1. UNCHANGED <<call.events, call.agentEvents>>
      BY <2>6 DEF RouteInv, Shape
    <3> QED BY <2>2, <2>3, <2>6, <3>1 DEF EventLists, Accounted, In, EventsComplete
  <2> QED BY <2>1, <2>4, <2>5, <2>6 DEF RouteTo, HandOff
<1>7. CASE Retrieve
  <2>1. PICK n \in 0..MaxChunks, private \in SUBSET {"context"} :
          /\ call' = [call EXCEPT !.chunks = n, !.retrieved = private]
          /\ StartCheck("owner", "context", Fresh("context", private, n = 0))
    BY <1>7 DEF Retrieve, OwnerCheck
  <2>2. UNCHANGED <<call.events, call.agentEvents>>
    BY <2>1 DEF RouteInv, Shape
  <2>3. UNCHANGED <<log, reply>> /\ log = call.events /\ reply.result = "none"
    BY <1>7 DEF Retrieve, aux, Accounted
  <2> QED BY <2>1, <2>2, <2>3, ReportStarts DEF EventLists
<1>8. ASSUME RespondsFallback, UNCHANGED aux, at # "idle", log = call.events \o pipe.events
      PROVE  EventLists' /\ Accounted'
  <2> DEFINE c == [call EXCEPT !.draft = Fallback, !.usedFallback = TRUE,
                               !.events = @ \o pipe.events]
  <2>1. c.events = call.events \o pipe.events /\ c.agentEvents = call.agentEvents
    BY DEF RouteInv, Shape
  <2>2. Responds(c) /\ UNCHANGED log
    BY <1>8 DEF RespondsFallback, aux
  <2> HIDE DEF c
  <2> QED BY <1>8, <2>1, <2>2, ReportResponds DEF EventLists
<1>9. CASE OwnerContextBlocked
  BY <1>8, <1>9 DEF OwnerContextBlocked, Blocked, Accounted, In
<1>10. CASE OwnerContextPassed
  <2>1. log = call.events \o pipe.events /\ at # "idle"
    BY <1>10 DEF OwnerContextPassed, Passed, Accounted, In
  <2>2. CASE call.chunks = 0 \/ pipe.text.blank
    BY <1>8, <1>10, <2>1, <2>2 DEF OwnerContextPassed, aux
  <2>3. CASE ~(call.chunks = 0 \/ pipe.text.blank)
    <3>1. /\ AgentAsk(Prompt(call.question, pipe.text))
          /\ call' = [call EXCEPT !.events = @ \o pipe.events]
          /\ UNCHANGED <<log, reply>>
      BY <1>10, <2>3 DEF OwnerContextPassed, AsksAgent
    <3>2. call'.events = call.events \o pipe.events /\ UNCHANGED call.agentEvents
      BY <3>1 DEF RouteInv, Shape
    <3>3. reply.result = "none"
      BY <2>1 DEF Accounted
    <3> QED BY <2>1, <3>1, <3>2, <3>3, ReportStarts DEF AgentAsk, EventLists
  <2> QED BY <2>2, <2>3
<1>11. CASE AgentInputPassed
  <2>1. /\ at' = "chatting" /\ pipe' = NoPipe /\ UNCHANGED <<log, reply>>
        /\ call'.agentEvents = pipe.events /\ UNCHANGED call.events
    BY <1>11 DEF AgentInputPassed, Goto, RouteInv, Shape
  <2>2. log = call.events \o pipe.events /\ reply.result = "none"
    BY <1>11 DEF AgentInputPassed, Passed, Accounted, In
  <2>3. EventLists'
    BY <2>1 DEF EventLists, NoPipe
  <2>4. Accounted'
    BY <2>1, <2>2 DEF Accounted, In, EventsComplete
  <2> QED BY <2>3, <2>4
<1>12. CASE Chat
  <2>1. PICK answer \in Answers : StartCheck("agent", "output", answer)
    BY <1>12 DEF Chat
  <2>2. /\ UNCHANGED <<call, log, reply>> /\ log = call.events \o call.agentEvents
        /\ reply.result = "none"
    BY <1>12 DEF Chat, aux, Accounted
  <2> QED BY <2>1, <2>2, ReportStarts DEF EventLists
<1>13. CASE AgentOutputPassed
  <2>1. /\ at' = "saving" /\ pipe' = NoPipe /\ UNCHANGED <<log, reply>>
        /\ call'.agentEvents = call.agentEvents \o pipe.events /\ UNCHANGED call.events
    BY <1>13 DEF AgentOutputPassed, Goto, RouteInv, Shape, aux
  <2>2. log = (call.events \o call.agentEvents) \o pipe.events /\ reply.result = "none"
    BY <1>13 DEF AgentOutputPassed, Passed, Accounted, In
  <2>3. /\ call.agentEvents \o pipe.events \in Seq(Events)
        /\ log = call.events \o (call.agentEvents \o pipe.events)
    <3>1. PICK a \in Seq(Events), b \in Seq(Events), c \in Seq(Events) :
             a = call.events /\ b = call.agentEvents /\ c = pipe.events
      BY DEF EventLists
    <3>2. (a \o b) \o c = a \o (b \o c) /\ b \o c \in Seq(Events)
      BY ConcatAssociative
    <3> QED BY <2>2, <3>1, <3>2
  <2>4. EventLists'
    BY <2>1, <2>3 DEF EventLists, NoPipe
  <2>5. Accounted'
    BY <2>1, <2>2, <2>3 DEF Accounted, In, EventsComplete
  <2> QED BY <2>4, <2>5
<1>14. CASE Save \/ AgentComposes
  <2>1. /\ at' \in {"agent composing", "answered"} /\ UNCHANGED <<pipe, log, reply>>
        /\ UNCHANGED <<call.events, call.agentEvents>>
        /\ log = call.events \o call.agentEvents /\ reply.result = "none"
    BY <1>14 DEF Save, AgentComposes, Goto, aux, RouteInv, Shape, Accounted
  <2>2. EventLists'
    BY <2>1 DEF EventLists
  <2>3. Accounted'
    BY <2>1 DEF Accounted, In, EventsComplete
  <2> QED BY <2>2, <2>3
<1>15. CASE Answered
  <2>1. StartCheck("owner", "output", Content(call.message, call.composed))
    BY <1>15 DEF Answered, OwnerCheck
  <2>2. /\ call'.events = call.events \o call.agentEvents /\ UNCHANGED call.agentEvents
        /\ UNCHANGED <<log, reply>>
    BY <1>15 DEF Answered, aux, RouteInv, Shape
  <2>3. log = call.events \o call.agentEvents /\ reply.result = "none"
    BY <1>15 DEF Answered, Accounted
  <2> QED BY <2>1, <2>2, <2>3, ReportStarts DEF EventLists
<1>16. CASE OwnerOutputBlocked
  <2>1. CASE Errs
    BY <2>1, ReportErrs DEF Errs, aux
  <2>2. CASE ~Errs
    BY <1>8, <1>16, <2>2 DEF OwnerOutputBlocked, Blocked, Accounted, In
  <2> QED BY <2>1, <2>2
<1>17. CASE OwnerOutputPassed
  <2> DEFINE r == Rewrite(call, pipe.text)
             c == [r EXCEPT !.events = @ \o pipe.events,
                     !.draft = IF Team THEN Content(r.message, r.composed) ELSE pipe.text]
  <2>1. c.events = call.events \o pipe.events /\ c.agentEvents = call.agentEvents
    BY DEF RouteInv, Shape, Rewrite
  <2>2. Responds(c) /\ UNCHANGED log
    BY <1>17 DEF OwnerOutputPassed, aux
  <2>3. log = call.events \o pipe.events /\ at # "idle"
    BY <1>17 DEF OwnerOutputPassed, Passed, Accounted, In
  <2> HIDE DEF c
  <2> QED BY <2>1, <2>2, <2>3, ReportResponds DEF EventLists
<1>18. CASE OwnerComposes
  <2>1. /\ Returns(Reply(call, Composed(call.draft, "owner"))) /\ UNCHANGED log
        /\ log = call.events
    BY <1>18 DEF OwnerComposes, aux, Accounted
  <2> QED BY <2>1, ReportReturns DEF Reply
<1> QED BY <1>1, <1>2, <1>3, <1>4, <1>5, <1>6, <1>7, <1>9, <1>10, <1>11, <1>12, <1>13, <1>14,
           <1>15, <1>16, <1>17, <1>18 DEF Next, Ask, AskWithAgent

(* A reply reports every decision the guardrails made for it, in order,    *)
(* whatever pipelines the owner and the agent have.                        *)
THEOREM DecisionsReported == Spec => []EventsComplete
<1>1. ReportInv => EventsComplete
  BY DEF ReportInv, Accounted
<1> QED BY <1>1, ReportInit, ReportStep, PTL DEF Spec
-----------------------------------------------------------------------------
(***************************************************************************)
(* Why a block is final: it stops its pipeline, the model is asked only    *)
(* after the pipelines before it let the text through, and what follows a  *)
(* stopped pipeline is an error or the fallback of a knowledge agent.      *)
(***************************************************************************)
Unblocked == \A i \in 1..Len(log) : ~IsBlock(log[i])

LastAndUnasked ==
  \A i \in 1..Len(log) : IsBlock(log[i]) =>
    i = Len(log) /\ (log[i].stage # "output" => asked = None)

FallbackBlock ==
  \A i \in 1..Len(log) : IsBlock(log[i]) =>
    owner.kind = "knowledge" /\ log[i].by = "owner" /\ log[i].stage # "input"

(* Before the agent chats. *)
Early ==
  \/ at \in {"checking", "blocked"} /\ pipe.stage # "output"
  \/ at \in {"routing", "retrieving"}

Stopped ==
  /\ LastAndUnasked
  /\ at \notin {"blocked", "owner composing", "idle"} => Unblocked
  /\ at = "blocked" =>
       \A i \in 1..Len(log) : IsBlock(log[i]) => log[i].by = pipe.by /\ log[i].stage = pipe.stage
  /\ at = "owner composing" => FallbackBlock /\ (Unblocked \/ call.usedFallback)
  /\ Early => asked = None
  /\ at = "retrieving" \/ In("owner", "context") => owner.kind = "knowledge"
  /\ owner.kind \in {"team", "knowledge"}
  /\ BlockedIsNotUsed

BlockInv == ReportInv /\ Stopped

(* No request has been made. *)
LEMMA BlockInit == Init => BlockInv
<1> SUFFICES ASSUME Init PROVE Stopped
  BY ReportInit DEF BlockInv
<1>1. log = <<>> /\ asked = None /\ at = "idle" /\ owner.kind \in {"team", "knowledge"}
  BY DEF Init
<1>2. \A i \in 1..Len(log) : FALSE
  BY <1>1
<1> QED BY <1>1, <1>2 DEF Stopped, Early, In, LastAndUnasked, BlockedIsNotUsed

(* A request ends: if it was blocked, with an error or the fallback.       *)
LEMMA BlockReturns ==
  ASSUME NEW r, Returns(r), Stopped, UNCHANGED <<log, asked>>,
         \/ r.result = "error"
         \/ Unblocked
         \/ FallbackBlock /\ r.result = "fallback"
  PROVE  Stopped'
<1>1. at' = "idle" /\ reply' = r /\ UNCHANGED owner
  BY DEF Returns, Goto
<1>2. LastAndUnasked' /\ ~Early' /\ ~In("owner", "context")'
  BY <1>1 DEF Stopped, LastAndUnasked, Early, In
<1>3. BlockedIsNotUsed'
  BY <1>1 DEF BlockedIsNotUsed, Stopped, LastAndUnasked, Unblocked, FallbackBlock
<1> QED BY <1>1, <1>2, <1>3 DEF Stopped

LEMMA BlockErrs ==
  ASSUME Returns([NoReply EXCEPT !.result = "error"]), Stopped, UNCHANGED <<log, asked>>
  PROVE  Stopped'
BY BlockReturns DEF NoReply

(* The request goes on, and nothing blocked it. *)
LEMMA BlockGoesOn ==
  ASSUME Stopped, Unblocked, UNCHANGED <<owner, log>>,
         at' \notin {"blocked", "owner composing", "idle"},
         Early' => asked' = None,
         at' = "retrieving" \/ In("owner", "context")' => owner.kind = "knowledge"
  PROVE  Stopped'
BY DEF Stopped, Unblocked, LastAndUnasked, BlockedIsNotUsed

(* A pipeline of the agent begins, or the owner's last one. *)
LEMMA BlockStarts ==
  ASSUME NEW by, NEW stage, NEW text, StartCheck(by, stage, text),
         Stopped, Unblocked, UNCHANGED <<owner, log, asked>>,
         stage # "output" => asked = None,
         by = "owner" /\ stage = "context" => owner.kind = "knowledge"
  PROVE  Stopped'
<1>1. at' = "checking" /\ pipe'.by = by /\ pipe'.stage = stage
  BY DEF StartCheck, Goto
<1> QED BY <1>1, BlockGoesOn DEF Early, In

(* The answer of the owner, or its fallback. *)
LEMMA BlockResponds ==
  ASSUME NEW c, Responds(c), Stopped, UNCHANGED <<log, asked>>, reply.result = "none",
         Unblocked \/ (FallbackBlock /\ c.usedFallback)
  PROVE  Stopped'
<1>1. CASE "owner" \in owner.composes
  <2>1. at' = "owner composing" /\ call' = c /\ UNCHANGED owner
    BY <1>1 DEF Responds, Goto
  <2>2. FallbackBlock' /\ (Unblocked' \/ call'.usedFallback)
    BY <2>1 DEF FallbackBlock, Unblocked
  <2>3. LastAndUnasked' /\ UNCHANGED reply
    BY <1>1 DEF Responds, Stopped, LastAndUnasked
  <2>4. BlockedIsNotUsed'
    BY <2>3 DEF BlockedIsNotUsed, LastAndUnasked
  <2> QED BY <2>1, <2>2, <2>3, <2>4 DEF Stopped, Early, In
<1>2. CASE "owner" \notin owner.composes
  BY <1>2, BlockReturns DEF Responds, Reply
<1> QED BY <1>1, <1>2

(* Every step keeps it. *)
LEMMA BlockStep == BlockInv /\ [Next]_vars => BlockInv'
<1> SUFFICES ASSUME ReportInv, Stopped, [Next]_vars PROVE Stopped'
  BY ReportStep DEF BlockInv
<1>0. at # "idle" => reply.result = "none"
  BY DEF ReportInv, Accounted
<1>1. CASE UNCHANGED vars
  BY <1>1 DEF vars, Stopped, LastAndUnasked, Unblocked, FallbackBlock, Early, In, BlockedIsNotUsed
<1>2. ASSUME NEW id, Begins(id) PROVE Stopped'
  <2>1. /\ at' = "checking" /\ pipe'.by = "owner" /\ pipe'.stage = "input"
        /\ log' = <<>> /\ asked' = None /\ UNCHANGED owner
    BY <1>2 DEF Begins, OwnerCheck, StartCheck, Goto
  <2>2. \A i \in 1..Len(log') : FALSE
    BY <2>1
  <2> QED BY <2>1, <2>2
          DEF Stopped, LastAndUnasked, Unblocked, FallbackBlock, Early, In, BlockedIsNotUsed
<1>3. CASE CheckNext
  <2>1. PICK d \in Decisions(Guards(pipe.by)[pipe.next], pipe.text, pipe.stage) :
          LET event == [by |-> pipe.by, stage |-> pipe.stage, guard |-> pipe.next,
                        action |-> d.action]
          IN  /\ pipe' = [pipe EXCEPT !.events = Append(@, event), !.next = @ + 1,
                          !.text = After(d, [by |-> pipe.by, guard |-> pipe.next])]
              /\ log' = Append(log, event)
              /\ IF d.action = "block"
                 THEN Goto("blocked") /\ call' = [call EXCEPT !.fallback = d.fallback]
                 ELSE UNCHANGED <<at, call>>
    BY <1>3 DEF CheckNext
  <2> DEFINE event == [by |-> pipe.by, stage |-> pipe.stage, guard |-> pipe.next,
                       action |-> d.action]
  <2>2. event.by = pipe.by /\ event.stage = pipe.stage /\ event.action = d.action
    OBVIOUS
  <2>3. UNCHANGED <<pipe.by, pipe.stage>>
    BY <2>1 DEF ReportInv, RouteInv, Shape
  <2>4. /\ at = "checking" /\ at' = IF event.action = "block" THEN "blocked" ELSE "checking"
        /\ UNCHANGED <<owner, reply, asked>> /\ log' = Append(log, event)
    BY <1>3, <2>1, <2>2 DEF CheckNext, Goto
  <2> HIDE DEF event
  <2>5. /\ Len(log') = Len(log) + 1 /\ Len(log) \in Nat
        /\ \A i \in 1..Len(log) : log'[i] = log[i]
        /\ log'[Len(log')] = event
    <3>1. log \in Seq(Events)
      BY DEF ReportInv, EventLists
    <3> QED BY <2>4, <3>1
  <2>6. Unblocked
    BY <2>4 DEF Stopped
  <2>7. \A i \in 1..Len(log') : IsBlock(log'[i]) => i = Len(log') /\ log'[i] = event
    BY <2>5, <2>6 DEF Unblocked, IsBlock
  <2>8. event.stage # "output" => asked = None
    BY <2>2, <2>4 DEF Stopped, Early
  <2>9. LastAndUnasked'
    BY <2>4, <2>7, <2>8 DEF LastAndUnasked, IsBlock
  <2>10. reply'.result = "none"
    BY <2>4 DEF ReportInv, Accounted
  <2>11. BlockedIsNotUsed'
    BY <2>9, <2>10 DEF BlockedIsNotUsed, LastAndUnasked
  <2>12. at' # "blocked" => Unblocked'
    BY <2>4, <2>7 DEF Unblocked, IsBlock
  <2>13. \A i \in 1..Len(log') : IsBlock(log'[i]) => log'[i].by = pipe'.by /\ log'[i].stage = pipe'.stage
    BY <2>2, <2>3, <2>7
  <2>14. (Early' => asked' = None) /\ (In("owner", "context")' => owner'.kind = "knowledge")
    BY <2>3, <2>4 DEF Stopped, Early, In
  <2> QED BY <2>4, <2>9, <2>11, <2>12, <2>13, <2>14 DEF Stopped
<1>4. CASE OwnerInputBlocked \/ AgentBlocked \/ Fails \/ Errs
  BY <1>4, BlockErrs DEF OwnerInputBlocked, AgentBlocked, Fails, Errs, aux
<1>5. CASE OwnerInputPassed /\ ~Errs
  <2>1. /\ UNCHANGED <<owner, log, asked>> /\ at' = IF Team THEN "routing" ELSE "retrieving"
        /\ pipe' = NoPipe
    BY <1>5 DEF OwnerInputPassed, TakesQuestion, Goto
  <2>2. Unblocked /\ asked = None
    BY <1>5 DEF OwnerInputPassed, Passed, Stopped, Early
  <2> QED BY <2>1, <2>2, BlockGoesOn DEF In, Team, Stopped
<1>6. CASE DirectInputPassed /\ ~Errs
  <2>1. AgentAsk(pipe.text) /\ UNCHANGED <<owner, log, asked>>
    BY <1>6 DEF DirectInputPassed, TakesQuestion
  <2>2. Unblocked /\ asked = None
    BY <1>6 DEF DirectInputPassed, Passed, Stopped, Early
  <2> QED BY <2>1, <2>2, BlockStarts DEF AgentAsk
<1>7. CASE Route
  <2>1. PICK d \in RouteDecisions :
          IF d.handoff = None THEN RouteTo(d.to) ELSE HandOff(d.handoff, d.to)
    BY <1>7 DEF Route
  <2>2. at = "routing" /\ Unblocked /\ asked = None
    BY <1>7 DEF Route, Stopped, Early
  <2>3. UNCHANGED <<log, asked>>
    BY <2>1 DEF RouteTo, HandOff
  <2>4. CASE Returns([NoReply EXCEPT !.result = "error"])
    BY <2>3, <2>4, BlockErrs
  <2>5. CASE AgentAsk(call.question) /\ UNCHANGED owner
    BY <2>2, <2>3, <2>5, BlockStarts DEF AgentAsk
  <2>6. CASE UNCHANGED <<at, pipe, owner>>
    BY <2>2, <2>3, <2>6, BlockGoesOn DEF In
  <2> QED BY <2>1, <2>4, <2>5, <2>6 DEF RouteTo, HandOff
<1>8. CASE Retrieve
  <2>1. PICK n \in 0..MaxChunks, private \in SUBSET {"context"} :
          StartCheck("owner", "context", Fresh("context", private, n = 0))
    BY <1>8 DEF Retrieve, OwnerCheck
  <2>2. /\ UNCHANGED <<owner, log, asked>> /\ Unblocked /\ asked = None
        /\ owner.kind = "knowledge"
    BY <1>8 DEF Retrieve, aux, Stopped, Early
  <2> QED BY <2>1, <2>2, BlockStarts
<1>9. ASSUME RespondsFallback, UNCHANGED aux, at # "idle",
             Unblocked \/ FallbackBlock
      PROVE  Stopped'
  <2> DEFINE c == [call EXCEPT !.draft = Fallback, !.usedFallback = TRUE,
                               !.events = @ \o pipe.events]
  <2>1. c.usedFallback
    BY DEF ReportInv, RouteInv, Shape
  <2>2. Responds(c) /\ UNCHANGED <<log, asked>>
    BY <1>9 DEF RespondsFallback, aux
  <2> HIDE DEF c
  <2> QED BY <1>0, <1>9, <2>1, <2>2, BlockResponds
<1>10. ASSUME at = "blocked", pipe.by = "owner", pipe.stage # "input", owner.kind = "knowledge"
       PROVE  FallbackBlock
  BY <1>10 DEF Stopped, FallbackBlock
<1>11. CASE OwnerContextBlocked
  <2>1. at = "blocked" /\ pipe.by = "owner" /\ pipe.stage = "context"
    BY <1>11 DEF OwnerContextBlocked, Blocked
  <2>2. owner.kind = "knowledge"
    BY <2>1 DEF Stopped, In
  <2> QED BY <1>9, <1>10, <1>11, <2>1, <2>2 DEF OwnerContextBlocked
<1>12. CASE OwnerContextPassed
  <2>1. Unblocked /\ asked = None /\ at # "idle" /\ UNCHANGED <<log, asked, shown, routes>>
    BY <1>12 DEF OwnerContextPassed, Passed, Stopped, Early
  <2>2. CASE RespondsFallback /\ UNCHANGED handed
    BY <1>9, <2>1, <2>2 DEF aux
  <2>3. CASE AgentAsk(Prompt(call.question, pipe.text)) /\ UNCHANGED owner
    BY <2>1, <2>3, BlockStarts DEF AgentAsk
  <2> QED BY <1>12, <2>2, <2>3 DEF OwnerContextPassed, AsksAgent
<1>13. CASE AgentInputPassed
  <2>1. at' = "chatting" /\ UNCHANGED <<owner, log>>
    BY <1>13 DEF AgentInputPassed, Goto
  <2>2. Unblocked
    BY <1>13 DEF AgentInputPassed, Passed, Stopped
  <2> QED BY <2>1, <2>2, BlockGoesOn DEF Early, In
<1>14. CASE Chat
  <2>1. PICK answer \in Answers : StartCheck("agent", "output", answer)
    BY <1>14 DEF Chat
  <2>2. UNCHANGED <<owner, log, asked>> /\ Unblocked
    BY <1>14 DEF Chat, aux, Stopped
  <2> QED BY <2>1, <2>2, BlockStarts
<1>15. CASE AgentOutputPassed \/ Save \/ AgentComposes
  <2>1. at' \in {"saving", "agent composing", "answered"} /\ UNCHANGED <<owner, log, asked>>
    BY <1>15 DEF AgentOutputPassed, Save, AgentComposes, Goto, aux
  <2>2. Unblocked
    BY <1>15 DEF AgentOutputPassed, Save, AgentComposes, Passed, Stopped
  <2> QED BY <2>1, <2>2, BlockGoesOn DEF Early, In
<1>16. CASE Answered
  <2>1. StartCheck("owner", "output", Content(call.message, call.composed))
    BY <1>16 DEF Answered, OwnerCheck
  <2>2. UNCHANGED <<owner, log, asked>> /\ Unblocked
    BY <1>16 DEF Answered, aux, Stopped
  <2> QED BY <2>1, <2>2, BlockStarts
<1>17. CASE OwnerOutputBlocked /\ ~Errs
  <2>1. /\ at = "blocked" /\ pipe.by = "owner" /\ pipe.stage = "output" /\ ~Team
        /\ RespondsFallback /\ UNCHANGED aux
    BY <1>17 DEF OwnerOutputBlocked, Blocked
  <2>2. owner.kind = "knowledge"
    BY <2>1 DEF Stopped, Team
  <2> QED BY <1>9, <1>10, <2>1, <2>2
<1>18. CASE OwnerOutputPassed
  <2>1. PICK c : Responds(c) /\ UNCHANGED <<log, asked>>
    BY <1>18 DEF OwnerOutputPassed, aux
  <2>2. Unblocked /\ reply.result = "none"
    BY <1>0, <1>18 DEF OwnerOutputPassed, Passed, Stopped
  <2> QED BY <2>1, <2>2, BlockResponds
<1>19. CASE OwnerComposes
  <2>1. /\ Returns(Reply(call, Composed(call.draft, "owner"))) /\ UNCHANGED <<log, asked>>
        /\ FallbackBlock /\ (Unblocked \/ call.usedFallback)
    BY <1>19 DEF OwnerComposes, aux, Stopped
  <2> QED BY <2>1, BlockReturns DEF Reply
<1> QED BY <1>1, <1>2, <1>3, <1>4, <1>5, <1>6, <1>7, <1>8, <1>11, <1>12, <1>13, <1>14, <1>15,
           <1>16, <1>17, <1>18, <1>19 DEF Next, Ask, AskWithAgent

(* Whatever the guardrails are, a block is the last decision of a request, *)
(* it keeps the model from being asked, and no answer is made of what it   *)
(* stopped.                                                                *)
THEOREM BlockIsFinal == Spec => []BlockedIsNotUsed
<1>1. BlockInv => BlockedIsNotUsed
  BY DEF BlockInv, Stopped
<1> QED BY <1>1, BlockInit, BlockStep, PTL DEF Spec
-----------------------------------------------------------------------------
(***************************************************************************)
(* What the texts of a request are, from one await to the next: why an     *)
(* answer is grounded, and how far a redacting guardrail lets private data *)
(* come.                                                                   *)
(***************************************************************************)
HasQuestion == at \in {"routing", "retrieving"} \/ In("owner", "context")
HasMessage == at \in {"saving", "agent composing", "answered"} \/ In("owner", "output")

(* The agent has asked the model. *)
Chatted == \/ at \in {"chatting", "saving", "agent composing", "answered"}
           \/ In("agent", "output") \/ In("owner", "output")

TextTypes ==
  /\ pipe.text \in Texts
  /\ call.composed \in Texts \cup {None} /\ call.chunks \in Nat
  /\ HasQuestion => call.question \in Texts
  /\ HasMessage => call.message \in Texts
  /\ at = "owner composing" => call.draft \in Texts
  /\ asked # None => asked \in Texts

(* A knowledge agent passes a question on only as a prompt with a context, *)
(* and only a guardrail of its agent can replace that one.                 *)
Grounded ==
  /\ at = "routing" => Team
  /\ at # "idle" /\ owner.kind = "knowledge" => call.agent = None
  /\ call.usedFallback => at = "owner composing" /\ call.draft.from = "fallback"
  /\ In("agent", "input") => handed # None /\ (pipe.text = handed \/ AgentRewroteInput)
  /\ owner.kind = "knowledge" =>
       /\ In("agent", "input") => call.chunks > 0
       /\ Chatted \/ (at = "owner composing" /\ ~call.usedFallback) =>
            asked # None /\ call.chunks > 0
  /\ GroundedOrFallback

(* The private data there may be: in what the owner hands out, in what the *)
(* model is asked and content() gives, and in a history.                   *)
Given == IF Redacting("owner") THEN {} ELSE Sources
Told == IF Redacting("owner") \/ Redacting("agent") THEN {} ELSE Sources
Kept == IF Redacting("agent") THEN {} ELSE IF Redacting("owner") THEN {"answer"} ELSE Sources

Within(text, sources) == text # None => text.private \subseteq sources

(* What a response holds once its texts went through every pipeline.       *)
ReplyWithin ==
  /\ Within(reply.content, Told) /\ Within(reply.inner, Told)
  /\ reply.history \subseteq Kept /\ reply.retrieved \subseteq {"context"}

(* A pipeline has dropped the private data once it is past a redacting     *)
(* guardrail, and no later step brings it back.                            *)
Redacted ==
  /\ at = "checking" =>
       \A i \in 1..Len(Guards(pipe.by)) :
         Guards(pipe.by)[i] = "redact" /\ i < pipe.next => pipe.text.private = {}
  /\ history \subseteq Kept /\ call.past \subseteq Kept /\ call.retrieved \subseteq {"context"}
  /\ (\A q \in shown : q.private \subseteq Given) /\ Within(asked, Told)
  /\ Within(call.message, Kept) /\ Within(call.composed, Kept)
  /\ HasQuestion => call.question.private \subseteq Given
  /\ In("agent", "input") => pipe.text.private \subseteq Given
  /\ In("agent", "output") => pipe.text.private \subseteq {"answer"} \cup Kept
  /\ In("owner", "output") => pipe.text.private \subseteq Kept
  /\ at = "owner composing" =>
       /\ call.draft.private \subseteq Told
       /\ ~call.usedFallback =>
            call.message # None /\ Within(Content(call.message, call.composed), Told)
  /\ ReplyWithin

TextInv == BlockInv /\ TextTypes /\ Grounded /\ Redacted

(* How the three bounds are related. *)
LEMMA Bounds ==
  /\ Given \subseteq Sources /\ Told \subseteq Given /\ Told \subseteq Kept /\ Kept \subseteq Sources
  /\ Redacting("owner") => Given = {} /\ Told = {} /\ Kept \subseteq {"answer"}
  /\ Redacting("agent") => Told = {} /\ Kept = {}
  /\ ~Redacting("owner") => Given = Sources
  /\ ~Redacting("agent") => "answer" \in Kept /\ Told = Given
  /\ ~Redacting("owner") /\ ~Redacting("agent") => Told = Sources
BY DEF Given, Told, Kept, Sources

(* They are the same after every step. *)
LEMMA BoundsStay ==
  ASSUME UNCHANGED owner
  PROVE  Given' = Given /\ Told' = Told /\ Kept' = Kept
BY DEF Given, Told, Kept, Redacting, Guards

(* A rewriting is only noted. *)
LEMMA TextRewritten ==
  ASSUME NEW u \in Texts, NEW g \in [by : Parties, guard : Nat]
  PROVE  LET v == [u EXCEPT !.mods = Append(@, g)]
         IN  v \in Texts /\ v.from = u.from /\ v.private = u.private
<1>1. u.mods \in Seq([by : Parties, guard : Nat])
  BY DEF Texts
<1>2. Append(u.mods, g) \in Seq([by : Parties, guard : Nat])
  BY <1>1
<1> QED BY <1>2 DEF Texts

(* What a guardrail of the application may put in the place of a text.     *)
LEMMA ReplacementIs ==
  ASSUME NEW t \in Texts, NEW u \in Replacements(t)
  PROVE  u \in Texts /\ u.from = t.from /\ u.mods = t.mods /\ u.private \subseteq t.private
<1>1. u \in [from : {t.from}, private : SUBSET t.private, blank : BOOLEAN, mods : {t.mods}]
  BY DEF Replacements
<1>2. t.private \subseteq Sources
  BY DEF Texts
<1> QED BY <1>1, <1>2 DEF Texts

(* What a guardrail makes of a text. *)
LEMMA TextDecided ==
  ASSUME NEW kind \in Kinds, NEW t \in Texts, NEW stage, NEW d \in Decisions(kind, t, stage),
         NEW g \in [by : Parties, guard : Nat]
  PROVE  /\ After(d, g) \in Texts
         /\ After(d, g).private \subseteq t.private
         /\ kind = "redact" => After(d, g).private = {}
         /\ d.action # "modify" => After(d, g) = t
<1>1. /\ d.text \in Texts /\ d.text.private \subseteq t.private
      /\ kind = "redact" => d.text.private = {}
      /\ d.action # "modify" => d.text = t
  <2>1. CASE kind = "redact"
    <3>1. d \in Redact(t)
      BY <2>1 DEF Decisions
    <3>2. CASE t.private # {}
      <4>1. d.text = [t EXCEPT !.private = {}] /\ d.action = "modify"
        BY <3>1, <3>2 DEF Redact, Modify
      <4> QED BY <4>1 DEF Texts
    <3>3. CASE t.private = {}
      BY <3>1, <3>3 DEF Redact, Allow
    <3> QED BY <3>2, <3>3
  <2>2. CASE kind \in {"nonempty", "grounded"}
    BY <2>2 DEF Decisions, EmptyAnswer, NoHallucination, Allow, Block
  <2>3. CASE kind = "custom"
    <3>1. d \in Custom(t)
      BY <2>3 DEF Decisions
    <3>2. d.text = t \/ (d.text \in Replacements(t) /\ d.action = "modify")
      BY <3>1 DEF Custom, Allow, Block, Modify
    <3> QED BY <2>3, <3>2, ReplacementIs
  <2> QED BY <2>1, <2>2, <2>3 DEF Kinds
<1> DEFINE v == [d.text EXCEPT !.mods = Append(@, g)]
<1>2. v \in Texts /\ v.private = d.text.private
  BY <1>1, TextRewritten
<1>3. After(d, g) = IF d.action = "modify" THEN v ELSE d.text
  BY DEF After
<1> HIDE DEF v
<1> QED BY <1>1, <1>2, <1>3

(* What a composer makes of one. *)
LEMMA TextComposed ==
  ASSUME NEW t \in Texts, NEW by \in Parties
  PROVE  /\ Composed(t, by) \in Texts /\ Composed(t, by).from = t.from
         /\ Composed(t, by).private = t.private
<1>1. [by |-> by, guard |-> 0] \in [by : Parties, guard : Nat]
  OBVIOUS
<1> QED BY <1>1, TextRewritten DEF Composed

(* The texts a request begins with. *)
LEMMA TextFresh ==
  ASSUME NEW from \in {"question", "context", "prompt", "answer", "fallback"},
         NEW private \in SUBSET Sources, NEW blank \in BOOLEAN
  PROVE  Fresh(from, private, blank) \in Texts /\ Fresh(from, private, blank).private = private
BY DEF Fresh, Texts

LEMMA FallbackText == Fallback \in Texts /\ Fallback.from = "fallback" /\ Fallback.private = {}
BY DEF Fallback, Fresh, Texts

LEMMA PromptText ==
  ASSUME NEW q \in Texts, NEW c \in Texts
  PROVE  /\ Prompt(q, c) \in Texts /\ Prompt(q, c).from = "prompt"
         /\ Prompt(q, c).blank = c.blank
         /\ Prompt(q, c).private = q.private \cup c.private
<1>1. q.mods \o c.mods \in Seq([by : Parties, guard : Nat]) /\ q.private \cup c.private \in SUBSET Sources
  BY DEF Texts
<1> QED BY <1>1 DEF Prompt, Texts

(* What the model may answer. *)
LEMMA AnswerText ==
  ASSUME NEW answer \in Answers, history \subseteq Kept
  PROVE  answer \in Texts /\ answer.private \subseteq {"answer"} \cup Kept
<1>1. {"answer"} \cup history \subseteq Sources
  BY Bounds DEF Sources
<1>2. CASE answer = Fresh("answer", {}, TRUE)
  <2>1. {} \in SUBSET Sources
    OBVIOUS
  <2>2. answer \in Texts /\ answer.private = {}
    BY <1>2, <2>1, TextFresh
  <2> QED BY <2>2
<1>3. ASSUME NEW private \in SUBSET ({"answer"} \cup history), answer = Fresh("answer", private, FALSE)
      PROVE  answer \in Texts /\ answer.private \subseteq {"answer"} \cup Kept
  <2>1. private \in SUBSET Sources
    BY <1>1
  <2>2. answer \in Texts /\ answer.private = private
    BY <1>3, <2>1, TextFresh
  <2> QED BY <2>2
<1> QED BY <1>2, <1>3 DEF Answers

(* Nothing has been asked. *)
LEMMA TextInit == Init => TextInv
<1> SUFFICES ASSUME Init PROVE TextTypes /\ Grounded /\ Redacted
  BY BlockInit DEF TextInv
<1>1. /\ at = "idle" /\ pipe.text = Fallback /\ call.composed = None /\ call.chunks = 0
      /\ ~call.usedFallback /\ asked = None /\ handed = None /\ shown = {} /\ history = {}
      /\ call.message = None /\ call.past = {} /\ call.retrieved = {}
  BY DEF Init, NoPipe, NoCall
<1>2. /\ reply.result = "none" /\ reply.content = None /\ reply.inner = None
      /\ reply.history = {} /\ reply.retrieved = {}
  BY DEF Init, NoReply
<1>3. TextTypes
  BY <1>1, FallbackText DEF TextTypes, HasQuestion, HasMessage, In
<1>4. Grounded
  BY <1>1, <1>2 DEF Grounded, GroundedOrFallback, Chatted, In
<1>5. Redacted
  BY <1>1, <1>2 DEF Redacted, ReplyWithin, Within, HasQuestion, In
<1> QED BY <1>3, <1>4, <1>5

(* A pipeline begins with its first guardrail. *)
LEMMA NoneBeforeFirst ==
  ASSUME HasPipelines, NEW by \in Parties
  PROVE  Len(Guards(by)) \in Nat /\ \A i \in 1..Len(Guards(by)) : ~(i < 1)
<1>1. Len(Guards(by)) \in Nat
  BY DEF HasPipelines, Guards
<1> QED BY <1>1

(* The rewriting of the agent's input stays on record while the log grows. *)
LEMMA RewroteStays ==
  ASSUME AgentRewroteInput, UNCHANGED log
  PROVE  AgentRewroteInput'
BY DEF AgentRewroteInput

(* Steps that leave alone what the grounding is about. *)
LEMMA GroundedKept ==
  ASSUME Grounded, UNCHANGED <<owner, log, handed, asked, reply>>
  PROVE  GroundedOrFallback'
<1>1. AgentRewroteInput => AgentRewroteInput'
  BY RewroteStays
<1> QED BY <1>1 DEF Grounded, GroundedOrFallback

(* A request ends, with a reply that says what it may. *)
LEMMA TextReturns ==
  ASSUME NEW r, Returns(r), TextTypes, Grounded, Redacted,
         UNCHANGED <<log, handed, asked, shown>>,
         r.result = "answer" /\ owner.kind = "knowledge" => asked # None /\ r.chunks > 0,
         r.result = "fallback" => r.content.from = "fallback" /\ r.inner = None,
         Within(r.content, Told), Within(r.inner, Told),
         r.history \subseteq Kept, r.retrieved \subseteq {"context"}
  PROVE  TextTypes' /\ Grounded' /\ Redacted'
<1>1. /\ at' = "idle" /\ pipe'.text = Fallback /\ call'.composed = None /\ call'.chunks = 0
      /\ ~call'.usedFallback /\ reply' = r /\ UNCHANGED <<owner, history>>
      /\ call'.message = None /\ call'.past = {} /\ call'.retrieved = {}
  BY DEF Returns, Goto, NoPipe, NoCall
<1>2. ~HasQuestion' /\ ~HasMessage' /\ ~Chatted' /\ \A by, stage : ~In(by, stage)'
  BY <1>1 DEF HasQuestion, HasMessage, Chatted, In
<1>3. TextTypes'
  <2>1. pipe'.text \in Texts /\ call'.composed \in Texts \cup {None} /\ call'.chunks \in Nat
    BY <1>1, FallbackText
  <2>2. asked' # None => asked' \in Texts
    BY DEF TextTypes
  <2> QED BY <1>1, <1>2, <2>1, <2>2 DEF TextTypes
<1>4. Grounded'
  <2>1. AgentRewroteInput => AgentRewroteInput'
    BY RewroteStays
  <2>2. GroundedOrFallback'
    BY <1>1, <2>1 DEF Grounded, GroundedOrFallback
  <2> QED BY <1>1, <1>2, <2>2 DEF Grounded
<1>5. Redacted'
  <2>1. ReplyWithin'
    BY <1>1, BoundsStay DEF ReplyWithin, Within
  <2>2. (\A q \in shown' : q.private \subseteq Given) /\ Within(asked', Told) /\ history' \subseteq Kept
    BY <1>1 DEF Redacted, Within
  <2>3. Within(call'.message, Kept) /\ Within(call'.composed, Kept)
    BY <1>1 DEF Within
  <2> QED BY <1>1, <1>2, <2>1, <2>2, <2>3, BoundsStay DEF Guards, Redacted, Within
<1> QED BY <1>3, <1>4, <1>5

LEMMA TextErrs ==
  ASSUME Returns([NoReply EXCEPT !.result = "error"]), TextTypes, Grounded, Redacted,
         UNCHANGED <<log, handed, asked, shown>>
  PROVE  TextTypes' /\ Grounded' /\ Redacted'
<1> DEFINE r == [NoReply EXCEPT !.result = "error"]
<1>1. /\ r.result = "error" /\ r.content = None /\ r.inner = None
      /\ r.history = {} /\ r.retrieved = {}
  BY DEF NoReply
<1> HIDE DEF r
<1> QED BY <1>1, TextReturns DEF r, Within

(* A pipeline other than the first begins. *)
LEMMA TextStarts ==
  ASSUME NEW by \in Parties, NEW stage \in {"input", "context", "output"}, NEW text \in Texts,
         StartCheck(by, stage, text), HasPipelines,
         TextTypes, Grounded, Redacted, UNCHANGED <<owner, reply, history, log, asked, shown>>,
         at # "idle", at # "owner composing",
         UNCHANGED <<call.composed, call.message, call.past>>,
         call'.retrieved \subseteq {"context"}, call'.chunks \in Nat,
         owner.kind = "knowledge" => call'.agent = call.agent,
         call'.usedFallback => call.usedFallback,
         <<by, stage>> # <<"owner", "input">>,
         by = "owner" /\ stage = "context" =>
           call'.question \in Texts /\ call'.question.private \subseteq Given,
         by = "owner" /\ stage = "output" =>
           call'.message \in Texts /\ text.private \subseteq Kept,
         by = "agent" /\ stage = "output" => text.private \subseteq {"answer"} \cup Kept,
         IF by = "agent" /\ stage = "input"
         THEN /\ asked = None /\ handed' = text /\ text.private \subseteq Given
              /\ owner.kind = "knowledge" =>
                   text.from = "prompt" /\ ~text.blank /\ call'.chunks > 0
         ELSE handed' = handed,
         stage = "output" /\ owner.kind = "knowledge" => asked # None /\ call'.chunks > 0
  PROVE  TextTypes' /\ Grounded' /\ Redacted'
<1>1. /\ at' = "checking" /\ pipe'.by = by /\ pipe'.stage = stage /\ pipe'.text = text
      /\ pipe'.next = 1
  BY DEF StartCheck, Goto
<1>2. /\ HasQuestion' => by = "owner" /\ stage = "context"
      /\ HasMessage' => by = "owner" /\ stage = "output"
      /\ Chatted' => stage = "output"
      /\ \A b, s : In(b, s)' => by = b /\ stage = s
  BY <1>1 DEF HasQuestion, HasMessage, Chatted, In
<1>3. TextTypes'
  <2>1. call'.composed \in Texts \cup {None} /\ (asked' # None => asked' \in Texts)
    BY DEF TextTypes
  <2> QED BY <1>1, <1>2, <2>1 DEF TextTypes
<1>4. Grounded'
  <2>1. GroundedOrFallback'
    <3>1. CASE by = "agent" /\ stage = "input"
      <4>1. asked' = None /\ handed' = text /\ UNCHANGED <<owner, reply>>
        BY <3>1
      <4> QED BY <3>1, <4>1 DEF Grounded, GroundedOrFallback
    <3>2. CASE ~(by = "agent" /\ stage = "input")
      BY <3>2, GroundedKept
    <3> QED BY <3>1, <3>2
  <2>2. ~call'.usedFallback
    BY DEF Grounded
  <2>3. owner'.kind = "knowledge" => call'.agent = None
    BY DEF Grounded
  <2>4. In("agent", "input")' => handed' # None /\ pipe'.text = handed'
    BY <1>1, <1>2, NoneIsNoText
  <2>5. In("agent", "input")' /\ owner'.kind = "knowledge" => call'.chunks > 0
    BY <1>2
  <2>6. Chatted' /\ owner'.kind = "knowledge" => asked' # None /\ call'.chunks > 0
    BY <1>2
  <2> QED BY <1>1, <2>1, <2>2, <2>3, <2>4, <2>5, <2>6 DEF Grounded
<1>5. Redacted'
  <2>1. ReplyWithin'
    BY BoundsStay DEF Redacted, ReplyWithin, Within
  <2>2. \A i \in 1..Len(Guards(pipe'.by)) : ~(i < pipe'.next)
    BY <1>1, NoneBeforeFirst
  <2>3. /\ (\A q \in shown' : q.private \subseteq Given) /\ Within(asked', Told)
        /\ Within(call'.message, Kept) /\ Within(call'.composed, Kept)
        /\ history' \subseteq Kept /\ call'.past \subseteq Kept
    BY DEF Redacted, Within
  <2>4. /\ HasQuestion' => call'.question.private \subseteq Given
        /\ In("agent", "input")' => pipe'.text.private \subseteq Given
        /\ In("agent", "output")' => pipe'.text.private \subseteq {"answer"} \cup Kept
        /\ In("owner", "output")' => pipe'.text.private \subseteq Kept
    BY <1>1, <1>2
  <2> QED BY <1>1, <2>1, <2>2, <2>3, <2>4, BoundsStay DEF Guards, Redacted, Within
<1> QED BY <1>3, <1>4, <1>5

(* The answer of the owner, or its fallback. *)
LEMMA TextResponds ==
  ASSUME NEW c, Responds(c), TextTypes, Grounded, Redacted,
         UNCHANGED <<log, handed, asked, shown>>, at # "idle",
         c.draft \in Texts, c.composed \in Texts \cup {None}, c.chunks \in Nat,
         c.agent = call.agent, c.past \subseteq Kept, c.retrieved \subseteq {"context"},
         c.usedFallback => c.draft.from = "fallback",
         ~c.usedFallback /\ owner.kind = "knowledge" => asked # None /\ c.chunks > 0,
         c.draft.private \subseteq Told,
         Within(c.message, Kept), Within(c.composed, Kept),
         ~c.usedFallback => c.message # None /\ Within(Content(c.message, c.composed), Told)
  PROVE  TextTypes' /\ Grounded' /\ Redacted'
<1>1. CASE "owner" \in owner.composes
  <2>1. /\ at' = "owner composing" /\ pipe' = NoPipe /\ call' = c
        /\ UNCHANGED <<owner, reply, history>>
    BY <1>1 DEF Responds, Goto
  <2>2. ~HasQuestion' /\ ~HasMessage' /\ ~Chatted' /\ \A by, stage : ~In(by, stage)'
    BY <2>1 DEF HasQuestion, HasMessage, Chatted, In
  <2>3. TextTypes'
    <3>1. pipe'.text \in Texts
      BY <2>1, FallbackText DEF NoPipe
    <3>2. asked' # None => asked' \in Texts
      BY DEF TextTypes
    <3> QED BY <2>1, <2>2, <3>1, <3>2 DEF TextTypes
  <2>4. Grounded'
    <3>1. GroundedOrFallback'
      BY <2>1, GroundedKept
    <3>2. owner.kind = "knowledge" => c.agent = None
      BY DEF Grounded
    <3> QED BY <2>1, <2>2, <3>1, <3>2 DEF Grounded
  <2>5. Redacted'
    <3>1. ReplyWithin'
      BY <2>1, BoundsStay DEF Redacted, ReplyWithin, Within
    <3>2. (\A q \in shown' : q.private \subseteq Given) /\ Within(asked', Told) /\ history' \subseteq Kept
      BY <2>1 DEF Redacted, Within
    <3> QED BY <2>1, <2>2, <3>1, <3>2, BoundsStay DEF Guards, Redacted, Within
  <2> QED BY <2>3, <2>4, <2>5
<1>2. CASE "owner" \notin owner.composes
  <2> DEFINE r == Reply(c, c.draft)
  <2>1. /\ r.content = c.draft /\ r.chunks = c.chunks /\ r.retrieved = c.retrieved
        /\ r.result = IF c.usedFallback THEN "fallback" ELSE "answer"
        /\ c.usedFallback => r.inner = None /\ r.history = {}
        /\ ~c.usedFallback => /\ r.inner \in {None, Content(c.message, c.composed)}
                              /\ r.history = c.past \cup c.message.private
    BY DEF Reply
  <2>2. Returns(r)
    BY <1>2 DEF Responds
  <2> HIDE DEF r
  <2>3. r.history \subseteq Kept
    BY <2>1 DEF Within
  <2>4. Within(r.content, Told) /\ Within(r.inner, Told)
    BY <2>1 DEF Within
  <2> QED BY <2>1, <2>2, <2>3, <2>4, TextReturns
<1> QED BY <1>1, <1>2

(* A pipeline that let its text through is past every guardrail.           *)
LEMMA PastAllGuards ==
  ASSUME BlockInv, Redacted, NEW by \in Parties, NEW stage, Passed(by, stage)
  PROVE  Redacting(by) => pipe.text.private = {}
<1>1. at = "checking" /\ pipe.by = by /\ pipe.next > Len(Guards(by))
  BY DEF Passed
<1>2. pipe.next \in Nat /\ Len(Guards(by)) \in Nat
  BY NoneBeforeFirst DEF BlockInv, ReportInv, EventLists
<1>3. \A i \in 1..Len(Guards(by)) : i < pipe.next
  BY <1>1, <1>2
<1> QED BY <1>1, <1>3 DEF Redacted, Redacting

(* A guardrail decides. *)
LEMMA TextCheckNext ==
  ASSUME BlockInv, TextTypes, Grounded, Redacted, CheckNext
  PROVE  TextTypes' /\ Grounded' /\ Redacted'
<1> DEFINE g == [by |-> pipe.by, guard |-> pipe.next]
           Event(d) == [by |-> pipe.by, stage |-> pipe.stage, guard |-> pipe.next,
                        action |-> d.action]
<1>1. PICK d \in Decisions(Guards(pipe.by)[pipe.next], pipe.text, pipe.stage) :
        /\ pipe' = [pipe EXCEPT !.events = Append(@, Event(d)), !.next = @ + 1,
                     !.text = After(d, g)]
        /\ log' = Append(log, Event(d))
        /\ IF d.action = "block"
           THEN Goto("blocked") /\ call' = [call EXCEPT !.fallback = d.fallback]
           ELSE UNCHANGED <<at, call>>
  BY DEF CheckNext
<1> DEFINE t == After(d, g)
           e == Event(d)
<1>2. /\ at = "checking" /\ pipe.next <= Len(Guards(pipe.by))
      /\ UNCHANGED <<owner, reply, history, handed, asked, shown>>
      /\ at' = "checking" \/ (at' = "blocked" /\ d.action = "block")
  BY <1>1 DEF CheckNext, Goto
<1>3. /\ pipe.by \in Parties /\ pipe.next \in Nat \ {0}
      /\ Guards(pipe.by) \in Seq(Kinds)
  BY DEF BlockInv, ReportInv, HasPipelines, EventLists, Guards
<1>4. /\ Guards(pipe.by)[pipe.next] \in Kinds
      /\ g \in [by : Parties, guard : Nat]
      /\ pipe.text \in Texts
  BY <1>2, <1>3 DEF TextTypes
<1>5. /\ t \in Texts /\ t.private \subseteq pipe.text.private
      /\ Guards(pipe.by)[pipe.next] = "redact" => t.private = {}
      /\ d.action # "modify" => t = pipe.text
  BY <1>4, TextDecided
<1>6. /\ UNCHANGED <<pipe.by, pipe.stage>> /\ pipe'.text = t /\ pipe'.next = pipe.next + 1
      /\ UNCHANGED <<call.composed, call.chunks, call.question, call.message, call.draft,
                     call.agent, call.usedFallback, call.past, call.retrieved>>
  BY <1>1 DEF BlockInv, ReportInv, RouteInv, Shape
<1>7. AgentRewroteInput' <=>
        AgentRewroteInput \/ (pipe.by = "agent" /\ pipe.stage = "input" /\ d.action = "modify")
  <2>1. log \in Seq(Events) /\ e \in Events
    BY <1>3, <1>4, DecisionActions DEF Events, BlockInv, ReportInv, EventLists
  <2>2. /\ Len(log') = Len(log) + 1 /\ log'[Len(log) + 1] = e
        /\ \A i \in 1..Len(log) : log'[i] = log[i]
    BY <1>1, <2>1
  <2>3. e.by = pipe.by /\ e.stage = pipe.stage /\ e.action = d.action
    OBVIOUS
  <2>4. 1..Len(log') = 1..Len(log) \cup {Len(log) + 1}
    BY <2>1, <2>2
  <2> HIDE DEF e
  <2> QED BY <2>2, <2>3, <2>4 DEF AgentRewroteInput
<1> HIDE DEF t, e
<1>8. /\ HasQuestion' => HasQuestion
      /\ HasMessage' => HasMessage
      /\ Chatted' => Chatted
      /\ \A b, s : In(b, s)' => In(b, s)
  BY <1>2, <1>6 DEF HasQuestion, HasMessage, Chatted, In
<1>9. TextTypes'
  BY <1>2, <1>5, <1>6, <1>8 DEF TextTypes
<1>10. Grounded'
  <2>1. GroundedOrFallback'
    BY <1>2, <1>7 DEF Grounded, GroundedOrFallback
  <2>2. ~call.usedFallback /\ ~call'.usedFallback
    BY <1>2, <1>6 DEF Grounded
  <2>3. owner'.kind = "knowledge" => call'.agent = None
    BY <1>2, <1>6 DEF Grounded
  <2>4. In("agent", "input")' => handed' # None /\ (pipe'.text = handed' \/ AgentRewroteInput')
    <3>1. SUFFICES ASSUME In("agent", "input")
                   PROVE  handed # None /\ (t = handed \/ AgentRewroteInput')
      BY <1>2, <1>6, <1>8
    <3>2. handed # None /\ (pipe.text = handed \/ AgentRewroteInput)
      BY <3>1 DEF Grounded
    <3> QED BY <1>5, <1>7, <3>1, <3>2 DEF In
  <2>5. In("agent", "input")' /\ owner'.kind = "knowledge" => call'.chunks > 0
    BY <1>2, <1>6, <1>8 DEF Grounded
  <2>6. Chatted' /\ owner'.kind = "knowledge" => asked' # None /\ call'.chunks > 0
    BY <1>2, <1>6, <1>8 DEF Grounded
  <2> QED BY <1>2, <2>1, <2>2, <2>3, <2>4, <2>5, <2>6 DEF Grounded
<1>11. Redacted'
  <2>1. ReplyWithin'
    BY <1>2, BoundsStay DEF Redacted, ReplyWithin, Within
  <2>2. ASSUME at' = "checking", NEW i \in 1..Len(Guards(pipe'.by)),
               Guards(pipe'.by)[i] = "redact", i < pipe'.next
        PROVE  pipe'.text.private = {}
    <3>1. i < pipe.next \/ i = pipe.next
      BY <1>3, <1>6, <2>2
    <3>2. CASE i < pipe.next
      BY <1>2, <1>5, <1>6, <2>2, <3>2 DEF Redacted
    <3>3. CASE i = pipe.next
      BY <1>5, <1>6, <2>2, <3>3
    <3> QED BY <3>1, <3>2, <3>3
  <2>3. /\ (\A q \in shown' : q.private \subseteq Given) /\ Within(asked', Told)
        /\ Within(call'.message, Kept) /\ Within(call'.composed, Kept)
        /\ history' \subseteq Kept /\ call'.past \subseteq Kept
        /\ call'.retrieved \subseteq {"context"}
    BY <1>2, <1>6 DEF Redacted, Within
  <2>4. /\ HasQuestion' => call'.question.private \subseteq Given
        /\ In("agent", "input")' => pipe'.text.private \subseteq Given
        /\ In("agent", "output")' => pipe'.text.private \subseteq {"answer"} \cup Kept
        /\ In("owner", "output")' => pipe'.text.private \subseteq Kept
    BY <1>5, <1>6, <1>8 DEF Redacted
  <2> QED BY <1>2, <2>1, <2>2, <2>3, <2>4, BoundsStay DEF Guards, Redacted, Within
<1> QED BY <1>9, <1>10, <1>11

(* A request begins. *)
LEMMA TextBegins ==
  ASSUME BlockInv, TextTypes, Grounded, Redacted, NEW id, Begins(id),
         id # None => Team
  PROVE  TextTypes' /\ Grounded' /\ Redacted'
<1>1. PICK text \in Texts : StartCheck("owner", "input", text)
  <2>1. \A private \in SUBSET {"question"} : Fresh("question", private, FALSE) \in Texts
    BY TextFresh DEF Sources
  <2> QED BY <2>1 DEF Begins, OwnerCheck
<1>2. /\ at' = "checking" /\ pipe'.by = "owner" /\ pipe'.stage = "input" /\ pipe'.next = 1
      /\ pipe'.text = text
      /\ call' = [NoCall EXCEPT !.agent = id]
      /\ handed' = None /\ asked' = None /\ shown' = {} /\ reply' = NoReply
      /\ UNCHANGED <<owner, history>>
  BY <1>1 DEF Begins, StartCheck, Goto
<1>3. /\ call'.composed = None /\ call'.chunks = 0 /\ call'.agent = id /\ ~call'.usedFallback
      /\ call'.message = None /\ call'.past = {} /\ call'.retrieved = {}
  BY <1>2 DEF NoCall
<1>4. /\ ~HasQuestion' /\ ~HasMessage' /\ ~Chatted'
      /\ \A b, s : In(b, s)' => b = "owner" /\ s = "input"
  BY <1>2 DEF HasQuestion, HasMessage, Chatted, In
<1>5. TextTypes'
  <2>1. call'.composed \in Texts \cup {None} /\ call'.chunks \in Nat
    BY <1>3
  <2>2. pipe'.text \in Texts /\ at' # "owner composing" /\ asked' = None
    BY <1>2
  <2> QED BY <1>4, <2>1, <2>2 DEF TextTypes
<1>6. /\ reply'.result = "none" /\ reply'.content = None /\ reply'.inner = None
      /\ reply'.history = {} /\ reply'.retrieved = {}
  BY <1>2 DEF NoReply
<1>7. Grounded'
  <2>1. GroundedOrFallback'
    BY <1>2, <1>6 DEF GroundedOrFallback
  <2>2. owner'.kind = "knowledge" => call'.agent = None
    BY <1>2, <1>3 DEF Team
  <2> QED BY <1>2, <1>3, <1>4, <2>1, <2>2 DEF Grounded
<1>8. Redacted'
  <2>1. ReplyWithin'
    BY <1>6 DEF ReplyWithin, Within
  <2>2. \A i \in 1..Len(Guards(pipe'.by)) : ~(i < pipe'.next)
    BY <1>2, NoneBeforeFirst DEF Parties, BlockInv, ReportInv
  <2>3. history' \subseteq Kept /\ call'.past \subseteq Kept /\ call'.retrieved \subseteq {"context"}
    BY <1>2, <1>3 DEF Redacted
  <2>4. /\ \A q \in shown' : q.private \subseteq Given
        /\ Within(asked', Told) /\ Within(call'.message, Kept) /\ Within(call'.composed, Kept)
    BY <1>2, <1>3 DEF Within
  <2>5. /\ at' # "owner composing" /\ ~HasQuestion' /\ ~In("agent", "input")'
        /\ ~In("agent", "output")' /\ ~In("owner", "output")'
    BY <1>2, <1>4
  <2> QED BY <1>2, <2>1, <2>2, <2>3, <2>4, <2>5, BoundsStay DEF Guards, Redacted, Within
<1> QED BY <1>5, <1>7, <1>8

(* Every step keeps it. *)
LEMMA TextStep == TextInv /\ [Next]_vars => TextInv'
<1> SUFFICES ASSUME BlockInv, TextTypes, Grounded, Redacted, [Next]_vars
             PROVE  TextTypes' /\ Grounded' /\ Redacted'
  BY BlockStep DEF TextInv
<1> USE DEF Parties
<1>0. Shape /\ HasPipelines
  BY DEF BlockInv, ReportInv, RouteInv
<1>1. CASE UNCHANGED vars
  <2>1. TextTypes'
    BY <1>1 DEF vars, TextTypes, HasQuestion, HasMessage, In
  <2>2. Grounded'
    <3>1. GroundedOrFallback'
      BY <1>1, GroundedKept DEF vars
    <3>2. AgentRewroteInput => AgentRewroteInput'
      BY <1>1, RewroteStays DEF vars
    <3> QED BY <1>1, <3>1, <3>2 DEF vars, Grounded, Chatted, In, Team
  <2>3. Redacted'
    <3>1. UNCHANGED <<at, pipe, call, reply, history, asked, shown, owner>>
      BY <1>1 DEF vars
    <3>2. ReplyWithin' /\ (HasQuestion' <=> HasQuestion)
      BY <3>1, BoundsStay DEF Redacted, ReplyWithin, Within, HasQuestion, In
    <3>3. \A b, t : In(b, t)' <=> In(b, t)
      BY <3>1 DEF In
    <3> QED BY <3>1, <3>2, <3>3, BoundsStay DEF Guards, Redacted, Within
  <2> QED BY <2>1, <2>2, <2>3
<1>2. CASE Ask \/ \E id \in Ids : AskWithAgent(id)
  BY <1>2, TextBegins DEF Ask, AskWithAgent
<1>3. CASE CheckNext
  BY <1>3, TextCheckNext
<1>4. CASE OwnerInputBlocked \/ AgentBlocked \/ Fails \/ Errs
  BY <1>4, TextErrs DEF OwnerInputBlocked, AgentBlocked, Fails, Errs, aux
<1>5. ASSUME TakesQuestion, Passed("owner", "input")
      PROVE  /\ call'.question = pipe.text /\ pipe.text \in Texts
             /\ pipe.text.private \subseteq Given
             /\ UNCHANGED <<call.composed, call.chunks, call.agent, call.usedFallback,
                            call.message, call.past, call.retrieved>>
             /\ UNCHANGED <<owner, reply, history, log, asked>> /\ asked = None
             /\ shown' = shown \cup {pipe.text}
  <2>1. call' = [call EXCEPT !.question = pipe.text, !.events = pipe.events]
    BY <1>5 DEF TakesQuestion
  <2>2. pipe.text \in Texts
    BY DEF TextTypes
  <2>3. pipe.text.private \subseteq Given
    <3>1. Redacting("owner") => pipe.text.private = {}
      BY <1>5, PastAllGuards
    <3>2. pipe.text.private \subseteq Sources
      BY <2>2 DEF Texts
    <3> QED BY <3>1, <3>2, Bounds
  <2>4. asked = None
    BY <1>5 DEF Passed, BlockInv, Stopped, Early
  <2> QED BY <1>0, <1>5, <2>1, <2>2, <2>3, <2>4 DEF TakesQuestion, Shows, Shape
<1>6. CASE OwnerInputPassed /\ ~Errs
  <2>1. /\ TakesQuestion /\ Passed("owner", "input") /\ at' = IF Team THEN "routing" ELSE "retrieving"
        /\ pipe' = NoPipe /\ UNCHANGED handed
    BY <1>6 DEF OwnerInputPassed, Goto
  <2>2. ~HasMessage' /\ ~Chatted' /\ \A b, s : ~In(b, s)'
    BY <2>1 DEF HasMessage, Chatted, In
  <2>3. TextTypes'
    <3>1. pipe'.text \in Texts
      BY <2>1, FallbackText DEF NoPipe
    <3>2. at' # "owner composing"
      BY <2>1
    <3> QED BY <1>5, <2>1, <2>2, <3>1, <3>2 DEF TextTypes
  <2>4. Grounded'
    <3>1. GroundedOrFallback'
      BY <1>5, <2>1, GroundedKept
    <3>2. ~call'.usedFallback
      BY <1>5, <2>1 DEF Grounded, Passed
    <3>3. owner.kind = "knowledge" => call'.agent = None
      BY <1>5, <2>1 DEF Grounded, Passed
    <3>4. at' = "routing" => Team'
      BY <1>5, <2>1 DEF Team
    <3>5. at' # "owner composing"
      BY <2>1
    <3> QED BY <1>5, <2>1, <2>2, <3>1, <3>2, <3>3, <3>4, <3>5 DEF Grounded
  <2>5. Redacted'
    <3>1. ReplyWithin'
      BY <1>5, <2>1, BoundsStay DEF Redacted, ReplyWithin, Within
    <3>2. at' # "checking" /\ at' # "owner composing"
      BY <2>1
    <3>3. \A q \in shown' : q.private \subseteq Given
      BY <1>5, <2>1 DEF Redacted
    <3> QED BY <1>5, <2>1, <2>2, <3>1, <3>2, <3>3, BoundsStay DEF Guards, Redacted, Within
  <2> QED BY <2>3, <2>4, <2>5
<1>7. CASE DirectInputPassed /\ ~Errs
  <2>1. /\ TakesQuestion /\ Passed("owner", "input") /\ call.agent # None
        /\ StartCheck("agent", "input", pipe.text) /\ handed' = pipe.text
    BY <1>7 DEF DirectInputPassed, AgentAsk
  <2>2. owner.kind # "knowledge" /\ ~call'.usedFallback
    BY <1>5, <2>1 DEF Grounded, Passed
  <2>3. /\ at' = "checking" /\ pipe'.by = "agent" /\ pipe'.stage = "input" /\ pipe'.text = pipe.text
        /\ pipe'.next = 1
    BY <2>1 DEF StartCheck, Goto
  <2>4. /\ ~HasQuestion' /\ ~HasMessage' /\ ~Chatted'
        /\ \A b, s : In(b, s)' => b = "agent" /\ s = "input"
    BY <2>3 DEF HasQuestion, HasMessage, Chatted, In
  <2>5. TextTypes'
    <3>1. call'.composed \in Texts \cup {None} /\ call'.chunks \in Nat /\ (asked' # None => asked' \in Texts)
      BY <1>5, <2>1 DEF TextTypes
    <3> QED BY <1>5, <2>1, <2>3, <2>4, <3>1 DEF TextTypes
  <2>6. Grounded'
    <3>1. asked' = None /\ owner'.kind # "knowledge" /\ UNCHANGED <<owner, reply>>
      BY <1>5, <2>1, <2>2
    <3>2. GroundedOrFallback'
      BY <3>1 DEF Grounded, GroundedOrFallback
    <3>3. handed' # None /\ pipe'.text = handed'
      BY <1>5, <2>1, <2>3, NoneIsNoText
    <3> QED BY <2>2, <2>3, <3>1, <3>2, <3>3 DEF Grounded
  <2>7. Redacted'
    <3>1. ReplyWithin'
      BY <1>5, <2>1, BoundsStay DEF Redacted, ReplyWithin, Within
    <3>2. \A i \in 1..Len(Guards(pipe'.by)) : ~(i < pipe'.next)
      BY <1>0, <2>3, NoneBeforeFirst
    <3>3. \A q \in shown' : q.private \subseteq Given
      BY <1>5, <2>1 DEF Redacted
    <3>4. Given' = Given /\ Told' = Told /\ Kept' = Kept
      BY <1>5, <2>1, BoundsStay
    <3>5. history' \subseteq Kept /\ call'.past \subseteq Kept /\ call'.retrieved \subseteq {"context"}
      BY <1>5, <2>1 DEF Redacted
    <3>6. Within(asked', Told) /\ Within(call'.message, Kept) /\ Within(call'.composed, Kept)
      BY <1>5, <2>1 DEF Redacted, Within
    <3>7. UNCHANGED owner /\ pipe'.text.private \subseteq Given
      BY <1>5, <2>1, <2>3
    <3> QED BY <2>3, <2>4, <3>1, <3>2, <3>3, <3>4, <3>5, <3>6, <3>7 DEF Guards, Redacted
  <2> QED BY <2>5, <2>6, <2>7
<1>8. CASE Route
  <2>1. PICK d \in RouteDecisions :
          IF d.handoff = None THEN RouteTo(d.to) ELSE HandOff(d.handoff, d.to)
    BY <1>8 DEF Route
  <2>2. /\ at = "routing" /\ call.question \in Texts /\ Team /\ call.question.private \subseteq Given
        /\ asked = None
    BY <1>8 DEF Route, TextTypes, Grounded, Redacted, HasQuestion, BlockInv, Stopped, Early
  <2>3. UNCHANGED <<log, asked, shown>>
    BY <2>1 DEF RouteTo, HandOff
  <2>4. CASE Returns([NoReply EXCEPT !.result = "error"]) /\ UNCHANGED handed
    BY <2>3, <2>4, TextErrs
  <2>5. CASE /\ StartCheck("agent", "input", call.question) /\ handed' = call.question
             /\ call' = [call EXCEPT !.agent = d.to]
             /\ UNCHANGED <<owner, reply, history>>
    <3>1. UNCHANGED <<call.composed, call.chunks, call.usedFallback, call.message, call.past,
                      call.retrieved>>
      BY <1>0, <2>5 DEF Shape
    <3>2. owner.kind = "team" /\ call'.chunks \in Nat /\ call'.retrieved \subseteq {"context"}
      BY <2>2, <3>1 DEF Team, TextTypes, Redacted
    <3> QED BY <1>0, <2>2, <2>3, <2>5, <3>1, <3>2, TextStarts
  <2>6. CASE /\ call' = [call EXCEPT !.handoffs = Append(@, <<d.handoff, d.to>>)]
             /\ UNCHANGED <<at, pipe, owner, reply, history, handed>>
    <3>1. UNCHANGED <<call.composed, call.chunks, call.usedFallback, call.question, call.agent,
                      call.message, call.past, call.retrieved>>
      BY <1>0, <2>6 DEF Shape
    <3>2. ~HasMessage' /\ ~Chatted' /\ (\A b, s : ~In(b, s)') /\ at' = "routing"
      BY <2>2, <2>6 DEF HasMessage, Chatted, In
    <3>3. TextTypes'
      BY <2>2, <2>3, <2>6, <3>1, <3>2 DEF TextTypes
    <3>4. Grounded'
      <4>1. GroundedOrFallback'
        BY <2>3, <2>6, GroundedKept
      <4>2. ~call'.usedFallback /\ owner'.kind # "knowledge"
        BY <2>2, <2>6, <3>1 DEF Grounded, Team
      <4> QED BY <2>2, <2>6, <3>2, <4>1, <4>2 DEF Grounded, Team
    <3>5. Redacted'
      <4>1. ReplyWithin'
        BY <2>6, BoundsStay DEF Redacted, ReplyWithin, Within
      <4> QED BY <2>2, <2>3, <2>6, <3>1, <3>2, <4>1, BoundsStay DEF Guards, Redacted, Within
    <3> QED BY <3>3, <3>4, <3>5
  <2> QED BY <2>1, <2>4, <2>5, <2>6 DEF RouteTo, HandOff, AgentAsk
<1>9. CASE Retrieve
  <2>1. PICK n \in 0..MaxChunks, private \in SUBSET {"context"} :
          /\ call' = [call EXCEPT !.chunks = n, !.retrieved = private]
          /\ StartCheck("owner", "context", Fresh("context", private, n = 0))
    BY <1>9 DEF Retrieve, OwnerCheck
  <2> DEFINE text == Fresh("context", private, n = 0)
  <2>2. text \in Texts
    BY TextFresh DEF Sources
  <2>3. StartCheck("owner", "context", text)
    BY <2>1
  <2> HIDE DEF text
  <2>4. at = "retrieving" /\ call.question \in Texts /\ call.question.private \subseteq Given
    BY <1>9 DEF Retrieve, TextTypes, Redacted, HasQuestion
  <2>5. /\ UNCHANGED <<call.composed, call.question, call.agent, call.usedFallback, call.message,
                       call.past>>
        /\ call'.chunks = n /\ call'.retrieved = private
    BY <1>0, <2>1 DEF Shape
  <2>6. n \in Nat /\ UNCHANGED <<owner, reply, history, log, handed, asked, shown>>
    BY <1>9, GuardedAssumption DEF Retrieve, aux
  <2> QED BY <1>0, <2>2, <2>3, <2>4, <2>5, <2>6, TextStarts
<1>10. ASSUME RespondsFallback, UNCHANGED aux, at \in {"checking", "blocked"}
       PROVE  TextTypes' /\ Grounded' /\ Redacted'
  <2> DEFINE c == [call EXCEPT !.draft = Fallback, !.usedFallback = TRUE,
                               !.events = @ \o pipe.events]
  <2>1. /\ c.usedFallback /\ c.draft = Fallback /\ c.composed = call.composed
        /\ c.chunks = call.chunks /\ c.agent = call.agent /\ c.message = call.message
        /\ c.past = call.past /\ c.retrieved = call.retrieved
    BY <1>0 DEF Shape
  <2>2. Responds(c) /\ UNCHANGED <<log, handed, asked, shown>> /\ at # "idle"
    BY <1>10 DEF RespondsFallback, aux
  <2> HIDE DEF c
  <2>3. c.draft \in Texts /\ c.composed \in Texts \cup {None} /\ c.chunks \in Nat
    BY <2>1, FallbackText DEF TextTypes
  <2>4. c.draft.from = "fallback" /\ c.draft.private \subseteq Told
    BY <2>1, FallbackText
  <2>5. /\ Within(c.message, Kept) /\ Within(c.composed, Kept)
        /\ c.past \subseteq Kept /\ c.retrieved \subseteq {"context"}
    BY <2>1 DEF Redacted
  <2> QED BY <2>1, <2>2, <2>3, <2>4, <2>5, TextResponds
<1>11. CASE OwnerContextBlocked
  BY <1>10, <1>11 DEF OwnerContextBlocked, Blocked
<1>12. CASE OwnerContextPassed
  <2>1. CASE RespondsFallback /\ UNCHANGED handed
    BY <1>10, <1>12, <2>1 DEF OwnerContextPassed, Passed, aux
  <2>2. CASE ~(RespondsFallback /\ UNCHANGED handed)
    <3> DEFINE text == Prompt(call.question, pipe.text)
    <3>1. /\ call.chunks # 0 /\ ~pipe.text.blank
          /\ call' = [call EXCEPT !.events = @ \o pipe.events]
          /\ StartCheck("agent", "input", text) /\ handed' = text
          /\ UNCHANGED <<owner, reply, history, log, asked, shown>>
      BY <1>12, <2>2 DEF OwnerContextPassed, AsksAgent, AgentAsk
    <3>2. Passed("owner", "context") /\ In("owner", "context") /\ asked = None
      BY <1>12 DEF OwnerContextPassed, Passed, In, BlockInv, Stopped, Early
    <3>3. /\ call.question \in Texts /\ call.question.private \subseteq Given
          /\ pipe.text \in Texts
      BY <3>2 DEF TextTypes, Redacted, HasQuestion
    <3>4. pipe.text.private \subseteq Given
      <4>1. Redacting("owner") => pipe.text.private = {}
        BY <3>2, PastAllGuards
      <4>2. pipe.text.private \subseteq Sources
        BY <3>3 DEF Texts
      <4> QED BY <4>1, <4>2, Bounds
    <3>5. text \in Texts /\ text.from = "prompt" /\ ~text.blank /\ text.private \subseteq Given
      BY <3>1, <3>3, <3>4, PromptText
    <3>6. UNCHANGED <<call.composed, call.chunks, call.agent, call.usedFallback, call.message,
                      call.past, call.retrieved>>
      BY <1>0, <3>1 DEF Shape
    <3> HIDE DEF text
    <3>7. call'.chunks \in Nat /\ call'.chunks > 0 /\ call'.retrieved \subseteq {"context"}
      <4>1. call.chunks \in Nat /\ call.chunks # 0 /\ call'.chunks = call.chunks
        BY <3>1, <3>6 DEF TextTypes
      <4>2. call.retrieved \subseteq {"context"}
        BY DEF Redacted
      <4>3. call'.retrieved = call.retrieved
        BY <3>6
      <4>4. call'.chunks \in Nat /\ call'.chunks > 0
        BY <4>1
      <4> QED BY <4>2, <4>3, <4>4
    <3>8. at # "idle" /\ at # "owner composing"
      BY <3>2 DEF In
    <3> QED BY <1>0, <3>1, <3>2, <3>5, <3>6, <3>7, <3>8, TextStarts
  <2> QED BY <2>1, <2>2
<1>13. CASE AgentInputPassed
  <2>1. /\ at' = "chatting" /\ pipe' = NoPipe /\ asked' = pipe.text
        /\ UNCHANGED <<owner, reply, log, handed, shown>>
        /\ history' = history \cup pipe.text.private
        /\ call' = [call EXCEPT !.agentEvents = pipe.events]
        /\ at = "checking" /\ In("agent", "input") /\ Passed("agent", "input")
    BY <1>13 DEF AgentInputPassed, Passed, In, Goto
  <2>2. UNCHANGED <<call.composed, call.chunks, call.agent, call.usedFallback, call.message,
                    call.past, call.retrieved>>
    BY <1>0, <2>1 DEF Shape
  <2>3. pipe.text \in Texts /\ asked' # None
    BY <2>1, NoneIsNoText DEF TextTypes
  <2>4. ~HasQuestion' /\ ~HasMessage' /\ \A b, s : ~In(b, s)'
    BY <2>1 DEF HasQuestion, HasMessage, In
  <2>5. /\ handed # None /\ (pipe.text = handed \/ AgentRewroteInput)
        /\ owner.kind = "knowledge" => call.chunks > 0
    BY <2>1 DEF Grounded
  <2>6. reply.result = "none"
    BY <2>1 DEF BlockInv, ReportInv, Accounted
  <2>7. TextTypes'
    <3>1. pipe'.text \in Texts
      BY <2>1, FallbackText DEF NoPipe
    <3>2. call'.composed \in Texts \cup {None} /\ call'.chunks \in Nat
      BY <2>2 DEF TextTypes
    <3> QED BY <2>1, <2>3, <2>4, <3>1, <3>2 DEF TextTypes
  <2>8. Grounded'
    <3>1. AgentRewroteInput => AgentRewroteInput'
      BY <2>1, RewroteStays
    <3>2. GroundedOrFallback'
      BY <2>1, <2>5, <2>6, <3>1 DEF Grounded, GroundedOrFallback
    <3>3. ~call'.usedFallback /\ (owner.kind = "knowledge" => call'.agent = None)
      BY <2>1, <2>2 DEF Grounded
    <3> QED BY <2>1, <2>2, <2>3, <2>4, <2>5, <3>2, <3>3 DEF Grounded
  <2>9. Redacted'
    <3>1. ReplyWithin'
      BY <2>1, BoundsStay DEF Redacted, ReplyWithin, Within
    <3>2. pipe.text.private \subseteq Told
      <4>1. Redacting("agent") => pipe.text.private = {}
        BY <2>1, PastAllGuards
      <4>2. pipe.text.private \subseteq Given
        BY <2>1 DEF Redacted
      <4> QED BY <4>1, <4>2, Bounds
    <3>3. history' \subseteq Kept /\ Within(asked', Told)
      <4>1. history \subseteq Kept /\ pipe.text.private \subseteq Kept
        BY <3>2, Bounds DEF Redacted
      <4> QED BY <2>1, <3>2, <4>1 DEF Within
    <3> QED BY <2>1, <2>2, <2>4, <3>1, <3>3, BoundsStay DEF Guards, Redacted, Within
  <2> QED BY <2>7, <2>8, <2>9
<1>14. CASE Chat
  <2>1. PICK answer \in Answers : StartCheck("agent", "output", answer)
    BY <1>14 DEF Chat
  <2>2. /\ at = "chatting"
        /\ UNCHANGED <<owner, call, reply, history, log, handed, asked, shown>>
    BY <1>14 DEF Chat, aux
  <2>3. owner.kind = "knowledge" => asked # None /\ call'.chunks > 0
    BY <2>2 DEF Grounded, Chatted
  <2>4. /\ call'.chunks \in Nat /\ call'.retrieved \subseteq {"context"}
        /\ history \subseteq Kept
    BY <2>2 DEF TextTypes, Redacted
  <2>5. answer \in Texts /\ answer.private \subseteq {"answer"} \cup Kept
    BY <2>4, AnswerText
  <2>6. UNCHANGED <<call.composed, call.message, call.past, call.agent, call.usedFallback>>
    BY <2>2
  <2> QED BY <1>0, <2>1, <2>2, <2>3, <2>4, <2>5, <2>6, TextStarts
<1>15. ASSUME at \in {"saving", "agent composing"} \/ In("agent", "output"),
              at' \in {"saving", "agent composing", "answered"},
              UNCHANGED <<owner, reply, log, handed, asked, shown>>,
              pipe'.text \in Texts, call'.message \in Texts, call'.composed \in Texts \cup {None},
              UNCHANGED <<call.chunks, call.agent, call.usedFallback, call.retrieved>>,
              history' \subseteq Kept, call'.past \subseteq Kept,
              Within(call'.message, Kept), Within(call'.composed, Kept)
       PROVE  TextTypes' /\ Grounded' /\ Redacted'
  <2>1. ~HasQuestion' /\ (\A b, s : ~In(b, s)') /\ Chatted
    BY <1>15 DEF HasQuestion, In, Chatted
  <2>2. TextTypes'
    BY <1>15, <2>1 DEF TextTypes
  <2>3. Grounded'
    <3>1. GroundedOrFallback'
      BY <1>15, GroundedKept
    <3>2. ~call'.usedFallback /\ (owner.kind = "knowledge" => call'.agent = None)
      BY <1>15 DEF Grounded, In
    <3>3. owner.kind = "knowledge" => asked' # None /\ call'.chunks > 0
      BY <1>15, <2>1 DEF Grounded
    <3> QED BY <1>15, <2>1, <3>1, <3>2, <3>3 DEF Grounded
  <2>4. Redacted'
    <3>1. ReplyWithin'
      BY <1>15, BoundsStay DEF Redacted, ReplyWithin, Within
    <3> QED BY <1>15, <2>1, <3>1, BoundsStay DEF Guards, Redacted, Within
  <2> QED BY <2>2, <2>3, <2>4
<1>16. CASE AgentOutputPassed
  <2>1. /\ In("agent", "output") /\ Passed("agent", "output") /\ at' = "saving"
        /\ UNCHANGED <<owner, reply, log, handed, asked, shown>>
        /\ pipe' = NoPipe /\ history' = history \cup pipe.text.private
        /\ call' = [call EXCEPT !.agentEvents = @ \o pipe.events, !.message = pipe.text,
                                !.past = history]
    BY <1>16 DEF AgentOutputPassed, Passed, In, Goto, aux
  <2>2. /\ UNCHANGED <<call.composed, call.chunks, call.agent, call.usedFallback, call.retrieved>>
        /\ call'.message = pipe.text /\ call'.past = history
    BY <1>0, <2>1 DEF Shape
  <2>3. pipe'.text \in Texts
    BY <2>1, FallbackText DEF NoPipe
  <2>4. call'.message \in Texts /\ call'.composed \in Texts \cup {None}
    BY <2>2 DEF TextTypes
  <2>5. pipe.text.private \subseteq Kept
    <3>1. Redacting("agent") => pipe.text.private = {}
      BY <2>1, PastAllGuards
    <3>2. pipe.text.private \subseteq {"answer"} \cup Kept
      BY <2>1 DEF Redacted
    <3> QED BY <3>1, <3>2, Bounds
  <2>6. /\ history' \subseteq Kept /\ call'.past \subseteq Kept
        /\ Within(call'.message, Kept) /\ Within(call'.composed, Kept)
    BY <2>1, <2>2, <2>5 DEF Redacted, Within
  <2> QED BY <1>15, <2>1, <2>2, <2>3, <2>4, <2>6
<1>17. CASE Save
  <2>1. /\ at = "saving" /\ at' \in {"agent composing", "answered"}
        /\ UNCHANGED <<owner, reply, history, log, handed, asked, shown, pipe, call>>
    BY <1>17 DEF Save, Goto, aux
  <2>2. pipe'.text \in Texts /\ call'.message \in Texts /\ call'.composed \in Texts \cup {None}
    BY <2>1 DEF TextTypes, HasMessage
  <2>3. /\ history' \subseteq Kept /\ call'.past \subseteq Kept
        /\ Within(call'.message, Kept) /\ Within(call'.composed, Kept)
    BY <2>1 DEF Redacted
  <2> QED BY <1>15, <2>1, <2>2, <2>3
<1>18. CASE AgentComposes
  <2>1. /\ at = "agent composing" /\ at' = "answered"
        /\ UNCHANGED <<owner, reply, history, log, handed, asked, shown, pipe>>
        /\ call' = [call EXCEPT !.composed = Composed(call.message, "agent")]
    BY <1>18 DEF AgentComposes, Goto, aux
  <2>2. /\ UNCHANGED <<call.message, call.chunks, call.agent, call.usedFallback, call.past,
                       call.retrieved>>
        /\ call'.composed = Composed(call.message, "agent")
    BY <1>0, <2>1 DEF Shape
  <2>3. pipe'.text \in Texts /\ call'.message \in Texts
    BY <2>1, <2>2 DEF TextTypes, HasMessage
  <2>4. call'.composed \in Texts /\ call'.composed.private = call.message.private
    BY <2>2, <2>3, TextComposed
  <2>5. /\ history' \subseteq Kept /\ call'.past \subseteq Kept
        /\ Within(call'.message, Kept) /\ Within(call'.composed, Kept)
    <3>1. call.message # None
      BY <2>2, <2>3, NoneIsNoText
    <3> QED BY <2>1, <2>2, <2>4, <3>1 DEF Redacted, Within
  <2> QED BY <1>15, <2>1, <2>2, <2>3, <2>4, <2>5
<1>19. CASE Answered
  <2> DEFINE text == Content(call.message, call.composed)
  <2>1. /\ at = "answered" /\ StartCheck("owner", "output", text)
        /\ UNCHANGED <<owner, reply, history, log, handed, asked, shown>>
        /\ call' = [call EXCEPT !.events = @ \o call.agentEvents]
    BY <1>19 DEF Answered, OwnerCheck, aux
  <2>2. UNCHANGED <<call.message, call.composed, call.chunks, call.agent, call.usedFallback,
                    call.past, call.retrieved>>
    BY <1>0, <2>1 DEF Shape
  <2>3. /\ call'.message \in Texts /\ call'.chunks \in Nat /\ text \in Texts
        /\ call'.retrieved \subseteq {"context"}
    BY <2>1, <2>2 DEF TextTypes, HasMessage, Content, Redacted
  <2>4. owner.kind = "knowledge" => asked # None /\ call'.chunks > 0
    BY <2>1, <2>2 DEF Grounded, Chatted
  <2>5. text.private \subseteq Kept
    <3>1. text # None /\ text \in {call.message, call.composed}
      BY <2>3, NoneIsNoText DEF Content
    <3> QED BY <3>1 DEF Redacted, Within
  <2> HIDE DEF text
  <2> QED BY <1>0, <2>1, <2>2, <2>3, <2>4, <2>5, TextStarts
<1>20. CASE OwnerOutputBlocked /\ ~Errs
  BY <1>10, <1>20 DEF OwnerOutputBlocked, Blocked
<1>21. CASE OwnerOutputPassed
  <2> DEFINE r == Rewrite(call, pipe.text)
             c == [r EXCEPT !.events = @ \o pipe.events,
                     !.draft = IF Team THEN Content(r.message, r.composed) ELSE pipe.text]
  <2>1. pipe.text \in Texts /\ pipe.text # None
    BY NoneIsNoText DEF TextTypes
  <2>2. /\ Content(r.message, r.composed) = pipe.text
        /\ r.composed \in {call.composed, pipe.text} /\ r.message \in {call.message, pipe.text}
        /\ r.chunks = call.chunks /\ r.agent = call.agent /\ (r.usedFallback => call.usedFallback)
        /\ r.past = call.past /\ r.retrieved = call.retrieved
    BY <1>0, <2>1 DEF Rewrite, Content, Shape
  <2>3. /\ c.draft = pipe.text /\ c.composed = r.composed /\ c.chunks = r.chunks
        /\ c.agent = r.agent /\ (c.usedFallback => r.usedFallback) /\ c.message = r.message
        /\ c.past = r.past /\ c.retrieved = r.retrieved
    BY <1>0, <2>2 DEF Rewrite, Shape
  <2>4. /\ Responds(c) /\ UNCHANGED <<log, handed, asked, shown>>
        /\ Passed("owner", "output") /\ In("owner", "output") /\ HasMessage
    BY <1>21 DEF OwnerOutputPassed, aux, Passed, In, HasMessage
  <2> HIDE DEF c, r
  <2>5. pipe.text.private \subseteq Told
    <3>1. Redacting("owner") => pipe.text.private = {}
      BY <2>4, PastAllGuards
    <3>2. pipe.text.private \subseteq Kept
      BY <2>4 DEF Redacted
    <3>3. CASE Redacting("agent")
      BY <3>2, <3>3, Bounds
    <3>4. CASE ~Redacting("agent")
      BY <3>1, <3>2, <3>4, Bounds
    <3> QED BY <3>3, <3>4
  <2>6. ~c.usedFallback /\ at # "idle" /\ Chatted
    BY <2>2, <2>3, <2>4 DEF Grounded, Passed, Chatted, In
  <2>7. c.draft \in Texts /\ c.composed \in Texts \cup {None} /\ c.chunks \in Nat
    BY <2>1, <2>2, <2>3 DEF TextTypes
  <2>8. owner.kind = "knowledge" => asked # None /\ c.chunks > 0
    BY <2>2, <2>3, <2>6 DEF Grounded
  <2>9. c.agent = call.agent /\ c.draft.private \subseteq Told
        /\ c.past \subseteq Kept /\ c.retrieved \subseteq {"context"}
    BY <2>2, <2>3, <2>5 DEF Redacted
  <2>10. Within(c.message, Kept) /\ Within(c.composed, Kept)
    <3>1. Within(call.message, Kept) /\ Within(call.composed, Kept) /\ pipe.text.private \subseteq Kept
      BY <2>4 DEF Redacted
    <3> QED BY <2>2, <2>3, <3>1 DEF Within
  <2>11. c.message # None
    <3>1. call.message # None
      BY <2>4, NoneIsNoText DEF TextTypes
    <3> QED BY <2>1, <2>2, <2>3, <3>1
  <2>12. Within(Content(c.message, c.composed), Told)
    BY <2>2, <2>3, <2>5 DEF Within
  <2> QED BY <2>4, <2>6, <2>7, <2>8, <2>9, <2>10, <2>11, <2>12, TextResponds
<1>22. CASE OwnerComposes
  <2> DEFINE text == Composed(call.draft, "owner")
             r == Reply(call, text)
  <2>1. at = "owner composing" /\ Returns(r) /\ UNCHANGED <<log, handed, asked, shown>>
    BY <1>22 DEF OwnerComposes, aux
  <2>2. text.from = call.draft.from /\ text.private = call.draft.private
    BY <2>1, TextComposed DEF TextTypes
  <2>3. /\ r.content = text /\ r.chunks = call.chunks /\ r.retrieved = call.retrieved
        /\ r.result = IF call.usedFallback THEN "fallback" ELSE "answer"
        /\ call.usedFallback => r.inner = None /\ r.history = {}
        /\ ~call.usedFallback => /\ r.inner \in {None, Content(call.message, call.composed)}
                                 /\ r.history = call.past \cup call.message.private
    BY DEF Reply
  <2> HIDE DEF r, text
  <2>4. r.result = "answer" /\ owner.kind = "knowledge" => asked # None /\ r.chunks > 0
    BY <2>1, <2>3 DEF Grounded
  <2>5. r.result = "fallback" => r.content.from = "fallback" /\ r.inner = None
    BY <2>1, <2>2, <2>3 DEF Grounded
  <2>6. Within(r.content, Told)
    BY <2>1, <2>2, <2>3 DEF Redacted, Within
  <2>7. Within(r.inner, Told)
    BY <2>1, <2>3 DEF Redacted, Within
  <2>8. r.history \subseteq Kept /\ r.retrieved \subseteq {"context"}
    BY <2>1, <2>3 DEF Redacted, Within
  <2> QED BY <2>1, <2>4, <2>5, <2>6, <2>7, <2>8, TextReturns
<1> QED BY <1>1, <1>2, <1>3, <1>4, <1>6, <1>7, <1>8, <1>9, <1>11, <1>12, <1>13, <1>14,
           <1>16, <1>17, <1>18, <1>19, <1>20, <1>21, <1>22 DEF Next

(* Whatever the guardrails, the router and the model do, a knowledge agent *)
(* hands its agent a prompt with a context that is not blank and that has  *)
(* a chunk to cite, or it replies with its fallback; and the model is      *)
(* asked another text only when a guardrail of the agent made that one.    *)
THEOREM AnswersGrounded == Spec => []GroundedOrFallback
<1>1. TextInv => GroundedOrFallback
  BY DEF TextInv, Grounded
<1> QED BY <1>1, TextInit, TextStep, PTL DEF Spec

(* One redacting guardrail anywhere in the pipeline of the owner keeps the *)
(* private data of the question from everybody and that of the context     *)
(* from the model, and lets that of an answer no further than the history, *)
(* wherever the other guardrails stand and whatever they decide.           *)
THEOREM PrivateDataBound == Spec => []PrivateStaysIn
<1>1. TextInv => PrivateStaysIn
  <2> SUFFICES ASSUME TextInv, Redacting("owner") PROVE PrivateStaysIn
    BY DEF PrivateStaysIn
  <2>1. Given = {} /\ Told = {} /\ Kept \subseteq {"answer"}
    BY Bounds
  <2>2. Redacted
    BY DEF TextInv
  <2> QED BY <2>1, <2>2 DEF Redacted, ReplyWithin, Within, PrivateStaysIn
<1> QED BY <1>1, TextInit, TextStep, PTL DEF Spec

(* One in the pipeline of the agent itself also keeps the history free of  *)
(* private data, and with it the session and every later request.          *)
THEOREM HistoryStaysRedacted == Spec => []HistoryRedacted
<1>1. TextInv => HistoryRedacted
  <2> SUFFICES ASSUME TextInv, Redacting("agent") PROVE HistoryRedacted
    BY DEF HistoryRedacted
  <2>1. Told = {} /\ Kept = {}
    BY Bounds
  <2>2. Redacted
    BY DEF TextInv
  <2> QED BY <2>1, <2>2 DEF Redacted, ReplyWithin, Within, HistoryRedacted
<1> QED BY <1>1, TextInit, TextStep, PTL DEF Spec

-----------------------------------------------------------------------------
(***************************************************************************)
(* The rewriters of a growing list of decisions.                           *)
(***************************************************************************)
Rank(T, i) == Cardinality({j \in T : j <= i})

LEMMA FirstNaturals == \A n \in Nat : IsFiniteSet(1..n) /\ Cardinality(1..n) = n
BY FS_Interval

(* The ranks of n positions are 1..n, each of one position: Nth finds it.  *)
LEMMA RankIsInjection ==
  ASSUME NEW n \in Nat, NEW T \in SUBSET (1..n)
  PROVE  /\ IsFiniteSet(T) /\ Cardinality(T) \in Nat
         /\ \A i \in T : Rank(T, i) \in 1..Cardinality(T)
         /\ \A i, j \in T : i < j => Rank(T, i) < Rank(T, j)
<1>1. IsFiniteSet(T)
  <2>1. IsFiniteSet(1..n)
    BY FirstNaturals
  <2> QED BY <2>1, FS_Subset
<1>2. Cardinality(T) \in Nat
  BY <1>1, FS_CardinalityType
<1>3. ASSUME NEW i \in 1..n
      PROVE  /\ IsFiniteSet({j \in T : j <= i}) /\ Rank(T, i) \in Nat
             /\ Rank(T, i) <= Cardinality(T)
  <2> DEFINE U == {j \in T : j <= i}
  <2>1. U \in SUBSET T
    OBVIOUS
  <2> HIDE DEF U
  <2>2. IsFiniteSet(U) /\ Cardinality(U) <= Cardinality(T)
    BY <1>1, <2>1, FS_Subset
  <2>3. Cardinality(U) \in Nat
    BY <2>2, FS_CardinalityType
  <2> QED BY <2>2, <2>3 DEF Rank, U
<1>4. ASSUME NEW i \in T
      PROVE  Rank(T, i) # 0
  <2> DEFINE U == {j \in T : j <= i}
  <2>1. i \in U
    OBVIOUS
  <2>2. IsFiniteSet(U)
    BY <1>3
  <2> HIDE DEF U
  <2>3. Cardinality(U) # 0
    BY <2>1, <2>2, FS_EmptySet
  <2> QED BY <2>3 DEF Rank, U
<1>5. ASSUME NEW i \in T, NEW j \in T, i < j
      PROVE  Rank(T, i) < Rank(T, j)
  <2> DEFINE U == {k \in T : k <= i}
             V == {k \in T : k <= j}
  <2>1. U \in SUBSET V /\ j \in V /\ j \notin U
    <3>1. i \in Int /\ j \in Int /\ \A k \in T : k \in Int
      OBVIOUS
    <3>2. (\A k \in T : k <= i => k <= j) /\ j <= j /\ ~(j <= i)
      BY <1>5, <3>1
    <3> QED BY <3>2
  <2>2. IsFiniteSet(U) /\ IsFiniteSet(V)
    BY <1>3
  <2>3. Rank(T, i) = Cardinality(U) /\ Rank(T, j) = Cardinality(V)
    BY DEF Rank
  <2>4. Rank(T, i) \in Nat /\ Rank(T, j) \in Nat
    BY <1>3
  <2> HIDE DEF U, V
  <2>5. Cardinality(U) <= Cardinality(V) /\ Cardinality(U) # Cardinality(V)
    BY <2>1, <2>2, FS_Subset
  <2> QED BY <2>3, <2>4, <2>5
<1>6. ASSUME NEW i \in T
      PROVE  Rank(T, i) \in 1..Cardinality(T)
  <2>1. i \in 1..n
    OBVIOUS
  <2>2. Rank(T, i) \in Nat /\ Rank(T, i) <= Cardinality(T) /\ Rank(T, i) # 0
    BY <1>3, <1>4, <2>1
  <2> QED BY <1>2, <2>2
<1> QED BY <1>1, <1>2, <1>5, <1>6

LEMMA NthHasRank ==
  ASSUME NEW n \in Nat, NEW T \in SUBSET (1..n), NEW k \in 1..Cardinality(T)
  PROVE  /\ Nth(k, T) \in T /\ Rank(T, Nth(k, T)) = k
         /\ \A i \in T : Rank(T, i) = k => i = Nth(k, T)
<1> DEFINE m == Cardinality(T)
           f == [i \in T |-> Rank(T, i)]
<1>1. /\ IsFiniteSet(T) /\ m \in Nat
      /\ \A i \in T : Rank(T, i) \in 1..m
      /\ \A i, j \in T : i < j => Rank(T, i) < Rank(T, j)
  BY RankIsInjection
<1>2. \A i, j \in T : Rank(T, i) = Rank(T, j) => i = j
  <2> SUFFICES ASSUME NEW i \in T, NEW j \in T, i # j
               PROVE  Rank(T, i) # Rank(T, j)
    OBVIOUS
  <2>1. Rank(T, i) \in Nat /\ Rank(T, j) \in Nat
    BY <1>1
  <2>2. i < j \/ j < i
    OBVIOUS
  <2> QED BY <1>1, <2>1, <2>2
<1>3. f \in Injection(T, 1..m)
  BY <1>1, <1>2 DEF Injection, IsInjective
<1>4. IsFiniteSet(1..m) /\ Cardinality(1..m) = m
  BY <1>1, FirstNaturals
<1>5. f \in Surjection(T, 1..m)
  <2> HIDE DEF f, m
  <2>1. Cardinality(T) = Cardinality(1..m)
    BY <1>4 DEF m
  <2> QED BY <1>3, <1>4, <2>1, FS_Injection
<1>6. \E i \in T : Rank(T, i) = k
  BY <1>5 DEF Surjection
<1>7. Nth(k, T) = CHOOSE i \in T : Rank(T, i) = k
  BY DEF Nth, Rank
<1>8. Nth(k, T) \in T /\ Rank(T, Nth(k, T)) = k
  BY <1>6, <1>7
<1> QED BY <1>2, <1>8

Who == [by : Parties, guard : Nat]

(* A list of decisions, and its modifying ones. *)
LEMMA RewritesType ==
  ASSUME NEW s \in Seq(Events), NEW P, NEW S
  PROVE  /\ Rewrites(s, P, S) \in Seq(Who)
         /\ Len(Rewrites(s, P, S)) = Cardinality(Modifying(s, P, S))
         /\ Modifying(s, P, S) \in SUBSET (1..Len(s))
         /\ \A k \in 1..Cardinality(Modifying(s, P, S)) :
              Rewrites(s, P, S)[k] = Rewriter(s[Nth(k, Modifying(s, P, S))])
<1> DEFINE T == Modifying(s, P, S)
<1>1. Len(s) \in Nat /\ T \in SUBSET (1..Len(s))
  BY DEF Modifying
<1> HIDE DEF T
<1>2. Cardinality(T) \in Nat
  BY <1>1, RankIsInjection
<1>3. ASSUME NEW k \in 1..Cardinality(T)
      PROVE  Rewriter(s[Nth(k, T)]) \in Who
  <2>1. Nth(k, T) \in 1..Len(s)
    BY <1>1, NthHasRank
  <2>2. s[Nth(k, T)] \in Events
    BY <2>1
  <2> QED BY <2>2 DEF Rewriter, Who, Events
<1>4. Rewrites(s, P, S) = [k \in 1..Cardinality(T) |-> Rewriter(s[Nth(k, T)])]
  BY DEF Rewrites, T
<1>5. Rewrites(s, P, S) \in Seq(Who) /\ Len(Rewrites(s, P, S)) = Cardinality(T)
  BY <1>2, <1>3, <1>4
<1> QED BY <1>1, <1>4, <1>5 DEF T

LEMMA RewritesEmpty ==
  ASSUME NEW P, NEW S
  PROVE  Rewrites(<<>>, P, S) = <<>>
<1>1. Modifying(<<>>, P, S) = {}
  BY DEF Modifying
<1>2. Cardinality({}) = 0
  BY FS_EmptySet
<1>3. <<>> \in Seq(Events)
  OBVIOUS
<1>4. Rewrites(<<>>, P, S) \in Seq(Who) /\ Len(Rewrites(<<>>, P, S)) = 0
  <2>1. Len(Rewrites(<<>>, P, S)) = Cardinality(Modifying(<<>>, P, S))
    BY <1>3, RewritesType
  <2> QED BY <1>1, <1>2, <1>3, <2>1, RewritesType
<1> QED BY <1>4

(* A decision at the end adds its guardrail at the end, if it counts.      *)
LEMMA RewritesOther ==
  ASSUME NEW s \in Seq(Events), NEW e \in Events, NEW P, NEW S,
         ~(e.action = "modify" /\ e.by \in P /\ e.stage \in S)
  PROVE  Rewrites(Append(s, e), P, S) = Rewrites(s, P, S)
<1> DEFINE T == Modifying(s, P, S)
           r == Append(s, e)
<1>1. /\ r \in Seq(Events) /\ Len(r) = Len(s) + 1 /\ Len(s) \in Nat
      /\ r[Len(s) + 1] = e /\ \A i \in 1..Len(s) : r[i] = s[i]
  OBVIOUS
<1> HIDE DEF r
<1>2. Modifying(r, P, S) = T
  BY <1>1 DEF Modifying
<1>3. T \in SUBSET (1..Len(s))
  BY <1>1 DEF Modifying
<1> HIDE DEF T
<1>4. ASSUME NEW k \in 1..Cardinality(T)
      PROVE  r[Nth(k, T)] = s[Nth(k, T)]
  BY <1>1, <1>3, NthHasRank
<1>5. /\ Rewrites(r, P, S) = [k \in 1..Cardinality(T) |-> Rewriter(r[Nth(k, T)])]
      /\ Rewrites(s, P, S) = [k \in 1..Cardinality(T) |-> Rewriter(s[Nth(k, T)])]
  BY <1>2 DEF Rewrites, T
<1> QED BY <1>4, <1>5 DEF r

LEMMA RewritesAppend ==
  ASSUME NEW s \in Seq(Events), NEW e \in Events, NEW P, NEW S,
         e.action = "modify", e.by \in P, e.stage \in S
  PROVE  Rewrites(Append(s, e), P, S) = Append(Rewrites(s, P, S), Rewriter(e))
<1> DEFINE T == Modifying(s, P, S)
           U == Modifying(Append(s, e), P, S)
           r == Append(s, e)
           n == Len(s)
           m == Cardinality(T)
<1>1. /\ r \in Seq(Events) /\ Len(r) = n + 1 /\ n \in Nat
      /\ r[n + 1] = e /\ \A i \in 1..n : r[i] = s[i]
  OBVIOUS
<1> HIDE DEF r
<1>2. U = T \cup {n + 1} /\ T \in SUBSET (1..n) /\ U \in SUBSET (1..(n + 1)) /\ (n + 1) \notin T
  BY <1>1 DEF Modifying, r
<1> HIDE DEF T, U
<1>3. IsFiniteSet(T) /\ m \in Nat /\ n + 1 \in Nat
  BY <1>1, <1>2, RankIsInjection
<1>4. Cardinality(U) = m + 1
  BY <1>2, <1>3, FS_AddElement
<1> HIDE DEF n
<1>0. ASSUME NEW k \in 1..Cardinality(U), NEW i \in U, Rank(U, i) = k
      PROVE  i = Nth(k, U)
  <2>1. PICK p \in Nat : p = n + 1
    BY <1>3
  <2>2. U \in SUBSET (1..p)
    BY <1>2, <2>1
  <2> QED BY <1>0, <2>2, NthHasRank
<1>5. ASSUME NEW k \in 1..m
      PROVE  Nth(k, U) = Nth(k, T) /\ Nth(k, T) \in 1..n
  <2>1. Nth(k, T) \in T /\ Rank(T, Nth(k, T)) = k
    BY <1>1, <1>2, NthHasRank
  <2>2. PICK i \in T : i = Nth(k, T)
    BY <2>1
  <2>3. {j \in U : j <= i} = {j \in T : j <= i}
    BY <1>1, <1>2
  <2>4. Rank(U, i) = k
    BY <2>1, <2>2, <2>3 DEF Rank
  <2>5. i \in U /\ k \in 1..Cardinality(U)
    BY <1>2, <1>3, <1>4
  <2>6. i = Nth(k, U)
    BY <1>0, <2>4, <2>5
  <2> QED BY <1>2, <2>2, <2>6
<1>6. Nth(m + 1, U) = n + 1
  <2>1. {j \in U : j <= n + 1} = U
    <3>1. \A j \in 1..(n + 1) : j <= n + 1
      BY <1>1
    <3>2. \A j \in U : j <= n + 1
      BY <1>2, <3>1
    <3> QED BY <3>2
  <2>2. Rank(U, n + 1) = m + 1
    BY <1>4, <2>1 DEF Rank
  <2>3. n + 1 \in U /\ m + 1 \in 1..Cardinality(U)
    BY <1>2, <1>3, <1>4
  <2> QED BY <1>0, <2>2, <2>3
<1> DEFINE a == Rewrites(s, P, S)
           b == Rewrites(r, P, S)
<1>7. /\ a \in Seq(Who) /\ Len(a) = m
      /\ \A k \in 1..m : a[k] = Rewriter(s[Nth(k, T)])
  BY RewritesType DEF T
<1>8. /\ b \in Seq(Who) /\ Len(b) = m + 1
      /\ \A k \in 1..(m + 1) : b[k] = Rewriter(r[Nth(k, U)])
  <2>1. U = Modifying(r, P, S)
    BY DEF U, r
  <2> QED BY <1>1, <1>4, <2>1, RewritesType
<1>9. /\ \A k \in 1..m : b[k] = a[k]
      /\ b[m + 1] = Rewriter(e)
  <2>1. m + 1 \in 1..(m + 1) /\ \A k \in 1..m : k \in 1..(m + 1)
    BY <1>3
  <2>2. ASSUME NEW k \in 1..m
        PROVE  b[k] = a[k]
    BY <1>1, <1>5, <1>7, <1>8, <2>1
  <2>3. b[m + 1] = Rewriter(e)
    BY <1>1, <1>6, <1>8, <2>1
  <2> QED BY <2>2, <2>3
<1>10. Rewriter(e) \in Who
  BY DEF Rewriter, Who, Events
<1>11. b = Append(a, Rewriter(e))
  <2> HIDE DEF a, b, m
  <2> QED BY <1>3, <1>7, <1>8, <1>9, <1>10
<1> QED BY <1>11 DEF r

-----------------------------------------------------------------------------
(***************************************************************************)
(* Who rewrote the texts of a request, from one await to the next: why the *)
(* texts that leave carry every rewriting that was decided, in order.      *)
(***************************************************************************)
Asking == Rewrites(log, Parties, {"input", "context"})
OwnerInput == Rewrites(log, {"owner"}, {"input"})
AgentOutput == Rewrites(log, {"agent"}, {"output"})
OwnerOutput == Rewrites(log, {"owner"}, {"output"})

(* The model has not been asked yet. *)
BeforeChat == \/ at \in {"routing", "retrieving"} \/ In("owner", "input")
              \/ In("owner", "context") \/ In("agent", "input")

AskedFor ==
  /\ In("owner", "input") => /\ shown = {}
                             /\ pipe.text.mods = Asking /\ Asking = OwnerInput
  /\ HasQuestion => call.question.mods = OwnerInput
  /\ at \in {"routing", "retrieving"} => Asking = OwnerInput
  /\ In("owner", "context") => Asking = OwnerInput \o pipe.text.mods
  /\ In("agent", "input") => pipe.text.mods = Asking
  /\ at \in {"checking", "blocked"} /\ pipe.stage = "context" => pipe.by = "owner"
  /\ BeforeChat => asked = None
  /\ AskedAsReported

AnsweredWith ==
  /\ BeforeChat \/ at = "chatting" => AgentOutput = <<>>
  /\ BeforeChat \/ at \in {"chatting", "saving", "agent composing", "answered"}
       \/ In("agent", "output") => OwnerOutput = <<>>
  /\ BeforeChat \/ at \in {"chatting", "saving", "agent composing"} \/ In("agent", "output")
       => call.composed = None
  /\ In("agent", "output") => pipe.text.mods = AgentOutput
  /\ at \in {"saving", "agent composing"} => call.message.mods = AgentOutput
  /\ at = "agent composing" => "agent" \in owner.composes
  /\ at = "answered" =>
       Content(call.message, call.composed).mods = AgentOutput \o ComposerOf("agent")
  /\ In("owner", "output") => pipe.text.mods = Vetted
  /\ at = "owner composing" => "owner" \in owner.composes
  /\ at = "owner composing" /\ ~call.usedFallback =>
       /\ call.draft.mods = Vetted
       /\ owner.kind = "knowledge" => Content(call.message, call.composed).mods = Vetted
  /\ AnswerAsReported

RewriteInv == TextInv /\ AskedFor /\ AnsweredWith

LEMMA RewritesAre ==
  ASSUME log \in Seq(Events)
  PROVE  /\ Asking \in Seq(Who) /\ OwnerInput \in Seq(Who)
         /\ AgentOutput \in Seq(Who) /\ OwnerOutput \in Seq(Who)
         /\ \A by \in Parties : ComposerOf(by) \in Seq(Who)
         /\ Vetted = (AgentOutput \o ComposerOf("agent")) \o OwnerOutput
         /\ Vetted \in Seq(Who)
<1>1. /\ Asking \in Seq(Who) /\ OwnerInput \in Seq(Who)
      /\ AgentOutput \in Seq(Who) /\ OwnerOutput \in Seq(Who)
  BY RewritesType DEF Asking, OwnerInput, AgentOutput, OwnerOutput
<1>2. ASSUME NEW by \in Parties PROVE ComposerOf(by) \in Seq(Who)
  <2>1. [by |-> by, guard |-> 0] \in Who
    BY DEF Who
  <2> QED BY <2>1 DEF ComposerOf
<1>3. "agent" \in Parties
  BY DEF Parties
<1>4. Vetted = (AgentOutput \o ComposerOf("agent")) \o OwnerOutput
  BY DEF Vetted, AgentOutput, OwnerOutput
<1>5. ComposerOf("agent") \in Seq(Who)
  BY <1>2, <1>3
<1> QED BY <1>1, <1>2, <1>4, <1>5

(* A step without a decision. *)
LEMMA RewritesKept ==
  ASSUME UNCHANGED <<log, owner>>
  PROVE  /\ UNCHANGED <<Asking, OwnerInput, AgentOutput, OwnerOutput, Vetted>>
         /\ ComposerOf("agent")' = ComposerOf("agent")
         /\ ComposerOf("owner")' = ComposerOf("owner")
BY DEF Asking, OwnerInput, AgentOutput, OwnerOutput, Vetted, ComposerOf

(* A step with one. *)
LEMMA RewritesGrow ==
  ASSUME log \in Seq(Events), NEW e \in Events, log' = Append(log, e), UNCHANGED owner
  PROVE  /\ Asking' = IF e.action = "modify" /\ e.stage \in {"input", "context"}
                      THEN Append(Asking, Rewriter(e)) ELSE Asking
         /\ OwnerInput' = IF e.action = "modify" /\ e.by = "owner" /\ e.stage = "input"
                          THEN Append(OwnerInput, Rewriter(e)) ELSE OwnerInput
         /\ AgentOutput' = IF e.action = "modify" /\ e.by = "agent" /\ e.stage = "output"
                           THEN Append(AgentOutput, Rewriter(e)) ELSE AgentOutput
         /\ OwnerOutput' = IF e.action = "modify" /\ e.by = "owner" /\ e.stage = "output"
                           THEN Append(OwnerOutput, Rewriter(e)) ELSE OwnerOutput
         /\ ComposerOf("agent")' = ComposerOf("agent")
         /\ Vetted' = (AgentOutput' \o ComposerOf("agent")) \o OwnerOutput'
<1>1. e.by \in Parties
  BY DEF Events
<1>2. Asking' = IF e.action = "modify" /\ e.stage \in {"input", "context"}
                THEN Append(Asking, Rewriter(e)) ELSE Asking
  BY <1>1, RewritesAppend, RewritesOther DEF Asking
<1>3. OwnerInput' = IF e.action = "modify" /\ e.by = "owner" /\ e.stage = "input"
                    THEN Append(OwnerInput, Rewriter(e)) ELSE OwnerInput
  BY RewritesAppend, RewritesOther DEF OwnerInput
<1>4. AgentOutput' = IF e.action = "modify" /\ e.by = "agent" /\ e.stage = "output"
                     THEN Append(AgentOutput, Rewriter(e)) ELSE AgentOutput
  BY RewritesAppend, RewritesOther DEF AgentOutput
<1>5. OwnerOutput' = IF e.action = "modify" /\ e.by = "owner" /\ e.stage = "output"
                     THEN Append(OwnerOutput, Rewriter(e)) ELSE OwnerOutput
  BY RewritesAppend, RewritesOther DEF OwnerOutput
<1>6. ComposerOf("agent")' = ComposerOf("agent")
  BY DEF ComposerOf
<1>7. Vetted' = (AgentOutput' \o ComposerOf("agent")') \o OwnerOutput'
  BY DEF Vetted, AgentOutput, OwnerOutput
<1> QED BY <1>2, <1>3, <1>4, <1>5, <1>6, <1>7

(* A rewriter at the end of two lists is at the end of the second. *)
LEMMA JoinRewrites ==
  ASSUME NEW a \in Seq(Who), NEW b \in Seq(Who), NEW w \in Who
  PROVE  Append(a \o b, w) = a \o Append(b, w)
<1>1. a \o b \in Seq(Who) /\ <<w>> \in Seq(Who)
  OBVIOUS
<1>2. Append(a \o b, w) = (a \o b) \o <<w>> /\ Append(b, w) = b \o <<w>>
  BY <1>1, AppendIsConcat
<1>3. (a \o b) \o <<w>> = a \o (b \o <<w>>)
  BY <1>1, ConcatAssociative
<1> QED BY <1>2, <1>3

(* What a guardrail that decides d adds to the rewriters of its text.      *)
LEMMA ModsDecided ==
  ASSUME NEW kind \in Kinds, NEW t \in Texts, NEW stage, NEW d \in Decisions(kind, t, stage),
         NEW g \in Who
  PROVE  After(d, g).mods = IF d.action = "modify" THEN Append(t.mods, g) ELSE t.mods
<1>1. d.text \in Texts /\ d.text.mods = t.mods
  <2>1. CASE kind = "redact"
    <3>1. d.text = t \/ d.text = [t EXCEPT !.private = {}]
      BY <2>1 DEF Decisions, Redact, Modify, Allow
    <3> QED BY <3>1 DEF Texts
  <2>2. CASE kind \in {"nonempty", "grounded"}
    BY <2>2 DEF Decisions, EmptyAnswer, NoHallucination, Allow, Block
  <2>3. CASE kind = "custom"
    <3>1. d.text = t \/ d.text \in Replacements(t)
      BY <2>3 DEF Decisions, Custom, Allow, Block, Modify
    <3> QED BY <3>1, ReplacementIs
  <2> QED BY <2>1, <2>2, <2>3 DEF Kinds
<1>2. [d.text EXCEPT !.mods = Append(@, g)].mods = Append(d.text.mods, g)
  BY <1>1 DEF Texts
<1> QED BY <1>1, <1>2 DEF After

-----------------------------------------------------------------------------
(* No request has been made. *)
LEMMA RewriteInit == Init => RewriteInv
<1> SUFFICES ASSUME Init PROVE AskedFor /\ AnsweredWith
  BY TextInit DEF RewriteInv
<1>1. at = "idle" /\ asked = None /\ shown = {} /\ reply.result = "none"
  BY DEF Init, NoReply
<1> QED BY <1>1 DEF AskedFor, AnsweredWith, AskedAsReported, AnswerAsReported, BeforeChat,
                    HasQuestion, In

(* A request ends, and its answer carries what was decided. *)
LEMMA RewriteReturns ==
  ASSUME NEW r, Returns(r), AskedFor, AnsweredWith, UNCHANGED <<log, asked, shown>>,
         r.result = "answer" => /\ r.content.mods = Vetted \o ComposerOf("owner")
                                /\ owner.kind = "knowledge" => r.inner.mods = Vetted
  PROVE  AskedFor' /\ AnsweredWith'
<1>1. at' = "idle" /\ reply' = r /\ UNCHANGED owner
  BY DEF Returns, Goto
<1>2. /\ UNCHANGED <<Asking, OwnerInput, Vetted>>
      /\ ComposerOf("owner")' = ComposerOf("owner")
  BY <1>1, RewritesKept
<1>3. ~BeforeChat' /\ ~HasQuestion' /\ \A by, stage : ~In(by, stage)'
  BY <1>1 DEF BeforeChat, HasQuestion, In
<1>4. AskedAsReported'
  BY <1>2 DEF AskedFor, AskedAsReported, Asking, OwnerInput
<1>5. AnswerAsReported'
  BY <1>1, <1>2 DEF AnswerAsReported
<1> QED BY <1>1, <1>3, <1>4, <1>5 DEF AskedFor, AnsweredWith

LEMMA RewriteErrs ==
  ASSUME Returns([NoReply EXCEPT !.result = "error"]), AskedFor, AnsweredWith,
         UNCHANGED <<log, asked, shown>>
  PROVE  AskedFor' /\ AnsweredWith'
<1> DEFINE r == [NoReply EXCEPT !.result = "error"]
<1>1. r.result = "error"
  BY DEF NoReply
<1> HIDE DEF r
<1> QED BY <1>1, RewriteReturns DEF r

(* A pipeline other than the first begins. *)
LEMMA RewriteStarts ==
  ASSUME NEW by, NEW stage, NEW text, StartCheck(by, stage, text),
         AskedFor, AnsweredWith, UNCHANGED <<log, owner, reply, asked>>,
         reply.result = "none",
         \A q \in shown' : q.mods = OwnerInput,
         <<by, stage>> \in {<<"owner", "context">>, <<"agent", "input">>,
                            <<"agent", "output">>, <<"owner", "output">>},
         stage # "output" => asked = None /\ AgentOutput = <<>>,
         <<by, stage>> # <<"owner", "output">> => OwnerOutput = <<>> /\ call'.composed = None,
         <<by, stage>> = <<"owner", "context">> =>
           call'.question.mods = OwnerInput /\ Asking = OwnerInput \o text.mods,
         <<by, stage>> = <<"agent", "input">> => text.mods = Asking,
         <<by, stage>> = <<"agent", "output">> => text.mods = AgentOutput,
         <<by, stage>> = <<"owner", "output">> => text.mods = Vetted
  PROVE  AskedFor' /\ AnsweredWith'
<1>1. /\ at' = "checking" /\ pipe'.by = by /\ pipe'.stage = stage /\ pipe'.text = text
  BY DEF StartCheck, Goto
<1>2. /\ UNCHANGED <<Asking, OwnerInput, AgentOutput, OwnerOutput, Vetted>>
      /\ ComposerOf("agent")' = ComposerOf("agent")
  BY RewritesKept
<1>3. /\ BeforeChat' => stage # "output"
      /\ HasQuestion' => <<by, stage>> = <<"owner", "context">>
      /\ \A b, s : In(b, s)' => b = by /\ s = stage
  BY <1>1 DEF BeforeChat, HasQuestion, In
<1>4. AskedAsReported'
  BY <1>2 DEF AskedFor, AskedAsReported, Asking, OwnerInput
<1>5. AskedFor'
  <2>1. In("owner", "input")' => FALSE
    BY <1>3
  <2>2. HasQuestion' => call'.question.mods = OwnerInput'
    BY <1>2, <1>3
  <2>3. In("owner", "context")' => Asking' = OwnerInput' \o pipe'.text.mods
    BY <1>1, <1>2, <1>3
  <2>4. In("agent", "input")' => pipe'.text.mods = Asking'
    BY <1>1, <1>2, <1>3
  <2>5. BeforeChat' => asked' = None
    BY <1>3
  <2>6. pipe'.stage = "context" => pipe'.by = "owner"
    BY <1>1
  <2> QED BY <1>1, <1>4, <2>1, <2>2, <2>3, <2>4, <2>5, <2>6 DEF AskedFor
<1>6. AnsweredWith'
  <2>1. BeforeChat' => AgentOutput' = <<>> /\ OwnerOutput' = <<>> /\ call'.composed = None
    BY <1>2, <1>3
  <2>2. In("agent", "output")' =>
          OwnerOutput' = <<>> /\ call'.composed = None /\ pipe'.text.mods = AgentOutput'
    BY <1>1, <1>2, <1>3
  <2>3. In("owner", "output")' => pipe'.text.mods = Vetted'
    BY <1>1, <1>2, <1>3
  <2>4. AnswerAsReported'
    BY DEF AnswerAsReported
  <2> QED BY <1>1, <2>1, <2>2, <2>3, <2>4 DEF AnsweredWith
<1> QED BY <1>5, <1>6

(* The answer of the owner, or its fallback. *)
LEMMA RewriteResponds ==
  ASSUME NEW c, Responds(c), log \in Seq(Events), AskedFor, AnsweredWith,
         UNCHANGED <<log, asked, shown>>, reply.result = "none",
         ~c.usedFallback =>
           /\ c.draft.mods = Vetted
           /\ owner.kind = "knowledge" => Content(c.message, c.composed).mods = Vetted
  PROVE  AskedFor' /\ AnsweredWith'
<1>1. CASE "owner" \in owner.composes
  <2>1. at' = "owner composing" /\ call' = c /\ UNCHANGED <<owner, reply>>
    BY <1>1 DEF Responds, Goto
  <2>2. UNCHANGED <<Asking, OwnerInput, Vetted>>
    BY <2>1, RewritesKept
  <2>3. ~BeforeChat' /\ ~HasQuestion' /\ \A by, stage : ~In(by, stage)'
    BY <2>1 DEF BeforeChat, HasQuestion, In
  <2>4. AskedAsReported'
    BY <2>2 DEF AskedFor, AskedAsReported, Asking, OwnerInput
  <2>5. AnswerAsReported'
    BY <2>1 DEF AnswerAsReported
  <2>6. AskedFor'
    BY <2>1, <2>3, <2>4 DEF AskedFor
  <2>7. ~call'.usedFallback =>
          /\ call'.draft.mods = Vetted'
          /\ owner'.kind = "knowledge" => Content(call'.message, call'.composed).mods = Vetted'
    BY <2>1, <2>2
  <2> QED BY <1>1, <2>1, <2>3, <2>5, <2>6, <2>7 DEF AnsweredWith
<1>2. CASE "owner" \notin owner.composes
  <2> DEFINE r == Reply(c, c.draft)
  <2>1. /\ r.content = c.draft
        /\ r.result = IF c.usedFallback THEN "fallback" ELSE "answer"
        /\ ~c.usedFallback /\ owner.kind = "knowledge" => r.inner = Content(c.message, c.composed)
    BY DEF Reply, Team
  <2>2. Returns(r)
    BY <1>2 DEF Responds
  <2>3. Vetted \o ComposerOf("owner") = Vetted
    <3>1. ComposerOf("owner") = <<>>
      BY <1>2 DEF ComposerOf
    <3>2. Vetted \in Seq(Who)
      BY RewritesAre
    <3> QED BY <3>1, <3>2, ConcatEmptySeq
  <2> HIDE DEF r
  <2> QED BY <2>1, <2>2, <2>3, RewriteReturns
<1> QED BY <1>1, <1>2

(* A guardrail decides: what it decides is noted in the text and the log.  *)
LEMMA RewriteCheckNext ==
  ASSUME TextInv, AskedFor, AnsweredWith, CheckNext
  PROVE  AskedFor' /\ AnsweredWith'
<1> DEFINE g == [by |-> pipe.by, guard |-> pipe.next]
<1>1. PICK d \in Decisions(Guards(pipe.by)[pipe.next], pipe.text, pipe.stage) :
        LET event == [by |-> pipe.by, stage |-> pipe.stage, guard |-> pipe.next,
                      action |-> d.action]
        IN  /\ pipe' = [pipe EXCEPT !.events = Append(@, event), !.next = @ + 1,
                         !.text = After(d, g)]
            /\ log' = Append(log, event)
            /\ IF d.action = "block"
               THEN Goto("blocked") /\ call' = [call EXCEPT !.fallback = d.fallback]
               ELSE UNCHANGED <<at, call>>
  BY DEF CheckNext
<1> DEFINE e == [by |-> pipe.by, stage |-> pipe.stage, guard |-> pipe.next, action |-> d.action]
           t == After(d, g)
<1>2. /\ at = "checking" /\ pipe.next <= Len(Guards(pipe.by))
      /\ UNCHANGED <<owner, reply, asked, shown>>
      /\ at' \in {"checking", "blocked"}
  BY <1>1 DEF CheckNext, Goto
<1>3. /\ pipe.by \in Parties /\ pipe.next \in Nat \ {0} /\ log \in Seq(Events)
      /\ pipe.stage \in {"input", "context", "output"}
      /\ Guards(pipe.by) \in Seq(Kinds)
  BY DEF TextInv, BlockInv, ReportInv, HasPipelines, EventLists, Guards
<1>4. /\ Guards(pipe.by)[pipe.next] \in Kinds
      /\ g \in Who /\ pipe.text \in Texts
  BY <1>2, <1>3 DEF TextInv, TextTypes, Who
<1>5. t.mods = IF d.action = "modify" THEN Append(pipe.text.mods, g) ELSE pipe.text.mods
  BY <1>4, ModsDecided
<1>6. e \in Events /\ log' = Append(log, e) /\ Rewriter(e) = g
  <2>1. d.action \in {"allow", "modify", "block"}
    BY <1>4, DecisionActions
  <2> QED BY <1>1, <1>3, <2>1 DEF Events, Rewriter
<1>7. /\ UNCHANGED <<pipe.by, pipe.stage>> /\ pipe'.text = t
      /\ UNCHANGED <<call.composed, call.question, call.message, call.draft, call.usedFallback>>
  BY <1>1 DEF TextInv, BlockInv, ReportInv, RouteInv, Shape
<1>8. e.by = pipe.by /\ e.stage = pipe.stage /\ e.action = d.action
  OBVIOUS
<1> HIDE DEF t, e, g
<1> DEFINE modified == d.action = "modify"
<1>9. /\ Asking' = IF modified /\ pipe.stage \in {"input", "context"}
                   THEN Append(Asking, g) ELSE Asking
      /\ OwnerInput' = IF modified /\ pipe.by = "owner" /\ pipe.stage = "input"
                       THEN Append(OwnerInput, g) ELSE OwnerInput
      /\ AgentOutput' = IF modified /\ pipe.by = "agent" /\ pipe.stage = "output"
                        THEN Append(AgentOutput, g) ELSE AgentOutput
      /\ OwnerOutput' = IF modified /\ pipe.by = "owner" /\ pipe.stage = "output"
                        THEN Append(OwnerOutput, g) ELSE OwnerOutput
      /\ Vetted' = (AgentOutput' \o ComposerOf("agent")) \o OwnerOutput'
  BY <1>2, <1>3, <1>6, <1>8, RewritesGrow
<1>10. /\ In("owner", "input")' => In("owner", "input")
       /\ In("owner", "context")' => In("owner", "context")
       /\ In("agent", "input")' => In("agent", "input")
       /\ In("agent", "output")' => In("agent", "output")
       /\ In("owner", "output")' => In("owner", "output")
       /\ HasQuestion' => In("owner", "context")
       /\ BeforeChat' => BeforeChat /\ pipe.stage \in {"input", "context"}
  BY <1>2, <1>7 DEF In, HasQuestion, BeforeChat
<1>11. /\ pipe.text.mods \in Seq(Who) /\ Asking \in Seq(Who) /\ OwnerInput \in Seq(Who)
       /\ AgentOutput \in Seq(Who) /\ OwnerOutput \in Seq(Who)
       /\ ComposerOf("agent") \in Seq(Who)
       /\ Vetted = (AgentOutput \o ComposerOf("agent")) \o OwnerOutput
  BY <1>3, <1>4, RewritesAre DEF Texts, Who, Parties
<1>12. AskedFor'
  <2>1. In("owner", "input")' => shown' = {} /\ pipe'.text.mods = Asking' /\ Asking' = OwnerInput'
    BY <1>2, <1>5, <1>7, <1>9, <1>10 DEF AskedFor, In
  <2>2. In("owner", "context")' =>
          /\ Asking' = OwnerInput' \o pipe'.text.mods
          /\ call'.question.mods = OwnerInput'
    <3> SUFFICES ASSUME In("owner", "context")
                 PROVE  /\ Asking' = OwnerInput' \o pipe'.text.mods
                        /\ call'.question.mods = OwnerInput'
      BY <1>10
    <3>1. pipe.stage = "context" /\ UNCHANGED OwnerInput
      BY <1>9 DEF In
    <3>2. Asking = OwnerInput \o pipe.text.mods /\ call.question.mods = OwnerInput
      BY DEF AskedFor, HasQuestion
    <3>3. Append(Asking, g) = OwnerInput \o Append(pipe.text.mods, g)
      BY <1>4, <1>11, <3>2, JoinRewrites
    <3> QED BY <1>5, <1>7, <1>9, <3>1, <3>2, <3>3
  <2>3. In("agent", "input")' => pipe'.text.mods = Asking'
    BY <1>5, <1>7, <1>9, <1>10 DEF AskedFor, In
  <2>4. BeforeChat' => asked' = None
    BY <1>2, <1>10 DEF AskedFor
  <2>5. AskedAsReported'
    <3>1. asked # None => asked.mods = Asking /\ pipe.stage = "output"
      <4>1. BeforeChat => asked = None
        BY DEF AskedFor
      <4>2. pipe.stage # "output" => BeforeChat
        <5>1. pipe.stage = "context" => pipe.by = "owner"
          BY <1>2 DEF AskedFor
        <5> QED BY <1>2, <1>3, <5>1 DEF BeforeChat, In, Parties
      <4> QED BY <4>1, <4>2 DEF AskedFor, AskedAsReported, Asking
    <3>2. asked' # None => asked'.mods = Asking'
      BY <1>2, <1>9, <3>1
    <3>3. \A q \in shown' : q.mods = OwnerInput'
      <4>1. \A q \in shown : q.mods = OwnerInput
        BY DEF AskedFor, AskedAsReported, OwnerInput
      <4>2. pipe.by = "owner" /\ pipe.stage = "input" => shown = {}
        BY <1>2 DEF AskedFor, In
      <4> QED BY <1>2, <1>9, <4>1, <4>2
    <3> QED BY <3>2, <3>3 DEF AskedAsReported, Asking, OwnerInput
  <2>6. at' \notin {"routing", "retrieving"}
    BY <1>2
  <2>7. pipe'.stage = "context" => pipe'.by = "owner"
    BY <1>2, <1>7 DEF AskedFor
  <2> QED BY <1>10, <2>1, <2>2, <2>3, <2>4, <2>5, <2>6, <2>7 DEF AskedFor, HasQuestion
<1>13. AnsweredWith'
  <2>1. BeforeChat' => AgentOutput' = <<>> /\ OwnerOutput' = <<>> /\ call'.composed = None
    BY <1>7, <1>9, <1>10 DEF AnsweredWith
  <2>2. In("agent", "output")' =>
          OwnerOutput' = <<>> /\ call'.composed = None /\ pipe'.text.mods = AgentOutput'
    BY <1>5, <1>7, <1>9, <1>10 DEF AnsweredWith, In
  <2>3. In("owner", "output")' => pipe'.text.mods = Vetted'
    <3> SUFFICES ASSUME In("owner", "output")
                 PROVE  pipe'.text.mods = Vetted'
      BY <1>10
    <3>1. pipe.text.mods = Vetted
      BY DEF AnsweredWith
    <3>2. AgentOutput' = AgentOutput
          /\ OwnerOutput' = IF modified THEN Append(OwnerOutput, g) ELSE OwnerOutput
      BY <1>9 DEF In
    <3>3. Append(Vetted, g) = (AgentOutput \o ComposerOf("agent")) \o Append(OwnerOutput, g)
      <4>1. AgentOutput \o ComposerOf("agent") \in Seq(Who)
        BY <1>11
      <4> QED BY <1>4, <1>11, <4>1, JoinRewrites
    <3> QED BY <1>5, <1>7, <1>9, <1>11, <3>1, <3>2, <3>3
  <2>4. AnswerAsReported'
    <3>1. reply'.result = "none"
      BY <1>2 DEF TextInv, BlockInv, ReportInv, Accounted
    <3> QED BY <3>1 DEF AnswerAsReported
  <2> QED BY <1>2, <2>1, <2>2, <2>3, <2>4 DEF AnsweredWith
<1> QED BY <1>12, <1>13

(* A request begins, without a decision. *)
LEMMA RewriteBegins ==
  ASSUME NEW id, Begins(id)
  PROVE  AskedFor' /\ AnsweredWith'
<1>1. PICK private \in SUBSET {"question"} : StartCheck("owner", "input", Fresh("question", private, FALSE))
  BY DEF Begins, OwnerCheck
<1>2. /\ at' = "checking" /\ pipe'.by = "owner" /\ pipe'.stage = "input"
      /\ pipe'.text.mods = <<>>
      /\ log' = <<>> /\ asked' = None /\ shown' = {}
  BY <1>1 DEF Begins, StartCheck, Goto, Fresh
<1>3. call'.composed = None /\ reply'.result = "none"
  BY DEF Begins, NoCall, NoReply
<1>4. /\ Asking' = <<>> /\ OwnerInput' = <<>> /\ AgentOutput' = <<>> /\ OwnerOutput' = <<>>
  BY <1>2, RewritesEmpty DEF Asking, OwnerInput, AgentOutput, OwnerOutput
<1>5. ~HasQuestion' /\ \A b, s : In(b, s)' => b = "owner" /\ s = "input"
  BY <1>2 DEF HasQuestion, In
<1>6. AskedAsReported' /\ AnswerAsReported'
  BY <1>2, <1>3 DEF AskedAsReported, AnswerAsReported
<1>7. AskedFor'
  BY <1>2, <1>4, <1>5, <1>6 DEF AskedFor
<1>8. AnsweredWith'
  BY <1>2, <1>3, <1>4, <1>5, <1>6 DEF AnsweredWith
<1> QED BY <1>7, <1>8
(* A step between two awaits outside the pipelines that decides nothing.   *)
LEMMA RewriteGoesOn ==
  ASSUME at' \in {"routing", "retrieving", "chatting", "saving", "agent composing", "answered"},
         UNCHANGED <<log, owner, reply>>, reply.result = "none",
         AskedAsReported', OwnerOutput = <<>>,
         at' \in {"routing", "retrieving"} =>
           /\ call'.question.mods = OwnerInput /\ Asking = OwnerInput /\ asked' = None,
         at' \in {"routing", "retrieving", "chatting"} => AgentOutput = <<>>,
         at' # "answered" => call'.composed = None,
         at' \in {"saving", "agent composing"} => call'.message.mods = AgentOutput,
         at' = "agent composing" => "agent" \in owner.composes,
         at' = "answered" =>
           Content(call'.message, call'.composed).mods = AgentOutput \o ComposerOf("agent")
  PROVE  AskedFor' /\ AnsweredWith'
<1>1. /\ UNCHANGED <<Asking, OwnerInput, AgentOutput, OwnerOutput, Vetted>>
      /\ ComposerOf("agent")' = ComposerOf("agent")
  BY RewritesKept
<1>2. /\ \A by, stage : ~In(by, stage)'
      /\ BeforeChat' => at' \in {"routing", "retrieving"}
      /\ HasQuestion' => at' \in {"routing", "retrieving"}
  BY DEF In, BeforeChat, HasQuestion
<1>3. AnswerAsReported'
  BY DEF AnswerAsReported
<1>4. AskedFor'
  BY <1>1, <1>2 DEF AskedFor
<1>5. AnsweredWith'
  <2>1. at' = "answered" =>
          Content(call'.message, call'.composed).mods = AgentOutput' \o ComposerOf("agent")'
    BY <1>1
  <2> QED BY <1>1, <1>2, <1>3, <2>1 DEF AnsweredWith
<1> QED BY <1>4, <1>5

(* Every step keeps it. *)
LEMMA RewriteStep == RewriteInv /\ [Next]_vars => RewriteInv'
<1> SUFFICES ASSUME TextInv, AskedFor, AnsweredWith, [Next]_vars
             PROVE  AskedFor' /\ AnsweredWith'
  BY TextStep DEF RewriteInv
<1>0. /\ Shape /\ log \in Seq(Events)
      /\ at # "idle" => reply.result = "none"
  BY DEF TextInv, BlockInv, ReportInv, RouteInv, EventLists, Accounted
<1>1. CASE UNCHANGED vars
  <2>1. /\ UNCHANGED <<Asking, OwnerInput, AgentOutput, OwnerOutput, Vetted>>
        /\ ComposerOf("agent")' = ComposerOf("agent")
        /\ ComposerOf("owner")' = ComposerOf("owner")
    BY <1>1, RewritesKept DEF vars
  <2>2. AskedFor'
    <3>1. AskedAsReported'
      BY <1>1 DEF AskedFor, AskedAsReported, vars
    <3> QED BY <1>1, <2>1, <3>1 DEF AskedFor, vars, In, HasQuestion, BeforeChat
  <2>3. AnsweredWith'
    <3>1. AnswerAsReported'
      BY <1>1, <2>1 DEF AnsweredWith, AnswerAsReported, vars
    <3> QED BY <1>1, <2>1, <3>1 DEF AnsweredWith, vars, In, BeforeChat
  <2> QED BY <2>2, <2>3
<1>2. CASE Ask \/ \E id \in Ids : AskWithAgent(id)
  BY <1>2, RewriteBegins DEF Ask, AskWithAgent
<1>3. CASE CheckNext
  BY <1>3, RewriteCheckNext
<1>4. CASE OwnerInputBlocked \/ AgentBlocked \/ Fails \/ Errs
  BY <1>4, RewriteErrs DEF OwnerInputBlocked, AgentBlocked, Fails, Errs, aux
<1>5. ASSUME TakesQuestion, Passed("owner", "input")
      PROVE  /\ call'.question = pipe.text /\ pipe.text.mods = OwnerInput /\ Asking = OwnerInput
             /\ call'.composed = None /\ AgentOutput = <<>> /\ OwnerOutput = <<>>
             /\ UNCHANGED <<owner, reply, log, asked>> /\ asked = None
             /\ \A q \in shown' : q.mods = OwnerInput
             /\ reply.result = "none"
  <2>1. call' = [call EXCEPT !.question = pipe.text, !.events = pipe.events]
    BY <1>5 DEF TakesQuestion
  <2>2. In("owner", "input") /\ BeforeChat
    BY <1>5 DEF Passed, In, BeforeChat
  <2>3. call'.question = pipe.text /\ call'.composed = call.composed
    BY <1>0, <2>1 DEF Shape
  <2>4. /\ shown = {} /\ pipe.text.mods = OwnerInput /\ Asking = OwnerInput /\ asked = None
        /\ call.composed = None /\ AgentOutput = <<>> /\ OwnerOutput = <<>>
    BY <2>2 DEF AskedFor, AnsweredWith
  <2>5. shown' = {pipe.text} /\ UNCHANGED <<owner, reply, log, asked>>
    BY <1>5, <2>4 DEF TakesQuestion, Shows
  <2>6. reply.result = "none"
    BY <1>0, <2>2 DEF In
  <2> QED BY <2>3, <2>4, <2>5, <2>6
<1>6. CASE OwnerInputPassed /\ ~Errs
  <2>1. TakesQuestion /\ Passed("owner", "input") /\ at' \in {"routing", "retrieving"}
    BY <1>6 DEF OwnerInputPassed, Goto
  <2>2. AskedAsReported'
    <3>1. OwnerInput' = OwnerInput
      BY <1>5, <2>1, RewritesKept
    <3> QED BY <1>5, <2>1, <3>1 DEF AskedAsReported, OwnerInput
  <2> QED BY <1>5, <2>1, <2>2, RewriteGoesOn
<1>7. CASE DirectInputPassed /\ ~Errs
  <2>1. TakesQuestion /\ Passed("owner", "input") /\ StartCheck("agent", "input", pipe.text)
    BY <1>7 DEF DirectInputPassed, AgentAsk
  <2> QED BY <1>5, <2>1, RewriteStarts
<1>8. CASE Route
  <2>1. PICK d \in RouteDecisions :
          IF d.handoff = None THEN RouteTo(d.to) ELSE HandOff(d.handoff, d.to)
    BY <1>8 DEF Route
  <2>2. at = "routing" /\ BeforeChat /\ HasQuestion /\ reply.result = "none"
    BY <1>0, <1>8 DEF Route, BeforeChat, HasQuestion
  <2>3. UNCHANGED <<log, asked, shown>>
    BY <2>1 DEF RouteTo, HandOff
  <2>4. /\ call.question.mods = OwnerInput /\ Asking = OwnerInput /\ asked = None
        /\ AgentOutput = <<>> /\ OwnerOutput = <<>> /\ call.composed = None
        /\ \A q \in shown : q.mods = OwnerInput
    BY <2>2 DEF AskedFor, AnsweredWith, AskedAsReported, OwnerInput
  <2>5. CASE Returns([NoReply EXCEPT !.result = "error"])
    BY <2>3, <2>5, RewriteErrs
  <2>6. CASE /\ StartCheck("agent", "input", call.question) /\ call' = [call EXCEPT !.agent = d.to]
             /\ UNCHANGED <<owner, reply>>
    <3>1. UNCHANGED call.composed
      BY <1>0, <2>6 DEF Shape
    <3> QED BY <2>2, <2>3, <2>4, <2>6, <3>1, RewriteStarts
  <2>7. CASE /\ call' = [call EXCEPT !.handoffs = Append(@, <<d.handoff, d.to>>)]
             /\ UNCHANGED <<at, pipe, owner, reply>>
    <3>1. UNCHANGED <<call.composed, call.question>>
      BY <1>0, <2>7 DEF Shape
    <3>2. AskedAsReported'
      <4>1. OwnerInput' = OwnerInput
        BY <2>3, <2>7, RewritesKept
      <4> QED BY <2>3, <2>4, <4>1 DEF AskedAsReported, OwnerInput
    <3> QED BY <2>2, <2>3, <2>4, <2>7, <3>1, <3>2, RewriteGoesOn
  <2> QED BY <2>1, <2>5, <2>6, <2>7 DEF RouteTo, HandOff, AgentAsk
<1>9. CASE Retrieve
  <2>1. PICK n \in 0..MaxChunks, private \in SUBSET {"context"} :
          /\ call' = [call EXCEPT !.chunks = n, !.retrieved = private]
          /\ StartCheck("owner", "context", Fresh("context", private, n = 0))
    BY <1>9 DEF Retrieve, OwnerCheck
  <2> DEFINE text == Fresh("context", private, n = 0)
  <2>2. text.mods = <<>>
    BY DEF Fresh
  <2>3. StartCheck("owner", "context", text)
    BY <2>1
  <2> HIDE DEF text
  <2>4. at = "retrieving" /\ BeforeChat /\ HasQuestion /\ reply.result = "none"
        /\ UNCHANGED <<owner, reply, log, asked, shown>>
    BY <1>0, <1>9 DEF Retrieve, BeforeChat, HasQuestion, aux
  <2>5. /\ call.question.mods = OwnerInput /\ Asking = OwnerInput /\ asked = None
        /\ AgentOutput = <<>> /\ OwnerOutput = <<>> /\ call.composed = None
        /\ \A q \in shown : q.mods = OwnerInput
    BY <2>4 DEF AskedFor, AnsweredWith, AskedAsReported, OwnerInput
  <2>6. UNCHANGED <<call.composed, call.question>>
    BY <1>0, <2>1 DEF Shape
  <2>7. Asking = OwnerInput \o text.mods
    <3>1. OwnerInput \in Seq(Who)
      BY <1>0, RewritesAre
    <3> QED BY <2>2, <2>5, <3>1, ConcatEmptySeq
  <2> QED BY <2>3, <2>4, <2>5, <2>6, <2>7, RewriteStarts
<1>10. ASSUME RespondsFallback, UNCHANGED aux, at \in {"checking", "blocked"}
       PROVE  AskedFor' /\ AnsweredWith'
  <2> DEFINE c == [call EXCEPT !.draft = Fallback, !.usedFallback = TRUE,
                               !.events = @ \o pipe.events]
  <2>1. c.usedFallback
    BY <1>0 DEF Shape
  <2>2. Responds(c) /\ UNCHANGED <<log, asked, shown>> /\ reply.result = "none"
    BY <1>0, <1>10 DEF RespondsFallback, aux
  <2> HIDE DEF c
  <2> QED BY <1>0, <2>1, <2>2, RewriteResponds
<1>11. CASE OwnerContextBlocked
  BY <1>10, <1>11 DEF OwnerContextBlocked, Blocked
<1>12. CASE OwnerContextPassed
  <2>1. CASE RespondsFallback /\ UNCHANGED handed
    BY <1>10, <1>12, <2>1 DEF OwnerContextPassed, Passed, aux
  <2>2. CASE ~(RespondsFallback /\ UNCHANGED handed)
    <3> DEFINE text == Prompt(call.question, pipe.text)
    <3>1. /\ call' = [call EXCEPT !.events = @ \o pipe.events]
          /\ StartCheck("agent", "input", text) /\ UNCHANGED <<log, owner, reply, asked, shown>>
      BY <1>12, <2>2 DEF OwnerContextPassed, AsksAgent, AgentAsk, aux
    <3>2. In("owner", "context") /\ BeforeChat /\ HasQuestion /\ reply.result = "none"
      BY <1>0, <1>12 DEF OwnerContextPassed, Passed, In, BeforeChat, HasQuestion
    <3>3. /\ call.question.mods = OwnerInput /\ Asking = OwnerInput \o pipe.text.mods
          /\ asked = None /\ AgentOutput = <<>> /\ OwnerOutput = <<>> /\ call.composed = None
          /\ \A q \in shown : q.mods = OwnerInput
      BY <3>2 DEF AskedFor, AnsweredWith, AskedAsReported, OwnerInput
    <3>4. text.mods = Asking
      BY <3>3 DEF Prompt
    <3>5. UNCHANGED call.composed
      BY <1>0, <3>1 DEF Shape
    <3> HIDE DEF text
    <3> QED BY <3>1, <3>2, <3>3, <3>4, <3>5, RewriteStarts
  <2> QED BY <2>1, <2>2
<1>13. CASE AgentInputPassed
  <2>1. /\ at' = "chatting" /\ asked' = pipe.text /\ UNCHANGED <<log, owner, reply, shown>>
        /\ call' = [call EXCEPT !.agentEvents = pipe.events]
        /\ In("agent", "input") /\ BeforeChat
    BY <1>13 DEF AgentInputPassed, Passed, In, BeforeChat, Goto
  <2>2. /\ pipe.text.mods = Asking /\ call.composed = None
        /\ AgentOutput = <<>> /\ OwnerOutput = <<>>
        /\ \A q \in shown : q.mods = OwnerInput
    BY <2>1 DEF AskedFor, AnsweredWith, AskedAsReported, OwnerInput
  <2>3. UNCHANGED call.composed
    BY <1>0, <2>1 DEF Shape
  <2>4. reply.result = "none"
    BY <1>0, <2>1 DEF In
  <2>5. AskedAsReported'
    <3>1. Asking' = Asking /\ OwnerInput' = OwnerInput
      BY <2>1, RewritesKept
    <3> QED BY <2>1, <2>2, <3>1 DEF AskedAsReported, Asking, OwnerInput
  <2> QED BY <2>1, <2>2, <2>3, <2>4, <2>5, RewriteGoesOn
<1>14. CASE Chat
  <2>1. PICK text : StartCheck("agent", "output", text) /\ text.mods = <<>>
    <3>1. \A answer \in Answers : answer.mods = <<>>
      BY DEF Answers, Fresh
    <3> QED BY <1>14, <3>1 DEF Chat
  <2>2. at = "chatting" /\ UNCHANGED <<log, owner, call, reply, asked, shown>>
    BY <1>14 DEF Chat, aux
  <2>3. /\ AgentOutput = <<>> /\ OwnerOutput = <<>> /\ call.composed = None
        /\ \A q \in shown : q.mods = OwnerInput
    BY <2>2 DEF AskedFor, AnsweredWith, AskedAsReported, OwnerInput
  <2>4. reply.result = "none" /\ call'.composed = None
    BY <1>0, <2>2, <2>3
  <2> QED BY <2>1, <2>2, <2>3, <2>4, RewriteStarts
<1>15. ASSUME UNCHANGED <<log, owner, asked, shown>>
       PROVE  AskedAsReported'
  <2>1. Asking' = Asking /\ OwnerInput' = OwnerInput
    BY <1>15, RewritesKept
  <2> QED BY <1>15, <2>1 DEF AskedFor, AskedAsReported, Asking, OwnerInput
<1>16. CASE AgentOutputPassed
  <2>1. /\ In("agent", "output") /\ at' = "saving" /\ UNCHANGED <<log, owner, reply, asked, shown>>
        /\ call' = [call EXCEPT !.agentEvents = @ \o pipe.events, !.message = pipe.text,
                                !.past = history]
    BY <1>16 DEF AgentOutputPassed, Passed, In, Goto, aux
  <2>2. UNCHANGED call.composed /\ call'.message = pipe.text
    BY <1>0, <2>1 DEF Shape
  <2>3. OwnerOutput = <<>> /\ call.composed = None /\ pipe.text.mods = AgentOutput
    BY <2>1 DEF AnsweredWith
  <2>4. reply.result = "none"
    BY <1>0, <2>1 DEF In
  <2> QED BY <1>15, <2>1, <2>2, <2>3, <2>4, RewriteGoesOn
<1>17. CASE Save
  <2>1. /\ at = "saving"
        /\ at' = IF "agent" \in owner.composes THEN "agent composing" ELSE "answered"
        /\ UNCHANGED <<log, owner, reply, asked, shown, call>>
    BY <1>17 DEF Save, Goto, aux
  <2>2. OwnerOutput = <<>> /\ call.composed = None /\ call.message.mods = AgentOutput
    BY <2>1 DEF AnsweredWith
  <2>3. reply.result = "none" /\ call' = call
    BY <1>0, <2>1
  <2>4. "agent" \notin owner.composes =>
          Content(call'.message, call'.composed).mods = AgentOutput \o ComposerOf("agent")
    <3>1. AgentOutput \in Seq(Who)
      BY <1>0, RewritesAre
    <3>2. AgentOutput \o <<>> = AgentOutput
      BY <3>1, ConcatEmptySeq
    <3> QED BY <2>2, <2>3, <3>2 DEF ComposerOf, Content
  <2> QED BY <1>15, <2>1, <2>2, <2>3, <2>4, RewriteGoesOn
<1>18. CASE AgentComposes
  <2>1. /\ at = "agent composing" /\ at' = "answered"
        /\ UNCHANGED <<log, owner, reply, asked, shown, pipe>>
        /\ call' = [call EXCEPT !.composed = Composed(call.message, "agent")]
    BY <1>18 DEF AgentComposes, Goto, aux
  <2>2. call'.composed = Composed(call.message, "agent")
    BY <1>0, <2>1 DEF Shape
  <2>3. /\ OwnerOutput = <<>> /\ call.message.mods = AgentOutput
        /\ "agent" \in owner.composes /\ call.message \in Texts
    BY <2>1 DEF AnsweredWith, TextInv, TextTypes, HasMessage
  <2>4. call'.composed.mods = AgentOutput \o ComposerOf("agent")
    <3>1. call'.composed.mods = Append(AgentOutput, [by |-> "agent", guard |-> 0])
      BY <2>2, <2>3 DEF Composed, Texts
    <3>2. AgentOutput \in Seq(Who) /\ [by |-> "agent", guard |-> 0] \in Who
      BY <1>0, RewritesAre DEF Who, Parties
    <3> QED BY <2>3, <3>1, <3>2, AppendIsConcat DEF ComposerOf
  <2>5. call'.composed # None
    <3>1. Composed(call.message, "agent") \in Texts
      BY <2>3, TextComposed DEF Parties
    <3> QED BY <2>2, <3>1, NoneIsNoText
  <2>6. Content(call'.message, call'.composed).mods = AgentOutput \o ComposerOf("agent")
    BY <2>4, <2>5 DEF Content
  <2>7. reply.result = "none"
    BY <1>0, <2>1
  <2> QED BY <1>15, <2>1, <2>3, <2>6, <2>7, RewriteGoesOn
<1>19. CASE Answered
  <2> DEFINE text == Content(call.message, call.composed)
  <2>1. /\ at = "answered" /\ StartCheck("owner", "output", text)
        /\ UNCHANGED <<log, owner, reply, asked, shown>>
    BY <1>19 DEF Answered, OwnerCheck, aux
  <2>2. /\ OwnerOutput = <<>> /\ text.mods = AgentOutput \o ComposerOf("agent")
        /\ \A q \in shown : q.mods = OwnerInput
    BY <2>1 DEF AskedFor, AnsweredWith, AskedAsReported, OwnerInput
  <2>3. text.mods = Vetted
    <3>1. /\ AgentOutput \in Seq(Who) /\ ComposerOf("agent") \in Seq(Who)
          /\ Vetted = (AgentOutput \o ComposerOf("agent")) \o OwnerOutput
      BY <1>0, RewritesAre DEF Parties
    <3>2. AgentOutput \o ComposerOf("agent") \in Seq(Who)
      BY <3>1
    <3> QED BY <2>2, <3>1, <3>2, ConcatEmptySeq
  <2>4. reply.result = "none"
    BY <1>0, <2>1
  <2> HIDE DEF text
  <2> QED BY <2>1, <2>2, <2>3, <2>4, RewriteStarts
<1>20. CASE OwnerOutputBlocked /\ ~Errs
  BY <1>10, <1>20 DEF OwnerOutputBlocked, Blocked
<1>21. CASE OwnerOutputPassed
  <2> DEFINE r == Rewrite(call, pipe.text)
             c == [r EXCEPT !.events = @ \o pipe.events,
                     !.draft = IF Team THEN Content(r.message, r.composed) ELSE pipe.text]
  <2>1. pipe.text # None
    BY NoneIsNoText DEF TextInv, TextTypes
  <2>2. Content(r.message, r.composed) = pipe.text
    BY <1>0, <2>1 DEF Rewrite, Content, Shape
  <2>3. c.draft = pipe.text /\ c.composed = r.composed /\ c.message = r.message
    BY <1>0, <2>2 DEF Rewrite, Shape
  <2>4. /\ Responds(c) /\ UNCHANGED <<log, asked, shown>>
        /\ In("owner", "output") /\ reply.result = "none"
    BY <1>0, <1>21 DEF OwnerOutputPassed, Passed, In, aux
  <2> HIDE DEF c, r
  <2>5. pipe.text.mods = Vetted
    BY <2>4 DEF AnsweredWith
  <2>6. c.draft.mods = Vetted /\ Content(c.message, c.composed).mods = Vetted
    BY <2>2, <2>3, <2>5
  <2> QED BY <1>0, <2>4, <2>6, RewriteResponds
<1>22. CASE OwnerComposes
  <2> DEFINE text == Composed(call.draft, "owner")
             r == Reply(call, text)
  <2>1. at = "owner composing" /\ Returns(r) /\ UNCHANGED <<log, asked, shown>>
    BY <1>22 DEF OwnerComposes, aux
  <2>2. /\ r.content = text
        /\ r.result = IF call.usedFallback THEN "fallback" ELSE "answer"
        /\ ~call.usedFallback /\ owner.kind = "knowledge" =>
             r.inner = Content(call.message, call.composed)
    BY DEF Reply, Team
  <2>3. ~call.usedFallback => text.mods = Vetted \o ComposerOf("owner")
    <3> SUFFICES ASSUME ~call.usedFallback PROVE text.mods = Vetted \o ComposerOf("owner")
      OBVIOUS
    <3>1. call.draft \in Texts /\ call.draft.mods = Vetted /\ "owner" \in owner.composes
      BY <2>1 DEF TextInv, TextTypes, AnsweredWith
    <3>2. text.mods = Append(Vetted, [by |-> "owner", guard |-> 0])
      BY <3>1 DEF Composed, Texts
    <3>3. Vetted \in Seq(Who) /\ [by |-> "owner", guard |-> 0] \in Who
      BY <1>0, RewritesAre DEF Who, Parties
    <3> QED BY <3>1, <3>2, <3>3, AppendIsConcat DEF ComposerOf
  <2> HIDE DEF r, text
  <2>4. r.result = "answer" => /\ r.content.mods = Vetted \o ComposerOf("owner")
                               /\ owner.kind = "knowledge" => r.inner.mods = Vetted
    BY <2>1, <2>2, <2>3 DEF AnsweredWith
  <2> QED BY <2>1, <2>4, RewriteReturns
<1> QED BY <1>1, <1>2, <1>3, <1>4, <1>6, <1>7, <1>8, <1>9, <1>11, <1>12, <1>13, <1>14,
           <1>16, <1>17, <1>18, <1>19, <1>20, <1>21, <1>22 DEF Next

(* Whatever its guardrails and the router decide, the model is asked the   *)
(* question and the context with every rewriting that the guardrails       *)
(* before it decided, in the order of the decisions, and the owner hands   *)
(* out the question with those of its own input stage: no guardrail works  *)
(* on a text that an earlier one has already replaced.                     *)
THEOREM AskedIsReported == Spec => []AskedAsReported
<1>1. RewriteInv => AskedAsReported
  BY DEF RewriteInv, AskedFor
<1> QED BY <1>1, RewriteInit, RewriteStep, PTL DEF Spec

(* An answer carries every rewriting of the output stages and of the       *)
(* composers, in their order, and so does the agent's response inside it,  *)
(* whichever of message and composed answer the owner had to rewrite.      *)
THEOREM AnswerIsReported == Spec => []AnswerAsReported
<1>1. RewriteInv => AnswerAsReported
  BY DEF RewriteInv, AnsweredWith
<1> QED BY <1>1, RewriteInit, RewriteStep, PTL DEF Spec

=============================================================================
