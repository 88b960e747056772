----------------------------- MODULE GuardedAsk -----------------------------
(***************************************************************************)
(* The requests that wrap Agent::ask: KnowledgeAgent::ask                  *)
(* (src/knowledge_agent.rs) and AgentTeam::ask and ask_with_agent          *)
(* (src/team/mod.rs), with the guardrail pipelines of the owner and of the *)
(* agent (src/guardrail.rs), the routers and the answer composers          *)
(* (src/composer.rs).  A request runs on &mut self, so there is one at a   *)
(* time; its steps are the code between two awaits, each of which may fail *)
(* or be dropped.                                                          *)
(*                                                                         *)
(* A text is what it was made from, whose private data it holds, whether   *)
(* it is blank (a prompt: whether its context is), and what has rewritten  *)
(* it since, in order.  The chunks of a context are counted.  The tool     *)
(* loop and the session of the agent are module AgentRuntime; here the     *)
(* agent chats once and then saves, and of the histories only the private  *)
(* data in them is kept.                                                   *)
(***************************************************************************)
EXTENDS Naturals, Sequences, FiniteSets

CONSTANTS Members,           \* the ids of the agents of the team
          Stranger,          \* an id that no agent of the team has
          MaxHandoffRounds,  \* AgentTeam::max_handoff_rounds
          Pipelines,         \* the guardrails that owner and agent may have
          MaxChunks,         \* bound: the chunks a context is made of
          None

Parties == {"owner", "agent"}
Kinds == {"redact", "nonempty", "grounded", "custom"}

ASSUME GuardedAssumption ==
  /\ Stranger \notin Members
  /\ None \notin Members \cup {Stranger}
  /\ MaxHandoffRounds \in Nat
  /\ MaxChunks \in Nat
  /\ Pipelines \subseteq [Parties -> Seq(Kinds)]

VARIABLES
  owner,    \* which owner it is, its router, and the composers and guardrails
  at,       \* the await the request is at
  pipe,     \* the GuardrailPipeline::check in progress
  call,     \* the locals of the request
  reply,    \* what the last request returned
  history,  \* the private data in what the agents may send besides a request
  log,      \* auxiliary: every guardrail decision of the request, in order
  handed,   \* auxiliary: the text the owner handed to the agent, or None
  asked,    \* auxiliary: the text the agent sent to the model, or None
  shown,    \* auxiliary: the questions the owner handed out after its input stage
  routes    \* auxiliary: how often the router was asked

vars == <<owner, at, pipe, call, reply, history, log, handed, asked, shown, routes>>

Ids == Members \cup {Stranger}
(* The guardrails of a party. *)
Guards(by) == owner.guards[by]

(* Who private data comes from: the caller, a chunk, the model.            *)
Sources == {"question", "context", "answer"}

(* A text is where it comes from, whose private data it holds, whether it  *)
(* is blank, and mods: who rewrote it, in order, each a guardrail of a     *)
(* party's pipeline or the composer of a party, which counts as its        *)
(* guardrail 0.                                                            *)
Fresh(from, private, blank) ==
  [from |-> from, private |-> private, blank |-> blank, mods |-> <<>>]
Fallback == Fresh("fallback", {}, FALSE)

Texts == [from : {"question", "context", "prompt", "answer", "fallback"},
          private : SUBSET Sources, blank : BOOLEAN, mods : Seq([by : Parties, guard : Nat])]

(* No text is a missing one (Option::None).                                *)
ASSUME NoneIsNoText == None \notin Texts

(* retrieved is the private data of the retrieved chunks, past that of the *)
(* history which the answer is the last message of.                        *)
NoCall == [question |-> None, agent |-> None, handoffs |-> <<>>, chunks |-> 0,
           retrieved |-> {}, past |-> {},
           events |-> <<>>, agentEvents |-> <<>>, message |-> None,
           composed |-> None, fallback |-> FALSE, draft |-> None,
           usedFallback |-> FALSE]
NoPipe == [by |-> "owner", stage |-> "input", next |-> 1,
           text |-> Fallback, events |-> <<>>]

(* AgentResponse::content of a response with these fields.                 *)
Content(message, composed) == IF composed # None THEN composed ELSE message

(* What a request returned: the content() of it and (inner) the content()  *)
(* of the agent_response a knowledge agent hands on; and the private data  *)
(* of the agent_response's history, whose last entry is its message, and   *)
(* of the retrieved_chunks.                                                *)
NoReply == [result |-> "none", content |-> None, inner |-> None, events |-> <<>>,
            agent |-> None, handoffs |-> <<>>, chunks |-> 0,
            history |-> {}, retrieved |-> {}]

Init ==
  /\ owner \in [kind : {"team", "knowledge"}, router : {"none", "static", "llm", "custom"},
                composes : SUBSET Parties, guards : Pipelines]
  /\ owner.kind = "knowledge" => owner.router = "none"
  /\ at = "idle"
  /\ pipe = NoPipe
  /\ call = NoCall
  /\ reply = NoReply
  /\ history = {}
  /\ log = <<>> /\ handed = None /\ asked = None /\ shown = {} /\ routes = 0

aux == <<log, handed, asked, shown, routes>>
Team == owner.kind = "team"
Goto(s) == at' = s

-----------------------------------------------------------------------------
(***************************************************************************)
(* GuardrailPipeline::check and the guardrails.                            *)
(***************************************************************************)
StartCheck(by, stage, text) ==
  /\ Goto("checking")
  /\ pipe' = [by |-> by, stage |-> stage, next |-> 1, text |-> text, events |-> <<>>]

(* apply_guardrails of the owner: a request without a pipeline passes, as  *)
(* it does with an empty one.                                              *)
OwnerCheck(stage, text) == StartCheck("owner", stage, text)

(* The decision of a guardrail: its action, the text after it, and for a   *)
(* block whether it comes with a fallback message.                         *)
Allow(t) == [action |-> "allow", text |-> t, fallback |-> FALSE]
Modify(t) == [action |-> "modify", text |-> t, fallback |-> FALSE]
Block(t, fallback) == [action |-> "block", text |-> t, fallback |-> fallback]

(* PrivateInfoRedactionGuardrail *)
Redact(t) == IF t.private # {} THEN {Modify([t EXCEPT !.private = {}])} ELSE {Allow(t)}

(* EmptyAnswerGuardrail *)
EmptyAnswer(t, stage) ==
  IF stage = "output" /\ t.blank THEN {Block(t, FALSE)} ELSE {Allow(t)}

(* NoHallucinationFallbackGuardrail *)
NoHallucination(t, stage) ==
  IF stage = "context" /\ (t.blank \/ call.chunks = 0) THEN {Block(t, TRUE)} ELSE {Allow(t)}

(* What may be put in the place of a text: anything without private data   *)
(* of its own, of which a blank text has none; a prompt is blank when its  *)
(* context is, and may still hold the question.                            *)
Replacements(t) ==
  {u \in [from : {t.from}, private : SUBSET t.private, blank : BOOLEAN, mods : {t.mods}] :
     u.blank /\ u.from # "prompt" => u.private = {}}

(* A guardrail of the application: it may decide anything, but adds no     *)
(* private data of its own.                                                *)
Custom(t) ==
  {Allow(t)} \cup {Block(t, f) : f \in BOOLEAN} \cup {Modify(u) : u \in Replacements(t)}

Decisions(kind, t, stage) ==
  CASE kind = "redact"   -> Redact(t)
    [] kind = "nonempty" -> EmptyAnswer(t, stage)
    [] kind = "grounded" -> NoHallucination(t, stage)
    [] kind = "custom"   -> Custom(t)

(* Mutants: a modification is applied to the text of the request, and not  *)
(* to what earlier guardrails made of it; a modification is not applied.   *)
AfterStale(d, g) == IF d.action = "modify" THEN [pipe.text EXCEPT !.mods = <<g>>] ELSE d.text
AfterIgnored(d, g) == pipe.text

After(d, g) == IF d.action = "modify" THEN [d.text EXCEPT !.mods = Append(@, g)] ELSE d.text

CheckNext ==
  /\ at = "checking" /\ pipe.next <= Len(Guards(pipe.by))
  /\ \E d \in Decisions(Guards(pipe.by)[pipe.next], pipe.text, pipe.stage) :
       LET event == [by |-> pipe.by, stage |-> pipe.stage, guard |-> pipe.next,
                     action |-> d.action]
       IN  /\ pipe' = [pipe EXCEPT !.events = Append(@, event), !.next = @ + 1,
                       !.text = After(d, [by |-> pipe.by, guard |-> pipe.next])]
           /\ log' = Append(log, event)
           /\ IF d.action = "block"
              THEN Goto("blocked") /\ call' = [call EXCEPT !.fallback = d.fallback]
              ELSE UNCHANGED <<at, call>>
  /\ UNCHANGED <<owner, reply, history, handed, asked, shown, routes>>

(* The end of a pipeline that let the text through, and of one that did    *)
(* not; its events are added to those of the party that ran it.            *)
Passed(by, stage) ==
  /\ at = "checking" /\ pipe.next > Len(Guards(by))
  /\ pipe.by = by /\ pipe.stage = stage
Blocked(by, stage) == at = "blocked" /\ pipe.by = by /\ pipe.stage = stage

-----------------------------------------------------------------------------
(***************************************************************************)
(* The beginning and the end of a request.                                 *)
(***************************************************************************)
(* id is the agent the caller names, or None.                              *)
Begins(id) ==
  /\ at = "idle"
  /\ \E private \in SUBSET {"question"} : OwnerCheck("input", Fresh("question", private, FALSE))
  /\ call' = [NoCall EXCEPT !.agent = id]
  /\ log' = <<>> /\ handed' = None /\ asked' = None /\ shown' = {} /\ routes' = 0
  /\ reply' = NoReply
  /\ UNCHANGED <<owner, history>>

(* KnowledgeAgent::ask and AgentTeam::ask.                                 *)
Ask == Begins(None)

(* AgentTeam::ask_with_agent: without the router.                          *)
AskWithAgent(id) == Team /\ Begins(id)

Returns(r) ==
  /\ Goto("idle")
  /\ pipe' = NoPipe /\ call' = NoCall
  /\ reply' = r
  /\ UNCHANGED <<owner, history>>

(* An error carries none of the events; nor does a dropped future.         *)
Errs == Returns([NoReply EXCEPT !.result = "error"]) /\ UNCHANGED aux

(* A guardrail, the router, the retriever, the agent's store, the client   *)
(* or a composer fails, or the future is dropped.                          *)
Fails ==
  /\ \/ at = "checking" /\ pipe.next <= Len(Guards(pipe.by))
     \/ at \in {"routing", "retrieving", "chatting", "saving", "agent composing",
                "owner composing"}
  /\ Errs

-----------------------------------------------------------------------------
(***************************************************************************)
(* The owner up to the call of its agent.                                  *)
(***************************************************************************)
Shows(text) == shown' = shown \cup {text}

(* agent.ask(text): the input stage of the agent comes first.              *)
AgentAsk(text) == StartCheck("agent", "input", text) /\ handed' = text

OwnerInputBlocked == Blocked("owner", "input") /\ Errs

(* The question is what the guardrails of the owner made of it.            *)
TakesQuestion ==
  /\ call' = [call EXCEPT !.question = pipe.text, !.events = pipe.events]
  /\ Shows(pipe.text)
  /\ UNCHANGED <<owner, reply, history, log, asked, routes>>

(* A team needs agents and a router.                                       *)
CanRoute == Members # {} /\ owner.router # "none"

OwnerInputPassed ==
  /\ Passed("owner", "input") /\ call.agent = None
  /\ IF Team /\ ~CanRoute THEN Errs
     ELSE /\ TakesQuestion
          /\ Goto(IF Team THEN "routing" ELSE "retrieving") /\ pipe' = NoPipe
          /\ UNCHANGED handed

(* ensure_agent_exists, or agents.get_mut; an UnknownAgent otherwise.       *)
EnsureAgentExists(id) == id \in Members

(* ask_with_agent goes to its agent, which nobody checked before.          *)
DirectInputPassed ==
  /\ Passed("owner", "input") /\ call.agent # None
  /\ IF EnsureAgentExists(call.agent) THEN TakesQuestion /\ AgentAsk(pipe.text) ELSE Errs

(* RouteDecision::Agent, and RouteDecision::Handoff from one agent to another. *)
AgentDecisions(ids) == [to : ids, handoff : {None}]
HandoffDecisions == [to : Ids, handoff : Ids]

(* What TeamRouter::route may answer: the one agent of StaticRouter, which *)
(* nobody has checked; an agent of the team for LlmRouter, which fails on  *)
(* any other answer of its model; anything for a router of the application.*)
RouteDecisions ==
  CASE owner.router = "static" -> AgentDecisions(Ids)
    [] owner.router = "llm"    -> AgentDecisions(Members)
    [] owner.router = "custom" -> AgentDecisions(Ids) \cup HandoffDecisions

RouteTo(id) ==
  IF ~EnsureAgentExists(id)
  THEN /\ Returns([NoReply EXCEPT !.result = "error"])
       /\ UNCHANGED <<log, handed, asked, shown>>
  ELSE /\ call' = [call EXCEPT !.agent = id]
       /\ AgentAsk(call.question)
       /\ UNCHANGED <<owner, reply, history, log, asked, shown>>

(* Mutant: the handoff is checked, but not recorded.                       *)
HandOffUnrecorded(from, to) ==
  IF \/ Len(call.handoffs) >= MaxHandoffRounds
     \/ ~EnsureAgentExists(from) \/ ~EnsureAgentExists(to)
  THEN /\ Returns([NoReply EXCEPT !.result = "error"])
       /\ UNCHANGED <<log, handed, asked, shown>>
  ELSE UNCHANGED <<at, pipe, owner, call, reply, history, log, handed, asked, shown>>

HandOff(from, to) ==
  IF \/ Len(call.handoffs) >= MaxHandoffRounds
     \/ ~EnsureAgentExists(from) \/ ~EnsureAgentExists(to)
  THEN /\ Returns([NoReply EXCEPT !.result = "error"])
       /\ UNCHANGED <<log, handed, asked, shown>>
  ELSE /\ call' = [call EXCEPT !.handoffs = Append(@, <<from, to>>)]
       /\ UNCHANGED <<at, pipe, owner, reply, history, log, handed, asked, shown>>

Route ==
  /\ at = "routing"
  /\ routes' = routes + 1
  /\ \E d \in RouteDecisions :
       IF d.handoff = None THEN RouteTo(d.to) ELSE HandOff(d.handoff, d.to)

(* n chunks fit the context; without one it is blank, with one it has at   *)
(* least its source line.                                                  *)
Retrieve ==
  /\ at = "retrieving"
  /\ \E n \in 0..MaxChunks, private \in SUBSET {"context"} :
       /\ n = 0 => private = {}
       /\ call' = [call EXCEPT !.chunks = n, !.retrieved = private]
       /\ OwnerCheck("context", Fresh("context", private, n = 0))
  /\ UNCHANGED <<owner, reply, history, aux>>

(* compose_prompt *)
Prompt(question, context) ==
  [from |-> "prompt", private |-> question.private \cup context.private,
   blank |-> context.blank, mods |-> question.mods \o context.mods]

-----------------------------------------------------------------------------
(***************************************************************************)
(* The answer.                                                             *)
(***************************************************************************)
Composed(text, by) == [text EXCEPT !.mods = Append(@, [by |-> by, guard |-> 0])]

(* The response of the request, before and after its answer composer: with *)
(* the chunks as they were retrieved and, but for a fallback, all of the   *)
(* agent's response.                                                       *)
Reply(c, content) ==
  [result |-> IF c.usedFallback THEN "fallback" ELSE "answer", content |-> content,
   inner |-> IF Team \/ c.usedFallback THEN None ELSE Content(c.message, c.composed),
   events |-> c.events, agent |-> c.agent, handoffs |-> c.handoffs, chunks |-> c.chunks,
   history |-> IF c.usedFallback THEN {} ELSE c.past \cup c.message.private,
   retrieved |-> c.retrieved]

Responds(c) ==
  IF "owner" \in owner.composes
  THEN /\ Goto("owner composing") /\ pipe' = NoPipe
       /\ call' = c
       /\ UNCHANGED <<owner, reply, history>>
  ELSE Returns(Reply(c, c.draft))

OwnerComposes ==
  /\ at = "owner composing"
  /\ Returns(Reply(call, Composed(call.draft, "owner")))
  /\ UNCHANGED aux

(* KnowledgeAgent::fallback_response: without the agent's response.        *)
RespondsFallback ==
  Responds([call EXCEPT !.draft = Fallback, !.usedFallback = TRUE,
                        !.events = @ \o pipe.events])

(* The agent is asked the question with the context.                       *)
AsksAgent ==
  /\ call' = [call EXCEPT !.events = @ \o pipe.events]
  /\ AgentAsk(Prompt(call.question, pipe.text))
  /\ UNCHANGED <<owner, reply, history>>

(* Mutant: a blocked context is only replaced when the guardrail brought a *)
(* fallback message.                                                       *)
OwnerContextBlockedUnlessFallback ==
  /\ Blocked("owner", "context")
  /\ IF call.fallback THEN RespondsFallback /\ UNCHANGED handed
     ELSE AsksAgent
  /\ UNCHANGED <<log, asked, shown, routes>>

OwnerContextBlocked == Blocked("owner", "context") /\ RespondsFallback /\ UNCHANGED aux

(* Mutant: only a missing context gives the fallback, not a blank one.     *)
OwnerContextPassedBlank ==
  /\ Passed("owner", "context")
  /\ IF call.chunks = 0 THEN RespondsFallback /\ UNCHANGED handed
     ELSE AsksAgent
  /\ UNCHANGED <<log, asked, shown, routes>>

OwnerContextPassed ==
  /\ Passed("owner", "context")
  /\ IF call.chunks = 0 \/ pipe.text.blank THEN RespondsFallback /\ UNCHANGED handed
     ELSE AsksAgent
  /\ UNCHANGED <<log, asked, shown, routes>>

(* Agent::ask, which loads, pushes the question and chats.  The histories  *)
(* are one: the agents of a team may share a session.  One that has lost a *)
(* turn, or that no session joins to the others, holds less.               *)
AgentInputPassed ==
  /\ Passed("agent", "input")
  /\ call' = [call EXCEPT !.agentEvents = pipe.events]
  /\ asked' = pipe.text
  /\ history' = history \cup pipe.text.private
  /\ Goto("chatting") /\ pipe' = NoPipe
  /\ UNCHANGED <<owner, reply, log, handed, shown, routes>>

(* The model may repeat anything of the history, and add data of its own.  *)
Answers ==
  {Fresh("answer", private, FALSE) : private \in SUBSET ({"answer"} \cup history)}
    \cup {Fresh("answer", {}, TRUE)}

(* Mutant: the answer is pushed before the output stage.                   *)
ChatPushes ==
  /\ at = "chatting"
  /\ \E answer \in Answers : /\ StartCheck("agent", "output", answer)
                            /\ history' = history \cup answer.private
  /\ UNCHANGED <<owner, call, reply, aux>>

Chat ==
  /\ at = "chatting"
  /\ \E answer \in Answers : StartCheck("agent", "output", answer)
  /\ UNCHANGED <<owner, call, reply, history, aux>>

AgentBlocked == (Blocked("agent", "input") \/ Blocked("agent", "output")) /\ Errs

(* The answer is pushed; what the owner later makes of it goes into the    *)
(* response, which has a copy of the history, and not into the history.    *)
AgentOutputPassed ==
  /\ Passed("agent", "output")
  /\ call' = [call EXCEPT !.agentEvents = @ \o pipe.events, !.message = pipe.text,
                          !.past = history]
  /\ history' = history \cup pipe.text.private
  /\ Goto("saving") /\ pipe' = NoPipe
  /\ UNCHANGED <<owner, reply, aux>>

(* The composer of the agent is given the message; what it makes of it is  *)
(* the content() of the response, next to the message.                     *)
Save ==
  /\ at = "saving"
  /\ Goto(IF "agent" \in owner.composes THEN "agent composing" ELSE "answered")
  /\ UNCHANGED <<owner, pipe, call, reply, history, aux>>

AgentComposes ==
  /\ at = "agent composing"
  /\ call' = [call EXCEPT !.composed = Composed(call.message, "agent")]
  /\ Goto("answered")
  /\ UNCHANGED <<owner, pipe, reply, history, aux>>

(* Mutant: the events of the agent are left out.                           *)
AnsweredWithoutEvents ==
  /\ at = "answered"
  /\ UNCHANGED call
  /\ OwnerCheck("output", Content(call.message, call.composed))
  /\ UNCHANGED <<owner, reply, history, aux>>

(* Back in the owner.                                                      *)
Answered ==
  /\ at = "answered"
  /\ call' = [call EXCEPT !.events = @ \o call.agentEvents]
  /\ OwnerCheck("output", Content(call.message, call.composed))
  /\ UNCHANGED <<owner, reply, history, aux>>

(* Only a knowledge agent has a use for the fallback message of a block.   *)
OwnerOutputBlocked ==
  /\ Blocked("owner", "output")
  /\ IF ~Team /\ call.fallback THEN RespondsFallback /\ UNCHANGED aux ELSE Errs

(* Mutant: the checked text always goes into the message.                  *)
RewriteMessage(c, text) == [c EXCEPT !.message = text]

(* The checked text replaces what content() gives: the composed answer if  *)
(* there is one, the message otherwise.                                    *)
Rewrite(c, text) ==
  IF c.composed # None THEN [c EXCEPT !.composed = text] ELSE [c EXCEPT !.message = text]

OwnerOutputPassed ==
  /\ Passed("owner", "output")
  /\ LET c == Rewrite(call, pipe.text)
     IN  Responds([c EXCEPT !.events = @ \o pipe.events,
                            !.draft = IF Team THEN Content(c.message, c.composed) ELSE pipe.text])
  /\ UNCHANGED aux

Next ==
  \/ Ask
  \/ \E id \in Ids : AskWithAgent(id)
  \/ CheckNext
  \/ OwnerInputBlocked \/ OwnerInputPassed \/ DirectInputPassed \/ Route \/ Retrieve
  \/ OwnerContextBlocked \/ OwnerContextPassed
  \/ AgentInputPassed \/ Chat \/ AgentBlocked \/ AgentOutputPassed
  \/ Save \/ AgentComposes \/ Answered
  \/ OwnerOutputBlocked \/ OwnerOutputPassed \/ OwnerComposes
  \/ Fails

Spec == Init /\ [][Next]_vars

-----------------------------------------------------------------------------
(***************************************************************************)
(* Properties.                                                             *)
(***************************************************************************)
(* The k-th of a set of positions. *)
Nth(k, positions) == CHOOSE i \in positions : Cardinality({j \in positions : j <= i}) = k

(* The guardrails of these parties whose decisions in these stages were to *)
(* modify the text, in the order of the decisions.                         *)
Modifying(decisions, parties, stages) ==
  {i \in 1..Len(decisions) : /\ decisions[i].action = "modify"
                             /\ decisions[i].by \in parties /\ decisions[i].stage \in stages}

Rewriter(decision) == [by |-> decision.by, guard |-> decision.guard]

Rewrites(decisions, parties, stages) ==
  LET positions == Modifying(decisions, parties, stages)
  IN  [k \in 1..Cardinality(positions) |-> Rewriter(decisions[Nth(k, positions)])]

ComposerOf(by) == IF by \in owner.composes THEN <<[by |-> by, guard |-> 0]>> ELSE <<>>

(* The rewriters of an answer, before the composer of the owner. *)
Vetted == Rewrites(log, {"agent"}, {"output"}) \o ComposerOf("agent")
            \o Rewrites(log, {"owner"}, {"output"})

(* What the model is asked is the question (and the context) with every    *)
(* rewriting that the guardrails before it decided, in their order, and    *)
(* the router, the retriever and the output stage are given the question   *)
(* with those of the owner's input stage: each guardrail works on what the *)
(* one before it made (guardrail.rs, GuardrailPipeline::check).            *)
AskedAsReported ==
  /\ asked # None => asked.mods = Rewrites(log, Parties, {"input", "context"})
  /\ \A q \in shown : q.mods = Rewrites(log, {"owner"}, {"input"})

(* The content() of an answer, and of the agent_response next to it, is    *)
(* the model's answer with every rewriting the output stages decided, with *)
(* the agent's composer between the two, whether or not it has one         *)
(* (knowledge_agent.rs, team/mod.rs).                                      *)
AnswerAsReported ==
  reply.result = "answer" =>
    /\ reply.content.mods = Vetted \o ComposerOf("owner")
    /\ owner.kind = "knowledge" => reply.inner.mods = Vetted

(* An answer or a fallback comes with the events of every decision made    *)
(* for it, in order: "Every pipeline check records GuardrailEvent values"  *)
(* (docs/guardrails-and-composer.md).                                      *)
EventsComplete == reply.result \in {"answer", "fallback"} => reply.events = log

Redacting(by) == \E i \in 1..Len(Guards(by)) : Guards(by)[i] = "redact"

(* With a redacting guardrail in the owner's pipeline, private data of the *)
(* question reaches nobody, in this request or in a later one; that of a   *)
(* chunk reaches the caller in retrieved_chunks only, and the model never; *)
(* that of an answer is in no content(), but stays in the history, which   *)
(* the caller gets and the next request sends.                             *)
PrivateStaysIn ==
  Redacting("owner") =>
    /\ \A q \in shown : q.private = {}
    /\ asked # None => asked.private = {}
    /\ \A text \in {reply.content, reply.inner} : text # None => text.private = {}
    /\ history \cup reply.history \subseteq {"answer"}
    /\ reply.retrieved \subseteq {"context"}

(* Only a redacting guardrail of the agent itself keeps the history clean: *)
(* with one, no private data reaches the agent's model or its history, nor *)
(* the caller but in retrieved_chunks, whatever the owner checks, as both  *)
(* stages of the agent come before the push (runtime.rs, Agent::ask).      *)
HistoryRedacted ==
  Redacting("agent") =>
    /\ asked # None => asked.private = {}
    /\ \A text \in {reply.content, reply.inner} : text # None => text.private = {}
    /\ history \cup reply.history = {}

IsBlock(e) == e.action = "block"

(* A block is the last decision of a request.  In the input or context     *)
(* stage, or at the agent's input, it keeps the model from being asked; no *)
(* request that was blocked returns an answer of the model, and what it    *)
(* does return is the fallback of a knowledge agent.                       *)
BlockedIsNotUsed ==
  \A i \in 1..Len(log) : IsBlock(log[i]) =>
    /\ i = Len(log)
    /\ log[i].stage # "output" => asked = None
    /\ reply.result # "answer"
    /\ reply.result = "fallback" =>
         owner.kind = "knowledge" /\ log[i].by = "owner" /\ log[i].stage # "input"

AgentRewroteInput ==
  \E i \in 1..Len(log) :
    log[i].by = "agent" /\ log[i].stage = "input" /\ log[i].action = "modify"

(* A knowledge agent hands its agent a prompt with a context that is not   *)
(* blank after its guardrails, of at least one chunk, and the model gets   *)
(* that prompt unless a guardrail of the agent itself replaces it; an      *)
(* answer has such a prompt behind it, and every other reply is the        *)
(* fallback message, without a response of the agent.                      *)
GroundedOrFallback ==
  /\ owner.kind = "knowledge" =>
       /\ handed # None => handed.from = "prompt" /\ ~handed.blank
       /\ reply.result = "answer" => asked # None /\ reply.chunks > 0
  /\ asked # None => handed # None /\ (asked = handed \/ AgentRewroteInput)
  /\ reply.result = "fallback" => reply.content.from = "fallback" /\ reply.inner = None

(* However the router decides, it is asked at most once more than the      *)
(* handoffs a team allows, and each of these is between its agents.        *)
RoutingEnds ==
  /\ routes <= MaxHandoffRounds + 1
  /\ \A i \in 1..Len(call.handoffs) : {call.handoffs[i][1], call.handoffs[i][2]} \subseteq Members
=============================================================================
