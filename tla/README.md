# A TLA+ model of arcone-agent

arcone-agent is a Rust library for LLM agents: an agent keeps a transcript,
calls a chat API and tools, and saves the transcript to a session store;
around it are knowledge bases with retrievers, guardrails, teams of agents and
a Python binding. This directory holds TLA+ modules of its stateful parts, the
TLC runs that check them on small instances, and proofs that TLAPS checks.
Line numbers are of the files under `src/`; PROJECT.json maps each definition
to the lines it models, and lists runs, mutants, findings, hazards, theorems.

To repeat a run: `tlc -config AgentShared.cfg MCAgentRuntime.tla`. To repeat
the proofs: `tlapm AgentRuntimeProofs.tla`, and the same for the other
`...Proofs.tla` modules.

## 1. Inventory

| Component | State it keeps | Operations | Hard behaviour | What makes it correct |
|---|---|---|---|---|
| Agent runtime (`src/agent/runtime.rs`) | `history`, `session_id`, `config.response_format`; a stream's `initial_history_len`, text and flags | `ask` with the tool loop, `ask_json`, `ask_text`, `stream`, `finish`, `Drop`, `set_session`, `clear_history`, `clear_session` | every await may fail or be dropped; load-modify-save of whole histories; several agents on one session | requests are well formed for the chat API; stored transcripts are sequences of complete turns; sessions do not mix; failed turns and streams leave nothing behind |
| Session store interface (`src/session/store.rs`) | messages and metadata per session | `load_messages`, `save_messages`, `load_metadata`, `save_metadata`, `clear`, `exists` | concurrent callers, lost acknowledgements | every operation is atomic |
| In-memory store (`src/session/memory.rs`) | two maps under two locks | the six operations | operations over both locks | implements the interface |
| PostgreSQL store (`src/session/postgres.rs`, `src/postgres.rs`) | rows of two tables, a bounded pool, transactions | the six operations | statement interleaving, row locks, rollback, crash or drop in mid-transaction | implements the interface |
| Streamed answers (`src/stream.rs`) | byte buffer, queue of decoded events, done flag | `push`, `next_event`, `next_text`, `finish` | frames cut anywhere, cut bodies, errors in mid-stream | nothing lost, repeated or reordered; an answer is whole or an error |
| Python binding (`crates/arcone-agent-py/src/lib.rs`) | agent behind a mutex, worker task, command channel, closed flag, cached response | `ask`, Python tools, `from_agent`, iteration, `finish`, `close`, cancellation, garbage collection | two Python tasks on one stream; the worker owns the agent while it waits; a tool may await the agent that called it | close wins over a later finish; an error ends the stream; calls return; a closed stream frees the agent |
| Guardrail pipeline (`src/guardrail.rs`) | none; the text and events of a check | `check` | each guardrail works on what the one before it made; a block ends the check | every decision is applied, in order, and reported; what redaction removes does not come back |
| Knowledge agent, composers (`src/knowledge_agent.rs`, `src/composer.rs`) | the locals of a request | `ask` around `Agent::ask` | three guardrail stages, fallbacks, two texts of one answer; a stage fails after another has taken effect | what was blocked is not passed on; no prompt without context is handed to the agent; what is returned is what the output stage checked |
| Team, routers (`src/team/mod.rs`) | handoffs of a request | `ask`, `ask_with_agent` | a router that always hands off | the routing loop ends; handoffs are between agents of the team |
| Chunking (`src/knowledge/chunking.rs`), context (`src/knowledge_agent.rs:377-422`) | none | `chunk_document`, `limit_context_chunks` | arithmetic of limits, separators and overlaps | limits respected, text covered |
| In-memory knowledge base, vector retriever (`src/knowledge/memory.rs`, `src/retrieval/memory.rs`) | maps and a list under locks | `add_document`, `remove_document`, the reads, `index`, `retrieve` | two locks; `index` replaces everything after an await | documents and chunks agree; the index is of the call answered last |
| PostgreSQL knowledge base (`src/knowledge/postgres.rs`) | rows of documents and chunks | `add_document`, `remove_document`, the reads | races of check and insert, partial transactions | documents are all or nothing and never replaced |
| pgvector retriever (`src/retrieval/pgvector.rs`) | rows of embeddings, the dimension of their column | `connect`, `migrate`, `index`, `retrieve` | an await between the chunks read and the rows written; misordered responses; row locks of several indexes; retrievers of different dimensions | an embedding is of its own chunk; a document is indexed whole; indexes do not deadlock; one dimension |
| Tools (`src/agent/tool.rs`, `src/agent/runtime.rs:115-174`) | an agent's tools, a registry shared between agents | `add_tool`, `try_add_tool`, `set_tool_registry`, the lookup of a call | checked and unchecked additions in any order; a name in both places | the tool that runs is the one that was offered |
| Chat client, embedder (`src/client/`, `src/retrieval/openai.rs`) | none | `chat`, `stream_chat`, `embed_texts` | refusal, timeout, error status, cut body, drop | what is sent and returned is in `ModelCalls`; that a wait for a response ends is the HTTP client's timer |
| Messages, errors, configuration | data | constructors, serde | none | only the roles and tool call ids matter |

How they interact: an `Agent` owns its history and calls the store, the client
and its tools from one future; only the store is shared between agents. A
stream borrows the agent mutably until it is finished or dropped. In Python a
worker task holds the agent's mutex for as long as the stream lives, and Python
tasks talk to it through a command channel. Knowledge agents and teams own
agents and call `Agent::ask`; applications share a knowledge base and a
retriever between them, and with PostgreSQL these share tables, linked by
foreign keys.

Nothing but the two PostgreSQL parts survives a crash. A crash of the process
is, for those, a rollback of the open transactions or a commit nobody heard of;
both are steps of the models.

## 2. Modules

| Module | Models | State, and what it stands for | Uses |
|---|---|---|---|
| `Transcript` | messages: role, turn, tool call id | none; defines what a well formed and a complete transcript is | |
| `AgentRuntime` | agents over a store | per agent `history`, `session`, `format` (the response format), `call` (the locals of the call in progress and the await it is `at`); `store`; auxiliary `turns` (who asked a turn, in which session and how, what vetted it, and its fate) and `cleared` | `Transcript` |
| `SessionStore` | the promise of `MemoryStore` | `db`, and `call`: per caller the operation, whether it took effect, what it may answer | |
| `MemorySessionStore` | memory.rs, lock by lock | `sessions`, `metadata`, `clearing` and `looked` (operations between their two locks), `call` | implements `SessionStore` |
| `PgSessionStore` | session/postgres.rs, statement by statement | `agent_sessions`, `agent_messages` (committed rows), `locked`, `deleted`, `written` (open transactions), `at`, `call` | implements `SessionStore` |
| `ChatStream` | SSE decoder, `ChatStream`, the text side of `AgentStream` | `eol`, `body`, `buffer`, `pending`, `done`, `read`, `content`, `at`; auxiliary `wire`, `returned`, `failed` | |
| `AgentTools` | tool.rs, and the tools of an agent | `tools`, `registry`, `shared` (the registry being built), `asking`, `offered` (what the last request offers), `ran`; auxiliary `unchecked` | |
| `ModelClient` | one HTTP call of the chat client or the embedder | `beta`, `call` | |
| `ModelCalls` | what an agent asks of its provider: tools, call and streamed answer | those of the three | `AgentTools`, `ModelClient`, `ChatStream` |
| `PyAgentStream` | the binding's agent and tools, worker, channel and stream object | `queue` (the mutex), `moved`, `task`, `worker`, `serving`, `commands`, `state`, `handle`, `deltas`; auxiliary `fact` | |
| `GuardedAsk` | requests of a knowledge agent or team | `owner` (what it is and has), `at`, `pipe` (the check in progress), `call`, `reply`, `history` (the private data the agents may send again); auxiliary `log`, `handed`, `asked`, `shown`, `routes` | |
| `Chunking` | chunking.rs and the context budget | operators on texts | |
| `MemoryKnowledge` | in-memory knowledge base and retriever, and retrieval of a context | `documents`, `chunks`, `removing`, `entries`, per task `at`, `batch`, `snapshot`; `context`; auxiliary `latest` (the chunks of the index call answered last) and `repeated`; `contents`, `options`, `cut` are chosen at the start | `Chunking` |
| `PgKnowledge` | knowledge tables and the index over them | `documents`, `chunks`, `embeddings` (committed rows), `dimension` of the column, per task `dim`, `at`, `arg`, `batch`, `rows`, `vectors`, `reply`; auxiliary `overtaken` | |

`MC...` modules give the constants of a run values. `...Proofs` modules extend
their component. In modules with mutants the mutated operators stand before the
definition they replace, marked so by their comments.

An action is a stretch of code between two awaits (or two lock operations, or
two statements), with the code before and after it that nothing can interleave
with. A dropped future is an action of its own at every await: Rust runs no
code then but the destructors, so the action keeps what the code had done and
releases what the borrow held. In Python, cancellation of a task is the same.

`AgentRuntime` uses an atomic store. That this is sound is what `Atomic` of the
two store runs checks, and section 5 proves: both implementations refine
`SessionStore`, whose operations take effect at one instant between call and
return, and may take effect without the caller hearing of it. `AgentRuntime` has
the latter as a save that takes effect and then fails. The one difference: a
COMMIT in flight when the future of an ask is dropped is taken to land by the
drop, not later.

Correspondence in detail:

* `AgentRuntime`. `Ask` and `AskJson` begin; `InputPasses`, `LoadOk`,
  `ModelCallsTools`, `ToolReplies`, `ModelAnswers`, `OutputPasses`, `SaveOk`
  and `Compose` are what follows each await of lines 269-367 when it succeeds,
  `InputBlocked`, `LoadFails`, `ChatFails`, `ToolFails`, `OutputBlocked`,
  `SaveFails` when it does not, and `ToolLoopExceeded` the bound of the loop.
  `DropAsk` is a dropped future. A stream is `Stream`, `StreamLoadOk`, `OpenOk`,
  `StreamFails`, `DropOpening` (lines 392-419), `Finish`, `Drained`, `FinishOk`,
  `FinishFails` (653-679); `Rollback` is the destructor (682-688). What the
  model is sent is `BuildRequest`.
* `PgSessionStore` and `PgKnowledge`: READ COMMITTED. A statement sees what is
  committed when it runs; an UPSERT takes a row lock and waits for another
  holder's; an INSERT waits for a transaction with the same key; a drop or a
  failure before COMMIT rolls back; a COMMIT may succeed unheard. Rows are kept
  by position, and a load reads them in that order (`InOrder`, the ORDER BY).
* `PyAgentStream`: `task[t]` is the Python method in progress; the worker is
  lines 421-475; the closed flag is read where the code reads it. A handler of a
  tool that awaits the agent is in `queue` once more, behind the ask that called
  it; cancelling that ask leaves the handler, which is a task of its own. A
  cancelled call gives up its place in the queue (`Without`); a worker gives it
  up when it returns (`Quits`).
* `ModelCalls`: `AskModel` is `build_request` with `chat`, `OpenStream` with
  `stream_chat`; `Answer` and `TimesOut` are the await of the response and of
  its body, `RunTool` is `run_tool_call`. The application configures the tools
  between two asks only, because it uses the agent through `&mut self`.
* `PgKnowledge`: a task connects (`Connect`, `CreateTable`, `ValidateTable`,
  `CreateVectorIndex`) before it does anything else; `arg` and `batch` are the
  locals of a call, and the chunks an application keeps between two calls.
* `ChatStream`: a line is what it means to the decoder (data with a text,
  [DONE], blank, other, malformed); a frame is any piece of the body that still
  comes, so it may end between the two line ends of a delimiter.
* `GuardedAsk`: a text is what it was made from, whose private data it holds (of
  the question, of a chunk, of an answer), whether it is blank, and the list of
  what rewrote it since. That list is what ties what is asked and answered to
  the decisions that the events report: `Rewrites` is who rewrote in which
  stage, according to the log. A prompt holds the private data of the question
  and of the context, and is blank when its context is. `Reply` is all the
  caller gets: content() of the response and of the agent's response, the
  history in that one, and the chunks as they were retrieved. `history` is
  pushed to where `Agent::ask` pushes, the question after the input stage of the
  agent and the answer after the output stage, so what the owner makes of an
  answer later is not in it; the model may repeat all of it in an answer.
  `handed` is what the owner gave the agent, `asked` what the agent sent. A team
  and a knowledge agent share the module because their requests differ in the
  middle only: `Route` with `RouteTo` and `HandOff`, or `Retrieve` with the
  context stage.
* `Chunking`: a text is a sequence of numbered letters, spaces and line ends,
  so lengths are exact and every letter can be found again in the chunks.

## 3. Runs

| Run | Instance | What it shows |
|---|---|---|
| `AgentAlone` | 1 agent, 2 sessions, 3 turns, at most 2 tool calls per reply, 1 tool round; 3,964,723 states | requests are well paired, sessions do not mix, an answered turn is not lost, JSON mode leaks only by a drop, a stream rolls back |
| `AgentShared` | 2 agents, 1 session, 3 turns, 1 tool call; `ask` and `stream` (`MayCall`) | stored transcripts are complete and distinct, asked turns vetted; failed turns leave no trace; a cleared turn comes back only by a race |
| `AgentLostUpdate` | as `AgentShared`, 2 turns | **violated**: a later save drops an answered turn |
| `MemoryStoreAtomic` | 3 callers, 2 sessions; 417,051 states | refinement of `SessionStore` |
| `PgStoreAtomic` | 3 callers, 1 session, 2 connections, transcripts up to 2 messages; 159,180 states | refinement of `SessionStore`; connections, row locks and keys never leave everyone waiting; who waits, by `Waits`, is who has no step (ENABLED) |
| `ModelCalls` | 2 tool names, 2 tools, one of them strict; one streamed answer of 2 texts and 4 lines in frames up to 4 units; 1,667,977 states | the tool offered is the tool that runs, names are shadowed on unchecked paths only; decoding, whole answers, what is read is what is saved |
| `PyStreams` | 2 tasks, 1 stream, 1 delta, 2 commands, a provider that answers; 65,488 states | one user of the agent at a time, close wins, errors end the stream, calls return, close releases |
| `PyStreamStalled` | 1 task, 1 stream; the provider owes nothing | **violated**: a closed stream keeps the agent |
| `GuardedAsk` | team or knowledge agent; either it has the guardrails redact, grounded, custom, nonempty and its agent custom, or it has custom and its agent custom, redact (`OneRedacts`); 2 agents and a stranger; 2 handoffs; at most 1 chunk; every router and every choice of composers; 797,370 states | requests, answers and events are what the guardrails decided; where private data may be, by who redacts; blocks hold; answers are grounded; routing ends |
| `MemoryKnowledge` | 2 tasks, 2 documents, the first any text of up to 3 paragraphs of 3 shapes; 4 settings of chunk size, overlap, `top_k` and budget; 714,162 states | chunks cover the text and keep their size; the index is of the call answered last; the context keeps its budget |
| `PgKnowledgeTables` | 2 tasks, 2 documents, contents of 1 and 2 chunks, 2 dimensions; 415,941 states | whole documents, fresh embeddings, whole indexes, no deadlock of indexes, one dimension, no replacement |
| `PgKnowledgeRace` | the same | **violated**: a duplicate add is reported as a database error |

Why the bounds are enough. Two agents give every interleaving of one load and
one save around another; a third turn is needed so that a turn lands between
them or follows a failed one. Two tool calls tell an interrupted list of replies
from a finished one; one round reaches both the loop and its bound. Two callers
race in the stores and the third observes; one session id is enough for
PostgreSQL because row locks are per session, and transcripts of two messages
tell a half-written one from a whole one. Four lines hold two data events with
their blank lines or a data event and [DONE]; frames from one unit up cut at
every place. Two Python tasks are the one that holds the agent and the one that
waits or interferes. Four guardrails put each built-in one before and after one
that may replace the text, in a pipeline whose events precede those of another;
in each of the two choices of guardrails one party redacts and the other does not;
private data is a set of three sources, so it is seen whose data is where, and
as the history stays from request to request no bound on their number is needed;
two handoffs reach the bound from below. The paragraph shapes are shorter than,
equal to and longer than the chunk sizes, with and without white space at the
cuts; three chunks are the fewest whose separators can exceed the budget.
Documents of one and of two chunks tell a partial insert or index from a whole
one, and an index over a source has chunks of both. Two dimensions are one that
the table has and one that it has not. Two names and two tools put one tool
under two names and two under one. `AgentShared` leaves `ask_json` out, which
shares all its steps with `ask` but the response format that `AgentAlone`
checks. A second stream in `PyStreams` is more than TLC explores in minutes;
another holder of the agent is there as an ask, and the safety properties are
proved for any number of tasks and streams.

Deadlock is checked in every run but `ModelCalls`, where the owner of a stream
may stop reading it or has nothing left to do with it. Every property of a
passing run has a mutant in PROJECT.json, a plausible bug in the named
definition that makes TLC find it violated.

Some properties exclude what the code does allow, and say so.
`ContextWithinBudget` grants the rendered context the separators that the budget
does not count (see 4). `RequestsWellPaired` says nothing of an agent without a
session whose history keeps a failed turn: nothing ever takes that turn out but
`clear_history`. `CallsReturn` lets a call wait for an agent that is kept by a
stream nobody ends or by a tool that awaits its own agent.
`IndexesNeverDeadlock` is about chunks in the order in which the code gives them
out. `EntriesOfOneCall` does not expect all chunks of the call after a response
that names a text twice, which the code accepts (see 4); even then there is
nothing of another call. `PrivateStaysIn` lets the caller have private data in
`retrieved_chunks` and that of answers in the history, because the code does not
redact these, and `GroundedOrFallback` lets an input guardrail of the agent
replace the prompt, because nothing checks it after that.

### Fairness

Liveness is checked of `PyAgentStream` only. There `RuntimeFairness` is weak
fairness of what the runtimes decide: tokio and asyncio both poll what is ready,
the mutex and the channel are first in, first out. It is justified because
nothing in the code blocks a thread. `ProviderFairness` says that an awaited
provider in the end sends something, an end or an error, that the handler of a
Python tool in the end returns unless it waits for its own agent, and that an
ask ends after finitely many tool calls (`max_tool_rounds`; strong fairness,
because each tool call interrupts it). The code guarantees the first in no way
(the client's timeout ends with the headers), so `StalledSpec` drops it, and
there `CloseReleases` fails. No fairness is assumed of callers: a task may stop
using a stream at any time, and dropping or cancelling it is never forced.

## 4. Divergences found

Runs that end in a violation (PROJECT.json, findings): concurrent agents lose
answered turns; `close()` does not cancel a stalled provider; concurrent
duplicate documents give a database error.

Seen while modelling, without a run:

* Streams bypass guardrails and composer (runtime.rs:392-419, 653-679);
  docs/guardrails-and-composer.md:16-18 does not except them. `AskedTurnsVetted`
  is therefore about `ask` and `ask_json`.
* `exists()` is true for a session with metadata only (store.rs:34,
  memory.rs:107-126).
* The PostgreSQL store writes default metadata with the messages
  (postgres.rs:161-176); store.rs:28 says None if there is none.
* A session cleared by one agent comes back with the save of another that had
  loaded it (runtime.rs:261-267). `ClearedReturnsByRaceOnly` says that this is
  the only way.
* A Python tool that awaits the agent it is a tool of waits for ever, and so
  does every other call of that agent, until one of the two is cancelled
  (crates/arcone-agent-py/src/lib.rs:55, 126).
* `KnowledgeAgent.from_agent` loses the agent when its retriever is refused
  (crates/arcone-agent-py/src/lib.rs:1268-1269).
* `add_tool` and `with_tool` shadow a shared tool of the same name
  (runtime.rs:535); from then on the shared one cannot be called.
* From three chunks on the context block is longer than `max_context_chars`, by
  a character for each chunk after the second (knowledge_agent.rs:377-422;
  docs/knowledge-and-retrieval.md:221).
* `ToolOutput::from_history` gives the tool outputs of all earlier turns, and
  what a composer of the owner adds passes no guardrail.
* When a team or knowledge agent rewrites or blocks an answer, the agent has
  already pushed and saved it as it was (runtime.rs:322-335), so the next
  request sends it to the model; the caller finds the unrewritten answer in the
  history of the response, and in its message too if the agent has a composer
  (team/mod.rs:343-347, knowledge_agent.rs:196-200). Only a guardrail of the
  agent itself prevents that (`HistoryRedacted`).
* `retrieved_chunks` of a response has the chunks as they were found, not what
  the context stage made of them (knowledge_agent.rs:202-210, 353-364).
* An input guardrail of the agent is given the composed prompt and may replace
  it, so the model may be asked without context, which the owner looked at
  before (runtime.rs:273-292).
* A document that is removed and added anew while an index of its old chunks
  awaits the embedder has embeddings of the old text (`overtaken` in
  `PgKnowledge`).
* The in-memory index accepts an answer of the embedder that names one text
  twice and leaves another out (`repeated` in `MemoryKnowledge`); the pgvector
  retriever refuses it.

## 5. Proofs

| Theorem | Module | For every value of the constants |
|---|---|---|
| `TypeCorrect` | `AgentRuntimeProofs` | `[]TypeOK` of `AgentRuntime` |
| `StoredComplete` | `AgentRuntimeProofs` | `[]StoredTranscriptsComplete` |
| `StreamsRollBack` | `AgentRuntimeProofs` | `StreamRollsBack` |
| `Isolated` | `AgentRuntimeProofs` | `[]SessionIsolation` |
| `NoTrace` | `AgentRuntimeProofs` | `[]FailedTurnsLeaveNoTrace` |
| `StoredOnce` | `AgentRuntimeProofs` | `[]StoredTurnsDistinct` |
| `Vetted` | `AgentRuntimeProofs` | `[]AskedTurnsVetted` |
| `ReturnsByRaceOnly` | `AgentRuntimeProofs` | `[]ClearedReturnsByRaceOnly` |
| `JsonByDropOnly` | `AgentRuntimeProofs` | `[]JsonModeLeaksOnlyByDrop` |
| `SentWellPaired` | `AgentRuntimeProofs` | `[]RequestsWellPaired` |
| `NothingLost` | `AgentRuntimeProofs` | `[]NoAnsweredTurnLost`, if no two agents may bind one session (`OwnSessions`) |
| `MemoryTypes` | `SessionStoreProofs` | `[]TypeOK` of `MemorySessionStore` |
| `MemoryAtomic` | `SessionStoreProofs` | `Atomic`: the in-memory store implements `SessionStore` |
| `PgAtomic` | `PgSessionStoreProofs` | `Atomic`: the PostgreSQL store implements `SessionStore` |
| `PgNeverWaitsInCircle` | `PgSessionStoreProofs` | `[]NoCircularWait`: the part of `NeverStuck` without ENABLED |
| `RunsAsOffered` | `ModelCallsProofs` | `[]CalledAsOffered` |
| `CheckedNamesAreFree` | `ModelCallsProofs` | `[]ShadowedOnlyUnchecked` |
| `ReadIsKept` | `ModelCallsProofs` | `[]ReturnedIsRead` of a stream by itself |
| `ReadIsKeptInCalls` | `ModelCallsProofs` | `[]ReturnedIsRead` of a stream among the calls and tools of its agent |
| `DecodesInOrder`, `DecodesInOrderInCalls` | `ModelCallsProofs` | `[]DecodedInOrder` of a stream by itself, and of one among the calls and tools of its agent |
| `AnswersWhole`, `AnswersWholeInCalls` | `ModelCallsProofs` | `[]AnswerWhole`, likewise |
| `Fused` | `ModelCallsProofs` | `FusedAfterDone`: once done, a stream stays done and its answer is not extended |
| `EarlyCloseIsFinal` | `PyAgentStreamProofs` | `[]ClosedNotPersisted` |
| `NoGapPersisted` | `PyAgentStreamProofs` | `[]PersistedUnbroken` |
| `AgentHeldByOne` | `PyAgentStreamProofs` | `[]TypeOK` of `PyAgentStream`, which says who holds the mutex |
| `RoutingBounded` | `GuardedAskProofs` | `[]RoutingEnds` |
| `DecisionsReported` | `GuardedAskProofs` | `[]EventsComplete` |
| `BlockIsFinal` | `GuardedAskProofs` | `[]BlockedIsNotUsed` |
| `AnswersGrounded` | `GuardedAskProofs` | `[]GroundedOrFallback` |
| `PrivateDataBound` | `GuardedAskProofs` | `[]PrivateStaysIn` |
| `HistoryStaysRedacted` | `GuardedAskProofs` | `[]HistoryRedacted` |
| `AskedIsReported` | `GuardedAskProofs` | `[]AskedAsReported` |
| `AnswerIsReported` | `GuardedAskProofs` | `[]AnswerAsReported` |
| `ChunksAreTheText` | `MemoryKnowledgeProofs` | `[]ChunksCoverText` |
| `EntriesAreOfOneCall` | `MemoryKnowledgeProofs` | `[]EntriesOfOneCall` |
| `ContextKeepsBudget` | `MemoryKnowledgeProofs` | `[]ContextWithinBudget` |
| `KnowledgeInvariant` | `MemoryKnowledgeProofs` | `[]KnowledgeInv`, from which the three follow |
| `DocumentsStayWhole` | `PgKnowledgeProofs` | `[]DocumentsWhole` |
| `NeverReplacedByAdd` | `PgKnowledgeProofs` | `NeverReplaced` |
| `DimensionStaysAgreed` | `PgKnowledgeProofs` | `[]DimensionAgreed` |
| `EmbeddingsStayFresh` | `PgKnowledgeProofs` | `[]EmbeddingsFresh` |
| `IndexesAllOrNothing` | `PgKnowledgeProofs` | `[]IndexedWhole` |
| `IndexesDeadlockFree` | `PgKnowledgeProofs` | `[]IndexesNeverDeadlock` |

Assumed: the named ASSUMEs of the modules and, for `NothingLost` only,
`OwnSessions`. None is in none of the sets (`NoneIsNoText` and `NoneIsNoRequest`
say it of records, which TLA+ leaves open); bindings are of sessions;
`MaxToolRounds`, `MaxHandoffRounds` and `MaxChunks` are naturals, `MaxCalls` and
`PoolSize` positive ones; pipelines are of sequences of the four kinds; tasks are
not streams; transcripts are sequences of messages up to a bound; documents are
finitely many numbers (the order of their ids) and a content has at least one
chunk. In memory (`KnowledgeAssumption`) ids are numbers too, sizes are
naturals, and the letters of a content are numbered from 1, which is what lets a
chunk be found in its text; `SourceLineAssumption` says that a source line has a
length. In a stream (`StreamAssumption`) a frame may have a character, and a
text is none of the other meanings of a line. `OwnSessions` says that no session
may be bound to two agents. It is the hypothesis, not an invariant to hope for:
`AgentLostUpdate` shows that the property fails without it.

`AgentRuntime`: `TypeOK` alone is not inductive. That a truncation or an index
into `turns` is well typed needs to know which call is at which await, so it is
proved with `CallInv`: at each await, which turn the call has, that it is the
agent's own and still running, through which api it came, that a load or save
has a session to go to, and that a call at its tools has some left. `StepFrame`
says that a step of one agent leaves the others alone, which makes the step
proof one case per action of one agent (`StepType`, `OwnCallOK`) and one for the
others (`OthersCallOK`). `TypeOK` bounds the tool rounds of a call, so the
theorem includes that no turn exceeds its budget.

`StoredTranscriptsComplete` is not inductive either: what is saved is a local
history, built over several awaits. `TranscriptInv` says what the history of a
bound agent is at each await (complete; complete with an open question; well
paired with as many replies missing as tools are left; complete again when it is
saved) and, for streams, that it is the history the stream started from with the
question, and at the end the answer, appended. A save then stores a closed
transcript, a load starts from one, and a rollback truncates to the start.
Agents without a session are excluded on purpose: their history may keep a
failed turn, and none of it is ever stored (`set_session` is followed by a
load).

The proofs of the sessions add whose turns a history holds. `SessionInv` says of
each store and of each bound agent between its load and its save that every turn
of the history is of the session, is there once, has a fate with which it may be
stored or is the agent's own running one, and was vetted as far as its call has
come. Isolation, no trace, once and vetted all follow, because a load copies a
store and a save a history. `RaceInv` says the same of clears: a history with a
cleared turn also has a turn of a call that had loaded before the clear.
`LocalInv` covers agents without a session, whose history is well paired unless
a failed turn is in it; only a load or a clear takes that out. `JsonInv`: the
format is JSON only while an `ask_json` runs, or after one was dropped (its fate
is abandoned or, from the save on, cut: an error gives it another), and the
format it will restore is not JSON unless one was dropped before. `KeptInv`
needs `OwnSessions`: between the load and the save of an agent nobody else
writes its store, so all that the store holds is in the history that is saved.

`MemorySessionStore`: the refinement mapping `Held` shows a session whole until
the second half of its clear, so an exists that runs between the two halves, or
is between its own two locks, must answer what `SessionStore` would have allowed
at some instant of its call. `StoreInv` says so: what holds now is among the
possible answers of every running read (`Current`); an exists that found no
messages and finds no metadata later may answer FALSE (`Looked`); a session that
is half cleared has no messages (`Removed`), and the one who clears it is
running a clear of it (`LockHeld`). `ReadReturns` then maps every answer to a
`Return` of `SessionStore`, and `TakesIsEffect` a write to its `Effect`.

`PgSessionStore`: the mapping `Held` shows what is committed, so of a save only
the COMMIT is an effect, and that one must leave exactly its transcript.
`StoreInv` says what makes it so. `Tables`: a session without a row has no
messages (the foreign key), and the rows of one with messages are those of one
transcript. `Transactions`: whoever is past the first statement of a save has
the row of the session locked; what it deleted are all rows the session has,
since nobody else can have committed any meanwhile; what it wrote is a prefix of
what it was given. Of a session without a row, an uncommitted row of another
save is met as its key. `InOrderOfRows` then reads the rows back as the
transcript, and `Current` is the same as in `MemorySessionStore`. For
`NoCircularWait`, `Holders` says that whoever has locked a row is between the
first statement and the COMMIT of a save of that session. It has its connection,
its next statement waits for no row, and no key it inserts is taken, so it waits
for nothing; and if nobody has locked a row, only a full pool makes anyone wait,
and those who have its connections do not.

`ModelCalls`: `ToolsInv` ties the last request to the tools the agent has now,
which do not change while it asks. It needs nothing of the client and the
stream.

`ChatStream` (in `ModelCallsProofs`): `ReadInv` adds that nobody reads a stream
that is read to its end, and that a stream is done only when `AgentStream` knows
it. It holds for any result of the decoder, so `ReadIsKept` and `Fused` use no
fact about the decoder.

`DecodedInOrder` and `AnswerWhole` need what it computes. `AnswerInv` divides
all that arrived: as long as there was no error, the wire is what was taken off
followed by the buffer, what was taken off ends with a blank line and its data
lines are those popped followed by those pending, the answer is the texts of the
popped ones, [DONE] is not among these before the stream is done, and the buffer
has no delimiter (`Taken`). The decoder never sees where a frame ended; that the
division is the same for every cut is `PushDecodes`: each turn of the loop moves
one event, with its delimiter, from the rest to what was taken off
(`TurnDecodes`), and as a turn takes at least two bytes, half as many turns as
there are bytes leave no delimiter (`Stopped`). The wire may still end in a
blank line of which the buffer has only the second line end, because the first
was taken off with an event; `BlankLineBehind` shows that nothing but line ends
is left then (`CompleteTexts`). It needs that the server keeps to one line end
(`LineEnds`, from the frames it may send: `FrameFollows`). An answer is whole
because the [DONE] that is popped is the first of the wire (`DoneIsWhole`), or
because what is left at the end of the body is white space (`EndIsWhole`). The
loops are recursive functions; there is one, whatever a step computes
(`Recursion`), and what is to be shown of it is a set of numbers, as below for
`MemoryKnowledge`. `AnswerInv` held in all 1.67 million states of the instance
of `ModelCalls`.

Every step of `ModelCalls` is a step of `ChatStream` or leaves it alone, so the
same holds there.

`PyAgentStream`: an error and a persisted answer both end the worker, so a
stream never has both. `CloseAhead` says that after an early close there is a
close in the channel with no finish before it, whatever was sent behind it,
taken or orphaned by a cancellation; so the worker meets the close first
(`StreamInv`). `TypeOK` says that whoever works with the agent is the head of
the queue of its mutex. It is not inductive: a head that leaves hands the agent
to the next one. `Queued` adds that whoever waits is in the queue, a handler
that waits for its own agent behind the ask that called it, so that cancelling
that ask leaves it there; and that no worker holds an agent that was taken,
because `Take` needs an empty queue. `QueueGrows`, `QueueShrinks` and
`QueueLoses` say what arriving, leaving and giving up do to all this; `Ended` is
the part about the cached response.

`GuardedAsk`: `RouteInv` counts: the router has been asked once per handoff when
it is asked again, and the owner's input stage begins with neither. `Accounted`
says which lists of events make up the log at each await: those the owner has,
those it has from the agent, those of the check in progress; so none is lost or
counted twice where the lists are joined. `Stopped` says that only a check that
ended blocked, and the owner composing a fallback, are behind a block, by whom
it was made, and that the agent has not asked before its output stage.
`Grounded` says that a prompt whose context is not blank, and a chunk for it,
are behind every request of a knowledge agent from the await of the agent on,
and that what the agent checks at its input is what it was handed until a
guardrail rewrites it. `Redacted(by)` bounds the private data of each text at
each await by three sets: what the owner gives away (`Given`), what the agent
sends (`Told`) and what its history keeps (`Kept`). They depend on whether a
pipeline has a redacting guardrail: once a check is past it the text has no
private data, and as a rewriting brings in none, no later step of that pipeline
does. The answer may hold what the history holds, so the bounds are of all
requests together; the guardrails stay as they are (`OwnerStays`). `PrivateStaysIn` and `HistoryRedacted` are the two cases of
that invariant. `RewriteInv` ties the rewritings a text carries to the log at
each await (`AskedFor`, `AnsweredWith`): the text of a check to the decisions of
its stage so far, what is behind it to those of the stages before. The log is
one list and the stages pick from it, so the lemmas about `Rewrites` are what
carries the proof: an entry of the stage appends to its selection
(`RewritesAppend`), any other leaves it as it is (`RewritesOther`). They rest on
the rank of an entry among the selected ones being a bijection
(`RankIsInjection`, `NthHasRank`), for which `Rewrites` is defined by rank and
not with SelectSeq.

`PgKnowledge`: `DocumentsWhole` is about committed rows, but a commit writes
what a transaction has gathered over many statements. `PgInv` says what each
task has done at its statement (`TasksDo`), that two open adds are of different
documents, neither of which is there (`Exclusive`, from the unique keys), and
that the chunk of an uncommitted embedding exists (`WrittenExist`, from the
foreign keys). `NeverReplaced` follows from the same invariant.
`DimensionAgreed` has its own: the column, once made, does not change. `HeldInv`
is about what a task takes from one call to another: the chunks it holds are,
with each, all chunks of its document in the order of their ids, and they are of
the content the document has now unless the document was overtaken; and the
vectors of an index are those of the texts it was given. So what its COMMIT
writes is whole, and stale only if overtaken. No deadlock of indexes: whoever
waits for a row waits for a task that has gone past it, so in a circle each task
would wait for an earlier row than the one it waits for, and the task with the
last of these rows for nobody.

`MemoryKnowledge`: the hard part is what its pure operators compute, which are
folds. No induction theorem of the library can be used for them (see below), so
each loop has a lemma `...Steps`: there is a function `f` on `0..n` with `f[0]`
what the loop starts with and `f[k]` what it has after `k` elements. What is to
be shown of `f` is then a set of numbers that has 0 and with `k` also `k + 1`,
and such a set has them all (`Induction`, by `LeastNumber` of the others). Along
these lines: cutting a text into lines, paragraphs and pieces and joining what
fits leaves `LettersOf`; hence the letters of the pieces are those of the
content, numbered without a gap, and taking the end of the piece before in front
of each gives `Covers`, with the sizes that `OverlapLen` leaves room for.
`Sorted` inserts each chunk behind those that are before it, so it gives an
ascending list of the same chunks. `LimitContext` counts what `ContextLen`
renders but for one line end of each chunk after the second (`Counted`).
`KnowledgeInv` has four parts. `Cuts`: the chunks of a document that can be cut
are its text. `Held`: what a task holds has all chunks of a document or none
(`AllOrNone`), each once; a copy of the entries is a list of chunks. `Stored`:
the entries are chunks of the call answered last (`latest`) and, unless the
embedder named a text twice, all of them, in ascending order, each once, of each
document all or none; an answer that names each of `n` texts once is a
permutation of them, because an injection of `1..n` into itself is onto.
`Answered`: a context keeps its budget. The invariant was checked with TLC on
the instance of the run before it was proved.

Model-checked only: liveness, and the second half of `NeverStuck`, that `Waits`
is the absence of a step; both are out of the prover's reach, the latter with
ENABLED.

## 6. What is left out

* `AgentRuntime`: builders, which change nothing a call in progress sees; which
  tool a call runs, which is in `ModelCalls`; the content of messages; the
  session metadata agents never use.
* Stores: lock poisoning (nothing panics under a lock); more than one session id
  in `PgStoreAtomic`.
* `PyAgentStream`: `clear_history` and `add_tool`, which only try the lock; more
  than one tool of an ask at a time, which the code does not run; conversions,
  configuration, and what teams and knowledge agents do with an agent they took.
* `ModelCalls`: a stream of an agent with tools (a tool call in a stream is an
  error whatever the tools are); what a body says but for answer or error;
  several calls at once, which share nothing.
* `ChatStream`: one line end per server; no chunk spread over several data
  lines; usage, reasoning and finish reasons; `next_event` after its end, which
  `AgentStream` never calls.
* `GuardedAsk`: what the regular expressions match; the context budget, which is
  a choice of how many chunks fit; composers that change the text, which
  `DefaultAnswerComposer` only trims. The tool loop and the session of the agent
  are in `AgentRuntime`. What is proved of private data supposes that guardrails
  of the application bring none in: they are given the original question and the
  chunks (`GuardrailRequest`) and could, and then no pipeline could promise
  anything. Other than that they may replace any text, the prompt included, by
  any other. It also supposes that the sessions hold only what agents of this
  owner put there, and that the data of tool results counts as that of the
  answer. `history` is one for all agents of a team, as if they shared a
  session, and is never cleared or rolled back: it bounds from above what any of
  them may send, so that both properties hold of less too.
* `MemoryKnowledge`: the content of a document id is fixed in a behaviour; all
  documents have one source; scores may be in any order; a task that has chunks
  to index does not ask meanwhile; the context is kept only in the step that
  renders it; carriage returns.
* `PgKnowledge`: all documents have one source and path; tasks index whole
  documents; the victim of a database deadlock is one case of `Fails`; a
  cascading DELETE is one step that waits for index transactions; the order of
  retrieved chunks; the wait for a connection of the pool, which is held by no
  task that waits for the embedder; the metric and mode of the vector index.
* Configuration, errors, serde, tracing, examples.

## 7. Plan

Done, in this order: transcript and agent runtime with its stores; the Python
worker; stream decoding; PostgreSQL knowledge; guarded requests; chunking and
in-memory knowledge; tools, client and their composition with the stream;
connecting retrievers; Python tools; the refinement proofs of both stores; the
proofs of what agents store and send, of the binding, the tools, the tables, the
guarded requests, the chunking and the stream decoder. Next:

1. An abstract knowledge base that both implementations refine up to
`overtaken`, so that a knowledge agent can be composed with either.
2. The lock-trying calls of the binding, with a stream that owns the agent.
