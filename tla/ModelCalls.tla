----------------------------- MODULE ModelCalls -----------------------------
(***************************************************************************)
(* What an agent asks of its provider, with the tools it offers, the HTTP  *)
(* call and the streamed answer together (src/agent/runtime.rs,            *)
(* src/client/mod.rs, src/stream.rs): AgentTools, ModelClient and          *)
(* ChatStream composed.  An ask builds a request from the tools, awaits    *)
(* chat, runs the tools the model calls and asks again; a stream is opened *)
(* by stream_chat and then read.  Between asks the application configures  *)
(* the tools and embeds texts.                                             *)
(*                                                                         *)
(* Bound: one streamed answer is read, by an agent without tools; tool     *)
(* calls in a stream are an error whatever the tools are.                  *)
(***************************************************************************)
EXTENDS ChatStream

CONSTANTS Names, Impls,
          Strict,    \* the tools whose definition has strict set
          None

VARIABLES tools, registry, shared, asking, offered, ran, unchecked, beta, call

Tools  == INSTANCE AgentTools
Client == INSTANCE ModelClient

toolsVars == <<tools, registry, shared, asking, offered, ran, unchecked>>
clientVars == <<beta, call>>
callsVars == <<toolsVars, clientVars, vars>>

CallsInit == Init /\ Tools!Init /\ Client!Init

Unconfigured == Tools!Init
Between == ~asking /\ call.at = "idle"
Streaming == call.kind = "stream" /\ call.at = "open"

(* The request offers a tool with a strict definition. *)
OffersStrict == \E n \in Names : Tools!Definitions[n] \in Strict

(* The application configures the agent. *)
Configure ==
  /\ Between /\ wire = <<>>
  /\ Tools!Configure
  /\ UNCHANGED <<clientVars, vars>>

(* ask: build_request and chat, at first or after a round of tool calls.   *)
AskModel ==
  /\ Between \/ (asking /\ call.kind = "chat" /\ call.at = "answered")
  /\ Tools!BuildRequest
  /\ Client!Call("chat", FALSE, OffersStrict)
  /\ UNCHANGED vars

(* Agent::stream: build_request and stream_chat. *)
OpenStream ==
  /\ Between /\ at = "idle" /\ wire = <<>> /\ Unconfigured /\ ~beta
  /\ Tools!BuildRequest
  /\ Client!Call("stream", FALSE, OffersStrict)
  /\ UNCHANGED vars

(* embed_texts, for the index or the retrieval of a knowledge base.        *)
EmbedTexts ==
  /\ Between
  /\ \E empty \in BOOLEAN : Client!Call("embed", empty, FALSE)
  /\ UNCHANGED <<toolsVars, vars>>

(* The call goes on, or its future is dropped. *)
Answer ==
  /\ (\E success \in BOOLEAN : Client!Head(success))
     \/ Client!Breaks \/ Client!Body \/ Client!Drop
  /\ UNCHANGED <<toolsVars, vars>>

TimesOut == Client!TimesOut /\ UNCHANGED <<toolsVars, vars>>

(* run_tool_call, for one of the tool calls of the answer. *)
RunTool ==
  /\ call.kind = "chat" /\ call.at = "answered"
  /\ \E n \in Names : Tools!RunToolCall(n)
  /\ UNCHANGED <<clientVars, vars>>

(* The ask, the stream or the embed call is over. *)
Return ==
  /\ Client!Done
  /\ IF call.kind = "embed" THEN UNCHANGED toolsVars ELSE Tools!AskReturns
  /\ Streaming => at \in {"answered", "dropped"}
  /\ UNCHANGED vars

(* The AgentStream is used by its owner. *)
ReadStream ==
  /\ Streaming
  /\ Next
  /\ UNCHANGED <<toolsVars, clientVars>>

CallsNext ==
  \/ Configure \/ AskModel \/ OpenStream \/ EmbedTexts
  \/ Answer \/ TimesOut \/ RunTool \/ Return \/ ReadStream

CallsSpec == CallsInit /\ [][CallsNext]_callsVars

-----------------------------------------------------------------------------
(***************************************************************************)
(* Properties.                                                             *)
(***************************************************************************)

(* A tool runs only if the last request offered a tool of that name, and   *)
(* then the very tool whose definition the model saw: the agent's own tool *)
(* where it shadows one of the shared registry, in whatever order tools    *)
(* and registries were added, replaced and asked with before.              *)
CalledAsOffered == Tools!CalledAsOffered

(* An own tool shadows a shared one only if it was added on an unchecked   *)
(* path (docs/tools.md: "Duplicate names return `Error::DuplicateTool` on  *)
(* checked paths").                                                        *)
ShadowedOnlyUnchecked == Tools!ShadowedOnlyUnchecked
=============================================================================
