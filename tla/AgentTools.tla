----------------------------- MODULE AgentTools -----------------------------
(***************************************************************************)
(* The tools of an agent (src/agent/tool.rs and src/agent/runtime.rs): its *)
(* own tools, the ToolRegistry it shares with other agents, the            *)
(* definitions a request offers the model and the tools the model calls.   *)
(* The application uses the agent through &mut self, so an agent that asks *)
(* keeps the tools it has.  A tool is a name and what it does.             *)
(***************************************************************************)
CONSTANTS Names,     \* names of functions
          Impls,     \* tools that are registered under a name
          None

VARIABLES
  tools,       \* Agent::tools: name -> the agent's own tool, or None
  registry,    \* Agent::tool_registry: name -> the shared tool, or None
  shared,      \* the ToolRegistry the application builds
  asking,      \* the agent asks
  offered,     \* name -> the tool whose definition the last request offers
  ran,         \* the tool that ran last in this ask, and its name, or None
  unchecked    \* auxiliary: names given to with_tool, tool or add_tool

toolVars == <<tools, registry, shared, asking, offered, ran, unchecked>>

NoTools == [n \in Names |-> None]

Init ==
  /\ tools = NoTools /\ registry = NoTools /\ shared = NoTools
  /\ asking = FALSE /\ offered = NoTools /\ ran = None
  /\ unchecked = {}

Ask == UNCHANGED <<asking, offered, ran>>

(* ToolRegistry::add_tool refuses a name it has: DuplicateTool. *)
RegistryAddTool(n, i) ==
  /\ ~asking /\ shared[n] = None
  /\ shared' = [shared EXCEPT ![n] = i]
  /\ UNCHANGED <<tools, registry, unchecked>> /\ Ask

NewRegistry ==
  /\ ~asking
  /\ shared' = NoTools
  /\ UNCHANGED <<tools, registry, unchecked>> /\ Ask

(* Mutated: the names of the agent's own tools are not looked at. *)
SetToolRegistryUnchecked ==
  /\ ~asking
  /\ registry' = shared
  /\ UNCHANGED <<tools, shared, unchecked>> /\ Ask

(* set_tool_registry, with ensure_registry_compatible; a registry that the *)
(* agent had is replaced.                                                  *)
SetToolRegistry ==
  /\ ~asking
  /\ \A n \in Names : tools[n] # None => shared[n] = None
  /\ registry' = shared
  /\ UNCHANGED <<tools, shared, unchecked>> /\ Ask

(* with_tool, tool and add_tool: what had the name is replaced, and a      *)
(* shared tool of that name is shadowed.                                   *)
AddTool(n, i) ==
  /\ ~asking
  /\ tools' = [tools EXCEPT ![n] = i]
  /\ unchecked' = unchecked \cup {n}
  /\ UNCHANGED <<registry, shared>> /\ Ask

(* try_add_tool, with ensure_tool_name_available. *)
TryAddTool(n, i) ==
  /\ ~asking
  /\ tools[n] = None /\ registry[n] = None
  /\ tools' = [tools EXCEPT ![n] = i]
  /\ UNCHANGED <<registry, shared, unchecked>> /\ Ask

Configure ==
  \/ \E n \in Names, i \in Impls :
       RegistryAddTool(n, i) \/ AddTool(n, i) \/ TryAddTool(n, i)
  \/ NewRegistry \/ SetToolRegistry

-----------------------------------------------------------------------------
(* tool_definitions: those of the registry, then the agent's own over them. *)
Definitions == [n \in Names |-> IF tools[n] # None THEN tools[n] ELSE registry[n]]

(* build_request, before every call of the model. *)
BuildRequest ==
  /\ asking' = TRUE
  /\ offered' = Definitions
  /\ ran' = None
  /\ UNCHANGED <<tools, registry, shared, unchecked>>

(* Mutated: the registry is searched first. *)
FindToolShared(n) == IF registry[n] # None THEN registry[n] ELSE tools[n]

(* find_tool: the agent's own, or else the shared one. *)
FindTool(n) == IF tools[n] # None THEN tools[n] ELSE registry[n]

(* run_tool_call: the model may name any tool, and give any arguments; an  *)
(* unknown name, or arguments that do not parse, end the ask.              *)
RunToolCall(n) ==
  /\ asking /\ FindTool(n) # None
  /\ ran' = [name |-> n, tool |-> FindTool(n)]
  /\ UNCHANGED <<tools, registry, shared, asking, offered, unchecked>>

AskReturns ==
  /\ asking
  /\ asking' = FALSE /\ offered' = NoTools /\ ran' = None
  /\ UNCHANGED <<tools, registry, shared, unchecked>>

Next ==
  \/ Configure
  \/ BuildRequest \/ AskReturns
  \/ \E n \in Names : RunToolCall(n)

Spec == Init /\ [][Next]_toolVars

-----------------------------------------------------------------------------
(* The tool that runs is the one whose definition the model was given      *)
(* under that name, also when the agent's own tools shadow shared ones; a  *)
(* tool that was not offered does not run.                                 *)
CalledAsOffered == ran # None => ran.tool = offered[ran.name]

(* An own tool shadows a shared one only if it was added on an unchecked   *)
(* path, in whatever order registries and tools are added and replaced     *)
(* (docs/tools.md: "Duplicate names return `Error::DuplicateTool` on       *)
(* checked paths").                                                        *)
ShadowedOnlyUnchecked ==
  \A n \in Names : tools[n] # None /\ registry[n] # None => n \in unchecked
=============================================================================
