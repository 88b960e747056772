--------------------------- MODULE MCAgentRuntime ---------------------------
(* Instances of AgentRuntime for TLC. *)
EXTENDS AgentRuntime, TLC

CONSTANTS s1

(* Every agent may start with any session or none, and be moved between    *)
(* sessions by set_session.                                                *)
AnyBinding == [a \in Agents |-> Sessions \cup {None}]

(* All agents share one session, from the start; ask_json, which only adds *)
(* the response format of its own agent to ask, is left to AgentAlone.     *)
SharedBinding == [a \in Agents |-> {s1}]

(* Turns are only compared for equality, and no property is a liveness     *)
(* property: permuting them is a symmetry.                                 *)
TurnSymmetry == Permutations(Turns)
=============================================================================
