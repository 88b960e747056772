----------------------------- MODULE Transcript -----------------------------
(***************************************************************************)
(* The chat transcript an agent keeps and a session store persists: a      *)
(* sequence of messages.  A message is abstracted to what the properties   *)
(* tell apart:                                                             *)
(*   role   "user", "calls" (an assistant message that requests tools),    *)
(*          "tool" (the reply to one of them) or "answer" (an assistant    *)
(*          message without tool calls);                                   *)
(*   turn   the question the message belongs to;                           *)
(*   call   on "calls" the number n >= 1 of requested tools; on "tool" the *)
(*          tool_call_id it replies to.  The ids of one "calls" message    *)
(*          are named n, n-1, ..., 1 in the order the agent runs them.     *)
(***************************************************************************)
EXTENDS Naturals, Sequences

CONSTANTS Turns,        \* identities of the questions put to the agents
          MaxCalls      \* bound: tool calls in one assistant message

ASSUME MaxCallsAssumption == MaxCalls \in Nat \ {0}

Roles == {"user", "calls", "tool", "answer"}

Message == [role : Roles, turn : Turns, call : 0..MaxCalls]

(***************************************************************************)
(* The constructors of types/message.rs: ChatMessage::user, ::tool and     *)
(* ::assistant, and the assistant message the model returns with calls.    *)
(***************************************************************************)
User(t)      == [role |-> "user",   turn |-> t, call |-> 0]
Calls(t, n)  == [role |-> "calls",  turn |-> t, call |-> n]
ToolMsg(t, i) == [role |-> "tool",   turn |-> t, call |-> i]
Answer(t)    == [role |-> "answer", turn |-> t, call |-> 0]

(* Vec::truncate: no effect when the history is already that short. *)
Truncate(h, n) == IF Len(h) > n THEN SubSeq(h, 1, n) ELSE h

(* The message asks nothing more of the tools: the model may speak next. *)
ModelMaySpeak(m) == m.role = "user" \/ (m.role = "tool" /\ m.call = 1)

(***************************************************************************)
(* The protocol of the chat API: which message may come right after p.     *)
(* Every requested tool call gets exactly one reply, in order, before the  *)
(* model speaks again; a question comes only after an answer.              *)
(***************************************************************************)
MayFollow(p, m) ==
  \/ m.role = "user" /\ p.role = "answer"
  \/ m.role \in {"calls", "answer"} /\ m.turn = p.turn /\ ModelMaySpeak(p)
  \/ /\ m.role = "tool" /\ m.turn = p.turn
     /\ \/ p.role = "calls" /\ m.call = p.call
        \/ p.role = "tool"  /\ m.call + 1 = p.call /\ m.call > 0

(* A transcript the chat API accepts, possibly in the middle of a turn. *)
WellPaired(h) ==
  /\ h # <<>> => h[1].role = "user"
  /\ \A i \in 1..(Len(h) - 1) : MayFollow(h[i], h[i + 1])

(* A transcript of complete turns only. *)
Closed(h) == WellPaired(h) /\ (h # <<>> => h[Len(h)].role = "answer")

TurnsIn(h) == {h[i].turn : i \in 1..Len(h)}
=============================================================================
