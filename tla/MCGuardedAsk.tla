---------------------------- MODULE MCGuardedAsk ----------------------------
(* Instances of GuardedAsk for TLC. *)
EXTENDS GuardedAsk, TLC

(* Redaction by the owner only, in the order the documentation advises:    *)
(* before the guardrails that inspect the text.  The guardrail of the       *)
(* application may undo what "grounded" saw.                                *)
OwnerRedacts == [owner |-> <<"redact", "grounded", "custom", "nonempty">>,
                 agent |-> <<"custom">>]

(* Redaction by the agent only, after a guardrail of the application.      *)
AgentRedacts == [owner |-> <<"custom">>, agent |-> <<"custom", "redact">>]

OneRedacts == {OwnerRedacts, AgentRedacts}

(* Agents are only compared for equality. *)
MemberSymmetry == Permutations(Members)
=============================================================================
