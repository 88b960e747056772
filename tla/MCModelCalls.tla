---------------------------- MODULE MCModelCalls ----------------------------
(* Instance of ModelCalls for TLC. *)
EXTENDS ModelCalls
=============================================================================
