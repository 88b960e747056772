------------------------ MODULE MCMemorySessionStore ------------------------
(* Instances of MemorySessionStore for TLC. *)
EXTENDS MemorySessionStore, TLC

(* Callers are only compared for equality. *)
CallerSymmetry == Permutations(Callers)
=============================================================================
