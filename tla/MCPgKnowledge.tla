--------------------------- MODULE MCPgKnowledge ---------------------------
(* Instances of PgKnowledge for TLC: a short content and a longer one. *)
EXTENDS PgKnowledge, TLC

CONSTANTS short, long

TwoContents == {short, long}
OneOrTwoParts == (short :> 1) @@ (long :> 2)

(* Tasks and dimensions are only compared for equality; documents have an  *)
(* order.                                                                  *)
Symmetry == Permutations(Tasks) \cup Permutations(Dims)
=============================================================================
