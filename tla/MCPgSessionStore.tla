-------------------------- MODULE MCPgSessionStore --------------------------
(* Instances of PgSessionStore for TLC. *)
EXTENDS PgSessionStore, TLC

CONSTANTS m1, m2

(* Transcripts of different lengths, the empty one included, of which one  *)
(* extends the other and one does not.                                     *)
SomeTranscripts == {<<>>, <<m1>>, <<m1, m2>>}

CallerSymmetry == Permutations(Callers)
=============================================================================
