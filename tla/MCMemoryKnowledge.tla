-------------------------- MODULE MCMemoryKnowledge --------------------------
(***************************************************************************)
(* Instances of MemoryKnowledge for TLC: one document of up to three       *)
(* paragraphs of every length that fits, fills or overflows a chunk, with  *)
(* white space inside, around and between them, and one short document.    *)
(***************************************************************************)
EXTENDS MemoryKnowledge

(* A paragraph: letters, with an inner space or line end and white space   *)
(* around it; 1 stands for a letter.                                       *)
Shapes == {<<1>>, <<1, Space, 1, Space>>, <<Space, 1, 1, Newline, 1, Space, 1, 1>>}

Join(ps) == FlattenSeq([i \in DOMAIN ps |-> ps[i] \o BlankLine])

(* The letters of a text numbered. *)
Numbered(text) ==
  [i \in DOMAIN text |-> IF IsLetter(text[i]) THEN Cardinality({j \in 1..i : IsLetter(text[j])})
                         ELSE text[i]]

UpToThree == {Numbered(Join(ps)) : ps \in UNION {[1..n -> Shapes] : n \in 0..3}}
OneLong == <<UpToThree, {<<1, 2>>}>>

ChunkAndContext ==
  {[max |-> o[1], overlap |-> o[2], top_k |-> o[3], budget |-> o[4]] :
     o \in {<<3, 2, 2, 7>>, <<7, 3, 3, 17>>, <<9, 4, 2, 0>>, <<0, 0, 0, 8>>}}

TaskSymmetry == Permutations(Tasks)
=============================================================================
