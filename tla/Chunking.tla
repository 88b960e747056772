------------------------------ MODULE Chunking ------------------------------
(***************************************************************************)
(* The cutting of a document into chunks (src/knowledge/chunking.rs) and   *)
(* of the retrieved chunks to the context of a knowledge agent             *)
(* (limit_context_chunks of src/knowledge_agent.rs).                       *)
(*                                                                         *)
(* A text is a sequence of characters; a character is a letter, which is   *)
(* its number in the document, or white space.  Numbered letters show what *)
(* part of the document a chunk is.                                        *)
(***************************************************************************)
EXTENDS Integers, Sequences, SequencesExt

Space   == 0
Newline == -1

IsLetter(char) == char > 0
Blank(text) == \A i \in DOMAIN text : ~IsLetter(text[i])
LetterAt(text) == {i \in DOMAIN text : IsLetter(text[i])}

(* The letters of a text. *)
Letters(text) ==
  LET add(letters, char) == IF IsLetter(char) THEN Append(letters, char) ELSE letters
  IN FoldLeft(add, <<>>, text)

(* str::trim and str::trim_end *)
TrimEnd(text) == IF Blank(text) THEN <<>> ELSE SubSeq(text, 1, Max(LetterAt(text)))
Trim(text) ==
  IF Blank(text) THEN <<>> ELSE SubSeq(text, Min(LetterAt(text)), Max(LetterAt(text)))

(* str::lines *)
Lines(text) ==
  LET add(lines, char) == IF char = Newline THEN Append(lines, <<>>)
                          ELSE [lines EXCEPT ![Len(lines)] = Append(@, char)]
  IN FoldLeft(add, <<<<>>>>, text)

(* flush_paragraph and flush_chunk: the loops collect the finished texts   *)
(* and the one they are at.                                                *)
Started == [done |-> <<>>, current |-> <<>>]
Flush(acc) ==
  [done    |-> IF Blank(acc.current) THEN acc.done ELSE Append(acc.done, Trim(acc.current)),
   current |-> <<>>]

AddLine(acc, line) ==
  IF Blank(line) THEN Flush(acc)
  ELSE [acc EXCEPT !.current =
         IF @ = <<>> THEN TrimEnd(line) ELSE @ \o <<Newline>> \o TrimEnd(line)]

Paragraphs(content) == Flush(FoldLeft(AddLine, Started, Lines(content))).done

(* split_large_text: pieces of max characters, then trimmed. *)
SplitLargeText(text, max) ==
  LET pieces == [i \in 1..((Len(text) + max - 1) \div max) |->
                   Trim(SubSeq(text, (i - 1) * max + 1, Min({i * max, Len(text)})))]
      add(done, piece) == IF piece = <<>> THEN done ELSE Append(done, piece)
  IN FoldLeft(add, <<>>, pieces)

BlankLine == <<Newline, Newline>>

(* A paragraph is cut if it is too long, and otherwise joined to the       *)
(* current chunk if it fits behind it.                                     *)
AddParagraph(acc, paragraph, max) ==
  CASE Len(paragraph) > max ->
         [Flush(acc) EXCEPT !.done = @ \o SplitLargeText(paragraph, max)]
    [] Len(paragraph) <= max /\ acc.current = <<>> ->
         [acc EXCEPT !.current = paragraph]
    [] OTHER ->
         IF Len(acc.current) + 2 + Len(paragraph) <= max
         THEN [acc EXCEPT !.current = @ \o BlankLine \o paragraph]
         ELSE [Flush(acc) EXCEPT !.current = paragraph]

Pieces(content, max) ==
  LET add(acc, paragraph) == AddParagraph(acc, paragraph, max)
  IN Flush(FoldLeft(add, Started, Paragraphs(content))).done

(* suffix_chars *)
Suffix(text, n) == SubSeq(text, Len(text) - n + 1, Len(text))

(* Mutated: the separator is not counted. *)
OverlapLenUnseparated(previous, chunk, options) ==
  Min({options.overlap, Len(previous), options.max - Len(chunk)})

(* How much of the chunk before it a chunk repeats: what the overlap       *)
(* allows and the chunk leaves free after the separator.                   *)
OverlapLen(previous, chunk, options) ==
  LET available == options.max - Len(chunk)
  IN IF available <= 2 THEN 0 ELSE Min({options.overlap, Len(previous), available - 2})

(* apply_overlap, where the chunk before is the one already overlapped. *)
Overlapped(pieces, options) ==
  LET add(chunks, chunk) ==
        LET n == IF chunks = <<>> THEN 0 ELSE OverlapLen(Last(chunks), chunk, options)
        IN Append(chunks, IF n = 0 THEN chunk ELSE Suffix(Last(chunks), n) \o BlankLine \o chunk)
  IN FoldLeft(add, <<>>, pieces)

(* validate_input and chunk_document *)
CannotChunk(content, options) == Blank(content) \/ options.max = 0
ChunkDocument(content, options) == Overlapped(Pieces(content, options.max), options)

-----------------------------------------------------------------------------
(***************************************************************************)
(* The context of a question.  A source line is a number of characters.    *)
(***************************************************************************)
CONSTANT SourceLine

ASSUME SourceLineAssumption == SourceLine \in Nat \ {0}

(* Mutated: the separators are not counted. *)
IncludeUnseparated(acc, text, budget) ==
  LET available == budget - acc.used - SourceLine
      included  == SubSeq(text, 1, Min({Len(text), available}))
      used      == acc.used + SourceLine + Len(included)
  IN IF acc.full \/ available <= 0 THEN [acc EXCEPT !.full = TRUE]
     ELSE [texts |-> Append(acc.texts, included), used |-> used, full |-> used >= budget]

(* One round of the loop of limit_context_chunks: a chunk that does not    *)
(* fit is cut, and one that has no room for its source line ends the loop. *)
Include(acc, text, budget) ==
  LET overhead  == SourceLine + 2
      available == budget - acc.used - overhead
      included  == SubSeq(text, 1, Min({Len(text), available}))
      used      == acc.used + overhead + Len(included)
  IN IF acc.full \/ available <= 0 THEN [acc EXCEPT !.full = TRUE]
     ELSE [texts |-> Append(acc.texts, included), used |-> used, full |-> used >= budget]

LimitContext(texts, budget) ==
  LET add(acc, text) == Include(acc, text, budget)
  IN FoldLeft(add, [texts |-> <<>>, used |-> 0, full |-> budget = 0], texts).texts

(* context_block: the source line, a line end and the text of each chunk,  *)
(* and a blank line between two chunks.                                    *)
ContextLen(texts) ==
  LET add(n, text) == n + (IF n = 0 THEN 0 ELSE 2) + SourceLine + 1 + Len(text)
  IN FoldLeft(add, 0, texts)
=============================================================================
