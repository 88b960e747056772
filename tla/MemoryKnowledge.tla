--------------------------- MODULE MemoryKnowledge ---------------------------
(***************************************************************************)
(* InMemoryKnowledgeBase (src/knowledge/memory.rs) and                     *)
(* InMemoryVectorRetriever (src/retrieval/memory.rs), and the retrieval of *)
(* a knowledge agent (src/knowledge_agent.rs), used by concurrent tasks.   *)
(* An operation of the knowledge base awaits nothing and keeps the lock of *)
(* the documents until it is done; what another thread can see of it are   *)
(* the two locks of a removal.  index and retrieve await the embedder, one *)
(* before it takes its lock, the other with a copy of the entries.         *)
(*                                                                         *)
(* The content of a document is fixed for a behaviour, so a document is    *)
(* there or not; all documents have one source.                            *)
(***************************************************************************)
EXTENDS Chunking

CONSTANTS Tasks,
          Docs,       \* DocumentIds: numbers, in the order the ids sort
          Contents,   \* doc -> its possible contents
          Options,    \* max and overlap of ChunkOptions, top_k and budget of the agent
          None

(* Document ids have an order, and the letters of a content are numbered.  *)
ASSUME KnowledgeAssumption ==
  /\ Docs \subseteq Nat
  /\ Options \subseteq [max : Nat, overlap : Nat, top_k : Nat, budget : Nat]
  /\ \A d \in Docs : \A content \in Contents[d] :
        /\ content \in Seq(Int)
        /\ Letters(content) = [k \in 1..Len(Letters(content)) |-> k]

VARIABLES
  contents,    \* doc -> its content
  options,     \* what the application has chosen
  cut,         \* doc -> what chunk_document makes of it
  documents,   \* the keys of the documents map
  chunks,      \* the keys of the chunks map, whose values are those of cut
  removing,    \* the remove_document between its two locks, or None
  entries,     \* the entries of the retriever: chunks, each with its vector
  latest,      \* auxiliary: the chunks given to the index call answered last
  repeated,    \* auxiliary: that answer named a text twice
  at,          \* task -> the await it is at
  batch,       \* task -> the chunks it has for index, or that index was given
  snapshot,    \* task -> the entries retrieve has copied
  context      \* the context of the question that got it in this step, or None

vars == <<contents, options, cut, documents, chunks, removing, entries, latest, repeated,
          at, batch, snapshot, context>>
base == <<contents, options, cut, documents, chunks, removing>>
index == <<entries, latest, repeated>>

(* chunk_document: the chunks of a document, each with its index; none if  *)
(* the document is refused.                                                *)
ChunksOf(d) ==
  LET texts == IF CannotChunk(contents[d], options) THEN <<>>
               ELSE ChunkDocument(contents[d], options)
  IN [i \in DOMAIN texts |-> [doc |-> d, index |-> i, text |-> texts[i]]]

Init ==
  /\ contents \in [Docs -> UNION {Contents[d] : d \in Docs}]
  /\ \A d \in Docs : contents[d] \in Contents[d]
  /\ options \in Options
  /\ cut = [d \in Docs |-> ChunksOf(d)]
  /\ documents = {} /\ chunks = {} /\ removing = None
  /\ entries = <<>> /\ latest = {} /\ repeated = FALSE
  /\ at = [t \in Tasks |-> "idle"]
  /\ batch = [t \in Tasks |-> <<>>]
  /\ snapshot = [t \in Tasks |-> <<>>]
  /\ context = None

To(t, s) == at' = [at EXCEPT ![t] = s]
Gives(t, list) == batch' = [batch EXCEPT ![t] = list]

-----------------------------------------------------------------------------
(* documents.write() or documents.read() is granted. *)
DocumentsFree == removing = None

(* An error, of a blank content or DuplicateDocument, changes nothing; an  *)
(* add has both locks when it inserts.                                     *)
AddDocument(t, d) ==
  /\ at[t] = "idle" /\ DocumentsFree
  /\ ~CannotChunk(contents[d], options) /\ d \notin documents
  /\ documents' = documents \cup {d}
  /\ chunks' = chunks \cup {d}
  /\ Gives(t, cut[d])
  /\ UNCHANGED <<contents, options, cut, removing, index, at, snapshot>> /\ context' = None

RemoveDocument(t, d) ==
  /\ at[t] = "idle" /\ DocumentsFree
  /\ documents' = documents \ {d}
  /\ removing' = [by |-> t, doc |-> d]
  /\ To(t, "remove")
  /\ UNCHANGED <<contents, options, cut, chunks, index, batch, snapshot>> /\ context' = None

RemoveChunks(t) ==
  /\ at[t] = "remove"
  /\ chunks' = chunks \ {removing.doc}
  /\ removing' = None
  /\ To(t, "idle")
  /\ UNCHANGED <<contents, options, cut, documents, index, batch, snapshot>> /\ context' = None

(* chunks_for_document reads the chunks alone. *)
ChunksForDocument(t, d) ==
  /\ at[t] = "idle"
  /\ Gives(t, IF d \in chunks THEN cut[d] ELSE <<>>)
  /\ UNCHANGED <<base, index, at, snapshot>> /\ context' = None

(* chunks_for_source: those of every document, in the order of the ids. *)
ChunksInOrder(ids) == LET add(list, d) == list \o cut[d] IN FoldLeft(add, <<>>, ids)

ChunksForSource(t) ==
  /\ at[t] = "idle"
  /\ \E ids \in [1..Cardinality(chunks) -> chunks] :
       /\ \A i, j \in DOMAIN ids : i < j => ids[i] < ids[j]
       /\ Gives(t, ChunksInOrder(ids))
  /\ UNCHANGED <<base, index, at, snapshot>> /\ context' = None

-----------------------------------------------------------------------------
(* index: no chunks clear the entries at once. *)
Index(t) ==
  /\ at[t] = "idle"
  /\ IF batch[t] = <<>>
     THEN entries' = <<>> /\ latest' = {} /\ repeated' = FALSE /\ UNCHANGED at
     ELSE To(t, "index") /\ UNCHANGED index
  /\ UNCHANGED <<base, batch, snapshot>> /\ context' = None

(* What the embedder may answer to n texts, as the text_index of each      *)
(* embedding: in order, in another order, one too few, one twice, and out  *)
(* of bounds.                                                              *)
Responses(n) ==
  LET inOrder == [i \in 1..n |-> i]
  IN {inOrder, Reverse(inOrder), SubSeq(inOrder, 1, n - 1),
      [inOrder EXCEPT ![1] = n], [inOrder EXCEPT ![1] = n + 1]}

Before(c, b) == c.doc < b.doc \/ (c.doc = b.doc /\ c.index <= b.index)

(* Vec::sort_by, which keeps equals as they came: each chunk goes behind   *)
(* the last that is before it.                                             *)
Sorted(list) ==
  LET add(sorted, c) ==
        InsertAt(sorted, Max({0} \cup {i \in DOMAIN sorted : Before(sorted[i], c)}) + 1, c)
  IN FoldLeft(add, <<>>, list)

(* Mutated: the entries of other documents stay. *)
ReplacedMerged(new) ==
  LET other(c) == \A i \in DOMAIN new : new[i].doc # c.doc
  IN Sorted(SelectSeq(entries, other) \o new)

(* The store takes all the new entries. *)
Replaced(new) == new

(* The answer is counted and its indexes are looked up; what it names is   *)
(* sorted and replaces all entries, whoever wrote them.                    *)
Indexed(t) ==
  /\ at[t] = "index"
  /\ Gives(t, <<>>)
  /\ \E response \in Responses(Len(batch[t])) :
       IF Len(response) = Len(batch[t]) /\ \A i \in DOMAIN response : response[i] <= Len(batch[t])
       THEN /\ entries' = Replaced(Sorted([i \in DOMAIN response |-> batch[t][response[i]]]))
            /\ latest' = ToSet(batch[t]) /\ repeated' = ~IsInjective(response)
       ELSE UNCHANGED index
  /\ To(t, "idle")
  /\ UNCHANGED <<base, snapshot>> /\ context' = None

-----------------------------------------------------------------------------
(* KnowledgeAgent::ask retrieves: with top_k 0 or no entries at once.  (A   *)
(* task that has chunks for index does not ask; another one may.)          *)
Retrieve(t) ==
  /\ at[t] = "idle" /\ batch[t] = <<>>
  /\ IF options.top_k = 0 \/ entries = <<>>
     THEN context' = <<>> /\ UNCHANGED <<at, snapshot>>
     ELSE /\ snapshot' = [snapshot EXCEPT ![t] = entries]
          /\ To(t, "retrieve") /\ context' = None
  /\ UNCHANGED <<base, index, batch>>

(* The scores may put the chunks in any order; top_k of them are left. *)
Rankings(n) == {p \in [1..Min({options.top_k, n}) -> 1..n] : IsInjective(p)}

Texts(list) == [i \in DOMAIN list |-> list[i].text]

Retrieved(t) ==
  /\ at[t] = "retrieve"
  /\ \E p \in Rankings(Len(snapshot[t])) :
       context' = LimitContext(Texts([i \in DOMAIN p |-> snapshot[t][p[i]]]), options.budget)
  /\ snapshot' = [snapshot EXCEPT ![t] = <<>>]
  /\ To(t, "idle")
  /\ UNCHANGED <<base, index, batch>>

(* The embedder fails, vectors do not fit each other, or the future is     *)
(* dropped at its await.                                                   *)
Fails(t) ==
  /\ at[t] \in {"index", "retrieve"}
  /\ snapshot' = [snapshot EXCEPT ![t] = <<>>]
  /\ Gives(t, <<>>)
  /\ To(t, "idle")
  /\ UNCHANGED <<base, index>> /\ context' = None

Next ==
  \E t \in Tasks :
    \/ \E d \in Docs : AddDocument(t, d) \/ RemoveDocument(t, d) \/ ChunksForDocument(t, d)
    \/ RemoveChunks(t) \/ ChunksForSource(t)
    \/ Index(t) \/ Indexed(t) \/ Retrieve(t) \/ Retrieved(t) \/ Fails(t)

Spec == Init /\ [][Next]_vars

-----------------------------------------------------------------------------
(***************************************************************************)
(* Properties.                                                             *)
(***************************************************************************)

(* The chunks of a document are its text, whatever its paragraphs are and  *)
(* wherever they are cut: none is blank or longer than max_chars, each is  *)
(* a stretch of the text, the first one starts where the text starts and   *)
(* each goes on where the one before it ends, or earlier by at most the    *)
(* overlap, and the last one ends where the text ends.                     *)
ChunksCoverText ==
  \A d \in documents :
    LET n(i)     == Letters(cut[d][i].text)
        first(i) == n(i)[1]
        last(i)  == Last(n(i))
        count    == Len(cut[d])
    IN /\ \A i \in 1..count :
            /\ ~Blank(cut[d][i].text)
            /\ Len(cut[d][i].text) <= options.max
            /\ n(i) = [k \in 1..Len(n(i)) |-> first(i) + k - 1]
            /\ i > 1 => first(i) - last(i - 1) \in (1 - options.overlap)..1 /\ last(i) > last(i - 1)
       /\ first(1) = 1 /\ last(count) = Len(Letters(contents[d]))

(* The entries are those of one index call: of two that overlap the one    *)
(* answered last has all of them and the other none, and a call that is    *)
(* refused, fails or is dropped has left no trace.  No document is in the  *)
(* index in part or twice or out of order, and nothing of the call is      *)
(* missing, unless the embedder named a text twice.                        *)
EntriesOfOneCall ==
  /\ ToSet(entries) \subseteq latest
  /\ ~repeated =>
       /\ latest \subseteq ToSet(entries)
       /\ \A i, j \in DOMAIN entries :
             i < j => entries[i] # entries[j] /\ Before(entries[i], entries[j])
       /\ \A d \in Docs : {c \in ToSet(entries) : c.doc = d} \in {{}, ToSet(cut[d])}

(* The context of a question keeps to max_context_chars, but for the line  *)
(* ends: of three a chunk two are counted, so it may be longer by one      *)
(* character for each chunk after the second.  A chunk in it is not empty. *)
ContextWithinBudget ==
  context # None =>
    /\ ContextLen(context) <= options.budget + Max({0, Len(context) - 2})
    /\ \A i \in DOMAIN context : context[i] # <<>>
=============================================================================
