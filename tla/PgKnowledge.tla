----------------------------- MODULE PgKnowledge -----------------------------
(***************************************************************************)
(* PostgresKnowledgeBase (src/knowledge/postgres.rs) and PgVectorRetriever *)
(* (src/retrieval/pgvector.rs) on one database, used by concurrent tasks:  *)
(* add_document, remove_document, list_documents, chunks_for_document,     *)
(* chunks_for_source, index and retrieve.  Adding and indexing are         *)
(* transactions of one statement per row, index after it awaited the       *)
(* embedder; the others are one statement, retrieve's after the embedder.  *)
(* The database runs READ COMMITTED: a statement sees what was committed   *)
(* when it started, and waits for a transaction that wrote a row with the  *)
(* same key.                                                               *)
(*                                                                         *)
(* A document is its content; all documents have one source and path, so   *)
(* the unique index admits a content once.  Chunking cuts a content into   *)
(* its parts; the embedding of a chunk is represented by the text that was *)
(* embedded.  Ranking, which changes nothing, is left out.                 *)
(***************************************************************************)
EXTENDS Naturals, Sequences, SequencesExt

CONSTANTS Tasks,      \* the tasks of the application
          Docs,       \* DocumentIds, as numbers in their order
          Contents,   \* contents of documents
          Parts,      \* content -> the number of chunks it is cut into
          MaxParts,   \* bound: the most chunks of a content
          Dims,       \* embedding dimensions of the tasks' retrievers
          None

ASSUME KnowledgeAssumption ==
  /\ Docs \subseteq Nat /\ IsFiniteSet(Docs)
  /\ None \notin Contents \cup Dims \cup (Contents \X Nat)
  /\ MaxParts \in Nat
  /\ Parts \in [Contents -> 1..MaxParts]

VARIABLES
  documents,    \* knowledge_documents: id -> committed content, or None
  chunks,       \* knowledge_chunks: chunk id -> committed text, or None
  embeddings,   \* knowledge_embeddings: chunk id -> the text embedded, or None
  dimension,    \* the dimension of the column knowledge_embeddings.embedding;
                \* None: there is no table
  dim,          \* task -> the dimension of its retriever, None before it connects
  at,           \* task -> the statement it is at
  arg,          \* task -> the document of its running call
  batch,        \* task -> the chunks it has, of an add, a SELECT or for index
  rows,         \* task -> the rows its transaction has inserted
  vectors,      \* task -> the embeddings index got, as the texts embedded
  reply,        \* task -> what its last call returned; None while one runs
  overtaken     \* auxiliary: documents added anew while a task had old chunks

connected == <<dimension, dim>>
vars == <<documents, chunks, embeddings, connected, at, arg, batch, rows, vectors, reply, overtaken>>
tables == <<documents, chunks, embeddings, overtaken>>

ChunkIds == Docs \X (1..MaxParts)

(* chunk_document: the chunk ids are "{document}:{index}", so a document   *)
(* that is removed and added again has the ids it had.                     *)
ChunkDocument(d, c) == [i \in 1..Parts[c] |-> [id |-> <<d, i>>, text |-> <<c, i>>]]

Init ==
  /\ documents = [d \in Docs |-> None]
  /\ chunks = [k \in ChunkIds |-> None]
  /\ embeddings = [k \in ChunkIds |-> None]
  /\ dimension = None
  /\ dim = [t \in Tasks |-> None]
  /\ at = [t \in Tasks |-> "new"]
  /\ arg = [t \in Tasks |-> None]
  /\ batch = [t \in Tasks |-> <<>>]
  /\ rows = [t \in Tasks |-> 0]
  /\ vectors = [t \in Tasks |-> <<>>]
  /\ reply = [t \in Tasks |-> None]
  /\ overtaken = {}

To(t, s) == at' = [at EXCEPT ![t] = s]

(* A task that is idle calls; the call is at its first statement, s. *)
Calls(t, s) ==
  /\ at[t] = "idle"
  /\ To(t, s)
  /\ reply' = [reply EXCEPT ![t] = None]

(* The call returns; what the transaction held is released. *)
Returns(t, r) ==
  /\ To(t, "idle")
  /\ reply' = [reply EXCEPT ![t] = r]
  /\ rows' = [rows EXCEPT ![t] = 0]
  /\ vectors' = [vectors EXCEPT ![t] = <<>>]

Drops(t) == batch' = [batch EXCEPT ![t] = <<>>]

Working(t) == UNCHANGED <<arg, batch, vectors, reply>>

-----------------------------------------------------------------------------
(***************************************************************************)
(* PgVectorRetriever::connect and migrate: the tables, if they do not      *)
(* exist, the type of the vector column, and its index.                    *)
(***************************************************************************)

(* The schema of the knowledge base; the dimension is in range. *)
Connect(t, n) ==
  /\ at[t] = "new"
  /\ dim' = [dim EXCEPT ![t] = n]
  /\ To(t, "create")
  /\ UNCHANGED <<tables, dimension, rows>> /\ Working(t)

(* CREATE TABLE IF NOT EXISTS, with the retriever's dimension. *)
CreateTable(t) ==
  /\ at[t] = "create"
  /\ dimension' = IF dimension = None THEN dim[t] ELSE dimension
  /\ To(t, "validate")
  /\ UNCHANGED <<tables, dim, rows>> /\ Working(t)

(* connect fails; the application may try again, with other options. *)
NotConnected(t) ==
  /\ To(t, "new")
  /\ dim' = [dim EXCEPT ![t] = None]

(* Mutated: the table is taken as it is. *)
ValidateTableNever(t) ==
  /\ at[t] = "validate"
  /\ To(t, "create index")
  /\ UNCHANGED <<tables, connected, rows>> /\ Working(t)

(* validate_table_dimension *)
ValidateTable(t) ==
  /\ at[t] = "validate"
  /\ IF dim[t] = dimension THEN To(t, "create index") /\ UNCHANGED dim ELSE NotConnected(t)
  /\ UNCHANGED <<tables, dimension, rows>> /\ Working(t)

(* create_vector_index: with Auto, whether it could be created or not. *)
CreateVectorIndex(t) ==
  /\ at[t] = "create index"
  /\ To(t, "idle")
  /\ UNCHANGED <<tables, connected, rows>> /\ Working(t)

MigrationFails(t) ==
  /\ at[t] \in {"create", "validate", "create index"}
  /\ NotConnected(t)
  /\ UNCHANGED <<tables, dimension, rows>> /\ Working(t)

-----------------------------------------------------------------------------
(* A committed call returns; until then its acknowledgement may be lost. *)
Acknowledged(t) ==
  /\ at[t] = "committed"
  /\ Returns(t, "ok")
  /\ UNCHANGED <<tables, arg, batch>>

-----------------------------------------------------------------------------
(***************************************************************************)
(* add_document                                                            *)
(***************************************************************************)

ContentOf(t) == batch[t][1].text[1]

AddDocument(t, d, c) ==
  /\ Calls(t, "exists")
  /\ arg' = [arg EXCEPT ![t] = d]
  /\ batch' = [batch EXCEPT ![t] = ChunkDocument(d, c)]
  /\ UNCHANGED <<tables, rows, vectors>>

(* SELECT EXISTS: the only place DuplicateDocument comes from. *)
Exists(t) ==
  /\ at[t] = "exists"
  /\ IF documents[arg[t]] # None
     THEN Returns(t, "DuplicateDocument") /\ Drops(t)
     ELSE To(t, "insert") /\ UNCHANGED <<batch, rows, vectors, reply>>
  /\ UNCHANGED <<tables, arg>>

(* The transaction of t has inserted its document and not yet ended. *)
Inserting(t) == at[t] \in {"chunks", "commit add"}

SameKey(t, d, c) == arg[t] = d \/ ContentOf(t) = c

(* The INSERT waits for a transaction that has inserted the same key. *)
MayInsert(t) ==
  /\ at[t] = "insert"
  /\ \A u \in Tasks \ {t} : Inserting(u) => ~SameKey(u, arg[t], ContentOf(t))

(* Mutated: the document is inserted outside the transaction. *)
InsertDocumentAutocommit(t) ==
  /\ MayInsert(t)
  /\ IF documents[arg[t]] # None
     THEN Returns(t, "database: document_id") /\ Drops(t) /\ UNCHANGED <<tables, arg>>
     ELSE /\ documents' = [documents EXCEPT ![arg[t]] = ContentOf(t)]
          /\ To(t, "chunks")
          /\ UNCHANGED <<chunks, embeddings, overtaken, rows>> /\ Working(t)

(* Mutated: ON CONFLICT DO UPDATE. *)
InsertDocumentUpsert(t) ==
  /\ MayInsert(t)
  /\ To(t, "chunks")
  /\ UNCHANGED <<tables, rows>> /\ Working(t)

InsertDocument(t) ==
  /\ MayInsert(t)
  /\ \/ /\ documents[arg[t]] # None
        /\ Returns(t, "database: document_id") /\ Drops(t)
     \/ /\ documents[arg[t]] = None
        /\ \E d \in Docs : documents[d] = ContentOf(t)
        /\ Returns(t, "database: content_hash") /\ Drops(t)
     \/ /\ documents[arg[t]] = None
        /\ \A d \in Docs : documents[d] # ContentOf(t)
        /\ To(t, "chunks") /\ UNCHANGED <<rows, batch, vectors, reply>>
  /\ UNCHANGED <<tables, arg>>

InsertChunk(t) ==
  /\ at[t] = "chunks"
  /\ IF rows[t] < Len(batch[t])
     THEN rows' = [rows EXCEPT ![t] = @ + 1] /\ UNCHANGED at
     ELSE To(t, "commit add") /\ UNCHANGED rows
  /\ UNCHANGED tables /\ Working(t)

(* Tasks with chunks of an earlier content of the document t adds. *)
HoldsOld(t) ==
  \E u \in Tasks \ {t} :
    /\ at[u] \notin {"exists", "insert"}
    /\ \E i \in 1..Len(batch[u]) : /\ batch[u][i].id[1] = arg[t]
                                   /\ batch[u][i].text[1] # ContentOf(t)

CommitAdd(t) ==
  /\ at[t] = "commit add"
  /\ documents' = [documents EXCEPT ![arg[t]] = ContentOf(t)]
  /\ chunks' = [k \in ChunkIds |->
       IF k[1] = arg[t] /\ k[2] <= rows[t] THEN batch[t][k[2]].text ELSE chunks[k]]
  /\ overtaken' = IF HoldsOld(t) THEN overtaken \cup {arg[t]} ELSE overtaken
  /\ To(t, "committed")
  /\ UNCHANGED <<embeddings, rows>> /\ Working(t)

-----------------------------------------------------------------------------
(***************************************************************************)
(* remove_document, chunks_for_document and chunks_for_source              *)
(***************************************************************************)

RemoveDocument(t, d) ==
  /\ Calls(t, "delete")
  /\ arg' = [arg EXCEPT ![t] = d]
  /\ Drops(t)
  /\ UNCHANGED <<tables, rows, vectors>>

(* The transaction of t has written the embedding of chunk k. *)
HasWritten(t, k) ==
  /\ at[t] \in {"upsert", "commit index"}
  /\ \E i \in 1..rows[t] : batch[t][i].id = k

OfDocument(d) == {k \in ChunkIds : k[1] = d}

(* DELETE FROM knowledge_documents; ON DELETE CASCADE takes the chunks and *)
(* the embeddings along.  An embedding written but not committed locks its *)
(* row, or by its foreign keys the chunk and the document.                 *)
Delete(t) ==
  /\ at[t] = "delete"
  /\ \A k \in OfDocument(arg[t]), u \in Tasks : ~HasWritten(u, k)
  /\ documents' = [documents EXCEPT ![arg[t]] = None]
  /\ chunks' = [k \in ChunkIds |-> IF k \in OfDocument(arg[t]) THEN None ELSE chunks[k]]
  /\ embeddings' = [k \in ChunkIds |-> IF k \in OfDocument(arg[t]) THEN None ELSE embeddings[k]]
  /\ overtaken' = overtaken \ {arg[t]}
  /\ To(t, "committed")
  /\ UNCHANGED rows /\ Working(t)

(* Mutated: ORDER BY document_id ASC, chunk_index DESC. *)
BeforeDescending(k, l) == k[1] < l[1] \/ (k[1] = l[1] /\ k[2] > l[2])

(* ORDER BY document_id ASC, chunk_index ASC *)
Before(k, l) == k[1] < l[1] \/ (k[1] = l[1] /\ k[2] < l[2])

Ordered(ids) == {s \in SetToSeqs(ids) : \A i, j \in DOMAIN s : i < j => Before(s[i], s[j])}

(* One SELECT of the rows with these ids; the task has the chunks it returns. *)
Selects(t, ids) ==
  /\ at[t] = "idle"
  /\ \E s \in Ordered({k \in ids : chunks[k] # None}) :
       batch' = [batch EXCEPT ![t] = [i \in DOMAIN s |-> [id |-> s[i], text |-> chunks[s[i]]]]]
  /\ reply' = [reply EXCEPT ![t] = "ok"]
  /\ UNCHANGED <<tables, at, arg, rows, vectors>>

ChunksForDocument(t, d) == Selects(t, OfDocument(d))

(* All documents have the one source. *)
ChunksForSource(t) == Selects(t, ChunkIds)

-----------------------------------------------------------------------------
(***************************************************************************)
(* PgVectorRetriever::index                                                *)
(***************************************************************************)

(* An empty batch returns at once and changes nothing. *)
Index(t) ==
  /\ Calls(t, "embed") /\ batch[t] # <<>>
  /\ UNCHANGED <<tables, arg, batch, rows, vectors>>

(* What the embedder may answer to n texts, as the text_index of each      *)
(* embedding: out of order, too few, twice the same, or out of bounds.     *)
Responses(n) == UNION {[1..m -> 1..(n + 1)] : m \in {n - 1, n}}

(* align_embeddings accepts a permutation of the texts. *)
Aligns(response, n) ==
  /\ Len(response) = n
  /\ \A i \in 1..n : \E j \in 1..n : response[j] = i

(* Mutated: the embeddings are taken in the order of the response. *)
AlignedByPosition(response, t) == [i \in 1..Len(batch[t]) |-> batch[t][response[i]].text]

(* The embedding of chunk i is the one with text_index i. *)
Aligned(response, t) ==
  [i \in 1..Len(batch[t]) |-> batch[t][response[CHOOSE j \in 1..Len(batch[t]) : response[j] = i]].text]

Embedded(t) ==
  /\ at[t] = "embed"
  /\ \E response \in Responses(Len(batch[t])) :
       IF Aligns(response, Len(batch[t]))
       THEN /\ vectors' = [vectors EXCEPT ![t] = Aligned(response, t)]
            /\ To(t, "upsert")
            /\ UNCHANGED <<rows, reply>>
       ELSE Returns(t, "EmbeddingFailure")
  /\ UNCHANGED <<tables, arg, batch>>

(* The embeddings of the task's first n chunks are in the table. *)
Stored(t, n) ==
  [k \in ChunkIds |->
    IF \E i \in 1..n : batch[t][i].id = k
    THEN vectors[t][CHOOSE i \in 1..n : batch[t][i].id = k] ELSE embeddings[k]]

(* A vector must have the column's dimension, a new row its chunk; a row   *)
(* that is there is updated.                                               *)
UpsertRow(t) ==
  LET k == batch[t][rows[t] + 1].id IN
  /\ \A u \in Tasks \ {t} : ~HasWritten(u, k)
  /\ IF dim[t] # dimension \/ (embeddings[k] = None /\ chunks[k] = None)
     THEN Returns(t, "database: rejected")
     ELSE rows' = [rows EXCEPT ![t] = @ + 1] /\ UNCHANGED <<at, vectors, reply>>

(* Mutated: the statements run on the connection, not in a transaction. *)
UpsertAutocommit(t) ==
  /\ at[t] = "upsert"
  /\ IF rows[t] < Len(batch[t])
     THEN UpsertRow(t) /\ embeddings' = Stored(t, rows'[t])
     ELSE To(t, "commit index") /\ UNCHANGED <<rows, vectors, reply, embeddings>>
  /\ UNCHANGED <<documents, chunks, overtaken, arg, batch>>

(* INSERT ... ON CONFLICT DO UPDATE, one statement per chunk. *)
Upsert(t) ==
  /\ at[t] = "upsert"
  /\ IF rows[t] < Len(batch[t])
     THEN UpsertRow(t)
     ELSE To(t, "commit index") /\ UNCHANGED <<rows, vectors, reply>>
  /\ UNCHANGED <<tables, arg, batch>>

CommitIndex(t) ==
  /\ at[t] = "commit index"
  /\ embeddings' = Stored(t, rows[t])
  /\ To(t, "committed")
  /\ UNCHANGED <<documents, chunks, overtaken, rows>> /\ Working(t)

-----------------------------------------------------------------------------
(***************************************************************************)
(* list_documents and PgVectorRetriever::retrieve                          *)
(***************************************************************************)

(* One SELECT; what the task holds of chunks it keeps. *)
ListDocuments(t) ==
  /\ at[t] = "idle"
  /\ Returns(t, "ok")
  /\ UNCHANGED <<tables, arg, batch>>

(* With a top_k of 0 it returns at once, as does list_documents; else it   *)
(* awaits the embedder.                                                    *)
Retrieve(t) ==
  /\ Calls(t, "query")
  /\ UNCHANGED <<tables, arg, batch, rows, vectors>>

(* The embedder may return no vector, or one of another dimension; then    *)
(* one SELECT joins each embedding with its chunk.                         *)
Retrieved(t) ==
  /\ at[t] = "query"
  /\ Returns(t, "EmbeddingFailure") \/ Returns(t, "ok")
  /\ UNCHANGED <<tables, arg, batch>>

-----------------------------------------------------------------------------
Unconnected == {"new", "create", "validate", "create index"}

(* The connection, a statement or the embedder fails, the database breaks  *)
(* a deadlock, or the future is dropped: the transaction is rolled back.   *)
(* A task whose index failed still has the chunks.                         *)
Fails(t) ==
  /\ at[t] \notin Unconnected \cup {"idle"}
  /\ Returns(t, "failed")
  /\ IF at[t] \in {"embed", "upsert", "commit index", "query"} THEN UNCHANGED batch ELSE Drops(t)
  /\ UNCHANGED <<tables, arg>>

Operation(t) ==
  \/ \E d \in Docs :
       \/ \E c \in Contents : AddDocument(t, d, c)
       \/ RemoveDocument(t, d)
       \/ ChunksForDocument(t, d)
  \/ Exists(t) \/ InsertDocument(t) \/ InsertChunk(t) \/ CommitAdd(t)
  \/ ChunksForSource(t) \/ Delete(t)
  \/ Index(t) \/ Embedded(t) \/ Upsert(t) \/ CommitIndex(t)
  \/ ListDocuments(t) \/ Retrieve(t) \/ Retrieved(t)
  \/ Acknowledged(t) \/ Fails(t)

Next ==
  \E t \in Tasks :
    \/ \E n \in Dims : Connect(t, n)
    \/ CreateTable(t) \/ ValidateTable(t) \/ CreateVectorIndex(t) \/ MigrationFails(t)
    \/ Operation(t) /\ UNCHANGED connected

Spec == Init /\ [][Next]_vars

-----------------------------------------------------------------------------
(***************************************************************************)
(* Properties.                                                             *)
(***************************************************************************)

(* add_document and remove_document are all or nothing: at no moment does  *)
(* a committed document lack a chunk of its content, or a chunk or an      *)
(* embedding outlive its document.                                         *)
DocumentsWhole ==
  \A d \in Docs, i \in 1..MaxParts :
    /\ chunks[<<d, i>>] = IF documents[d] # None /\ i <= Parts[documents[d]]
                          THEN <<documents[d], i>> ELSE None
    /\ chunks[<<d, i>>] = None => embeddings[<<d, i>>] = None

(* Retrieval ranks a chunk by the embedding of its own text.  index awaits *)
(* the embedder between the chunks it was given and the rows it writes,    *)
(* and chunk ids are used again: only a document that was removed and      *)
(* added anew while a task had its old chunks may have the embedding of a  *)
(* text it no longer holds.                                                *)
EmbeddingsFresh ==
  \A k \in ChunkIds : k[1] \notin overtaken /\ embeddings[k] # None => embeddings[k] = chunks[k]

(* index is all or nothing: tasks index whole documents, one or those of a *)
(* source, so a document has embeddings for all its chunks or for none,    *)
(* whatever statement fails and whoever else indexes it, unless it was     *)
(* added anew under an index.                                              *)
IndexedWhole ==
  \A d \in Docs \ overtaken :
    LET embedded == {k \in OfDocument(d) : embeddings[k] # None}
    IN embedded = {} \/ embedded = {k \in OfDocument(d) : chunks[k] # None}

(* The next row of the index t runs was written by the index u runs, which *)
(* has not ended.                                                          *)
WaitsFor(t, u) ==
  /\ at[t] = "upsert" /\ rows[t] < Len(batch[t])
  /\ HasWritten(u, batch[t][rows[t] + 1].id)

(* Tasks that index the same chunks never wait for each other in a circle: *)
(* whatever they index, one document or all of the source, as added or as  *)
(* read back, they take its rows in one order.  (The database would break  *)
(* the circle by failing one of the calls.)                                *)
IndexesNeverDeadlock ==
  \A waiting \in (SUBSET Tasks) \ {{}} : \E t \in waiting : \A u \in waiting \ {t} : ~WaitsFor(t, u)

(* A retriever that connected has the dimension of the table, whichever of *)
(* several that start together created it and however often they try: its  *)
(* vectors are never rejected, and compare with everyone's.                *)
DimensionAgreed == \A t \in Tasks : at[t] \notin Unconnected => dim[t] = dimension

(* A document that is there is never replaced by an add, only removed:     *)
(* however the EXISTS and the INSERT of several adds interleave.           *)
NeverReplaced ==
  [][\A d \in Docs : documents[d] # None => documents'[d] \in {documents[d], None}]_vars

(* docs/knowledge-and-retrieval.md: "Duplicate document IDs return         *)
(* `Error::DuplicateDocument`", and not a database error.                  *)
DuplicatesReported == \A t \in Tasks : reply[t] # "database: document_id"
=============================================================================
