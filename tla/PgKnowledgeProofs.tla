-------------------------- MODULE PgKnowledgeProofs --------------------------
(***************************************************************************)
(* PostgresKnowledgeBase and PgVectorRetriever, for any tasks, documents,  *)
(* contents and dimensions.  The unique keys of uncommitted rows keep two  *)
(* adds of one document apart (Exclusive); the foreign keys keep the chunk *)
(* of an uncommitted embedding (WrittenExist); with what each transaction  *)
(* has done so far (Doing), documents are whole at every moment.  What a   *)
(* task holds between its calls are whole documents in the order of their  *)
(* ids (HeldInv): so an index writes all chunks of a document or none,     *)
(* their embeddings are stale only if it was overtaken, and two indexes    *)
(* lock their rows in one order.                                           *)
(***************************************************************************)
EXTENDS PgKnowledge, FiniteSetTheorems, TLAPS

Tables ==
  /\ documents \in [Docs -> Contents \cup {None}]
  /\ chunks = [k \in ChunkIds |-> chunks[k]]
  /\ embeddings = [k \in ChunkIds |-> embeddings[k]]
  /\ at = [t \in Tasks |-> at[t]] /\ arg = [t \in Tasks |-> arg[t]]
  /\ batch = [t \in Tasks |-> batch[t]] /\ rows \in [Tasks -> Nat]

Adding == {"exists", "insert", "chunks", "commit add"}
Writing == {"chunks", "commit add", "upsert", "commit index", "committed"}

(* A task at statement a of a call about document g, with the chunks b,    *)
(* whose transaction has inserted r rows.                                  *)
Doing(a, g, b, r) ==
  /\ a \in Adding => g \in Docs /\ \E c \in Contents : b = ChunkDocument(g, c)
  /\ a = "delete" => g \in Docs
  /\ a = "chunks" => r <= Len(b)
  /\ a = "commit add" => r = Len(b)
  /\ a \notin Writing => r = 0

TasksDo == \A t \in Tasks : Doing(at[t], arg[t], batch[t], rows[t])

Exclusive ==
  \A t \in Tasks :
    Inserting(t) => /\ documents[arg[t]] = None
                    /\ \A u \in Tasks \ {t} : Inserting(u) => arg[u] # arg[t]

WrittenExist == \A t \in Tasks, k \in ChunkIds : HasWritten(t, k) => chunks[k] # None

PgInv == Tables /\ TasksDo /\ Exclusive /\ WrittenExist /\ DocumentsWhole

-----------------------------------------------------------------------------
LEMMA ChunksOf ==
  ASSUME NEW d \in Docs, NEW c \in Contents
  PROVE  LET b == ChunkDocument(d, c) IN
         /\ Parts[c] \in 1..MaxParts /\ Len(b) = Parts[c]
         /\ \A i \in 1..Parts[c] : b[i].text = <<c, i>>
         /\ b[1].text[1] = c
<1>1. Parts[c] \in 1..MaxParts /\ MaxParts \in Nat
  BY KnowledgeAssumption
<1>2. Len(ChunkDocument(d, c)) = Parts[c]
  BY <1>1 DEF ChunkDocument
<1>3. ASSUME NEW i \in 1..Parts[c]
      PROVE  ChunkDocument(d, c)[i].text = <<c, i>>
  BY DEF ChunkDocument
<1>4. ChunkDocument(d, c)[1].text[1] = c
  <2>1. ChunkDocument(d, c)[1].text = <<c, 1>>
    BY <1>1, <1>3
  <2> QED BY <2>1
<1> QED BY <1>1, <1>2, <1>3, <1>4

LEMMA PgInitially == Init => PgInv
BY DEF Init, PgInv, Tables, TasksDo, Doing, Exclusive, WrittenExist, DocumentsWhole,
       Inserting, HasWritten, Adding, Writing, ChunkIds

(* A step of t that leaves the tables alone. *)
LEMMA LocalStep ==
  ASSUME PgInv, NEW t \in Tasks, UNCHANGED <<documents, chunks, embeddings>>,
         NEW a, NEW g, NEW b, NEW r \in Nat, Doing(a, g, b, r),
         at' = [at EXCEPT ![t] = a], arg' = [arg EXCEPT ![t] = g],
         batch' = [batch EXCEPT ![t] = b], rows' = [rows EXCEPT ![t] = r],
         a \in {"chunks", "commit add"} =>
           \/ Inserting(t) /\ g = arg[t]
           \/ /\ documents[g] = None
              /\ \A u \in Tasks \ {t} : Inserting(u) => arg[u] # g,
         a \in {"upsert", "commit index"} =>
           \A i \in 1..r : b[i].id \in ChunkIds => chunks[b[i].id] # None
  PROVE  PgInv'
<1>1. Tables'
  BY DEF PgInv, Tables
<1>2. /\ at'[t] = a /\ arg'[t] = g /\ batch'[t] = b /\ rows'[t] = r
      /\ \A u \in Tasks \ {t} : /\ at'[u] = at[u] /\ arg'[u] = arg[u]
                                /\ batch'[u] = batch[u] /\ rows'[u] = rows[u]
  BY DEF PgInv, Tables
<1>3. TasksDo'
  <2> SUFFICES ASSUME NEW u \in Tasks
               PROVE  Doing(at'[u], arg'[u], batch'[u], rows'[u])
    BY DEF TasksDo
  <2>1. CASE u = t
    BY <1>2, <2>1
  <2>2. CASE u # t
    BY <1>2, <2>2 DEF PgInv, TasksDo
  <2> QED BY <2>1, <2>2
<1>4. Exclusive'
  <2> SUFFICES ASSUME NEW u \in Tasks, Inserting(u)'
               PROVE  /\ documents[arg'[u]] = None
                      /\ \A v \in Tasks \ {u} : Inserting(v)' => arg'[v] # arg'[u]
    BY DEF Exclusive
  <2>1. Exclusive
    BY DEF PgInv
  <2>2. \A v \in Tasks \ {t} : (Inserting(v)' <=> Inserting(v)) /\ arg'[v] = arg[v]
    BY <1>2 DEF Inserting
  <2>3. Inserting(t)' =>
          /\ documents[g] = None
          /\ \A v \in Tasks \ {t} : Inserting(v) => arg[v] # g
    <3>1. Inserting(t)' => a \in {"chunks", "commit add"}
      BY <1>2 DEF Inserting
    <3>2. CASE Inserting(t) /\ g = arg[t]
      BY <2>1, <3>2 DEF Exclusive
    <3> QED BY <3>1, <3>2
  <2>4. CASE u = t
    BY <1>2, <2>2, <2>3, <2>4
  <2>5. CASE u # t
    <3>1. /\ Inserting(u) /\ arg'[u] = arg[u]
          /\ documents[arg[u]] = None
          /\ \A v \in Tasks \ {u} : Inserting(v) => arg[v] # arg[u]
      BY <2>1, <2>2, <2>5 DEF Exclusive
    <3>2. ASSUME NEW v \in Tasks \ {u}, Inserting(v)'
          PROVE  arg'[v] # arg[u]
      <4>1. CASE v = t
        <5>1. Inserting(t)'
          BY <3>2, <4>1 DEF Inserting
        <5>2. arg'[v] = g /\ arg[u] # g
          BY <1>2, <2>3, <2>5, <3>1, <4>1, <5>1
        <5> QED BY <5>2
      <4>2. CASE v # t
        BY <2>2, <3>1, <3>2, <4>2
      <4> QED BY <4>1, <4>2
    <3> QED BY <3>1, <3>2
  <2> QED BY <2>4, <2>5
<1>5. WrittenExist'
  <2> SUFFICES ASSUME NEW u \in Tasks, NEW k \in ChunkIds, HasWritten(u, k)'
               PROVE  chunks[k] # None
    BY DEF WrittenExist
  <2>1. CASE u = t
    <3>1. at'[u] = a /\ batch'[u] = b /\ rows'[u] = r
      BY <1>2, <2>1
    <3>2. HasWritten(u, k)' => a \in {"upsert", "commit index"} /\ \E i \in 1..r : b[i].id = k
      BY ONLY <3>1 DEF HasWritten
    <3> QED BY <3>2
  <2>2. CASE u # t
    <3>1. at'[u] = at[u] /\ batch'[u] = batch[u] /\ rows'[u] = rows[u]
      BY <1>2, <2>2
    <3>2. HasWritten(u, k)' => HasWritten(u, k)
      BY ONLY <3>1 DEF HasWritten
    <3> QED BY <3>2 DEF PgInv, WrittenExist
  <2> QED BY <2>1, <2>2
<1>6. DocumentsWhole'
  BY DEF PgInv, DocumentsWhole
<1> QED BY <1>1, <1>3, <1>4, <1>5, <1>6 DEF PgInv

LEMMA Same ==
  ASSUME PgInv, NEW t \in Tasks
  PROVE  /\ at = [at EXCEPT ![t] = at[t]] /\ arg = [arg EXCEPT ![t] = arg[t]]
         /\ batch = [batch EXCEPT ![t] = batch[t]] /\ rows = [rows EXCEPT ![t] = rows[t]]
         /\ rows[t] \in Nat /\ Doing(at[t], arg[t], batch[t], rows[t])
BY DEF PgInv, Tables, TasksDo

(* Most statements keep the tables, and leave what t has inserted.          *)
LEMMA Quiet ==
  ASSUME PgInv, NEW t \in Tasks, UNCHANGED <<documents, chunks, embeddings, arg, rows>>,
         NEW a, at' = [at EXCEPT ![t] = a], NEW b, batch' = [batch EXCEPT ![t] = b],
         Doing(a, arg[t], b, rows[t]),
         a \notin {"chunks", "commit add", "upsert", "commit index"}
  PROVE  PgInv'
<1>1. /\ arg' = [arg EXCEPT ![t] = arg[t]] /\ rows' = [rows EXCEPT ![t] = rows[t]]
      /\ rows[t] \in Nat
  BY Same
<1> QED BY <1>1, LocalStep

(* A call returns, with the chunks it has or without; or t connects.       *)
LEMMA ReturnsKeep ==
  ASSUME PgInv, NEW t \in Tasks, UNCHANGED <<documents, chunks, embeddings, arg>>,
         NEW r, Returns(t, r), UNCHANGED batch \/ Drops(t)
  PROVE  PgInv'
<1>1. PICK b : batch' = [batch EXCEPT ![t] = b]
  BY Same DEF Drops
<1>2. at' = [at EXCEPT ![t] = "idle"] /\ rows' = [rows EXCEPT ![t] = 0]
  BY DEF Returns, To
<1>3. Doing("idle", arg[t], b, 0)
  BY DEF Doing, Adding, Writing
<1> QED BY <1>1, <1>2, <1>3, Same, LocalStep

-----------------------------------------------------------------------------
(***************************************************************************)
(* add_document and remove_document.                                       *)
(***************************************************************************)

LEMMA AddDocumentKeeps ==
  ASSUME PgInv, NEW t \in Tasks, NEW d \in Docs, NEW c \in Contents, AddDocument(t, d, c)
  PROVE  PgInv'
<1>1. /\ at' = [at EXCEPT ![t] = "exists"] /\ arg' = [arg EXCEPT ![t] = d]
      /\ batch' = [batch EXCEPT ![t] = ChunkDocument(d, c)] /\ at[t] = "idle"
      /\ UNCHANGED <<documents, chunks, embeddings, rows>>
  BY DEF AddDocument, Calls, To, tables
<1>2. Doing("exists", d, ChunkDocument(d, c), rows[t])
  BY <1>1, Same DEF Doing, Adding, Writing
<1> QED BY <1>1, <1>2, Same, LocalStep

LEMMA InsertDocumentKeeps ==
  ASSUME PgInv, NEW t \in Tasks, Exists(t) \/ InsertDocument(t)
  PROVE  PgInv'
<1>1. UNCHANGED <<documents, chunks, embeddings, arg>>
  BY DEF Exists, InsertDocument, tables
<1>2. CASE \E r : Returns(t, r) /\ Drops(t)
  BY <1>1, <1>2, ReturnsKeep
<1>3. CASE at[t] = "exists" /\ To(t, "insert") /\ UNCHANGED <<batch, rows>>
  <2>1. Doing("insert", arg[t], batch[t], rows[t])
    BY <1>3, Same DEF Doing, Adding, Writing
  <2> QED BY <1>1, <1>3, <2>1, Same, Quiet DEF To
<1>4. CASE MayInsert(t) /\ documents[arg[t]] = None /\ To(t, "chunks") /\ UNCHANGED <<batch, rows>>
  <2>1. at[t] = "insert" /\ \A u \in Tasks \ {t} : Inserting(u) => arg[u] # arg[t]
    BY <1>4 DEF MayInsert, SameKey
  <2>2. PICK c \in Contents : arg[t] \in Docs /\ batch[t] = ChunkDocument(arg[t], c)
    BY <2>1, Same DEF Doing, Adding
  <2>3. rows[t] = 0
    BY <2>1, Same DEF Doing, Writing
  <2>4. Len(batch[t]) \in Nat
    BY <2>2, ChunksOf
  <2>5. Doing("chunks", arg[t], batch[t], rows[t])
    BY <2>2, <2>3, <2>4 DEF Doing, Adding, Writing
  <2>6. /\ at' = [at EXCEPT ![t] = "chunks"] /\ arg' = [arg EXCEPT ![t] = arg[t]]
        /\ batch' = [batch EXCEPT ![t] = batch[t]] /\ rows' = [rows EXCEPT ![t] = rows[t]]
    BY <1>1, <1>4, Same DEF To
  <2>7. /\ UNCHANGED <<documents, chunks, embeddings>> /\ rows[t] \in Nat
        /\ documents[arg[t]] = None
    BY <1>1, <1>4, Same
  <2> QED BY ONLY <2>1, <2>5, <2>6, <2>7, LocalStep, PgInv, t \in Tasks
<1> QED BY <1>2, <1>3, <1>4 DEF Exists, InsertDocument

LEMMA InsertChunkKeeps ==
  ASSUME PgInv, NEW t \in Tasks, InsertChunk(t)
  PROVE  PgInv'
<1>1. /\ UNCHANGED <<documents, chunks, embeddings>> /\ at[t] = "chunks"
      /\ arg' = [arg EXCEPT ![t] = arg[t]] /\ batch' = [batch EXCEPT ![t] = batch[t]]
  BY Same DEF InsertChunk, tables, Working
<1>2. PICK c \in Contents : arg[t] \in Docs /\ batch[t] = ChunkDocument(arg[t], c)
  BY <1>1, Same DEF Doing, Adding
<1>3. Len(batch[t]) \in Nat /\ rows[t] \in Nat /\ rows[t] <= Len(batch[t])
  <2>1. rows[t] \in Nat /\ rows[t] <= Len(batch[t])
    BY <1>1, Same DEF Doing
  <2>2. Len(batch[t]) \in Nat
    BY <1>2, ChunksOf, KnowledgeAssumption
  <2> QED BY <2>1, <2>2
<1>4. Inserting(t)
  BY <1>1 DEF Inserting
<1>5. CASE rows[t] < Len(batch[t])
  <2>1. rows' = [rows EXCEPT ![t] = rows[t] + 1] /\ at' = [at EXCEPT ![t] = "chunks"]
    BY <1>1, <1>5, Same DEF InsertChunk
  <2>2. rows[t] + 1 \in Nat /\ Doing("chunks", arg[t], batch[t], rows[t] + 1)
    BY <1>2, <1>3, <1>5 DEF Doing, Adding, Writing
  <2> QED BY ONLY <1>1, <1>4, <2>1, <2>2, PgInv, t \in Tasks, LocalStep
<1>6. CASE ~(rows[t] < Len(batch[t]))
  <2>1. rows' = [rows EXCEPT ![t] = rows[t]] /\ at' = [at EXCEPT ![t] = "commit add"]
    BY <1>6, Same DEF InsertChunk, To
  <2>2. rows[t] \in Nat /\ Doing("commit add", arg[t], batch[t], rows[t])
    BY <1>2, <1>3, <1>6 DEF Doing, Adding, Writing
  <2> QED BY ONLY <1>1, <1>4, <2>1, <2>2, PgInv, t \in Tasks, LocalStep
<1> QED BY <1>5, <1>6

(* A commit or a DELETE: only at[t] moves, to a statement that claims      *)
(* nothing.                                                                *)
LEMMA TasksAfterCommit ==
  ASSUME PgInv, NEW t \in Tasks, To(t, "committed"), UNCHANGED <<rows, arg, batch>>
  PROVE  /\ TasksDo'
         /\ at' = [u \in Tasks |-> at'[u]]
         /\ \A u \in Tasks : Inserting(u)' => Inserting(u) /\ u # t
         /\ \A u \in Tasks : \A k : HasWritten(u, k)' => HasWritten(u, k)
<1>1. at'[t] = "committed" /\ \A u \in Tasks \ {t} : at'[u] = at[u]
  BY DEF To, PgInv, Tables
<1>2. TasksDo'
  <2> SUFFICES ASSUME NEW u \in Tasks
               PROVE  Doing(at'[u], arg[u], batch[u], rows[u])
    BY DEF TasksDo
  <2>1. CASE u = t
    BY <1>1, <2>1 DEF Doing, Adding, Writing
  <2>2. CASE u # t
    BY <1>1, <2>2 DEF PgInv, TasksDo
  <2> QED BY <2>1, <2>2
<1>3. ASSUME NEW u \in Tasks, Inserting(u)'
      PROVE  Inserting(u) /\ u # t
  BY <1>1, <1>3 DEF Inserting
<1>4. ASSUME NEW u \in Tasks, NEW k, HasWritten(u, k)'
      PROVE  HasWritten(u, k)
  <2>1. at'[u] \in {"upsert", "commit index"}
    BY <1>4 DEF HasWritten
  <2>2. at'[u] = at[u]
    BY <1>1, <2>1
  <2> QED BY <1>4, <2>2 DEF HasWritten
<1>5. at' = [u \in Tasks |-> at'[u]]
  BY DEF To, PgInv, Tables
<1> QED BY <1>2, <1>3, <1>4, <1>5

(* What is known of the rows of one chunk. *)
LEMMA ChunkRow ==
  ASSUME PgInv, NEW k \in ChunkIds
  PROVE  /\ k[1] \in Docs /\ k[2] \in 1..MaxParts /\ k = <<k[1], k[2]>>
         /\ chunks[k] = IF documents[k[1]] # None /\ k[2] <= Parts[documents[k[1]]]
                        THEN <<documents[k[1]], k[2]>> ELSE None
         /\ chunks[k] = None => embeddings[k] = None
<1>1. k[1] \in Docs /\ k[2] \in 1..MaxParts /\ k = <<k[1], k[2]>>
  BY DEF ChunkIds
<1> QED BY <1>1 DEF PgInv, DocumentsWhole

LEMMA CommitAddKeeps ==
  ASSUME PgInv, NEW t \in Tasks, CommitAdd(t)
  PROVE  PgInv' /\ documents[arg[t]] = None /\ documents' = [documents EXCEPT ![arg[t]] = documents'[arg[t]]]
<1>1. /\ at[t] = "commit add" /\ To(t, "committed") /\ UNCHANGED <<rows, arg, batch, embeddings>>
  BY DEF CommitAdd, Working
<1>2. PICK c \in Contents : arg[t] \in Docs /\ batch[t] = ChunkDocument(arg[t], c)
  BY <1>1, Same DEF Doing, Adding
<1> DEFINE d == arg[t]
<1>3. /\ Parts[c] \in 1..MaxParts /\ rows[t] = Parts[c]
      /\ \A i \in 1..Parts[c] : batch[t][i].text = <<c, i>>
      /\ ContentOf(t) = c
  <2>1. rows[t] = Len(batch[t])
    BY <1>1, Same DEF Doing
  <2>2. /\ Parts[c] \in 1..MaxParts /\ Len(batch[t]) = Parts[c]
        /\ \A i \in 1..Parts[c] : batch[t][i].text = <<c, i>>
        /\ batch[t][1].text[1] = c
    BY <1>2, ChunksOf
  <2>3. ContentOf(t) = c
    BY <2>2 DEF ContentOf
  <2> QED BY ONLY <2>1, <2>2, <2>3
<1>4. documents' = [documents EXCEPT ![d] = c] /\ d \in Docs
  BY <1>2, <1>3 DEF CommitAdd
<1>5. /\ Inserting(t) /\ documents[d] = None
      /\ \A u \in Tasks \ {t} : Inserting(u) => arg[u] # d
  BY <1>1 DEF Inserting, PgInv, Exclusive
<1>6. \A k \in ChunkIds :
        chunks'[k] = IF k[1] = d /\ k[2] <= Parts[c] THEN <<c, k[2]>> ELSE chunks[k]
  <2> SUFFICES ASSUME NEW k \in ChunkIds
               PROVE  chunks'[k] = IF k[1] = d /\ k[2] <= Parts[c] THEN <<c, k[2]>> ELSE chunks[k]
    OBVIOUS
  <2>1. chunks'[k] = IF k[1] = d /\ k[2] <= rows[t] THEN batch[t][k[2]].text ELSE chunks[k]
    BY DEF CommitAdd
  <2>2. k[2] \in 1..MaxParts /\ MaxParts \in Nat
    BY ChunkRow, KnowledgeAssumption
  <2>3. k[2] <= Parts[c] => batch[t][k[2]].text = <<c, k[2]>>
    BY <1>3, <2>2
  <2> QED BY <1>3, <2>1, <2>3
<1>7. \A k \in ChunkIds : k[1] = d => chunks[k] = None
  BY <1>5, ChunkRow
<1> HIDE DEF d
<1>8. DocumentsWhole'
  <2> SUFFICES ASSUME NEW x \in Docs, NEW i \in 1..MaxParts
               PROVE  /\ chunks'[<<x, i>>] = IF documents'[x] # None /\ i <= Parts[documents'[x]]
                                             THEN <<documents'[x], i>> ELSE None
                      /\ chunks'[<<x, i>>] = None => embeddings[<<x, i>>] = None
    BY <1>1 DEF DocumentsWhole
  <2>1. PICK k \in ChunkIds : k = <<x, i>>
    BY DEF ChunkIds
  <2> k[1] = x /\ k[2] = i
    BY <2>1
  <2>2. CASE x = d
    <3>1. documents'[x] = c /\ c # None
      BY <1>4, <2>2, KnowledgeAssumption DEF PgInv, Tables
    <3>2. chunks[k] = None /\ embeddings[k] = None
      BY <1>7, <2>1, <2>2, ChunkRow
    <3>3. chunks'[k] = IF i <= Parts[c] THEN <<c, i>> ELSE None
      BY <1>6, <2>1, <2>2, <3>2
    <3> QED BY <2>1, <3>1, <3>2, <3>3
  <2>3. CASE x # d
    <3>1. documents'[x] = documents[x] /\ chunks'[k] = chunks[k]
      BY <1>4, <1>6, <2>1, <2>3 DEF PgInv, Tables
    <3> QED BY <2>1, <3>1, ChunkRow
  <2> QED BY <2>2, <2>3
<1>9. WrittenExist'
  <2> SUFFICES ASSUME NEW u \in Tasks, NEW k \in ChunkIds, HasWritten(u, k)'
               PROVE  chunks'[k] # None
    BY DEF WrittenExist
  <2>1. chunks[k] # None
    BY <1>1, TasksAfterCommit DEF PgInv, WrittenExist
  <2> QED BY <1>6, <1>7, <2>1
<1>10. Exclusive'
  <2> SUFFICES ASSUME NEW u \in Tasks, Inserting(u)'
               PROVE  /\ documents'[arg[u]] = None
                      /\ \A v \in Tasks \ {u} : Inserting(v)' => arg[v] # arg[u]
    BY <1>1 DEF Exclusive
  <2>1. Inserting(u) /\ u # t /\ \A v \in Tasks : Inserting(v)' => Inserting(v)
    BY <1>1, TasksAfterCommit
  <2>2. /\ documents[arg[u]] = None
        /\ \A v \in Tasks \ {u} : Inserting(v) => arg[v] # arg[u]
    BY <2>1 DEF PgInv, Exclusive
  <2>3. arg[u] # d /\ arg[u] \in Docs
    BY <1>5, <2>1, Same DEF Inserting, Doing, Adding
  <2> QED BY <1>4, <2>1, <2>2, <2>3 DEF PgInv, Tables
<1>11. Tables'
  <2>1. chunks' = [k \in ChunkIds |-> chunks'[k]]
    BY DEF CommitAdd
  <2>2. at' = [u \in Tasks |-> at'[u]]
    BY <1>1, TasksAfterCommit
  <2> QED BY <1>1, <1>4, <2>1, <2>2 DEF PgInv, Tables
<1>12. TasksDo'
  BY <1>1, TasksAfterCommit
<1>13. documents[arg[t]] = None /\ documents' = [documents EXCEPT ![arg[t]] = documents'[arg[t]]]
  BY <1>4, <1>5 DEF d, PgInv, Tables
<1> QED BY <1>8, <1>9, <1>10, <1>11, <1>12, <1>13 DEF PgInv

LEMMA DeleteKeeps ==
  ASSUME PgInv, NEW t \in Tasks, Delete(t)
  PROVE  PgInv' /\ documents' = [documents EXCEPT ![arg[t]] = None]
<1> DEFINE d == arg[t]
<1>1. /\ at[t] = "delete" /\ To(t, "committed") /\ UNCHANGED <<rows, arg, batch>>
      /\ documents' = [documents EXCEPT ![d] = None]
  BY DEF Delete, Working
<1>2. d \in Docs
  BY <1>1, Same DEF Doing
<1>3. \A k \in ChunkIds : k[1] = d => \A u \in Tasks : ~HasWritten(u, k)
  BY DEF Delete, OfDocument
<1>4. \A k \in ChunkIds : /\ chunks'[k] = IF k[1] = d THEN None ELSE chunks[k]
                          /\ embeddings'[k] = IF k[1] = d THEN None ELSE embeddings[k]
  BY DEF Delete, OfDocument
<1> HIDE DEF d
<1>5. DocumentsWhole'
  <2> SUFFICES ASSUME NEW x \in Docs, NEW i \in 1..MaxParts
               PROVE  /\ chunks'[<<x, i>>] = IF documents'[x] # None /\ i <= Parts[documents'[x]]
                                             THEN <<documents'[x], i>> ELSE None
                      /\ chunks'[<<x, i>>] = None => embeddings'[<<x, i>>] = None
    BY DEF DocumentsWhole
  <2>1. PICK k \in ChunkIds : k = <<x, i>>
    BY DEF ChunkIds
  <2> k[1] = x /\ k[2] = i
    BY <2>1
  <2>2. CASE x = d
    BY <1>1, <1>4, <2>1, <2>2 DEF PgInv, Tables
  <2>3. CASE x # d
    <3>1. documents'[x] = documents[x] /\ chunks'[k] = chunks[k] /\ embeddings'[k] = embeddings[k]
      BY <1>1, <1>4, <2>3 DEF PgInv, Tables
    <3> QED BY <2>1, <3>1, ChunkRow
  <2> QED BY <2>2, <2>3
<1>6. WrittenExist'
  <2> SUFFICES ASSUME NEW u \in Tasks, NEW k \in ChunkIds, HasWritten(u, k)'
               PROVE  chunks'[k] # None
    BY DEF WrittenExist
  <2>1. HasWritten(u, k)
    BY <1>1, TasksAfterCommit
  <2> QED BY <1>3, <1>4, <2>1 DEF PgInv, WrittenExist
<1>7. Exclusive'
  <2> SUFFICES ASSUME NEW u \in Tasks, Inserting(u)'
               PROVE  /\ documents'[arg[u]] = None
                      /\ \A v \in Tasks \ {u} : Inserting(v)' => arg[v] # arg[u]
    BY <1>1 DEF Exclusive
  <2>1. Inserting(u) /\ \A v \in Tasks : Inserting(v)' => Inserting(v)
    BY <1>1, TasksAfterCommit
  <2>2. /\ documents[arg[u]] = None
        /\ \A v \in Tasks \ {u} : Inserting(v) => arg[v] # arg[u]
    BY <2>1 DEF PgInv, Exclusive
  <2>3. arg[u] \in Docs
    BY <2>1, Same DEF Inserting, Doing, Adding
  <2> QED BY <1>1, <2>1, <2>2, <2>3 DEF PgInv, Tables
<1>8. Tables'
  <2>1. chunks' = [k \in ChunkIds |-> chunks'[k]] /\ embeddings' = [k \in ChunkIds |-> embeddings'[k]]
    BY DEF Delete
  <2>2. at' = [u \in Tasks |-> at'[u]]
    BY <1>1, TasksAfterCommit
  <2> QED BY <1>1, <2>1, <2>2 DEF PgInv, Tables
<1>9. TasksDo'
  BY <1>1, TasksAfterCommit
<1> QED BY <1>1, <1>5, <1>6, <1>7, <1>8, <1>9 DEF PgInv, d

-----------------------------------------------------------------------------
(***************************************************************************)
(* index.                                                                  *)
(***************************************************************************)

LEMMA EmbeddedKeeps ==
  ASSUME PgInv, NEW t \in Tasks, Embedded(t)
  PROVE  PgInv'
<1>1. UNCHANGED <<documents, chunks, embeddings, arg, batch>> /\ at[t] = "embed"
  BY DEF Embedded, tables
<1>2. CASE Returns(t, "EmbeddingFailure")
  BY <1>1, <1>2, ReturnsKeep
<1>3. CASE To(t, "upsert") /\ UNCHANGED rows
  <2>1. rows[t] = 0
    BY <1>1, Same DEF Doing, Writing
  <2>2. /\ at' = [at EXCEPT ![t] = "upsert"] /\ arg' = [arg EXCEPT ![t] = arg[t]]
        /\ batch' = [batch EXCEPT ![t] = batch[t]] /\ rows' = [rows EXCEPT ![t] = 0]
    BY <1>1, <1>3, <2>1, Same DEF To
  <2>3. Doing("upsert", arg[t], batch[t], 0) /\ 0 \in Nat
    BY DEF Doing, Adding, Writing
  <2>4. \A i \in 1..0 : batch[t][i].id \in ChunkIds => chunks[batch[t][i].id] # None
    OBVIOUS
  <2> QED BY ONLY <1>1, <2>2, <2>3, <2>4, LocalStep, PgInv, t \in Tasks
<1> QED BY <1>2, <1>3 DEF Embedded

LEMMA UpsertKeeps ==
  ASSUME PgInv, NEW t \in Tasks, Upsert(t)
  PROVE  PgInv'
<1>1. UNCHANGED <<documents, chunks, embeddings, arg, batch>> /\ at[t] = "upsert"
  BY DEF Upsert, tables
<1>2. CASE Returns(t, "database: rejected")
  BY <1>1, <1>2, ReturnsKeep
<1>3. rows[t] \in Nat
  BY Same
<1>4. \A i \in 1..rows[t] : batch[t][i].id \in ChunkIds => chunks[batch[t][i].id] # None
  BY <1>1 DEF PgInv, WrittenExist, HasWritten
<1>5. ASSUME NEW a \in {"upsert", "commit index"}, NEW r \in Nat,
             at' = [at EXCEPT ![t] = a], rows' = [rows EXCEPT ![t] = r],
             \A i \in 1..r : batch[t][i].id \in ChunkIds => chunks[batch[t][i].id] # None
      PROVE  PgInv'
  <2>1. Doing(a, arg[t], batch[t], r)
    BY DEF Doing, Adding, Writing
  <2>2. arg' = [arg EXCEPT ![t] = arg[t]] /\ batch' = [batch EXCEPT ![t] = batch[t]]
    BY <1>1, Same
  <2> QED BY ONLY <1>1, <1>5, <2>1, <2>2, LocalStep, PgInv, t \in Tasks
<1>6. CASE To(t, "commit index") /\ UNCHANGED rows
  BY <1>3, <1>4, <1>5, <1>6, Same DEF To
<1>7. CASE /\ UNCHANGED at /\ rows' = [rows EXCEPT ![t] = @ + 1]
           /\ ~(embeddings[batch[t][rows[t] + 1].id] = None /\ chunks[batch[t][rows[t] + 1].id] = None)
  <2>1. at' = [at EXCEPT ![t] = "upsert"] /\ rows' = [rows EXCEPT ![t] = rows[t] + 1]
    BY <1>1, <1>7, Same
  <2>2. ASSUME NEW i \in 1..(rows[t] + 1), batch[t][i].id \in ChunkIds
        PROVE  chunks[batch[t][i].id] # None
    <3>1. CASE i = rows[t] + 1
      BY <1>7, <2>2, <3>1, ChunkRow
    <3>2. CASE i # rows[t] + 1
      BY <1>3, <1>4, <2>2, <3>2
    <3> QED BY <3>1, <3>2
  <2>3. "upsert" \in {"upsert", "commit index"} /\ rows[t] + 1 \in Nat
    BY <1>3
  <2> QED BY ONLY <1>5, <2>1, <2>2, <2>3
<1> QED BY <1>2, <1>6, <1>7 DEF Upsert, UpsertRow

LEMMA CommitIndexKeeps ==
  ASSUME PgInv, NEW t \in Tasks, CommitIndex(t)
  PROVE  PgInv' /\ UNCHANGED documents
<1>1. /\ at[t] = "commit index" /\ To(t, "committed")
      /\ UNCHANGED <<documents, chunks, rows, arg, batch>>
  BY DEF CommitIndex, Working
<1>2. \A k \in ChunkIds : embeddings'[k] = embeddings[k] \/ HasWritten(t, k)
  BY <1>1 DEF CommitIndex, Stored, HasWritten
<1>3. DocumentsWhole'
  <2> SUFFICES ASSUME NEW x \in Docs, NEW i \in 1..MaxParts
               PROVE  /\ chunks[<<x, i>>] = IF documents[x] # None /\ i <= Parts[documents[x]]
                                            THEN <<documents[x], i>> ELSE None
                      /\ chunks[<<x, i>>] = None => embeddings'[<<x, i>>] = None
    BY <1>1 DEF DocumentsWhole
  <2>1. PICK k \in ChunkIds : k = <<x, i>>
    BY DEF ChunkIds
  <2>2. chunks[k] = None => embeddings'[k] = None
    BY <1>2, ChunkRow DEF PgInv, WrittenExist
  <2> QED BY <2>1, <2>2 DEF PgInv, DocumentsWhole
<1>4. WrittenExist'
  BY <1>1, TasksAfterCommit DEF PgInv, WrittenExist
<1>5. Exclusive'
  BY <1>1, TasksAfterCommit DEF PgInv, Exclusive
<1>6. Tables'
  <2>1. embeddings' = [k \in ChunkIds |-> embeddings'[k]]
    BY DEF CommitIndex, Stored
  <2>2. at' = [u \in Tasks |-> at'[u]]
    BY <1>1, TasksAfterCommit
  <2> QED BY <1>1, <2>1, <2>2 DEF PgInv, Tables
<1>7. TasksDo'
  BY <1>1, TasksAfterCommit
<1> QED BY <1>1, <1>3, <1>4, <1>5, <1>6, <1>7 DEF PgInv

-----------------------------------------------------------------------------
(***************************************************************************)
(* The statements that change no table, and every step.                    *)
(***************************************************************************)

LEMMA OtherCallsKeep ==
  ASSUME PgInv, NEW t \in Tasks,
         \/ \E d \in Docs : RemoveDocument(t, d) \/ ChunksForDocument(t, d)
         \/ ChunksForSource(t) \/ Index(t) \/ ListDocuments(t) \/ Retrieve(t)
         \/ Retrieved(t) \/ Acknowledged(t) \/ Fails(t)
  PROVE  PgInv'
<1>1. CASE /\ UNCHANGED <<documents, chunks, embeddings, arg>>
           /\ \E r : Returns(t, r)
           /\ UNCHANGED batch \/ Drops(t)
  BY <1>1, ReturnsKeep
<1>2. ASSUME NEW d \in Docs, RemoveDocument(t, d)
      PROVE  PgInv'
  <2>1. /\ at' = [at EXCEPT ![t] = "delete"] /\ arg' = [arg EXCEPT ![t] = d]
        /\ batch' = [batch EXCEPT ![t] = <<>>] /\ rows' = [rows EXCEPT ![t] = rows[t]]
        /\ at[t] = "idle" /\ UNCHANGED <<documents, chunks, embeddings>>
    BY <1>2, Same DEF RemoveDocument, Calls, To, Drops, tables
  <2>2. rows[t] \in Nat /\ Doing("delete", d, <<>>, rows[t])
    BY <2>1, Same DEF Doing, Adding, Writing
  <2> QED BY ONLY <2>1, <2>2, LocalStep, PgInv, t \in Tasks
<1>3. ASSUME NEW a \in {"idle", "embed", "query"}, NEW b, at[t] = "idle",
             at' = [at EXCEPT ![t] = a], batch' = [batch EXCEPT ![t] = b],
             UNCHANGED <<documents, chunks, embeddings, arg, rows>>
      PROVE  PgInv'
  <2>1. Doing(a, arg[t], b, rows[t])
    BY <1>3, Same DEF Doing, Adding, Writing
  <2> QED BY ONLY <1>3, <2>1, Quiet, PgInv, t \in Tasks
<1>4. ASSUME NEW ids, Selects(t, ids)
      PROVE  PgInv'
  <2>1. /\ at' = [at EXCEPT ![t] = "idle"] /\ at[t] = "idle"
        /\ UNCHANGED <<documents, chunks, embeddings, arg, rows>>
    BY <1>4, Same DEF Selects, tables
  <2>2. PICK b : batch' = [batch EXCEPT ![t] = b]
    BY <1>4 DEF Selects
  <2> QED BY <1>3, <2>1, <2>2
<1>5. CASE Index(t) \/ Retrieve(t)
  <2>1. PICK a \in {"embed", "query"} : at' = [at EXCEPT ![t] = a]
    BY <1>5 DEF Index, Retrieve, Calls, To
  <2>2. /\ batch' = [batch EXCEPT ![t] = batch[t]] /\ at[t] = "idle"
        /\ UNCHANGED <<documents, chunks, embeddings, arg, rows>>
    BY <1>5, Same DEF Index, Retrieve, Calls, tables
  <2> QED BY <1>3, <2>1, <2>2
<1> QED BY <1>1, <1>2, <1>4, <1>5
        DEF ChunksForDocument, ChunksForSource, ListDocuments, Retrieved, Acknowledged, Fails, tables

LEMMA OperationKeeps ==
  ASSUME PgInv, NEW t \in Tasks, Operation(t)
  PROVE  PgInv'
BY AddDocumentKeeps, InsertDocumentKeeps, InsertChunkKeeps, CommitAddKeeps, DeleteKeeps,
   EmbeddedKeeps, UpsertKeeps, CommitIndexKeeps, OtherCallsKeep DEF Operation

(* connect creates and looks at the tables, not at their rows. *)
ConnectStep(t) ==
  \/ \E n \in Dims : Connect(t, n)
  \/ CreateTable(t) \/ ValidateTable(t) \/ CreateVectorIndex(t) \/ MigrationFails(t)

LEMMA ConnectKeeps ==
  ASSUME PgInv, NEW t \in Tasks, ConnectStep(t)
  PROVE  PgInv'
<1>1. PICK a \in Unconnected \cup {"idle"} : at' = [at EXCEPT ![t] = a]
  BY DEF ConnectStep, Connect, CreateTable, ValidateTable, CreateVectorIndex, MigrationFails,
         NotConnected, To, Unconnected
<1>2. /\ UNCHANGED <<documents, chunks, embeddings, arg, rows, batch>>
      /\ at[t] \in Unconnected
  BY DEF ConnectStep, Connect, CreateTable, ValidateTable, CreateVectorIndex, MigrationFails,
         tables, Working, Unconnected
<1>3. Doing(a, arg[t], batch[t], rows[t])
  BY <1>2, Same DEF Doing, Adding, Writing, Unconnected
<1>4. batch' = [batch EXCEPT ![t] = batch[t]]
  BY <1>2, Same
<1>5. a \notin {"chunks", "commit add", "upsert", "commit index"}
  BY DEF Unconnected
<1> QED BY ONLY <1>1, <1>2, <1>3, <1>4, <1>5, Quiet, PgInv, t \in Tasks

LEMMA SpecPgInv == Spec => []PgInv
<1>1. Init => PgInv
  BY PgInitially
<1>2. PgInv /\ [Next]_vars => PgInv'
  <2>1. ASSUME PgInv, UNCHANGED vars
        PROVE  PgInv'
    BY <2>1 DEF vars, PgInv, Tables, TasksDo, Exclusive, WrittenExist, DocumentsWhole,
                Inserting, HasWritten
  <2> QED BY <2>1, OperationKeeps, ConnectKeeps DEF Next, ConnectStep
<1> QED BY <1>1, <1>2, PTL DEF Spec

(* At no moment does a committed document lack a chunk of its content, nor *)
(* does a chunk or an embedding outlive its document, however adds,        *)
(* removals and indexes of any tasks interleave, fail or are dropped.      *)
THEOREM DocumentsStayWhole == Spec => []DocumentsWhole
<1>1. PgInv => DocumentsWhole
  BY DEF PgInv
<1> QED BY <1>1, SpecPgInv, PTL

LEMMA ReplaceStep ==
  ASSUME PgInv, [Next]_vars, NEW d \in Docs, documents[d] # None
  PROVE  documents'[d] \in {documents[d], None}
<1>1. ASSUME NEW t \in Tasks, CommitAdd(t)
      PROVE  documents'[d] \in {documents[d], None}
  BY <1>1, CommitAddKeeps DEF PgInv, Tables
<1>2. ASSUME NEW t \in Tasks, Delete(t)
      PROVE  documents'[d] \in {documents[d], None}
  BY <1>2, DeleteKeeps DEF PgInv, Tables
<1>3. CASE UNCHANGED documents
  BY <1>3
<1>4. ASSUME NEW t \in Tasks, Operation(t), ~CommitAdd(t), ~Delete(t)
      PROVE  UNCHANGED documents
  BY <1>4 DEF Operation, AddDocument, RemoveDocument, ChunksForDocument, Exists, InsertDocument,
              InsertChunk, ChunksForSource, Index, Embedded, Upsert, CommitIndex, ListDocuments,
              Retrieve, Retrieved, Acknowledged, Fails, Selects, tables
<1>5. ASSUME NEW t \in Tasks, ConnectStep(t)
      PROVE  UNCHANGED documents
  BY <1>5 DEF ConnectStep, Connect, CreateTable, ValidateTable, CreateVectorIndex, MigrationFails,
              tables
<1> QED BY <1>1, <1>2, <1>3, <1>4, <1>5 DEF Next, ConnectStep, vars

(* A document that is there is removed before its id gets another content. *)
THEOREM NeverReplacedByAdd == Spec => NeverReplaced
<1>1. PgInv /\ [Next]_vars
        => [\A d \in Docs : documents[d] # None => documents'[d] \in {documents[d], None}]_vars
  BY ReplaceStep
<1> QED BY <1>1, SpecPgInv, PTL DEF Spec, NeverReplaced

-----------------------------------------------------------------------------
(***************************************************************************)
(* The dimension: the first CREATE TABLE fixes it, and a retriever that    *)
(* passed the validation has it.                                           *)
(***************************************************************************)

DimInv ==
  /\ dim \in [Tasks -> Dims \cup {None}] /\ dimension \in Dims \cup {None}
  /\ at = [t \in Tasks |-> at[t]]
  /\ \A t \in Tasks :
       /\ at[t] # "new" => dim[t] # None
       /\ at[t] \notin {"new", "create"} => dimension # None
       /\ at[t] \notin {"new", "create", "validate"} => dim[t] = dimension

LEMMA OperationIsConnected ==
  ASSUME DimInv, NEW t \in Tasks, Operation(t)
  PROVE  /\ at[t] \notin Unconnected
         /\ \E a : a \notin Unconnected /\ at' = [at EXCEPT ![t] = a]
<1> at = [at EXCEPT ![t] = at[t]]
  BY DEF DimInv
<1>1. ASSUME NEW d \in Docs, NEW c \in Contents, AddDocument(t, d, c)
      PROVE  at[t] = "idle" /\ To(t, "exists")
  BY <1>1 DEF AddDocument, Calls
<1>2. ASSUME NEW d \in Docs, RemoveDocument(t, d)
      PROVE  at[t] = "idle" /\ To(t, "delete")
  BY <1>2 DEF RemoveDocument, Calls
<1>3. ASSUME NEW selected, Selects(t, selected)
      PROVE  at[t] = "idle" /\ UNCHANGED at
  BY <1>3 DEF Selects
<1>4. CASE \/ Exists(t) \/ InsertDocument(t) \/ InsertChunk(t) \/ CommitAdd(t) \/ Delete(t)
           \/ Acknowledged(t) \/ Fails(t)
  BY <1>4 DEF Exists, InsertDocument, MayInsert, InsertChunk, CommitAdd, Delete, Acknowledged, Fails,
              Returns, To, Unconnected
<1>5. CASE Index(t) \/ Retrieve(t) \/ ListDocuments(t) \/ Retrieved(t)
  BY <1>5 DEF Index, Retrieve, Calls, ListDocuments, Retrieved, Returns, To, Unconnected
<1>6. CASE Embedded(t)
  BY <1>6 DEF Embedded, Returns, To, Unconnected
<1>7. CASE Upsert(t) \/ CommitIndex(t)
  <2>1. at[t] \in {"upsert", "commit index"}
    BY <1>7 DEF Upsert, CommitIndex
  <2>2. UNCHANGED at \/ \E a \in {"idle", "commit index", "committed"} : at' = [at EXCEPT ![t] = a]
    BY <1>7 DEF Upsert, UpsertRow, CommitIndex, Returns, To
  <2> QED BY <2>1, <2>2 DEF Unconnected
<1>8. CASE at[t] = "idle" /\ (To(t, "exists") \/ To(t, "delete") \/ UNCHANGED at)
  BY <1>8 DEF To, Unconnected
<1> QED BY <1>1, <1>2, <1>3, <1>4, <1>5, <1>6, <1>7, <1>8
        DEF Operation, ChunksForDocument, ChunksForSource

LEMMA DimStep ==
  ASSUME DimInv, [Next]_vars
  PROVE  DimInv'
<1>1. CASE UNCHANGED vars
  BY <1>1 DEF vars, connected, DimInv
<1>2. ASSUME NEW t \in Tasks, Operation(t), UNCHANGED connected
      PROVE  DimInv'
  <2>1. PICK a : a \notin Unconnected /\ at' = [at EXCEPT ![t] = a]
    BY <1>2, OperationIsConnected
  <2>2. at[t] \notin Unconnected
    BY <1>2, OperationIsConnected
  <2> QED BY <1>2, <2>1, <2>2 DEF connected, DimInv, Unconnected
<1>3. ASSUME NEW t \in Tasks, NEW n \in Dims, Connect(t, n)
      PROVE  DimInv'
  BY <1>3, KnowledgeAssumption DEF Connect, To, DimInv
<1>4. ASSUME NEW t \in Tasks, CreateTable(t)
      PROVE  DimInv'
  BY <1>4 DEF CreateTable, To, DimInv
<1>5. ASSUME NEW t \in Tasks,
             \/ /\ To(t, "create index") /\ at[t] = "validate" /\ dim[t] = dimension
                /\ UNCHANGED <<dimension, dim>>
             \/ /\ at[t] = "create index" /\ To(t, "idle") /\ UNCHANGED <<dimension, dim>>
             \/ NotConnected(t) /\ UNCHANGED dimension
      PROVE  DimInv'
  BY <1>5 DEF NotConnected, To, DimInv
<1>6. ASSUME NEW t \in Tasks, ValidateTable(t) \/ CreateVectorIndex(t) \/ MigrationFails(t)
      PROVE  DimInv'
  BY <1>5, <1>6 DEF ValidateTable, CreateVectorIndex, MigrationFails, connected
<1> QED BY <1>1, <1>2, <1>3, <1>4, <1>6 DEF Next

(* Whichever of several retrievers that start together creates the table,  *)
(* all that connected have its dimension, and it never changes for them.   *)
THEOREM DimensionStaysAgreed == Spec => []DimensionAgreed
<1>1. Init => DimInv
  BY DEF Init, DimInv
<1>2. DimInv /\ [Next]_vars => DimInv'
  BY DimStep
<1>3. DimInv => DimensionAgreed
  BY DEF DimInv, DimensionAgreed, Unconnected
<1> QED BY <1>1, <1>2, <1>3, PTL DEF Spec

-----------------------------------------------------------------------------
(***************************************************************************)
(* What tasks hold between two calls, and index stores: whole documents,   *)
(* in the order of their ids, of a content that is still the document's or *)
(* that another one has overtaken.                                         *)
(***************************************************************************)
ChunkRows == [id : ChunkIds, text : Contents \X (1..MaxParts)]

InOrder(b) == \A i, j \in 1..Len(b) : i < j => Before(b[i].id, b[j].id)

(* Chunk i of b is the chunk of a content that is in b with all its chunks. *)
WholeAt(b, i) ==
  /\ b[i].text[2] = b[i].id[2] /\ b[i].id[2] <= Parts[b[i].text[1]]
  /\ \A m \in 1..Parts[b[i].text[1]] : \E j \in 1..Len(b) : b[j].id = <<b[i].id[1], m>>

ChunkList(b) == b \in Seq(ChunkRows) /\ InOrder(b) /\ \A i \in 1..Len(b) : WholeAt(b, i)

Texts(b) == [i \in 1..Len(b) |-> b[i].text]

(* With the contents docs of the documents, and those in over overtaken. *)
Current(row, docs, over) == row.id[1] \in over \/ docs[row.id[1]] \in {None, row.text[1]}

(* A task at statement a, with the chunks b, whose transaction has written *)
(* r rows, with the embeddings v.                                          *)
Holding(a, b, r, v, docs, over) ==
  /\ ChunkList(b)
  /\ a \notin {"exists", "insert"} => \A i \in 1..Len(b) : Current(b[i], docs, over)
  /\ a \in {"upsert", "commit index"} => v = Texts(b) /\ r <= Len(b)
  /\ a = "commit index" => r = Len(b)

AllHold ==
  /\ vectors = [t \in Tasks |-> vectors[t]]
  /\ \A t \in Tasks : Holding(at[t], batch[t], rows[t], vectors[t], documents, overtaken)

HeldInv == PgInv /\ AllHold /\ EmbeddingsFresh /\ IndexedWhole

(* The steps keep the parts of it that are not PgInv. *)
Held == AllHold /\ EmbeddingsFresh /\ IndexedWhole

LEMMA ListRows ==
  ASSUME NEW b, ChunkList(b)
  PROVE  /\ Len(b) \in Nat
         /\ \A i \in 1..Len(b) :
              /\ b[i].id \in ChunkIds /\ b[i].id[1] \in Docs /\ b[i].id[2] \in 1..MaxParts
              /\ b[i].id = <<b[i].id[1], b[i].id[2]>>
              /\ b[i].text[1] \in Contents /\ b[i].text = <<b[i].text[1], b[i].id[2]>>
              /\ b[i].text # None
              /\ b[i].id[2] <= Parts[b[i].text[1]]
<1>1. b \in Seq(ChunkRows) /\ \A i \in 1..Len(b) : WholeAt(b, i)
  BY DEF ChunkList
<1>2. ASSUME NEW i \in 1..Len(b)
      PROVE  b[i].id \in Docs \X (1..MaxParts) /\ b[i].text \in Contents \X (1..MaxParts)
  <2>1. b[i] \in ChunkRows
    BY <1>1
  <2> QED BY <2>1 DEF ChunkRows, ChunkIds
<1>3. ASSUME NEW i \in 1..Len(b)
      PROVE  b[i].text[2] = b[i].id[2] /\ b[i].id[2] <= Parts[b[i].text[1]]
  BY <1>1 DEF WholeAt
<1>4. ASSUME NEW x \in Contents \X (1..MaxParts) PROVE x # None
  <2>1. MaxParts \in Nat /\ x \in Contents \X Nat
    BY KnowledgeAssumption
  <2> QED BY <2>1, KnowledgeAssumption
<1> QED BY <1>1, <1>2, <1>3, <1>4 DEF ChunkIds

(* A function from 1..n is a sequence. *)
LEMMA Lists == ASSUME NEW S, NEW n \in Nat, NEW f \in [1..n -> S] PROVE f \in Seq(S) /\ Len(f) = n
OBVIOUS

LEMMA EmptyList == ChunkList(<<>>) /\ \A i \in 1..Len(<<>>) : FALSE
<1>1. <<>> \in Seq(ChunkRows) /\ Len(<<>>) = 0
  OBVIOUS
<1>2. \A i \in 1..Len(<<>>) : FALSE
  OBVIOUS
<1> QED BY <1>1, <1>2 DEF ChunkList, InOrder

LEMMA NothingHeld ==
  ASSUME NEW a, a \notin {"upsert", "commit index"}, NEW r, NEW v, NEW docs, NEW over
  PROVE  Holding(a, <<>>, r, v, docs, over)
BY EmptyList DEF Holding

LEMMA HeldInitially == Init => HeldInv
<1> SUFFICES ASSUME Init PROVE HeldInv
  OBVIOUS
<1>1. PgInv
  BY PgInitially
<1>2. AllHold
  BY NothingHeld DEF Init, AllHold
<1>3. \A k \in ChunkIds : embeddings[k] = None
  BY DEF Init
<1>4. IndexedWhole
  BY <1>3 DEF IndexedWhole, OfDocument
<1> QED BY <1>1, <1>2, <1>3, <1>4 DEF HeldInv, EmbeddingsFresh

(* A step of t that leaves the tables alone. *)
LEMMA HeldLocalStep ==
  ASSUME HeldInv, NEW t \in Tasks, UNCHANGED tables,
         NEW a, NEW b, NEW r, NEW v,
         at' = [at EXCEPT ![t] = a], batch' = [batch EXCEPT ![t] = b],
         rows' = [rows EXCEPT ![t] = r], vectors' = [vectors EXCEPT ![t] = v],
         Holding(a, b, r, v, documents, overtaken)
  PROVE  Held'
<1>1. UNCHANGED <<documents, chunks, embeddings, overtaken>>
  BY DEF tables
<1>2. /\ at'[t] = a /\ batch'[t] = b /\ rows'[t] = r /\ vectors'[t] = v
      /\ \A u \in Tasks \ {t} : /\ at'[u] = at[u] /\ vectors'[u] = vectors[u]
                                /\ batch'[u] = batch[u] /\ rows'[u] = rows[u]
  BY DEF HeldInv, AllHold, PgInv, Tables
<1>3. AllHold'
  <2> SUFFICES ASSUME NEW u \in Tasks
               PROVE  Holding(at'[u], batch'[u], rows'[u], vectors'[u], documents', overtaken')
    BY DEF AllHold, HeldInv
  <2>1. CASE u = t
    BY <1>1, <1>2, <2>1
  <2>2. CASE u # t
    BY <1>1, <1>2, <2>2 DEF HeldInv, AllHold
  <2> QED BY <2>1, <2>2
<1>4. EmbeddingsFresh'
  BY <1>1 DEF HeldInv, EmbeddingsFresh
<1>5. IndexedWhole'
  BY <1>1 DEF HeldInv, IndexedWhole
<1> QED BY <1>3, <1>4, <1>5 DEF Held

LEMMA HeldSame ==
  ASSUME HeldInv, NEW t \in Tasks
  PROVE  /\ PgInv
         /\ at = [at EXCEPT ![t] = at[t]] /\ batch = [batch EXCEPT ![t] = batch[t]]
         /\ rows = [rows EXCEPT ![t] = rows[t]] /\ vectors = [vectors EXCEPT ![t] = vectors[t]]
         /\ rows[t] \in Nat /\ Len(batch[t]) \in Nat
         /\ Holding(at[t], batch[t], rows[t], vectors[t], documents, overtaken)
<1>1. Holding(at[t], batch[t], rows[t], vectors[t], documents, overtaken)
  BY DEF HeldInv, AllHold
<1>2. Len(batch[t]) \in Nat
  BY <1>1, ListRows DEF Holding
<1> QED BY <1>1, <1>2, Same DEF HeldInv, AllHold

(* A call returns. *)
LEMMA HeldReturns ==
  ASSUME HeldInv, NEW t \in Tasks, UNCHANGED tables, NEW r, Returns(t, r),
         \/ Drops(t)
         \/ UNCHANGED batch /\ at[t] \notin {"exists", "insert"}
  PROVE  Held'
<1>1. /\ at' = [at EXCEPT ![t] = "idle"] /\ rows' = [rows EXCEPT ![t] = 0]
      /\ vectors' = [vectors EXCEPT ![t] = <<>>]
  BY DEF Returns, To
<1>2. CASE Drops(t)
  <2>1. batch' = [batch EXCEPT ![t] = <<>>]
    BY <1>2 DEF Drops
  <2>2. Holding("idle", <<>>, 0, <<>>, documents, overtaken)
    BY NothingHeld
  <2> QED BY ONLY <1>1, <2>1, <2>2, HeldLocalStep, HeldInv, t \in Tasks, UNCHANGED tables
<1>3. CASE UNCHANGED batch /\ at[t] \notin {"exists", "insert"}
  <2>1. batch' = [batch EXCEPT ![t] = batch[t]]
    BY <1>3, HeldSame
  <2>2. Holding("idle", batch[t], 0, <<>>, documents, overtaken)
    BY <1>3, HeldSame DEF Holding
  <2> QED BY ONLY <1>1, <2>1, <2>2, HeldLocalStep, HeldInv, t \in Tasks, UNCHANGED tables
<1> QED BY <1>2, <1>3

(* A statement that changes neither the chunks nor the embeddings of t. *)
LEMMA HeldMoves ==
  ASSUME HeldInv, NEW t \in Tasks, UNCHANGED <<tables, batch, vectors>>,
         NEW a, at' = [at EXCEPT ![t] = a], NEW r, rows' = [rows EXCEPT ![t] = r],
         at[t] \notin {"exists", "insert"} \/ a \in {"exists", "insert"},
         a \notin {"upsert", "commit index"}
  PROVE  Held'
<1>1. batch' = [batch EXCEPT ![t] = batch[t]] /\ vectors' = [vectors EXCEPT ![t] = vectors[t]]
  BY HeldSame
<1>2. Holding(a, batch[t], r, vectors[t], documents, overtaken)
  BY HeldSame DEF Holding
<1>3. UNCHANGED tables
  OBVIOUS
<1> QED BY ONLY <1>1, <1>2, <1>3, HeldLocalStep, HeldInv, t \in Tasks, at' = [at EXCEPT ![t] = a],
                rows' = [rows EXCEPT ![t] = r]

-----------------------------------------------------------------------------
(***************************************************************************)
(* The chunks a task gets, of an add or of a SELECT.                       *)
(***************************************************************************)
LEMMA DocumentList ==
  ASSUME NEW d \in Docs, NEW c \in Contents
  PROVE  /\ ChunkList(ChunkDocument(d, c))
         /\ \A i \in 1..Len(ChunkDocument(d, c)) :
              ChunkDocument(d, c)[i].id[1] = d /\ ChunkDocument(d, c)[i].text[1] = c
<1> DEFINE b == ChunkDocument(d, c)
<1>1. Parts[c] \in 1..MaxParts /\ MaxParts \in Nat /\ Docs \subseteq Nat
  BY KnowledgeAssumption
<1>2. /\ Len(b) = Parts[c] /\ b = [i \in 1..Parts[c] |-> [id |-> <<d, i>>, text |-> <<c, i>>]]
  BY <1>1 DEF ChunkDocument
<1>3. \A i \in 1..Parts[c] : b[i].id = <<d, i>> /\ b[i].text = <<c, i>>
  BY <1>2
<1>4. \A i \in 1..Parts[c] : b[i] \in ChunkRows
  <2> SUFFICES ASSUME NEW i \in 1..Parts[c] PROVE b[i] \in ChunkRows
    OBVIOUS
  <2>1. <<d, i>> \in ChunkIds /\ <<c, i>> \in Contents \X (1..MaxParts)
    BY <1>1 DEF ChunkIds
  <2>2. b[i] = [id |-> <<d, i>>, text |-> <<c, i>>]
    BY <1>2
  <2> QED BY <2>1, <2>2 DEF ChunkRows
<1> HIDE DEF b
<1>5. b \in Seq(ChunkRows)
  <2>1. b = [i \in 1..Parts[c] |-> b[i]] /\ Parts[c] \in Nat
    BY <1>1, <1>2 DEF b
  <2>2. b \in [1..Parts[c] -> ChunkRows]
    BY ONLY <1>4, <2>1
  <2> QED BY ONLY <2>1, <2>2, Lists
<1>6. ASSUME NEW i \in 1..Len(b), NEW j \in 1..Len(b), i < j
      PROVE  Before(b[i].id, b[j].id)
  <2>1. b[i].id = <<d, i>> /\ b[j].id = <<d, j>>
    BY <1>2, <1>3
  <2> QED BY <1>6, <2>1 DEF Before
<1>7. ASSUME NEW i \in 1..Len(b) PROVE WholeAt(b, i)
  <2>1. b[i].id = <<d, i>> /\ b[i].text = <<c, i>> /\ i <= Parts[c]
    BY <1>1, <1>2, <1>3
  <2>2. b[i].id[1] = d /\ b[i].id[2] = i /\ b[i].text[1] = c /\ b[i].text[2] = i
    BY <2>1
  <2>3. \A m \in 1..Parts[c] : \E j \in 1..Len(b) : b[j].id = <<d, m>>
    BY <1>2, <1>3
  <2> QED BY <2>1, <2>2, <2>3 DEF WholeAt
<1>8. ChunkList(b)
  BY <1>5, <1>6, <1>7 DEF ChunkList, InOrder
<1>9. \A i \in 1..Len(b) : b[i].id[1] = d /\ b[i].text[1] = c
  BY <1>2, <1>3
<1> QED BY <1>8, <1>9 DEF b

LEMMA FinitelyManyIds == IsFiniteSet(ChunkIds)
<1>1. IsFiniteSet(1..MaxParts) /\ IsFiniteSet(Docs)
  BY KnowledgeAssumption, FS_Interval
<1> QED BY <1>1, FS_Product DEF ChunkIds

(* An ordered listing of some ids has each of them. *)
LEMMA ListsAll ==
  ASSUME NEW ids \in SUBSET ChunkIds, NEW s \in Ordered(ids)
  PROVE  /\ Cardinality(ids) \in Nat /\ s \in [1..Cardinality(ids) -> ids]
         /\ \A k \in ids : \E i \in 1..Cardinality(ids) : s[i] = k
         /\ \A i, j \in 1..Cardinality(ids) : i < j => Before(s[i], s[j])
<1> DEFINE n == Cardinality(ids)
<1>1. IsFiniteSet(ids) /\ n \in Nat
  BY FinitelyManyIds, FS_Subset, FS_CardinalityType
<1>2. /\ s \in [1..n -> ids] /\ \A i, j \in 1..n : i # j => s[i] # s[j]
      /\ \A i, j \in DOMAIN s : i < j => Before(s[i], s[j])
  BY DEF Ordered, SetToSeqs
<1>3. s \in Injection(1..n, ids)
  BY <1>2 DEF Injection, IsInjective
<1>4. Cardinality(1..n) = n
  BY <1>1, FS_Interval
<1>5. s \in Surjection(1..n, ids)
  BY <1>1, <1>3, <1>4, FS_Injection
<1>6. \A k \in ids : \E i \in 1..n : s[i] = k
  BY <1>5 DEF Surjection
<1> QED BY <1>1, <1>2, <1>6

LEMMA SelectedList ==
  ASSUME PgInv, NEW ids \in SUBSET ChunkIds,
         \A k \in ids, l \in ChunkIds : k[1] = l[1] => l \in ids,
         NEW s \in Ordered({k \in ids : chunks[k] # None})
  PROVE  LET b == [i \in DOMAIN s |-> [id |-> s[i], text |-> chunks[s[i]]]]
         IN  /\ ChunkList(b)
             /\ \A i \in 1..Len(b) : documents[b[i].id[1]] = b[i].text[1]
<1> DEFINE listed == {k \in ids : chunks[k] # None}
           n == Cardinality(listed)
           b == [i \in DOMAIN s |-> [id |-> s[i], text |-> chunks[s[i]]]]
<1>1. /\ n \in Nat /\ s \in [1..n -> listed]
      /\ \A k \in listed : \E i \in 1..n : s[i] = k
      /\ \A i, j \in 1..n : i < j => Before(s[i], s[j])
  BY ListsAll
<1>2. /\ b = [i \in 1..n |-> [id |-> s[i], text |-> chunks[s[i]]]]
      /\ Len(b) = n
  BY <1>1
<1>3. ASSUME NEW k \in listed
      PROVE  /\ documents[k[1]] \in Contents /\ k[2] <= Parts[documents[k[1]]]
             /\ chunks[k] = <<documents[k[1]], k[2]>>
             /\ k \in ChunkIds /\ k[1] \in Docs /\ k[2] \in 1..MaxParts
             /\ \A m \in 1..Parts[documents[k[1]]] : <<k[1], m>> \in listed
  <2>1. /\ k[1] \in Docs /\ k[2] \in 1..MaxParts
        /\ chunks[k] = <<documents[k[1]], k[2]>>
        /\ documents[k[1]] # None /\ k[2] <= Parts[documents[k[1]]]
    BY ChunkRow
  <2>2. documents[k[1]] \in Contents
    BY <2>1 DEF PgInv, Tables
  <2>3. ASSUME NEW m \in 1..Parts[documents[k[1]]] PROVE <<k[1], m>> \in listed
    <3>1. Parts[documents[k[1]]] \in 1..MaxParts /\ MaxParts \in Nat
      BY <2>2, KnowledgeAssumption
    <3>2. <<k[1], m>> \in ChunkIds
      BY <2>1, <3>1 DEF ChunkIds
    <3>3. <<k[1], m>> \in ids
      BY <3>2
    <3> DEFINE l == <<k[1], m>>
    <3>4. chunks[<<k[1], m>>] = <<documents[k[1]], m>>
      <4>1. l \in ChunkIds /\ l[1] = k[1] /\ l[2] = m /\ m <= Parts[documents[k[1]]]
        BY <3>1, <3>2
      <4> HIDE DEF l
      <4>2. chunks[l] = <<documents[k[1]], m>>
        BY <2>1, <4>1, ChunkRow
      <4> QED BY <4>2 DEF l
    <3>5. <<documents[k[1]], m>> # None
      BY <2>2, <3>1, KnowledgeAssumption
    <3> QED BY <3>3, <3>4, <3>5
  <2> QED BY <2>1, <2>2, <2>3
<1> HIDE DEF listed, n
<1>4. \A i \in 1..n : /\ b[i] = [id |-> s[i], text |-> chunks[s[i]]]
                      /\ b[i].id = s[i] /\ b[i].text = chunks[s[i]] /\ s[i] \in listed
  BY <1>1, <1>2
<1> HIDE DEF b
<1>5. ASSUME NEW i \in 1..n
      PROVE  /\ b[i].text = <<documents[b[i].id[1]], b[i].id[2]>>
             /\ documents[b[i].id[1]] = b[i].text[1] /\ b[i].text[2] = b[i].id[2]
             /\ b[i].id[2] <= Parts[documents[b[i].id[1]]]
             /\ b[i].id \in ChunkIds /\ b[i].text \in Contents \X (1..MaxParts)
             /\ \A m \in 1..Parts[documents[b[i].id[1]]] : <<b[i].id[1], m>> \in listed
  <2>1. PICK k \in listed : b[i].id = k /\ b[i].text = chunks[k]
    BY <1>4
  <2>2. /\ documents[k[1]] \in Contents /\ k[2] <= Parts[documents[k[1]]]
        /\ chunks[k] = <<documents[k[1]], k[2]>> /\ k \in ChunkIds /\ k[2] \in 1..MaxParts
        /\ \A m \in 1..Parts[documents[k[1]]] : <<k[1], m>> \in listed
    BY <1>3
  <2>3. chunks[k][1] = documents[k[1]] /\ chunks[k][2] = k[2] /\ chunks[k] \in Contents \X (1..MaxParts)
    BY <2>2
  <2> QED BY <2>1, <2>2, <2>3
<1>6. \A i \in 1..n : b[i] \in ChunkRows
  <2> SUFFICES ASSUME NEW i \in 1..n PROVE b[i] \in ChunkRows
    OBVIOUS
  <2>1. b[i] = [id |-> s[i], text |-> chunks[s[i]]] /\ b[i].id = s[i] /\ b[i].text = chunks[s[i]]
    BY <1>4
  <2>2. s[i] \in ChunkIds /\ chunks[s[i]] \in Contents \X (1..MaxParts)
    BY <1>5, <2>1
  <2> QED BY <2>1, <2>2 DEF ChunkRows
<1>7. b \in Seq(ChunkRows)
  <2>1. b = [i \in 1..n |-> b[i]]
    BY <1>2 DEF b
  <2> QED BY <1>1, <1>6, <2>1, Lists
<1>8. InOrder(b)
  BY <1>1, <1>2, <1>4 DEF InOrder
<1>9. ASSUME NEW i \in 1..n PROVE WholeAt(b, i)
  <2>1. /\ b[i].text[2] = b[i].id[2] /\ b[i].text[1] = documents[b[i].id[1]]
        /\ b[i].id[2] <= Parts[b[i].text[1]]
        /\ \A m \in 1..Parts[b[i].text[1]] : <<b[i].id[1], m>> \in listed
    BY <1>5
  <2>2. ASSUME NEW m \in 1..Parts[b[i].text[1]]
        PROVE  \E j \in 1..Len(b) : b[j].id = <<b[i].id[1], m>>
    <3>1. PICK j \in 1..n : s[j] = <<b[i].id[1], m>>
      BY <1>1, <2>1
    <3> QED BY <1>2, <1>4, <3>1
  <2> QED BY <2>1, <2>2 DEF WholeAt
<1>10. ChunkList(b)
  BY <1>2, <1>7, <1>8, <1>9 DEF ChunkList
<1> QED BY <1>2, <1>5, <1>10 DEF b

-----------------------------------------------------------------------------
(***************************************************************************)
(* The statements of an add and of a removal.                              *)
(***************************************************************************)
LEMMA AddDocumentHolds ==
  ASSUME HeldInv, NEW t \in Tasks, NEW d \in Docs, NEW c \in Contents, AddDocument(t, d, c)
  PROVE  Held'
<1>1. /\ at' = [at EXCEPT ![t] = "exists"] /\ batch' = [batch EXCEPT ![t] = ChunkDocument(d, c)]
      /\ rows' = [rows EXCEPT ![t] = rows[t]] /\ vectors' = [vectors EXCEPT ![t] = vectors[t]]
      /\ UNCHANGED tables
  BY HeldSame DEF AddDocument, Calls, To
<1>2. Holding("exists", ChunkDocument(d, c), rows[t], vectors[t], documents, overtaken)
  BY DocumentList DEF Holding
<1> QED BY ONLY <1>1, <1>2, HeldLocalStep, HeldInv, t \in Tasks

LEMMA AddStatementHolds ==
  ASSUME HeldInv, NEW t \in Tasks, Exists(t) \/ InsertDocument(t) \/ InsertChunk(t)
  PROVE  Held'
<1>1. UNCHANGED tables
  BY DEF Exists, InsertDocument, InsertChunk
<1>2. CASE \E r : Returns(t, r) /\ Drops(t)
  BY <1>1, <1>2, HeldReturns
<1>3. CASE Exists(t) /\ To(t, "insert") /\ UNCHANGED <<batch, rows, vectors>>
  <2>1. /\ at' = [at EXCEPT ![t] = "insert"] /\ rows' = [rows EXCEPT ![t] = rows[t]]
        /\ batch' = [batch EXCEPT ![t] = batch[t]] /\ vectors' = [vectors EXCEPT ![t] = vectors[t]]
    BY <1>3, HeldSame DEF To
  <2>2. Holding("insert", batch[t], rows[t], vectors[t], documents, overtaken)
    BY HeldSame DEF Holding
  <2> QED BY ONLY <1>1, <2>1, <2>2, HeldLocalStep, HeldInv, t \in Tasks
<1>4. CASE /\ InsertDocument(t) /\ To(t, "chunks") /\ UNCHANGED <<batch, rows, vectors>>
           /\ documents[arg[t]] = None
  <2>1. PICK c \in Contents : arg[t] \in Docs /\ batch[t] = ChunkDocument(arg[t], c)
    BY <1>4, HeldSame, Same DEF InsertDocument, MayInsert, Doing, Adding
  <2>2. \A i \in 1..Len(batch[t]) : batch[t][i].id[1] = arg[t]
    BY <2>1, DocumentList
  <2>3. \A i \in 1..Len(batch[t]) : Current(batch[t][i], documents, overtaken)
    BY <1>4, <2>2 DEF Current
  <2>4. Holding("chunks", batch[t], rows[t], vectors[t], documents, overtaken)
    BY <2>3, HeldSame DEF Holding
  <2>5. /\ at' = [at EXCEPT ![t] = "chunks"] /\ rows' = [rows EXCEPT ![t] = rows[t]]
        /\ batch' = [batch EXCEPT ![t] = batch[t]] /\ vectors' = [vectors EXCEPT ![t] = vectors[t]]
    BY <1>4, HeldSame DEF To
  <2> QED BY ONLY <1>1, <2>4, <2>5, HeldLocalStep, HeldInv, t \in Tasks
<1>5. CASE InsertChunk(t)
  <2>1. at[t] = "chunks" /\ UNCHANGED <<batch, vectors>>
    BY <1>5 DEF InsertChunk, Working
  <2>2. PICK a \in {"chunks", "commit add"} :
         \E r : at' = [at EXCEPT ![t] = a] /\ rows' = [rows EXCEPT ![t] = r]
    <3>1. CASE rows' = [rows EXCEPT ![t] = @ + 1] /\ UNCHANGED at
      BY <2>1, <3>1, HeldSame
    <3>2. CASE To(t, "commit add") /\ UNCHANGED rows
      BY <3>2, HeldSame DEF To
    <3> QED BY <1>5, <3>1, <3>2 DEF InsertChunk
  <2> QED BY <1>1, <2>1, <2>2, HeldMoves
<1> QED BY <1>2, <1>3, <1>4, <1>5 DEF Exists, InsertDocument

(* A commit or a DELETE of t: what every task holds is still current.      *)
LEMMA HeldCommit ==
  ASSUME HeldInv, NEW t \in Tasks, To(t, "committed"), UNCHANGED <<rows, vectors, batch>>,
         at[t] \notin {"exists", "insert"},
         \A u \in Tasks : \A i \in 1..Len(batch[u]) :
           at[u] \notin {"exists", "insert"} /\ Current(batch[u][i], documents, overtaken)
             => Current(batch[u][i], documents', overtaken')
  PROVE  AllHold'
<1>1. at'[t] = "committed" /\ \A u \in Tasks \ {t} : at'[u] = at[u]
  BY DEF To, HeldInv, PgInv, Tables
<1>2. vectors' = [u \in Tasks |-> vectors'[u]]
  BY DEF HeldInv, AllHold
<1>3. ASSUME NEW u \in Tasks
      PROVE  Holding(at'[u], batch[u], rows[u], vectors[u], documents', overtaken')
  <2>1. Holding(at[u], batch[u], rows[u], vectors[u], documents, overtaken)
    BY DEF HeldInv, AllHold
  <2>2. at[u] \notin {"exists", "insert"} =>
          \A i \in 1..Len(batch[u]) : Current(batch[u][i], documents', overtaken')
    BY <2>1 DEF Holding
  <2>3. at'[u] = at[u] \/ (at'[u] = "committed" /\ at[u] \notin {"exists", "insert"})
    BY <1>1
  <2> QED BY <2>1, <2>2, <2>3 DEF Holding
<1> QED BY <1>2, <1>3 DEF AllHold

LEMMA CommitAddHolds ==
  ASSUME HeldInv, NEW t \in Tasks, CommitAdd(t)
  PROVE  Held'
<1>1. /\ at[t] = "commit add" /\ To(t, "committed")
      /\ UNCHANGED <<rows, vectors, batch, embeddings>>
      /\ documents' = [documents EXCEPT ![arg[t]] = ContentOf(t)]
      /\ overtaken' = IF HoldsOld(t) THEN overtaken \cup {arg[t]} ELSE overtaken
  BY DEF CommitAdd, Working
<1>2. PgInv /\ PgInv' /\ documents[arg[t]] = None
  BY CommitAddKeeps DEF HeldInv
<1>3. PICK c \in Contents : arg[t] \in Docs /\ batch[t] = ChunkDocument(arg[t], c)
  BY <1>1, <1>2, Same DEF Doing, Adding
<1>4. ContentOf(t) = c /\ \A i \in 1..Len(batch[t]) : batch[t][i].id[1] = arg[t] /\ batch[t][i].text[1] = c
  BY <1>3, DocumentList, ChunksOf DEF ContentOf
<1>5. \A d \in Docs : documents'[d] = IF d = arg[t] THEN c ELSE documents[d]
  BY <1>1, <1>2, <1>4 DEF PgInv, Tables
<1>6. ASSUME NEW u \in Tasks, NEW i \in 1..Len(batch[u]), at[u] \notin {"exists", "insert"},
             Current(batch[u][i], documents, overtaken)
      PROVE  Current(batch[u][i], documents', overtaken')
  <2>1. batch[u][i].id[1] \in Docs
    <3>1. ChunkList(batch[u])
      BY HeldSame DEF Holding
    <3> QED BY <3>1, ListRows
  <2>2. CASE batch[u][i].id[1] # arg[t]
    BY <1>1, <1>5, <1>6, <2>1, <2>2 DEF Current
  <2>3. CASE batch[u][i].id[1] = arg[t] /\ batch[u][i].text[1] = c
    BY <1>3, <1>5, <2>3 DEF Current
  <2>4. CASE batch[u][i].id[1] = arg[t] /\ batch[u][i].text[1] # c
    <3>1. u # t
      BY <1>4, <2>4
    <3>2. HoldsOld(t)
      BY <1>4, <1>6, <2>4, <3>1 DEF HoldsOld
    <3> QED BY <1>1, <2>4, <3>2 DEF Current
  <2> QED BY <2>2, <2>3, <2>4
<1>7. AllHold'
  BY <1>1, <1>6, HeldCommit
<1>8. \A k \in ChunkIds : k[1] = arg[t] => embeddings[k] = None
  BY <1>2, ChunkRow
<1>9. \A k \in ChunkIds : k[1] # arg[t] => chunks'[k] = chunks[k]
  BY DEF CommitAdd
<1>10. EmbeddingsFresh'
  <2> SUFFICES ASSUME NEW k \in ChunkIds, k[1] \notin overtaken', embeddings[k] # None
               PROVE  embeddings[k] = chunks'[k]
    BY <1>1 DEF EmbeddingsFresh
  <2>1. k[1] # arg[t] /\ k[1] \notin overtaken
    BY <1>1, <1>8
  <2> QED BY <1>9, <2>1 DEF HeldInv, EmbeddingsFresh
<1>11. IndexedWhole'
  <2> SUFFICES ASSUME NEW d \in Docs \ overtaken'
               PROVE  LET embedded == {k \in OfDocument(d) : embeddings[k] # None}
                      IN embedded = {} \/ embedded = {k \in OfDocument(d) : chunks'[k] # None}
    BY <1>1 DEF IndexedWhole
  <2>1. CASE d = arg[t]
    BY <1>8, <2>1 DEF OfDocument
  <2>2. CASE d # arg[t]
    <3>1. \A k \in OfDocument(d) : chunks'[k] = chunks[k]
      BY <1>9, <2>2 DEF OfDocument
    <3>2. d \in Docs \ overtaken
      BY <1>1
    <3> QED BY <3>1, <3>2 DEF HeldInv, IndexedWhole
  <2> QED BY <2>1, <2>2
<1> QED BY <1>7, <1>10, <1>11 DEF Held

LEMMA DeleteHolds ==
  ASSUME HeldInv, NEW t \in Tasks, Delete(t)
  PROVE  Held'
<1>1. /\ at[t] = "delete" /\ To(t, "committed") /\ UNCHANGED <<rows, vectors, batch>>
      /\ documents' = [documents EXCEPT ![arg[t]] = None]
      /\ overtaken' = overtaken \ {arg[t]}
  BY DEF Delete, Working
<1>2. PgInv /\ arg[t] \in Docs
  <2>1. PgInv /\ Doing(at[t], arg[t], batch[t], rows[t])
    BY Same DEF HeldInv
  <2> QED BY <1>1, <2>1 DEF Doing
<1>3. \A d \in Docs : documents'[d] = IF d = arg[t] THEN None ELSE documents[d]
  BY <1>1, <1>2 DEF PgInv, Tables
<1>4. ASSUME NEW u \in Tasks, NEW i \in 1..Len(batch[u]), Current(batch[u][i], documents, overtaken)
      PROVE  Current(batch[u][i], documents', overtaken')
  <2>1. batch[u][i].id[1] \in Docs
    <3>1. ChunkList(batch[u])
      BY HeldSame DEF Holding
    <3> QED BY <3>1, ListRows
  <2> QED BY <1>1, <1>3, <1>4, <2>1 DEF Current
<1>5. AllHold'
  BY <1>1, <1>4, HeldCommit
<1>6. \A k \in ChunkIds : /\ chunks'[k] = IF k[1] = arg[t] THEN None ELSE chunks[k]
                          /\ embeddings'[k] = IF k[1] = arg[t] THEN None ELSE embeddings[k]
  BY DEF Delete, OfDocument
<1>7. EmbeddingsFresh'
  BY <1>1, <1>6 DEF HeldInv, EmbeddingsFresh
<1>8. IndexedWhole'
  <2> SUFFICES ASSUME NEW d \in Docs \ overtaken'
               PROVE  LET embedded == {k \in OfDocument(d) : embeddings'[k] # None}
                      IN embedded = {} \/ embedded = {k \in OfDocument(d) : chunks'[k] # None}
    BY DEF IndexedWhole
  <2>1. CASE d = arg[t]
    BY <1>6, <2>1 DEF OfDocument
  <2>2. CASE d # arg[t]
    <3>1. \A k \in OfDocument(d) : chunks'[k] = chunks[k] /\ embeddings'[k] = embeddings[k]
      BY <1>6, <2>2 DEF OfDocument
    <3>2. d \in Docs \ overtaken
      BY <1>1, <2>2
    <3> QED BY <3>1, <3>2 DEF HeldInv, IndexedWhole
  <2> QED BY <2>1, <2>2
<1> QED BY <1>5, <1>7, <1>8 DEF Held

-----------------------------------------------------------------------------
(***************************************************************************)
(* The statements that read, and those of index.                           *)
(***************************************************************************)
LEMMA SelectsHolds ==
  ASSUME HeldInv, NEW t \in Tasks, NEW ids \in SUBSET ChunkIds, Selects(t, ids),
         \A k \in ids, l \in ChunkIds : k[1] = l[1] => l \in ids
  PROVE  Held'
<1>1. PICK s \in Ordered({k \in ids : chunks[k] # None}) :
        batch' = [batch EXCEPT ![t] = [i \in DOMAIN s |-> [id |-> s[i], text |-> chunks[s[i]]]]]
  BY DEF Selects
<1> DEFINE b == [i \in DOMAIN s |-> [id |-> s[i], text |-> chunks[s[i]]]]
<1>2. batch' = [batch EXCEPT ![t] = b]
  BY <1>1
<1>3. ChunkList(b) /\ \A i \in 1..Len(b) : documents[b[i].id[1]] = b[i].text[1]
  BY SelectedList DEF HeldInv
<1> HIDE DEF b
<1>4. /\ at' = [at EXCEPT ![t] = "idle"] /\ rows' = [rows EXCEPT ![t] = rows[t]]
      /\ vectors' = [vectors EXCEPT ![t] = vectors[t]] /\ UNCHANGED tables
  BY HeldSame DEF Selects
<1>5. Holding("idle", b, rows[t], vectors[t], documents, overtaken)
  BY <1>3 DEF Holding, Current
<1> QED BY ONLY <1>2, <1>4, <1>5, HeldLocalStep, HeldInv, t \in Tasks

LEMMA ReadsHold ==
  ASSUME HeldInv, NEW t \in Tasks,
         (\E d \in Docs : ChunksForDocument(t, d)) \/ ChunksForSource(t)
  PROVE  Held'
<1>1. ASSUME NEW d \in Docs, ChunksForDocument(t, d)
      PROVE  Held'
  <2>1. /\ OfDocument(d) \in SUBSET ChunkIds
        /\ \A k \in OfDocument(d), l \in ChunkIds : k[1] = l[1] => l \in OfDocument(d)
    BY DEF OfDocument
  <2> QED BY <1>1, <2>1, SelectsHolds DEF ChunksForDocument
<1>2. CASE ChunksForSource(t)
  BY <1>2, SelectsHolds DEF ChunksForSource
<1> QED BY <1>1, <1>2

LEMMA OtherCallsHold ==
  ASSUME HeldInv, NEW t \in Tasks,
         \/ \E d \in Docs : RemoveDocument(t, d)
         \/ Index(t) \/ ListDocuments(t) \/ Retrieve(t) \/ Retrieved(t)
         \/ Acknowledged(t) \/ Fails(t)
  PROVE  Held'
<1>1. ASSUME NEW d \in Docs, RemoveDocument(t, d)
      PROVE  Held'
  <2>1. /\ at' = [at EXCEPT ![t] = "delete"] /\ rows' = [rows EXCEPT ![t] = rows[t]]
        /\ batch' = [batch EXCEPT ![t] = <<>>] /\ vectors' = [vectors EXCEPT ![t] = vectors[t]]
        /\ UNCHANGED tables
    BY <1>1, HeldSame DEF RemoveDocument, Calls, To, Drops
  <2>2. Holding("delete", <<>>, rows[t], vectors[t], documents, overtaken)
    BY NothingHeld
  <2> QED BY ONLY <2>1, <2>2, HeldLocalStep, HeldInv, t \in Tasks
<1>2. CASE Index(t) \/ Retrieve(t)
  <2>1. PICK a \in {"embed", "query"} : at' = [at EXCEPT ![t] = a]
    BY <1>2 DEF Index, Retrieve, Calls, To
  <2>2. /\ at[t] = "idle" /\ UNCHANGED <<tables, batch, vectors>>
        /\ rows' = [rows EXCEPT ![t] = rows[t]]
    BY <1>2, HeldSame DEF Index, Retrieve, Calls
  <2>3. at[t] \notin {"exists", "insert"} /\ a \notin {"upsert", "commit index"}
    BY <2>1, <2>2
  <2> QED BY ONLY <2>1, <2>2, <2>3, HeldMoves, HeldInv, t \in Tasks
<1>3. CASE ListDocuments(t) \/ Retrieved(t) \/ Acknowledged(t)
  <2>1. at[t] \in {"idle", "query", "committed"} /\ UNCHANGED <<tables, batch>>
    BY <1>3 DEF ListDocuments, Retrieved, Acknowledged
  <2>2. \E r : Returns(t, r)
    BY <1>3 DEF ListDocuments, Retrieved, Acknowledged
  <2> QED BY <2>1, <2>2, HeldReturns
<1>4. CASE Fails(t)
  <2>1. /\ UNCHANGED tables /\ Returns(t, "failed")
        /\ Drops(t) \/ (UNCHANGED batch /\ at[t] \in {"embed", "upsert", "commit index", "query"})
    BY <1>4 DEF Fails
  <2> QED BY <2>1, HeldReturns
<1> QED BY <1>1, <1>2, <1>3, <1>4

(* A permutation of the texts gives each chunk the embedding of its text.  *)
LEMMA AlignedTexts ==
  ASSUME NEW response, NEW t, Aligns(response, Len(batch[t]))
  PROVE  Aligned(response, t) = Texts(batch[t])
<1> DEFINE place(i) == CHOOSE j \in 1..Len(batch[t]) : response[j] = i
<1>1. \A i \in 1..Len(batch[t]) : response[place(i)] = i
  BY DEF Aligns
<1>2. Aligned(response, t) = [i \in 1..Len(batch[t]) |-> batch[t][response[place(i)]].text]
  BY DEF Aligned
<1> HIDE DEF place
<1> QED BY <1>1, <1>2 DEF Texts

LEMMA EmbeddedHolds ==
  ASSUME HeldInv, NEW t \in Tasks, Embedded(t)
  PROVE  Held'
<1>1. at[t] = "embed" /\ UNCHANGED <<tables, batch>>
  BY DEF Embedded
<1>2. CASE Returns(t, "EmbeddingFailure")
  BY <1>1, <1>2, HeldReturns
<1>3. CASE /\ \E response : /\ Aligns(response, Len(batch[t]))
                            /\ vectors' = [vectors EXCEPT ![t] = Aligned(response, t)]
           /\ To(t, "upsert") /\ UNCHANGED rows
  <2>1. vectors' = [vectors EXCEPT ![t] = Texts(batch[t])]
    BY <1>3, AlignedTexts
  <2>2. rows[t] = 0 /\ Len(batch[t]) \in Nat
    <3>1. PgInv /\ Len(batch[t]) \in Nat
      BY HeldSame
    <3>2. Doing("embed", arg[t], batch[t], rows[t])
      BY <1>1, <3>1, Same
    <3> QED BY <3>1, <3>2 DEF Doing, Writing
  <2>3. Holding("upsert", batch[t], rows[t], Texts(batch[t]), documents, overtaken)
    <3>1. Holding("embed", batch[t], rows[t], vectors[t], documents, overtaken)
      BY <1>1, HeldSame
    <3> QED BY <2>2, <3>1 DEF Holding
  <2>4. /\ at' = [at EXCEPT ![t] = "upsert"] /\ rows' = [rows EXCEPT ![t] = rows[t]]
        /\ batch' = [batch EXCEPT ![t] = batch[t]] /\ UNCHANGED tables
    BY <1>1, <1>3, HeldSame DEF To
  <2> QED BY ONLY <2>1, <2>3, <2>4, HeldLocalStep, HeldInv, t \in Tasks
<1> QED BY <1>2, <1>3 DEF Embedded

LEMMA UpsertHolds ==
  ASSUME HeldInv, NEW t \in Tasks, Upsert(t)
  PROVE  Held'
<1>1. at[t] = "upsert" /\ UNCHANGED tables /\ batch' = [batch EXCEPT ![t] = batch[t]]
  BY HeldSame DEF Upsert
<1>2. /\ Holding("upsert", batch[t], rows[t], vectors[t], documents, overtaken)
      /\ rows[t] \in Nat /\ Len(batch[t]) \in Nat
  BY <1>1, HeldSame
<1>3. CASE Returns(t, "database: rejected")
  <2>1. UNCHANGED batch
    BY DEF Upsert
  <2> QED BY <1>1, <1>3, <2>1, HeldReturns
<1>4. CASE /\ rows[t] < Len(batch[t]) /\ UNCHANGED <<at, vectors>>
           /\ rows' = [rows EXCEPT ![t] = @ + 1]
  <2>1. /\ at' = [at EXCEPT ![t] = "upsert"] /\ rows' = [rows EXCEPT ![t] = rows[t] + 1]
        /\ vectors' = [vectors EXCEPT ![t] = vectors[t]]
    BY <1>1, <1>4, HeldSame
  <2>2. Holding("upsert", batch[t], rows[t] + 1, vectors[t], documents, overtaken)
    BY <1>2, <1>4 DEF Holding
  <2> QED BY ONLY <1>1, <2>1, <2>2, HeldLocalStep, HeldInv, t \in Tasks
<1>5. CASE ~(rows[t] < Len(batch[t])) /\ To(t, "commit index") /\ UNCHANGED <<rows, vectors>>
  <2>1. /\ at' = [at EXCEPT ![t] = "commit index"] /\ rows' = [rows EXCEPT ![t] = rows[t]]
        /\ vectors' = [vectors EXCEPT ![t] = vectors[t]]
    BY <1>5, HeldSame DEF To
  <2>2. Holding("commit index", batch[t], rows[t], vectors[t], documents, overtaken)
    <3>1. rows[t] = Len(batch[t])
      <4>1. rows[t] <= Len(batch[t])
        BY <1>2 DEF Holding
      <4>2. rows[t] \in Nat /\ Len(batch[t]) \in Nat /\ ~(rows[t] < Len(batch[t]))
        BY <1>2, <1>5
      <4> QED BY ONLY <4>1, <4>2
    <3> QED BY <1>2, <3>1 DEF Holding
  <2> QED BY ONLY <1>1, <2>1, <2>2, HeldLocalStep, HeldInv, t \in Tasks
<1> QED BY <1>3, <1>4, <1>5 DEF Upsert, UpsertRow

(* index stores, for whole documents, the embedding of each chunk's text;  *)
(* of a document that is current this is the text the chunk has, and none  *)
(* of its chunks is without an embedding then.                             *)
LEMMA CommitIndexHolds ==
  ASSUME HeldInv, NEW t \in Tasks, CommitIndex(t)
  PROVE  Held'
<1> DEFINE b == batch[t]
           n == Len(batch[t])
<1>1. /\ at[t] = "commit index" /\ To(t, "committed") /\ PgInv
      /\ UNCHANGED <<documents, chunks, overtaken, rows, batch, vectors>>
  BY HeldSame DEF CommitIndex, Working
<1>2. Holding("commit index", b, rows[t], vectors[t], documents, overtaken)
  BY <1>1, HeldSame
<1>3. /\ rows[t] = n /\ n \in Nat /\ n = Len(b) /\ vectors[t] = Texts(b) /\ ChunkList(b)
      /\ \A i \in 1..n : Current(b[i], documents, overtaken)
  BY <1>2, HeldSame DEF Holding
<1>4. \A i \in 1..n :
        /\ b[i].id \in ChunkIds /\ b[i].id[1] \in Docs
        /\ b[i].id = <<b[i].id[1], b[i].id[2]>>
        /\ b[i].text[1] \in Contents /\ b[i].text = <<b[i].text[1], b[i].id[2]>>
        /\ b[i].text # None /\ b[i].id[2] <= Parts[b[i].text[1]]
  BY <1>3, ListRows
<1>5. ASSUME NEW i \in 1..n
      PROVE  chunks[b[i].id] # None
  <2>1. HasWritten(t, b[i].id)
    BY <1>1, <1>3 DEF HasWritten
  <2> QED BY <1>1, <1>4, <2>1 DEF PgInv, WrittenExist
<1>6. ASSUME NEW k \in ChunkIds
      PROVE  \/ (\A i \in 1..n : b[i].id # k) /\ embeddings'[k] = embeddings[k]
             \/ \E i \in 1..n : b[i].id = k /\ embeddings'[k] = b[i].text
  <2>1. embeddings'[k] = IF \E i \in 1..n : b[i].id = k
                         THEN vectors[t][CHOOSE i \in 1..n : b[i].id = k] ELSE embeddings[k]
    BY <1>3 DEF CommitIndex, Stored
  <2>2. CASE \E i \in 1..n : b[i].id = k
    <3> DEFINE j == CHOOSE i \in 1..n : b[i].id = k
    <3>1. j \in 1..n /\ b[j].id = k
      BY <2>2
    <3>2. embeddings'[k] = vectors[t][j]
      BY <2>1, <2>2
    <3> HIDE DEF j
    <3>3. vectors[t][j] = b[j].text
      BY <1>3, <3>1 DEF Texts
    <3> QED BY <3>1, <3>2, <3>3
  <2> QED BY <2>1, <2>2
<1> HIDE DEF b, n
<1>7. ASSUME NEW i \in 1..n, b[i].id[1] \notin overtaken
      PROVE  documents[b[i].id[1]] = b[i].text[1] /\ chunks[b[i].id] = b[i].text
  <2>1. /\ b[i].id \in ChunkIds /\ b[i].text = <<b[i].text[1], b[i].id[2]>>
        /\ chunks[b[i].id] # None
    BY <1>4, <1>5
  <2>2. documents[b[i].id[1]] # None /\ chunks[b[i].id] = <<documents[b[i].id[1]], b[i].id[2]>>
    BY <1>1, <2>1, ChunkRow
  <2>3. documents[b[i].id[1]] = b[i].text[1]
    BY <1>3, <1>7, <2>2 DEF Current
  <2> QED BY <2>1, <2>2, <2>3
<1>8. EmbeddingsFresh'
  <2> SUFFICES ASSUME NEW k \in ChunkIds, k[1] \notin overtaken, embeddings'[k] # None
               PROVE  embeddings'[k] = chunks[k]
    BY <1>1 DEF EmbeddingsFresh
  <2>1. CASE embeddings'[k] = embeddings[k]
    BY <2>1 DEF HeldInv, EmbeddingsFresh
  <2>2. ASSUME NEW i \in 1..n, b[i].id = k, embeddings'[k] = b[i].text
        PROVE  embeddings'[k] = chunks[k]
    BY <1>7, <2>2
  <2> QED BY <1>6, <2>1, <2>2
<1>9. IndexedWhole'
  <2> SUFFICES ASSUME NEW d \in Docs \ overtaken
               PROVE  LET embedded == {k \in OfDocument(d) : embeddings'[k] # None}
                      IN embedded = {} \/ embedded = {k \in OfDocument(d) : chunks[k] # None}
    BY <1>1 DEF IndexedWhole
  <2>1. CASE \A i \in 1..n : b[i].id[1] # d
    <3>1. \A k \in OfDocument(d) : embeddings'[k] = embeddings[k]
      BY <1>6, <2>1 DEF OfDocument
    <3> QED BY <3>1 DEF HeldInv, IndexedWhole
  <2>2. ASSUME NEW i \in 1..n, b[i].id[1] = d
        PROVE  {k \in OfDocument(d) : embeddings'[k] # None} = {k \in OfDocument(d) : chunks[k] # None}
    <3>1. documents[d] = b[i].text[1] /\ b[i].text[1] \in Contents
      BY <1>4, <1>7, <2>2
    <3>2. \A m \in 1..Parts[documents[d]] : \E j \in 1..n : b[j].id = <<d, m>>
      <4>1. WholeAt(b, i)
        BY <1>3 DEF ChunkList
      <4> QED BY <1>3, <2>2, <3>1, <4>1 DEF WholeAt
    <3>3. ASSUME NEW k \in OfDocument(d), chunks[k] # None
          PROVE  embeddings'[k] # None
      <4>1. k \in ChunkIds /\ k[1] = d
        BY DEF OfDocument
      <4>2. /\ k = <<d, k[2]>> /\ k[2] \in 1..MaxParts /\ MaxParts \in Nat
            /\ k[2] <= Parts[documents[d]] /\ Parts[documents[d]] \in Nat
        <5>1. Parts[documents[d]] \in 1..MaxParts /\ MaxParts \in Nat
          BY <3>1, KnowledgeAssumption
        <5>2. /\ k[2] \in 1..MaxParts /\ k = <<k[1], k[2]>>
              /\ chunks[k] = IF documents[k[1]] # None /\ k[2] <= Parts[documents[k[1]]]
                             THEN <<documents[k[1]], k[2]>> ELSE None
          BY <1>1, <4>1, ChunkRow
        <5>3. k[2] <= Parts[documents[k[1]]]
          BY <3>3, <5>2
        <5> QED BY <4>1, <5>1, <5>2, <5>3
      <4>3. PICK j \in 1..n : b[j].id = k
        <5>1. k[2] \in 1..Parts[documents[d]] /\ k = <<d, k[2]>>
          BY <4>2
        <5>2. PICK j \in 1..n : b[j].id = <<d, k[2]>>
          BY <3>2, <5>1
        <5> QED BY <5>1, <5>2
      <4>4. PICK l \in 1..n : b[l].id = k /\ embeddings'[k] = b[l].text
        BY <1>6, <4>1, <4>3
      <4> QED BY <1>4, <4>4
    <3>4. ASSUME NEW k \in OfDocument(d), embeddings'[k] # None
          PROVE  chunks[k] # None
      <4>1. k \in ChunkIds
        BY DEF OfDocument
      <4>2. CASE embeddings'[k] = embeddings[k]
        BY <1>1, <3>4, <4>1, <4>2, ChunkRow
      <4>3. ASSUME NEW l \in 1..n, b[l].id = k
            PROVE  chunks[k] # None
        BY <1>5, <4>3
      <4> QED BY <1>6, <4>1, <4>2, <4>3
    <3> QED BY <3>3, <3>4
  <2> QED BY <2>1, <2>2
<1>10. AllHold'
  <2>1. at[t] \notin {"exists", "insert"}
    BY <1>1
  <2> QED BY <1>1, <2>1, HeldCommit
<1> QED BY <1>8, <1>9, <1>10 DEF Held

LEMMA ConnectHolds ==
  ASSUME HeldInv, NEW t \in Tasks, ConnectStep(t)
  PROVE  Held'
<1>1. PICK a \in Unconnected \cup {"idle"} : at' = [at EXCEPT ![t] = a]
  BY DEF ConnectStep, Connect, CreateTable, ValidateTable, CreateVectorIndex, MigrationFails,
         NotConnected, To, Unconnected
<1>2. UNCHANGED <<tables, rows, batch, vectors>> /\ at[t] \in Unconnected
  BY DEF ConnectStep, Connect, CreateTable, ValidateTable, CreateVectorIndex, MigrationFails,
         Working, Unconnected
<1>3. /\ at[t] \notin {"exists", "insert"} /\ a \notin {"upsert", "commit index"}
      /\ rows' = [rows EXCEPT ![t] = rows[t]] /\ UNCHANGED <<tables, batch, vectors>>
  BY <1>1, <1>2, HeldSame DEF Unconnected
<1> QED BY ONLY <1>1, <1>3, HeldMoves, HeldInv, t \in Tasks

LEMMA HeldStep ==
  ASSUME HeldInv, [Next]_vars
  PROVE  HeldInv'
<1>1. ASSUME NEW t \in Tasks, Operation(t)
      PROVE  Held'
  <2>1. CASE \E d \in Docs, c \in Contents : AddDocument(t, d, c)
    BY <2>1, AddDocumentHolds
  <2>2. CASE Exists(t) \/ InsertDocument(t) \/ InsertChunk(t)
    BY <2>2, AddStatementHolds
  <2>3. CASE CommitAdd(t) \/ Delete(t) \/ CommitIndex(t)
    BY <2>3, CommitAddHolds, DeleteHolds, CommitIndexHolds
  <2>4. CASE (\E d \in Docs : ChunksForDocument(t, d)) \/ ChunksForSource(t)
    BY <2>4, ReadsHold
  <2>5. CASE Embedded(t) \/ Upsert(t)
    BY <2>5, EmbeddedHolds, UpsertHolds
  <2>6. CASE \/ \E d \in Docs : RemoveDocument(t, d)
             \/ Index(t) \/ ListDocuments(t) \/ Retrieve(t) \/ Retrieved(t)
             \/ Acknowledged(t) \/ Fails(t)
    BY <2>6, OtherCallsHold
  <2> QED BY <1>1, <2>1, <2>2, <2>3, <2>4, <2>5, <2>6 DEF Operation
<1>2. ASSUME UNCHANGED vars
      PROVE  Held'
  <2>1. UNCHANGED <<documents, chunks, embeddings, overtaken, at, batch, rows, vectors>>
    BY <1>2 DEF vars
  <2>2. AllHold'
    BY <2>1 DEF HeldInv, AllHold
  <2>3. EmbeddingsFresh'
    BY <2>1 DEF HeldInv, EmbeddingsFresh
  <2>4. IndexedWhole'
    <3>1. IndexedWhole /\ UNCHANGED <<chunks, embeddings, overtaken>>
      BY <2>1 DEF HeldInv
    <3> QED BY ONLY <3>1 DEF IndexedWhole, OfDocument
  <2> QED BY <2>2, <2>3, <2>4 DEF Held
<1>3. Held'
  BY <1>1, <1>2, ConnectHolds DEF Next, ConnectStep
<1>4. PgInv'
  <2>1. CASE UNCHANGED vars
    BY <2>1 DEF HeldInv, vars, PgInv, Tables, TasksDo, Exclusive, WrittenExist, DocumentsWhole,
                Inserting, HasWritten
  <2> QED BY <2>1, OperationKeeps, ConnectKeeps DEF HeldInv, Next, ConnectStep
<1> QED BY <1>3, <1>4 DEF HeldInv, Held

LEMMA SpecHeldInv == Spec => []HeldInv
<1>1. HeldInv /\ [Next]_vars => HeldInv'
  BY HeldStep
<1> QED BY <1>1, HeldInitially, PTL DEF Spec

(* A chunk is ranked by the embedding of its own text, though index awaits *)
(* the embedder with chunks that may be removed and added anew meanwhile:  *)
(* only an add of other chunks under an index in progress can part them.   *)
THEOREM EmbeddingsStayFresh == Spec => []EmbeddingsFresh
<1>1. HeldInv => EmbeddingsFresh
  BY DEF HeldInv
<1> QED BY <1>1, SpecHeldInv, PTL

(* A document has embeddings for all its chunks or for none, whatever      *)
(* statement of an index fails and whoever else indexes or removes it.     *)
THEOREM IndexesAllOrNothing == Spec => []IndexedWhole
<1>1. HeldInv => IndexedWhole
  BY DEF HeldInv
<1> QED BY <1>1, SpecHeldInv, PTL

-----------------------------------------------------------------------------
(***************************************************************************)
(* Waiting.  A task at a row that another one has written waits behind an  *)
(* earlier row than the other's own next one, so of tasks that wait for    *)
(* each other, one that is at the last of their rows waits for none.       *)
(***************************************************************************)
LEMMA BeforeOrders ==
  ASSUME NEW j \in ChunkIds, NEW k \in ChunkIds, NEW l \in ChunkIds
  PROVE  ~Before(k, k) /\ (Before(j, k) /\ Before(k, l) => Before(j, l))
<1>1. /\ \A x \in ChunkIds : x[1] \in Nat /\ x[2] \in Nat
  BY KnowledgeAssumption DEF ChunkIds
<1> QED BY <1>1 DEF Before

(* Of some rows, one is not before another. *)
LEMMA LastRow ==
  ASSUME NEW N \in SUBSET ChunkIds, N # {}
  PROVE  \E k \in N : \A l \in N : ~Before(k, l)
<1> DEFINE later(k) == {l \in ChunkIds : Before(k, l)}
           T == {later(k) : k \in N}
<1>1. IsWellFoundedOn(StrictSubsetOrdering(ChunkIds), FiniteSubsetsOf(ChunkIds))
  BY FS_StrictSubsetOrderingWellFounded
<1>2. T \subseteq FiniteSubsetsOf(ChunkIds) /\ T # {}
  <2>1. ASSUME NEW k \in N
        PROVE  later(k) \in FiniteSubsetsOf(ChunkIds)
    <3>1. later(k) \in SUBSET ChunkIds
      OBVIOUS
    <3>2. IsFiniteSet(later(k))
      BY ONLY <3>1, FinitelyManyIds, FS_Subset
    <3> QED BY <3>1, <3>2 DEF FiniteSubsetsOf
  <2> HIDE DEF later
  <2> QED BY <2>1
<1> HIDE DEF T
<1>3. PICK x \in T : \A y \in T : <<y, x>> \notin StrictSubsetOrdering(ChunkIds)
  BY <1>1, <1>2, WFMin
<1>4. PICK k \in N : x = later(k)
  BY <1>3 DEF T
<1>5. ASSUME NEW l \in N, Before(k, l)
      PROVE  FALSE
  <2>1. k \in ChunkIds /\ l \in ChunkIds
    OBVIOUS
  <2>2. later(l) \subseteq later(k)
    BY <1>5, <2>1, BeforeOrders
  <2>3. l \in later(k) /\ l \notin later(l)
    BY <1>5, <2>1, BeforeOrders
  <2>4. later(l) \in T /\ later(l) \in SUBSET ChunkIds /\ later(k) \in SUBSET ChunkIds
    BY DEF T
  <2> HIDE DEF later
  <2>5. <<later(l), later(k)>> \in StrictSubsetOrdering(ChunkIds)
    BY <2>2, <2>3, <2>4 DEF StrictSubsetOrdering
  <2> QED BY <1>3, <1>4, <2>4, <2>5
<1> QED BY <1>5

NextRow(t) == batch[t][rows[t] + 1].id

(* The row t waits for was written by u before its own next one. *)
LEMMA WaitsBehind ==
  ASSUME HeldInv, NEW t \in Tasks, NEW u \in Tasks, WaitsFor(t, u),
         at[u] = "upsert", rows[u] < Len(batch[u])
  PROVE  NextRow(t) \in ChunkIds /\ Before(NextRow(t), NextRow(u))
<1>1. PICK i \in 1..rows[u] : batch[u][i].id = NextRow(t)
  BY DEF WaitsFor, HasWritten, NextRow
<1>2. ChunkList(batch[u]) /\ rows[u] \in Nat /\ Len(batch[u]) \in Nat
  BY HeldSame DEF Holding
<1>3. i \in 1..Len(batch[u]) /\ rows[u] + 1 \in 1..Len(batch[u]) /\ i < rows[u] + 1
  BY <1>2
<1>4. Before(batch[u][i].id, batch[u][rows[u] + 1].id)
  BY <1>2, <1>3 DEF ChunkList, InOrder
<1>5. batch[u][i].id \in ChunkIds
  BY <1>2, <1>3, ListRows
<1> QED BY <1>1, <1>4, <1>5 DEF NextRow

LEMMA NobodyInACircle ==
  ASSUME HeldInv PROVE IndexesNeverDeadlock
<1> SUFFICES ASSUME NEW waiting \in SUBSET Tasks, waiting # {},
                    \A t \in waiting : \E u \in waiting \ {t} : WaitsFor(t, u)
             PROVE  FALSE
  BY DEF IndexesNeverDeadlock
<1>1. \A t \in waiting : at[t] = "upsert" /\ rows[t] < Len(batch[t])
  BY DEF WaitsFor
<1>2. ASSUME NEW t \in waiting
      PROVE  \E u \in waiting : NextRow(t) \in ChunkIds /\ Before(NextRow(t), NextRow(u))
  BY <1>1, WaitsBehind
<1> DEFINE N == {NextRow(t) : t \in waiting}
<1>3. N \in SUBSET ChunkIds /\ N # {}
  BY <1>2
<1>4. PICK k \in N : \A l \in N : ~Before(k, l)
  BY <1>3, LastRow
<1>5. PICK t \in waiting : k = NextRow(t)
  OBVIOUS
<1> QED BY <1>2, <1>4, <1>5

(* Whatever documents or sources any number of tasks index at a time, they *)
(* never wait for each other in a circle: the order of a SELECT, and of a  *)
(* document's chunks, is one order of the rows.                            *)
THEOREM IndexesDeadlockFree == Spec => []IndexesNeverDeadlock
<1>1. HeldInv => IndexesNeverDeadlock
  BY NobodyInACircle
<1> QED BY <1>1, SpecHeldInv, PTL
=============================================================================
