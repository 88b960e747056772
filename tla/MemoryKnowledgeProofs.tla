------------------------ MODULE MemoryKnowledgeProofs ------------------------
(***************************************************************************)
(* The in-memory knowledge base and retriever, for any tasks, documents,   *)
(* contents, options and length of a source line.                          *)
(*                                                                         *)
(* The operators of Chunking and MemoryKnowledge are folds.  For each of   *)
(* them a lemma (its name ends in Steps) says that there is a function     *)
(* with what the loop has after its first k elements; with it, a fact      *)
(* about the result is proved by induction, as a fact about a set of       *)
(* numbers (Induction).                                                    *)
(*                                                                         *)
(* ChunksCoverText: cutting leaves the letters (LettersOf), from the lines *)
(* to the pieces; as the letters of a content are numbered, a piece is a   *)
(* run of numbers (Run), and so is a chunk, which starts earlier.          *)
(* EntriesOfOneCall: what a task holds are all chunks of some documents    *)
(* (AllOrNone), and a stable insertion sort keeps them.                    *)
(* ContextWithinBudget: what the loop counts is the length, but for the    *)
(* line ends of the chunks after the second (Counted).                     *)
(***************************************************************************)
EXTENDS MemoryKnowledge, FiniteSetTheorems, SequenceTheorems, WellFoundedInduction, TLAPS

(* Of a set of numbers one is the least. *)
LEMMA LeastNumber ==
  ASSUME NEW T, T \subseteq Nat, T # {}
  PROVE  \E n \in T : \A m \in T : n <= m
<1> DEFINE R == OpToRel(<, Nat)
<1>1. PICK x \in T : \A y \in T : ~ (<<y, x>> \in R)
  BY NatLessThanWellFounded, WFMin
<1>2. \A i, j \in Nat : i < j => <<i, j>> \in R
  BY DEF OpToRel
<1> HIDE DEF R
<1>3. \A y \in T : ~ (y < x)
  BY <1>1, <1>2
<1>4. \A y \in T : x <= y
  BY <1>3
<1> QED BY <1>4

(* Induction, as a fact about a set. *)
LEMMA Induction ==
  ASSUME NEW S, 0 \in S, \A n \in Nat : n \in S => n + 1 \in S
  PROVE  \A n \in Nat : n \in S
<1> SUFFICES ASSUME NEW x \in Nat, x \notin S PROVE FALSE
  OBVIOUS
<1> DEFINE T == {n \in Nat : n \notin S}
<1>1. PICK n \in T : \A m \in T : n <= m
  BY LeastNumber
<1>2. n # 0 /\ n - 1 \in Nat /\ n - 1 \in S
  BY <1>1
<1> QED BY <1>1, <1>2

(* The greatest of some numbers is one of them. *)
LEMMA MaxOf ==
  ASSUME NEW n \in Nat, NEW s, s \subseteq 0..n, s # {}
  PROVE  Max(s) \in s /\ \A y \in s : y <= Max(s)
<1> DEFINE T == {n - x : x \in s}
<1>1. T \subseteq Nat
  <2> SUFFICES ASSUME NEW t \in T PROVE t \in Nat
    OBVIOUS
  <2>1. PICK x \in s : t = n - x
    OBVIOUS
  <2>2. x \in 0..n
    OBVIOUS
  <2> QED BY <2>1, <2>2
<1>2. T # {}
  OBVIOUS
<1>3. PICK m \in T : \A k \in T : m <= k
  BY <1>1, <1>2, LeastNumber
<1>4. PICK x \in s : m = n - x
  OBVIOUS
<1>5. ASSUME NEW y \in s PROVE x >= y
  <2>1. n - x <= n - y
    BY <1>3, <1>4
  <2>2. x \in 0..n /\ y \in 0..n
    OBVIOUS
  <2> QED BY <2>1, <2>2
<1>6. Max(s) \in s /\ \A y \in s : Max(s) >= y
  BY <1>5 DEF Max
<1>7. \A y \in s : y \in Int
  OBVIOUS
<1> QED BY <1>6, <1>7

(* The functions that compute a fold over the first k elements. *)
Folding(A, start, step, seq, k) ==
  {F \in [SUBSET (1..k) -> A] :
     \A s \in SUBSET (1..k) :
       F[s] = IF s = {} THEN start ELSE step[F[s \ {Max(s)}], seq[Max(s)]]}

(* There is one, whatever is folded. *)
LEMMA FoldExists ==
  ASSUME NEW A, NEW B, NEW start \in A, NEW step \in [A \X B -> A],
         NEW n \in Nat, NEW seq \in [1..n -> B]
  PROVE  \E F \in [SUBSET (1..n) -> A] : F \in Folding(A, start, step, seq, n)
<1> DEFINE S == {k \in Nat : k <= n => Folding(A, start, step, seq, k) # {}}
<1>1. 0 \in S
  <2> DEFINE F == [s \in SUBSET (1..0) |-> start]
  <2>1. \A s \in SUBSET (1..0) : s = {}
    <3> TAKE s \in SUBSET (1..0)
    <3>1. \A x \in s : x \in 1..0
      OBVIOUS
    <3> QED BY <3>1
  <2>2. F \in Folding(A, start, step, seq, 0)
    BY <2>1 DEF Folding
  <2> QED BY <2>2
<1>2. \A k \in Nat : k \in S => k + 1 \in S
  <2> SUFFICES ASSUME NEW k \in Nat, k + 1 <= n, Folding(A, start, step, seq, k) # {}
               PROVE  Folding(A, start, step, seq, k + 1) # {}
    OBVIOUS
  <2>1. PICK F : F \in Folding(A, start, step, seq, k)
    OBVIOUS
  <2> DEFINE G == [s \in SUBSET (1..(k + 1)) |->
                     IF k + 1 \in s THEN step[F[s \ {k + 1}], seq[k + 1]] ELSE F[s]]
  <2>2. ASSUME NEW s \in SUBSET (1..(k + 1))
        PROVE  /\ s \ {k + 1} \in SUBSET (1..k)
               /\ k + 1 \notin s => s \in SUBSET (1..k)
    <3>1. \A x \in s : x \in 1..(k + 1)
      OBVIOUS
    <3>2. \A x \in s : x # k + 1 => x \in 1..k
      BY <3>1
    <3> QED BY <3>2
  <2>3. F \in [SUBSET (1..k) -> A]
    BY <2>1 DEF Folding
  <2>4. seq[k + 1] \in B
    OBVIOUS
  <2>5. G \in [SUBSET (1..(k + 1)) -> A]
    <3>1. ASSUME NEW s \in SUBSET (1..(k + 1))
          PROVE  (IF k + 1 \in s THEN step[F[s \ {k + 1}], seq[k + 1]] ELSE F[s]) \in A
      BY <2>2, <2>3, <2>4
    <3> QED BY <3>1
  <2>6. ASSUME NEW s \in SUBSET (1..(k + 1))
        PROVE  G[s] = IF s = {} THEN start ELSE step[G[s \ {Max(s)}], seq[Max(s)]]
    <3>1. CASE k + 1 \in s
      <4>1. Max(s) = k + 1
        <5>1. s \subseteq 0..(k + 1) /\ s \subseteq 1..(k + 1) /\ s # {} /\ k + 1 \in Nat
          BY <3>1
        <5>2. Max(s) \in s /\ \A y \in s : y <= Max(s)
          BY <5>1, MaxOf
        <5>3. Max(s) \in 1..(k + 1) /\ k + 1 <= Max(s)
          BY <5>1, <5>2, <3>1
        <5> QED BY <5>3
      <4>2. k + 1 \notin s \ {k + 1} /\ s \ {k + 1} \in SUBSET (1..(k + 1))
        BY <2>2
      <4>3. G[s \ {k + 1}] = F[s \ {k + 1}]
        BY <4>2
      <4> QED BY <4>1, <4>3, <3>1
    <3>2. CASE k + 1 \notin s
      <4>1. G[s] = F[s] /\ s \in SUBSET (1..k)
        BY <3>2, <2>2
      <4>2. F[s] = IF s = {} THEN start ELSE step[F[s \ {Max(s)}], seq[Max(s)]]
        BY <4>1, <2>1 DEF Folding
      <4>3. s \ {Max(s)} \in SUBSET (1..(k + 1)) /\ k + 1 \notin s \ {Max(s)}
        BY <3>2
      <4>4. G[s \ {Max(s)}] = F[s \ {Max(s)}]
        BY <4>3
      <4> QED BY <4>1, <4>2, <4>4
    <3> QED BY <3>1, <3>2
  <2>7. G \in Folding(A, start, step, seq, k + 1)
    BY <2>5, <2>6 DEF Folding
  <2> QED BY <2>7
<1> HIDE DEF S
<1>3. n \in S
  BY <1>1, <1>2, Induction
<1>4. Folding(A, start, step, seq, n) # {}
  BY <1>3 DEF S
<1> QED BY <1>4 DEF Folding

(* A fold takes the last of the first k elements. *)
LEMMA InitialSegment ==
  ASSUME NEW n \in Nat, NEW k \in 1..n
  PROVE  /\ 1..k \in SUBSET (1..n)
         /\ 1..k # {}
         /\ Max(1..k) = k
         /\ (1..k) \ {k} = 1..(k - 1)
<1>1. 1..k \in SUBSET (1..n) /\ k \in 1..k /\ k \in Nat /\ 1..k \subseteq 0..k
  OBVIOUS
<1>2. Max(1..k) \in 1..k /\ \A y \in 1..k : y <= Max(1..k)
  BY <1>1, MaxOf
<1>3. Max(1..k) = k
  BY <1>1, <1>2
<1>4. (1..k) \ {k} = 1..(k - 1)
  OBVIOUS
<1> QED BY <1>1, <1>3, <1>4

(* What a fold is after each element. *)
LEMMA FoldSteps ==
  ASSUME NEW A, NEW start \in A, NEW n \in Nat, NEW iter, iter[1..0] = start,
         \A k \in 1..n : iter[1..(k - 1)] \in A => iter[1..k] \in A
  PROVE  \A k \in 0..n : iter[1..k] \in A
<1> DEFINE S == {k \in Nat : k <= n => iter[1..k] \in A}
<1>1. 0 \in S
  OBVIOUS
<1>2. ASSUME NEW k \in Nat, k \in S PROVE k + 1 \in S
  <2>1. CASE k + 1 <= n
    <3>1. iter[1..k] \in A /\ k + 1 \in 1..n /\ (k + 1) - 1 = k
      BY <2>1, <1>2
    <3>2. iter[1..(k + 1)] \in A
      BY <3>1
    <3> QED BY <3>2
  <2>2. CASE ~(k + 1 <= n)
    BY <2>2
  <2> QED BY <2>1, <2>2
<1> HIDE DEF S
<1>3. \A k \in Nat : k \in S
  BY <1>1, <1>2, Induction
<1> QED BY <1>3 DEF S

(* The first elements of a sequence. *)
LEMMA SubSeqPrefix ==
  ASSUME NEW T, NEW x \in Seq(T), NEW q \in 0..Len(x)
  PROVE  SubSeq(x, 1, q) \in Seq(T) /\ Len(SubSeq(x, 1, q)) = q
OBVIOUS

(* The smaller of two numbers. *)
LEMMA MinOfTwo ==
  ASSUME NEW a \in Int, NEW b \in Int
  PROVE  Min({a, b}) = IF a <= b THEN a ELSE b
BY DEF Min

(* The greater of two numbers. *)
LEMMA MaxOfTwo ==
  ASSUME NEW a \in Int, NEW b \in Int
  PROVE  Max({a, b}) = IF a >= b THEN a ELSE b
BY DEF Max

-----------------------------------------------------------------------------
(***************************************************************************)
(* The entries of the retriever: sorting, and lists with all chunks of a   *)
(* document or none.                                                       *)
(***************************************************************************)
Ascending(list) ==
  \A i, j \in DOMAIN list : i < j => Before(list[i], list[j])

Ordered(C) == \A c \in C : c.doc \in Int /\ c.index \in Int

(* The place behind all that come before c. *)
PlaceOf(sorted, c) == Max({0} \cup {i \in DOMAIN sorted : Before(sorted[i], c)})

Insertion(sorted, c) == InsertAt(sorted, PlaceOf(sorted, c) + 1, c)

(* The place is in the list, and what is before it is before c. *)
LEMMA PlaceType ==
  ASSUME NEW C, NEW s \in Seq(C), NEW c \in C
  PROVE  /\ PlaceOf(s, c) \in 0..Len(s)
         /\ PlaceOf(s, c) > 0 => Before(s[PlaceOf(s, c)], c)
         /\ \A i \in 1..Len(s) : Before(s[i], c) => i <= PlaceOf(s, c)
<1> DEFINE P == {0} \cup {i \in DOMAIN s : Before(s[i], c)}
<1>1. P \subseteq 0..Len(s) /\ P # {} /\ Len(s) \in Nat
  OBVIOUS
<1>2. Max(P) \in P /\ \A i \in P : i <= Max(P)
  BY <1>1, MaxOf
<1> QED BY <1>1, <1>2 DEF PlaceOf

(* The elements of a list with c at a place. *)
LEMMA InsertedAt ==
  ASSUME NEW C, NEW s \in Seq(C), NEW c \in C, NEW p \in 0..Len(s)
  PROVE  /\ InsertAt(s, p + 1, c) \in Seq(C)
         /\ Len(InsertAt(s, p + 1, c)) = Len(s) + 1
         /\ \A i \in 1..(Len(s) + 1) :
              InsertAt(s, p + 1, c)[i] = IF i <= p THEN s[i] ELSE IF i = p + 1 THEN c ELSE s[i - 1]
<1> DEFINE a == SubSeq(s, 1, p)
           b == SubSeq(s, p + 1, Len(s))
<1>1. a \in Seq(C) /\ Len(a) = p /\ \A i \in 1..p : a[i] = s[i]
  OBVIOUS
<1>2. b \in Seq(C) /\ Len(b) = Len(s) - p /\ \A i \in 1..(Len(s) - p) : b[i] = s[p + i]
  OBVIOUS
<1>3. InsertAt(s, p + 1, c) = (a \o <<c>>) \o b
  <2>1. InsertAt(s, p + 1, c) = (SubSeq(s, 1, (p + 1) - 1) \o <<c>>) \o SubSeq(s, p + 1, Len(s))
    BY DEF InsertAt
  <2>2. (p + 1) - 1 = p
    OBVIOUS
  <2> QED BY <2>1, <2>2
<1> HIDE DEF a, b
<1>4. (a \o <<c>>) \in Seq(C) /\ Len(a \o <<c>>) = p + 1
      /\ \A i \in 1..(p + 1) : (a \o <<c>>)[i] = IF i <= p THEN a[i] ELSE c
  BY <1>1
<1>5. \A i \in 1..(Len(s) + 1) :
        ((a \o <<c>>) \o b)[i] = IF i <= p + 1 THEN (a \o <<c>>)[i] ELSE b[i - (p + 1)]
  BY <1>4, <1>2
<1>6. ((a \o <<c>>) \o b) \in Seq(C) /\ Len((a \o <<c>>) \o b) = Len(s) + 1
  BY <1>4, <1>2
<1>7. ASSUME NEW i \in 1..(Len(s) + 1)
      PROVE  InsertAt(s, p + 1, c)[i] = IF i <= p THEN s[i] ELSE IF i = p + 1 THEN c ELSE s[i - 1]
  <2>1. CASE i <= p
    BY <2>1, <1>1, <1>3, <1>4, <1>5
  <2>2. CASE i = p + 1
    BY <2>2, <1>3, <1>4, <1>5
  <2>3. CASE i > p + 1
    <3>1. i - (p + 1) \in 1..(Len(s) - p) /\ p + (i - (p + 1)) = i - 1 /\ ~(i <= p + 1) /\ ~(i <= p) /\ i # p + 1
      BY <2>3
    <3>2. InsertAt(s, p + 1, c)[i] = b[i - (p + 1)]
      BY <3>1, <1>3, <1>5
    <3>3. b[i - (p + 1)] = s[i - 1]
      BY <3>1, <1>2
    <3> QED BY <3>1, <3>2, <3>3
  <2> QED BY <2>1, <2>2, <2>3
<1> QED BY <1>3, <1>6, <1>7

(* Inserting keeps the order, adds the chunk and nothing else. *)
LEMMA Inserted ==
  ASSUME NEW C, Ordered(C), NEW s \in Seq(C), NEW c \in C, Ascending(s)
  PROVE  /\ Insertion(s, c) \in Seq(C)
         /\ Ascending(Insertion(s, c))
         /\ ToSet(Insertion(s, c)) = ToSet(s) \cup {c}
         /\ (IsInjective(s) /\ c \notin ToSet(s) => IsInjective(Insertion(s, c)))
<1> DEFINE p == PlaceOf(s, c)
           r == Insertion(s, c)
<1>1. /\ p \in 0..Len(s)
      /\ p > 0 => Before(s[p], c)
      /\ \A i \in 1..Len(s) : Before(s[i], c) => i <= p
  BY PlaceType
<1>2. r \in Seq(C) /\ Len(r) = Len(s) + 1
      /\ \A i \in 1..(Len(s) + 1) : r[i] = IF i <= p THEN s[i] ELSE IF i = p + 1 THEN c ELSE s[i - 1]
  <2>1. r = InsertAt(s, p + 1, c)
    BY DEF Insertion
  <2>2. p \in 0..Len(s)
    BY <1>1
  <2> HIDE DEF p, r
  <2>3. /\ InsertAt(s, p + 1, c) \in Seq(C)
        /\ Len(InsertAt(s, p + 1, c)) = Len(s) + 1
        /\ \A i \in 1..(Len(s) + 1) :
             InsertAt(s, p + 1, c)[i] = IF i <= p THEN s[i] ELSE IF i = p + 1 THEN c ELSE s[i - 1]
    BY ONLY <2>2, InsertedAt, s \in Seq(C), c \in C
  <2> QED BY <2>1, <2>3
<1>3. /\ \A x, y, z \in C : Before(x, y) /\ Before(y, z) => Before(x, z)
      /\ \A x, y \in C : Before(x, y) \/ Before(y, x)
  BY DEF Before, Ordered
<1>4. \A i \in 1..Len(s) : s[i] \in C
  OBVIOUS
<1>5. \A i \in 1..p : Before(s[i], c)
  <2> TAKE i \in 1..p
  <2>1. CASE i = p
    BY <2>1, <1>1
  <2>2. CASE i < p
    <3>1. Before(s[i], s[p]) /\ Before(s[p], c) /\ s[i] \in C /\ s[p] \in C
      BY <2>2, <1>1 DEF Ascending
    <3> QED BY <3>1, <1>3
  <2> QED BY <2>1, <2>2, <1>1
<1>6. \A i \in (p + 1)..Len(s) : Before(c, s[i])
  <2> TAKE i \in (p + 1)..Len(s)
  <2>1. i \in 1..Len(s) /\ ~(i <= p)
    BY <1>1
  <2> QED BY <2>1, <1>1, <1>3, <1>4
<1> HIDE DEF p, r
<1>7. Ascending(r)
  <2> SUFFICES ASSUME NEW i \in 1..(Len(s) + 1), NEW j \in 1..(Len(s) + 1), i < j
               PROVE  Before(r[i], r[j])
    BY <1>2 DEF Ascending
  <2>1. CASE j <= p
    <3>1. r[i] = s[i] /\ r[j] = s[j] /\ i \in DOMAIN s /\ j \in DOMAIN s
      BY <2>1, <1>1, <1>2
    <3> QED BY <3>1 DEF Ascending
  <2>2. CASE j = p + 1
    BY <2>2, <1>1, <1>2, <1>5
  <2>3. CASE j > p + 1
    <3>1. r[j] = s[j - 1] /\ j - 1 \in 1..Len(s) /\ j - 1 \in (p + 1)..Len(s)
      BY <2>3, <1>1, <1>2
    <3>2. CASE i <= p
      <4>1. r[i] = s[i] /\ i \in 1..Len(s) /\ i < j - 1
        BY <3>2, <2>3, <1>1, <1>2
      <4> QED BY <4>1, <3>1 DEF Ascending
    <3>3. CASE i = p + 1
      BY <3>1, <3>3, <1>1, <1>2, <1>6
    <3>4. CASE i > p + 1
      <4>1. r[i] = s[i - 1] /\ i - 1 \in 1..Len(s) /\ i - 1 < j - 1
        BY <3>4, <1>1, <1>2
      <4> QED BY <4>1, <3>1 DEF Ascending
    <3> QED BY <3>2, <3>3, <3>4, <1>1
  <2> QED BY <2>1, <2>2, <2>3, <1>1
<1>8. ToSet(r) = ToSet(s) \cup {c}
  <2>1. ASSUME NEW x \in ToSet(r) PROVE x \in ToSet(s) \cup {c}
    <3>1. PICK i \in 1..(Len(s) + 1) : x = r[i]
      BY <1>2 DEF ToSet
    <3>2. i - 1 \in 1..Len(s) \/ i <= p + 1
      BY <1>1
    <3>3. i <= p => i \in 1..Len(s)
      BY <1>1
    <3> QED BY <3>1, <3>2, <3>3, <1>1, <1>2 DEF ToSet
  <2>2. c \in ToSet(r)
    <3>1. p + 1 \in 1..(Len(s) + 1) /\ r[p + 1] = c
      BY <1>1, <1>2
    <3> QED BY <3>1, <1>2 DEF ToSet
  <2>3. ASSUME NEW x \in ToSet(s) PROVE x \in ToSet(r)
    <3>1. PICK i \in 1..Len(s) : x = s[i]
      BY DEF ToSet
    <3>2. CASE i <= p
      <4>1. i \in 1..(Len(s) + 1) /\ r[i] = x
        BY <3>1, <3>2, <1>1, <1>2
      <4> QED BY <4>1, <1>2 DEF ToSet
    <3>3. CASE i > p
      <4>1. i + 1 \in 1..(Len(s) + 1) /\ r[i + 1] = x
        BY <3>1, <3>3, <1>1, <1>2
      <4> QED BY <4>1, <1>2 DEF ToSet
    <3> QED BY <3>2, <3>3, <1>1
  <2> QED BY <2>1, <2>2, <2>3
<1>9. ASSUME IsInjective(s), c \notin ToSet(s) PROVE IsInjective(r)
  <2> SUFFICES ASSUME NEW i \in 1..(Len(s) + 1), NEW j \in 1..(Len(s) + 1), i < j
               PROVE  r[i] # r[j]
    BY <1>2 DEF IsInjective
  <2>1. \A k, l \in 1..Len(s) : k # l => s[k] # s[l]
    BY <1>9 DEF IsInjective
  <2>2. \A k \in 1..Len(s) : s[k] # c
    BY <1>9 DEF ToSet
  <2>3. CASE j <= p
    <3>1. r[i] = s[i] /\ r[j] = s[j] /\ i \in 1..Len(s) /\ j \in 1..Len(s) /\ i # j
      BY <2>3, <1>1, <1>2
    <3> QED BY <3>1, <2>1
  <2>4. CASE j = p + 1
    <3>1. r[i] = s[i] /\ r[j] = c /\ i \in 1..Len(s)
      BY <2>4, <1>1, <1>2
    <3> QED BY <3>1, <2>2
  <2>5. CASE j > p + 1
    <3>1. r[j] = s[j - 1] /\ j - 1 \in 1..Len(s)
      BY <2>5, <1>1, <1>2
    <3>2. CASE i <= p
      <4>1. r[i] = s[i] /\ i \in 1..Len(s) /\ i # j - 1
        BY <3>2, <2>5, <1>1, <1>2
      <4> QED BY <4>1, <3>1, <2>1
    <3>3. CASE i = p + 1
      BY <3>1, <3>3, <2>2, <1>1, <1>2
    <3>4. CASE i > p + 1
      <4>1. ~(i <= p) /\ i # p + 1 /\ i - 1 \in 1..Len(s) /\ i - 1 # j - 1
        BY <3>4, <1>1
      <4>2. r[i] = s[i - 1]
        BY <4>1, <1>2
      <4> QED BY <4>1, <4>2, <3>1, <2>1
    <3> QED BY <3>2, <3>3, <3>4, <1>1
  <2> QED BY <2>3, <2>4, <2>5, <1>1
<1> QED BY <1>2, <1>7, <1>8, <1>9 DEF r

(* What Sorted has after each chunk. *)
LEMMA SortedSteps ==
  ASSUME NEW C, NEW list \in Seq(C)
  PROVE  \E f \in [0..Len(list) -> Seq(C)] :
           /\ f[0] = <<>>
           /\ \A k \in 1..Len(list) : f[k] = Insertion(f[k - 1], list[k])
           /\ Sorted(list) = f[Len(list)]
<1> DEFINE start == <<>>
           step == [p \in (Seq(C)) \X (C) |-> Insertion(p[1], p[2])]
           n    == Len(list)
           Fits(iter) == iter = [s \in SUBSET DOMAIN list |->
             IF s = {} THEN start ELSE Insertion(iter[s \ {Max(s)}], list[Max(s)])]
           iter == CHOOSE i : Fits(i)
           f    == [k \in 0..n |-> iter[1..k]]
<1>1. Sorted(list) = iter[DOMAIN list]
  BY DEF Sorted, PlaceOf, Insertion, FoldLeft, MapThenFoldSet
<1>2. start \in Seq(C) /\ n \in Nat /\ list \in [1..n -> C] /\ DOMAIN list = 1..n
  OBVIOUS
<1>3. \A a \in Seq(C), x \in C : Insertion(a, x) \in Seq(C)
  BY PlaceType, InsertedAt DEF Insertion
<1>4. step \in [(Seq(C)) \X (C) -> Seq(C)]
  BY <1>3
<1>5. PICK F \in [SUBSET (1..n) -> Seq(C)] : F \in Folding(Seq(C), start, step, list, n)
  <2> HIDE DEF step, start, n
  <2> QED BY <1>2, <1>4, FoldExists
<1>6. ASSUME NEW s \in SUBSET (1..n)
      PROVE  F[s] = IF s = {} THEN start ELSE Insertion(F[s \ {Max(s)}], list[Max(s)])
  <2>1. F[s] = IF s = {} THEN start ELSE step[F[s \ {Max(s)}], list[Max(s)]]
    BY <1>5 DEF Folding
  <2>2. ASSUME s # {}
        PROVE  F[s \ {Max(s)}] \in Seq(C) /\ list[Max(s)] \in C
    <3>1. Max(s) \in 1..n
      <4> HIDE DEF n
      <4>1. s \subseteq 0..n
        BY <1>2
      <4> QED BY <4>1, <2>2, <1>2, MaxOf
    <3>2. s \ {Max(s)} \in SUBSET (1..n)
      OBVIOUS
    <3> QED BY <3>1, <3>2, <1>2
  <2> QED BY <2>1, <2>2
<1>7. Fits(F)
  <2> HIDE DEF start, n
  <2> QED BY <1>2, <1>6
<1>8. Fits(iter)
  <2> HIDE DEF Fits
  <2> QED BY <1>7
<1>9. iter[1..0] = start
  <2>1. 1..0 = {} /\ 1..0 \in SUBSET DOMAIN list
    BY <1>2
  <2> HIDE DEF iter, start
  <2> QED BY <1>8, <2>1
<1>10. ASSUME NEW k \in 1..n
       PROVE  iter[1..k] = Insertion(iter[1..(k - 1)], list[k])
  <2>1. 1..k \in SUBSET DOMAIN list /\ 1..k # {} /\ Max(1..k) = k /\ (1..k) \ {k} = 1..(k - 1)
    <3> HIDE DEF n
    <3> QED BY <1>2, InitialSegment
  <2> HIDE DEF iter, start
  <2> QED BY <1>8, <2>1
<1>11. f \in [0..n -> Seq(C)]
  <2> HIDE DEF iter, start, n
  <2>1. ASSUME NEW k \in 1..n, iter[1..(k - 1)] \in Seq(C)
        PROVE  iter[1..k] \in Seq(C)
    <3>1. list[k] \in C
      BY <1>2
    <3> QED BY <1>10, <1>3, <3>1, <2>1
  <2>2. \A k \in 0..n : iter[1..k] \in Seq(C)
    BY <2>1, <1>9, <1>2, FoldSteps
  <2> QED BY <2>2
<1>12. f[0] = start /\ f[n] = iter[DOMAIN list]
  <2> HIDE DEF iter, start, n
  <2> QED BY <1>9, <1>2
<1>13. \A k \in 1..n : f[k] = Insertion(f[k - 1], list[k])
  <2> HIDE DEF iter
  <2>1. \A k \in 1..n : k \in 0..n /\ k - 1 \in 0..n
    BY <1>2
  <2> QED BY <1>10, <2>1
<1> QED
  <2> HIDE DEF iter, f
  <2> QED BY <1>1, <1>11, <1>12, <1>13

(* Sorting loses, adds and repeats nothing. *)
LEMMA SortedList ==
  ASSUME NEW C, Ordered(C), NEW list \in Seq(C)
  PROVE  /\ Sorted(list) \in Seq(C)
         /\ Ascending(Sorted(list))
         /\ ToSet(Sorted(list)) = ToSet(list)
         /\ IsInjective(list) => IsInjective(Sorted(list))
<1> DEFINE n == Len(list)
<1>1. PICK f \in [0..n -> Seq(C)] :
           /\ f[0] = <<>>
           /\ \A k \in 1..n : f[k] = Insertion(f[k - 1], list[k])
           /\ Sorted(list) = f[n]
  BY SortedSteps
<1> DEFINE Good(k) == /\ Ascending(f[k])
                      /\ ToSet(f[k]) = {list[i] : i \in 1..k}
                      /\ IsInjective(list) => IsInjective(f[k])
           S == {k \in Nat : k <= n => Good(k)}
<1>2. 0 \in S
  <2>1. {list[i] : i \in 1..0} = {}
    OBVIOUS
  <2> QED BY <1>1, <2>1 DEF Ascending, ToSet, IsInjective
<1>3. ASSUME NEW k \in Nat, k \in S PROVE k + 1 \in S
  <2> SUFFICES ASSUME k + 1 <= n PROVE Good(k + 1)
    OBVIOUS
  <2>1. Good(k) /\ k + 1 \in 1..n /\ (k + 1) - 1 = k /\ k \in 0..n
    BY <1>3
  <2> DEFINE c == list[k + 1]
             s == f[k]
             r == Insertion(s, c)
  <2>2. c \in C /\ s \in Seq(C) /\ f[k + 1] = r
    BY <2>1, <1>1
  <2>3. {list[i] : i \in 1..(k + 1)} = {list[i] : i \in 1..k} \cup {c}
    <3>1. ASSUME NEW i \in 1..(k + 1) PROVE list[i] \in {list[l] : l \in 1..k} \cup {c}
      <4>1. i \in 1..k \/ i = k + 1
        BY <2>1
      <4> QED BY <4>1
    <3>2. \A i \in 1..k : i \in 1..(k + 1)
      OBVIOUS
    <3> QED BY <3>1, <3>2
  <2>4. IsInjective(list) => c \notin {list[i] : i \in 1..k}
    <3>1. \A i \in 1..k : i \in DOMAIN list /\ k + 1 \in DOMAIN list /\ i # k + 1
      BY <2>1
    <3> QED BY <3>1 DEF IsInjective
  <2> HIDE DEF c, s
  <2>5. /\ Ascending(s)
        /\ ToSet(s) = {list[i] : i \in 1..k}
        /\ IsInjective(list) => IsInjective(s)
    BY <2>1 DEF s
  <2>6. /\ Ascending(r)
        /\ ToSet(r) = ToSet(s) \cup {c}
        /\ (IsInjective(s) /\ c \notin ToSet(s) => IsInjective(r))
    <3>1. s \in Seq(C) /\ c \in C /\ Ascending(s) /\ Ordered(C)
      BY <2>2, <2>5
    <3> QED BY ONLY <3>1, Inserted DEF r
  <2> HIDE DEF r
  <2> QED BY <2>2, <2>3, <2>4, <2>5, <2>6
<1> HIDE DEF S
<1>4. n \in S
  <2>1. n \in Nat
    OBVIOUS
  <2> QED BY <1>2, <1>3, <2>1, Induction
<1>5. Good(n)
  BY <1>4 DEF S
<1>6. ToSet(list) = {list[i] : i \in 1..n}
  BY DEF ToSet
<1>7. Sorted(list) \in Seq(C)
  BY <1>1
<1> HIDE DEF n
<1> QED BY <1>1, <1>5, <1>6, <1>7

-----------------------------------------------------------------------------
(***************************************************************************)
(* Lists with all the chunks of a document, or none.                       *)
(***************************************************************************)
Chunk == [doc : Docs, index : Nat, text : Seq(Int) \ {<<>>}]

(* What cut is, whatever the documents are. *)
CutsType(cuts) ==
  \A d \in Docs :
    /\ cuts[d] \in Seq(Chunk)
    /\ \A i \in 1..Len(cuts[d]) : cuts[d][i].doc = d /\ cuts[d][i].index = i

(* Chunks have an order: that of their documents and indexes. *)
LEMMA ChunksOrdered == Ordered(Chunk)
<1>1. ASSUME NEW c \in Chunk PROVE c.doc \in Int /\ c.index \in Int
  <2>1. c.doc \in Docs /\ c.index \in Nat
    BY DEF Chunk
  <2>2. Docs \subseteq Nat
    BY KnowledgeAssumption
  <2>3. c.doc \in Nat
    BY <2>1, <2>2
  <2> QED BY <2>1, <2>3
<1> QED BY <1>1 DEF Ordered

OfDoc(list, d) == {c \in ToSet(list) : c.doc = d}

AllOrNone(cuts, list) ==
  /\ list \in Seq(Chunk)
  /\ IsInjective(list)
  /\ \A d \in Docs : OfDoc(list, d) \in {{}, ToSet(cuts[d])}

(* A list without chunks has none of every document. *)
LEMMA NoList == \A cuts : AllOrNone(cuts, <<>>)
BY DEF AllOrNone, OfDoc, ToSet, IsInjective

(* The chunks of a document differ, and are of it. *)
LEMMA CutFacts ==
  ASSUME NEW cuts, CutsType(cuts), NEW d \in Docs
  PROVE  /\ cuts[d] \in Seq(Chunk)
         /\ IsInjective(cuts[d])
         /\ \A c \in ToSet(cuts[d]) : c.doc = d
<1>1. cuts[d] \in Seq(Chunk) /\ \A i \in 1..Len(cuts[d]) : cuts[d][i].doc = d /\ cuts[d][i].index = i
  BY DEF CutsType
<1>2. DOMAIN cuts[d] = 1..Len(cuts[d])
  BY <1>1
<1> QED BY <1>1, <1>2 DEF IsInjective, ToSet

(* The chunks of another document are added. *)
LEMMA Joined ==
  ASSUME NEW cuts, CutsType(cuts), NEW list, AllOrNone(cuts, list), NEW d \in Docs,
         OfDoc(list, d) = {}
  PROVE  /\ AllOrNone(cuts, list \o cuts[d])
         /\ ToSet(list \o cuts[d]) = ToSet(list) \cup ToSet(cuts[d])
<1> DEFINE new == list \o cuts[d]
           m == Len(list)
           k == Len(cuts[d])
<1>1. /\ cuts[d] \in Seq(Chunk)
      /\ IsInjective(cuts[d])
      /\ \A c \in ToSet(cuts[d]) : c.doc = d
  BY CutFacts
<1>2. list \in Seq(Chunk) /\ IsInjective(list) /\ \A c \in ToSet(list) : c.doc # d
  BY DEF AllOrNone, OfDoc
<1>3. /\ new \in Seq(Chunk) /\ m \in Nat /\ k \in Nat /\ DOMAIN new = 1..(m + k)
      /\ \A i \in 1..m : new[i] = list[i]
      /\ \A i \in (m + 1)..(m + k) : new[i] = cuts[d][i - m] /\ i - m \in 1..k
      /\ DOMAIN list = 1..m /\ DOMAIN cuts[d] = 1..k
  BY <1>1, <1>2
<1> HIDE DEF new, m, k
<1>4. \A i \in 1..m : list[i] \in ToSet(list)
  BY <1>3 DEF ToSet
<1>5. \A i \in 1..k : cuts[d][i] \in ToSet(cuts[d])
  BY <1>3 DEF ToSet
<1>6. ToSet(new) = ToSet(list) \cup ToSet(cuts[d])
  <2>1. ASSUME NEW c \in ToSet(new) PROVE c \in ToSet(list) \cup ToSet(cuts[d])
    <3>1. PICK i \in 1..(m + k) : c = new[i]
      BY <1>3 DEF ToSet
    <3>2. i \in 1..m \/ i \in (m + 1)..(m + k)
      BY <1>3
    <3> QED BY <3>1, <3>2, <1>3, <1>4, <1>5
  <2>2. ASSUME NEW c \in ToSet(list) PROVE c \in ToSet(new)
    <3>1. PICK i \in 1..m : c = list[i]
      BY <1>3 DEF ToSet
    <3>2. i \in 1..(m + k)
      BY <1>3
    <3> QED BY <3>1, <3>2, <1>3 DEF ToSet
  <2>3. ASSUME NEW c \in ToSet(cuts[d]) PROVE c \in ToSet(new)
    <3>1. PICK i \in 1..k : c = cuts[d][i]
      BY <1>3 DEF ToSet
    <3>2. i + m \in 1..(m + k) /\ i + m \in (m + 1)..(m + k) /\ (i + m) - m = i
      BY <1>3
    <3>3. new[i + m] = cuts[d][i]
      BY <3>2, <1>3
    <3> QED BY <3>1, <3>2, <3>3, <1>3 DEF ToSet
  <2> QED BY <2>1, <2>2, <2>3
<1>7. IsInjective(new)
  <2> SUFFICES ASSUME NEW i \in 1..(m + k), NEW j \in 1..(m + k), new[i] = new[j]
               PROVE  i = j
    BY <1>3 DEF IsInjective
  <2>1. /\ i \in 1..m \/ i \in (m + 1)..(m + k)
        /\ j \in 1..m \/ j \in (m + 1)..(m + k)
    BY <1>3
  <2>2. CASE i \in 1..m /\ j \in 1..m
    BY <2>2, <1>2, <1>3 DEF IsInjective
  <2>3. CASE i \in 1..m /\ j \in (m + 1)..(m + k)
    BY <2>3, <1>1, <1>2, <1>3, <1>4, <1>5
  <2>4. CASE j \in 1..m /\ i \in (m + 1)..(m + k)
    BY <2>4, <1>1, <1>2, <1>3, <1>4, <1>5
  <2>5. CASE i \in (m + 1)..(m + k) /\ j \in (m + 1)..(m + k)
    <3>1. /\ cuts[d][i - m] = cuts[d][j - m]
          /\ i - m \in DOMAIN cuts[d] /\ j - m \in DOMAIN cuts[d]
      BY <2>5, <1>3
    <3>2. i - m = j - m
      BY <3>1, <1>1 DEF IsInjective
    <3> QED BY <3>2, <1>3
  <2> QED BY <2>1, <2>2, <2>3, <2>4, <2>5
<1>8. ASSUME NEW e \in Docs PROVE OfDoc(new, e) \in {{}, ToSet(cuts[e])}
  <2>1. CASE e = d
    BY <2>1, <1>1, <1>2, <1>6 DEF OfDoc
  <2>2. CASE e # d
    <3>1. OfDoc(new, e) = OfDoc(list, e)
      BY <2>2, <1>1, <1>6 DEF OfDoc
    <3> QED BY <3>1 DEF AllOrNone
  <2> QED BY <2>1, <2>2
<1> QED BY <1>3, <1>6, <1>7, <1>8 DEF AllOrNone, new

(* What ChunksInOrder has after each document. *)
LEMMA InOrderSteps ==
  ASSUME CutsType(cut), NEW ids \in Seq(Docs)
  PROVE  \E f \in [0..Len(ids) -> Seq(Chunk)] :
           /\ f[0] = <<>>
           /\ \A k \in 1..Len(ids) : f[k] = f[k - 1] \o cut[ids[k]]
           /\ ChunksInOrder(ids) = f[Len(ids)]
<1> DEFINE start == <<>>
           step == [p \in (Seq(Chunk)) \X (Docs) |-> p[1] \o cut[p[2]]]
           n    == Len(ids)
           Fits(iter) == iter = [s \in SUBSET DOMAIN ids |->
             IF s = {} THEN start ELSE iter[s \ {Max(s)}] \o cut[ids[Max(s)]]]
           iter == CHOOSE i : Fits(i)
           f    == [k \in 0..n |-> iter[1..k]]
<1>1. ChunksInOrder(ids) = iter[DOMAIN ids]
  BY DEF ChunksInOrder, FoldLeft, MapThenFoldSet
<1>2. start \in Seq(Chunk) /\ n \in Nat /\ ids \in [1..n -> Docs] /\ DOMAIN ids = 1..n
  OBVIOUS
<1>3. \A a \in Seq(Chunk), x \in Docs : a \o cut[x] \in Seq(Chunk)
  BY CutFacts
<1>4. step \in [(Seq(Chunk)) \X (Docs) -> Seq(Chunk)]
  BY <1>3
<1>5. PICK F \in [SUBSET (1..n) -> Seq(Chunk)] : F \in Folding(Seq(Chunk), start, step, ids, n)
  <2> HIDE DEF step, start, n
  <2> QED BY <1>2, <1>4, FoldExists
<1>6. ASSUME NEW s \in SUBSET (1..n)
      PROVE  F[s] = IF s = {} THEN start ELSE F[s \ {Max(s)}] \o cut[ids[Max(s)]]
  <2>1. F[s] = IF s = {} THEN start ELSE step[F[s \ {Max(s)}], ids[Max(s)]]
    BY <1>5 DEF Folding
  <2>2. ASSUME s # {}
        PROVE  F[s \ {Max(s)}] \in Seq(Chunk) /\ ids[Max(s)] \in Docs
    <3>1. Max(s) \in 1..n
      <4> HIDE DEF n
      <4>1. s \subseteq 0..n
        BY <1>2
      <4> QED BY <4>1, <2>2, <1>2, MaxOf
    <3>2. s \ {Max(s)} \in SUBSET (1..n)
      OBVIOUS
    <3> QED BY <3>1, <3>2, <1>2
  <2> QED BY <2>1, <2>2
<1>7. Fits(F)
  <2> HIDE DEF start, n
  <2> QED BY <1>2, <1>6
<1>8. Fits(iter)
  <2> HIDE DEF Fits
  <2> QED BY <1>7
<1>9. iter[1..0] = start
  <2>1. 1..0 = {} /\ 1..0 \in SUBSET DOMAIN ids
    BY <1>2
  <2> HIDE DEF iter, start
  <2> QED BY <1>8, <2>1
<1>10. ASSUME NEW k \in 1..n
       PROVE  iter[1..k] = iter[1..(k - 1)] \o cut[ids[k]]
  <2>1. 1..k \in SUBSET DOMAIN ids /\ 1..k # {} /\ Max(1..k) = k /\ (1..k) \ {k} = 1..(k - 1)
    <3> HIDE DEF n
    <3> QED BY <1>2, InitialSegment
  <2> HIDE DEF iter, start
  <2> QED BY <1>8, <2>1
<1>11. f \in [0..n -> Seq(Chunk)]
  <2> HIDE DEF iter, start, n
  <2>1. ASSUME NEW k \in 1..n, iter[1..(k - 1)] \in Seq(Chunk)
        PROVE  iter[1..k] \in Seq(Chunk)
    <3>1. ids[k] \in Docs
      BY <1>2
    <3> QED BY <1>10, <1>3, <3>1, <2>1
  <2>2. \A k \in 0..n : iter[1..k] \in Seq(Chunk)
    BY <2>1, <1>9, <1>2, FoldSteps
  <2> QED BY <2>2
<1>12. f[0] = start /\ f[n] = iter[DOMAIN ids]
  <2> HIDE DEF iter, start, n
  <2> QED BY <1>9, <1>2
<1>13. \A k \in 1..n : f[k] = f[k - 1] \o cut[ids[k]]
  <2> HIDE DEF iter
  <2>1. \A k \in 1..n : k \in 0..n /\ k - 1 \in 0..n
    BY <1>2
  <2> QED BY <1>10, <2>1
<1> QED
  <2> HIDE DEF iter, f
  <2> QED BY <1>1, <1>11, <1>12, <1>13

(* chunks_for_source gives all chunks of some documents. *)
LEMMA InOrderList ==
  ASSUME CutsType(cut), NEW ids \in Seq(Docs), IsInjective(ids)
  PROVE  AllOrNone(cut, ChunksInOrder(ids))
<1> DEFINE n == Len(ids)
<1>1. PICK f \in [0..n -> Seq(Chunk)] :
           /\ f[0] = <<>>
           /\ \A k \in 1..n : f[k] = f[k - 1] \o cut[ids[k]]
           /\ ChunksInOrder(ids) = f[n]
  BY InOrderSteps
<1> DEFINE Good(k) == /\ AllOrNone(cut, f[k])
                      /\ \A i \in (k + 1)..n : OfDoc(f[k], ids[i]) = {}
           S == {k \in Nat : k <= n => Good(k)}
<1>2. 0 \in S
  <2>1. Good(0)
    BY <1>1, NoList DEF OfDoc, ToSet
  <2> QED BY <2>1
<1>3. ASSUME NEW k \in Nat, k \in S PROVE k + 1 \in S
  <2> HIDE DEF Good
  <2> SUFFICES ASSUME k + 1 <= n PROVE Good(k + 1)
    OBVIOUS
  <2>0. Good(k) /\ n \in Nat
    BY <1>3
  <2> USE DEF Good
  <2>1. k + 1 \in 1..n /\ (k + 1) - 1 = k /\ k + 1 \in (k + 1)..n
    BY <2>0
  <2>2. f[k + 1] = f[k] \o cut[ids[k + 1]] /\ ids[k + 1] \in Docs
    <3>1. ids[k + 1] \in Docs
      BY <2>1
    <3>2. f[k + 1] = f[(k + 1) - 1] \o cut[ids[k + 1]]
      BY <2>1, <1>1
    <3> QED BY <3>1, <3>2, <2>1
  <2>3. AllOrNone(cut, f[k]) /\ OfDoc(f[k], ids[k + 1]) = {}
    BY <2>0, <2>1
  <2>4. /\ AllOrNone(cut, f[k + 1])
        /\ ToSet(f[k + 1]) = ToSet(f[k]) \cup ToSet(cut[ids[k + 1]])
    <3> DEFINE d == ids[k + 1]
    <3>1. d \in Docs /\ AllOrNone(cut, f[k]) /\ OfDoc(f[k], d) = {} /\ CutsType(cut)
      BY <2>2, <2>3
    <3> HIDE DEF d
    <3>2. /\ AllOrNone(cut, f[k] \o cut[d])
          /\ ToSet(f[k] \o cut[d]) = ToSet(f[k]) \cup ToSet(cut[d])
      BY ONLY <3>1, Joined
    <3> QED BY <3>2, <2>2 DEF d
  <2>5. ASSUME NEW i \in ((k + 1) + 1)..n PROVE OfDoc(f[k + 1], ids[i]) = {}
    <3>1. i \in (k + 1)..n /\ i \in 1..n /\ i # k + 1
      OBVIOUS
    <3>2. ids[i] # ids[k + 1]
      <4>1. i \in DOMAIN ids /\ k + 1 \in DOMAIN ids
        BY <3>1, <2>1
      <4> QED BY <4>1, <3>1 DEF IsInjective
    <3>4. OfDoc(f[k], ids[i]) = {}
      BY <3>1, <2>0
    <3>3. \A c \in ToSet(cut[ids[k + 1]]) : c.doc = ids[k + 1]
      BY <2>2, CutFacts
    <3> QED BY <3>2, <3>3, <3>4, <2>4 DEF OfDoc
  <2> QED BY <2>4, <2>5
<1> HIDE DEF S
<1>4. n \in S
  <2>1. n \in Nat
    OBVIOUS
  <2> QED BY <1>2, <1>3, <2>1, Induction
<1>5. Good(n)
  BY <1>4 DEF S
<1> QED BY <1>1, <1>5

(* An answer that passes the checks names texts, and all of them unless it *)
(* names one twice.                                                        *)
LEMMA ResponseType ==
  ASSUME NEW n \in Nat, NEW r \in Responses(n), Len(r) = n,
         \A i \in DOMAIN r : r[i] <= n
  PROVE  /\ r \in [1..n -> 1..n]
         /\ IsInjective(r) => \A v \in 1..n : \E i \in 1..n : r[i] = v
<1> DEFINE inOrder == [i \in 1..n |-> i]
<1>1. inOrder \in Seq(Nat) /\ Len(inOrder) = n /\ DOMAIN inOrder = 1..n
  OBVIOUS
<1>2. \/ r = inOrder \/ r = Reverse(inOrder) \/ r = SubSeq(inOrder, 1, n - 1)
      \/ r = [inOrder EXCEPT ![1] = n] \/ r = [inOrder EXCEPT ![1] = n + 1]
  BY DEF Responses
<1>3. CASE r = inOrder
  BY <1>3
<1>4. CASE r = Reverse(inOrder)
  <2>1. Reverse(inOrder) = [i \in 1..n |-> inOrder[(n - i) + 1]]
    BY <1>1 DEF Reverse
  <2>2. \A i \in 1..n : (n - i) + 1 \in 1..n /\ r[i] = (n - i) + 1
    BY <2>1, <1>4
  <2>3. r \in [1..n -> 1..n]
    BY <2>1, <2>2, <1>4
  <2>4. \A v \in 1..n : r[(n - v) + 1] = v /\ (n - v) + 1 \in 1..n
    BY <2>2
  <2> QED BY <2>3, <2>4
<1>5. CASE r = SubSeq(inOrder, 1, n - 1)
  <2>1. CASE n = 0
    <3>1. r \in Seq(Nat)
      BY <1>1, <1>5
    <3>2. DOMAIN r = 1..0 /\ 1..0 = {}
      BY <3>1, <2>1
    <3> QED BY <2>1, <3>1, <3>2
  <2>2. CASE n # 0
    <3>1. Len(r) = n - 1
      BY <1>1, <1>5, <2>2
    <3> QED BY <3>1
  <2> QED BY <2>1, <2>2
<1>6. CASE r = [inOrder EXCEPT ![1] = n]
  <2>0. DOMAIN r = 1..n /\ \A i \in 1..n : r[i] = IF i = 1 THEN n ELSE i
    BY <1>6
  <2>1. r \in [1..n -> 1..n]
    <3>1. r = [i \in 1..n |-> IF i = 1 THEN n ELSE i]
      BY <1>6
    <3> QED BY <3>1
  <2>2. CASE n <= 1
    <3>1. \A v \in 1..n : v = 1 /\ n = 1
      BY <2>2
    <3> QED BY <3>1, <2>0, <2>1
  <2>3. CASE n > 1
    <3>1. r[1] = n /\ r[n] = n /\ 1 \in DOMAIN r /\ n \in DOMAIN r /\ 1 # n
      BY <2>3, <2>0
    <3>2. ~IsInjective(r)
      BY <3>1 DEF IsInjective
    <3> QED BY <3>2, <2>1
  <2>4. n <= 1 \/ n > 1
    OBVIOUS
  <2> QED BY <2>2, <2>3, <2>4
<1>7. CASE r = [inOrder EXCEPT ![1] = n + 1]
  <2>1. CASE n = 0
    <3>1. r = [i \in 1..n |-> i] /\ 1..n = {}
      BY <2>1, <1>7
    <3> QED BY <3>1
  <2>2. CASE n # 0
    <3>1. 1 \in DOMAIN r /\ r[1] = n + 1
      BY <2>2, <1>7
    <3> QED BY <3>1
  <2> QED BY <2>1, <2>2
<1> QED BY <1>2, <1>3, <1>4, <1>5, <1>6, <1>7

(* What index stores of an answer. *)
LEMMA AnswerStored ==
  ASSUME NEW cuts, NEW list, AllOrNone(cuts, list),
         NEW r \in Responses(Len(list)), Len(r) = Len(list),
         \A i \in DOMAIN r : r[i] <= Len(list)
  PROVE  LET new == Sorted([i \in DOMAIN r |-> list[r[i]]])
         IN /\ new \in Seq(Chunk)
            /\ Ascending(new)
            /\ ToSet(new) \subseteq ToSet(list)
            /\ IsInjective(r) => AllOrNone(cuts, new) /\ ToSet(list) \subseteq ToSet(new)
<1> DEFINE n == Len(list)
           named == [i \in DOMAIN r |-> list[r[i]]]
<1>1. list \in Seq(Chunk) /\ n \in Nat /\ DOMAIN list = 1..n
  BY DEF AllOrNone
<1>2. r \in [1..n -> 1..n] /\ (IsInjective(r) => \A v \in 1..n : \E i \in 1..n : r[i] = v)
  <2> HIDE DEF n
  <2>1. r \in Responses(n) /\ Len(r) = n /\ \A i \in DOMAIN r : r[i] <= n
    BY DEF n
  <2> QED BY <2>1, <1>1, ResponseType
<1>3. named \in [1..n -> Chunk] /\ \A i \in 1..n : named[i] = list[r[i]]
  <2> HIDE DEF n
  <2> QED BY <1>1, <1>2
<1>4. named \in Seq(Chunk) /\ DOMAIN named = 1..n
  <2> HIDE DEF n, named
  <2> QED BY <1>3, <1>1
<1>5. Ordered(Chunk)
  BY ChunksOrdered
<1>6. /\ Sorted(named) \in Seq(Chunk)
      /\ Ascending(Sorted(named))
      /\ ToSet(Sorted(named)) = ToSet(named)
      /\ IsInjective(named) => IsInjective(Sorted(named))
  <2> HIDE DEF named
  <2> QED BY ONLY <1>4, <1>5, SortedList
<1>8. ToSet(named) \subseteq ToSet(list)
  <2> HIDE DEF named, n
  <2> QED BY <1>1, <1>2, <1>3, <1>4 DEF ToSet
<1>7. ASSUME IsInjective(r)
      PROVE  AllOrNone(cuts, Sorted(named)) /\ ToSet(list) \subseteq ToSet(Sorted(named))
  <2> HIDE DEF named, n
  <2>1. IsInjective(list)
    BY DEF AllOrNone
  <2>2. IsInjective(named)
    BY <2>1, <1>1, <1>2, <1>3, <1>4, <1>7 DEF IsInjective
  <2>3. ToSet(named) = ToSet(list)
    <3>1. ASSUME NEW c \in ToSet(list) PROVE c \in ToSet(named)
      <4>1. PICK v \in 1..n : c = list[v]
        BY <1>1 DEF ToSet
      <4>2. PICK i \in 1..n : r[i] = v
        BY <1>2, <1>7
      <4> QED BY <4>1, <4>2, <1>3, <1>4 DEF ToSet
    <3> QED BY <3>1, <1>8
  <2>4. \A d : OfDoc(Sorted(named), d) = OfDoc(list, d)
    BY <2>3, <1>6 DEF OfDoc
  <2>5. AllOrNone(cuts, Sorted(named))
    BY <2>2, <2>4, <1>6 DEF AllOrNone
  <2> QED BY <2>3, <2>5, <1>6
<1> QED BY <1>6, <1>7, <1>8

-----------------------------------------------------------------------------
(***************************************************************************)
(* The letters of a text.                                                  *)
(***************************************************************************)
Text == Seq(Int)

(* The letters of the first characters. *)
LEMMA LettersSteps ==
  ASSUME NEW text \in Text
  PROVE  \E f \in [0..Len(text) -> Text] :
           /\ f[0] = <<>>
           /\ \A k \in 1..Len(text) : f[k] = (IF IsLetter(text[k]) THEN Append(f[k - 1], text[k]) ELSE f[k - 1])
           /\ Letters(text) = f[Len(text)]
<1> DEFINE start == <<>>
           step == [p \in (Text) \X (Int) |-> (IF IsLetter(p[2]) THEN Append(p[1], p[2]) ELSE p[1])]
           n    == Len(text)
           Fits(iter) == iter = [s \in SUBSET DOMAIN text |->
             IF s = {} THEN start ELSE (IF IsLetter(text[Max(s)]) THEN Append(iter[s \ {Max(s)}], text[Max(s)]) ELSE iter[s \ {Max(s)}])]
           iter == CHOOSE i : Fits(i)
           f    == [k \in 0..n |-> iter[1..k]]
<1>1. Letters(text) = iter[DOMAIN text]
  BY DEF Letters, Text, FoldLeft, MapThenFoldSet
<1>2. start \in Text /\ n \in Nat /\ text \in [1..n -> Int] /\ DOMAIN text = 1..n
  BY DEF Text
<1>3. \A a \in Text, x \in Int : (IF IsLetter(x) THEN Append(a, x) ELSE a) \in Text
  BY DEF Text
<1>4. step \in [(Text) \X (Int) -> Text]
  BY <1>3
<1>5. PICK F \in [SUBSET (1..n) -> Text] : F \in Folding(Text, start, step, text, n)
  <2> HIDE DEF step, start, n
  <2> QED BY <1>2, <1>4, FoldExists
<1>6. ASSUME NEW s \in SUBSET (1..n)
      PROVE  F[s] = IF s = {} THEN start ELSE (IF IsLetter(text[Max(s)]) THEN Append(F[s \ {Max(s)}], text[Max(s)]) ELSE F[s \ {Max(s)}])
  <2>1. F[s] = IF s = {} THEN start ELSE step[F[s \ {Max(s)}], text[Max(s)]]
    BY <1>5 DEF Folding
  <2>2. ASSUME s # {}
        PROVE  F[s \ {Max(s)}] \in Text /\ text[Max(s)] \in Int
    <3>1. Max(s) \in 1..n
      <4> HIDE DEF n
      <4>1. s \subseteq 0..n
        BY <1>2
      <4> QED BY <4>1, <2>2, <1>2, MaxOf
    <3>2. s \ {Max(s)} \in SUBSET (1..n)
      OBVIOUS
    <3> QED BY <3>1, <3>2, <1>2
  <2> QED BY <2>1, <2>2
<1>7. Fits(F)
  <2> HIDE DEF start, n
  <2> QED BY <1>2, <1>6
<1>8. Fits(iter)
  <2> HIDE DEF Fits
  <2> QED BY <1>7
<1>9. iter[1..0] = start
  <2>1. 1..0 = {} /\ 1..0 \in SUBSET DOMAIN text
    BY <1>2
  <2> HIDE DEF iter, start
  <2> QED BY <1>8, <2>1
<1>10. ASSUME NEW k \in 1..n
       PROVE  iter[1..k] = (IF IsLetter(text[k]) THEN Append(iter[1..(k - 1)], text[k]) ELSE iter[1..(k - 1)])
  <2>1. 1..k \in SUBSET DOMAIN text /\ 1..k # {} /\ Max(1..k) = k /\ (1..k) \ {k} = 1..(k - 1)
    <3> HIDE DEF n
    <3> QED BY <1>2, InitialSegment
  <2> HIDE DEF iter, start
  <2> QED BY <1>8, <2>1
<1>11. f \in [0..n -> Text]
  <2> HIDE DEF iter, start, n
  <2>1. ASSUME NEW k \in 1..n, iter[1..(k - 1)] \in Text
        PROVE  iter[1..k] \in Text
    <3>1. text[k] \in Int
      BY <1>2
    <3> QED BY <1>10, <1>3, <3>1, <2>1
  <2>2. \A k \in 0..n : iter[1..k] \in Text
    BY <2>1, <1>9, <1>2, FoldSteps
  <2> QED BY <2>2
<1>12. f[0] = start /\ f[n] = iter[DOMAIN text]
  <2> HIDE DEF iter, start, n
  <2> QED BY <1>9, <1>2
<1>13. \A k \in 1..n : f[k] = (IF IsLetter(text[k]) THEN Append(f[k - 1], text[k]) ELSE f[k - 1])
  <2> HIDE DEF iter
  <2>1. \A k \in 1..n : k \in 0..n /\ k - 1 \in 0..n
    BY <1>2
  <2> QED BY <1>10, <2>1
<1> QED
  <2> HIDE DEF iter, f
  <2> QED BY <1>1, <1>11, <1>12, <1>13

(* A text has no more letters than characters, and none if it is blank. *)
LEMMA LettersType ==
  ASSUME NEW text \in Text
  PROVE  /\ Letters(text) \in Text
         /\ Len(Letters(text)) <= Len(text)
         /\ Letters(text) = <<>> <=> Blank(text)
<1> DEFINE n == Len(text)
<1>1. PICK f \in [0..n -> Text] :
           /\ f[0] = <<>>
           /\ \A k \in 1..n : f[k] = IF IsLetter(text[k]) THEN Append(f[k - 1], text[k]) ELSE f[k - 1]
           /\ Letters(text) = f[n]
  BY LettersSteps
<1>2. n \in Nat /\ text \in [1..n -> Int] /\ DOMAIN text = 1..n
  BY DEF Text
<1> HIDE DEF n
<1> DEFINE S == {k \in Nat : k <= n => /\ Len(f[k]) <= k
                                       /\ f[k] = <<>> <=> \A i \in 1..k : ~IsLetter(text[i])}
<1>3. 0 \in S
  BY <1>1
<1>4. ASSUME NEW k \in Nat, k \in S PROVE k + 1 \in S
  <2> SUFFICES ASSUME k + 1 <= n
               PROVE  /\ Len(f[k + 1]) <= k + 1
                      /\ f[k + 1] = <<>> <=> \A i \in 1..(k + 1) : ~IsLetter(text[i])
    OBVIOUS
  <2>1. k + 1 \in 1..n /\ (k + 1) - 1 = k /\ k \in 0..n
    BY <1>2
  <2>2. /\ Len(f[k]) <= k
        /\ f[k] = <<>> <=> \A i \in 1..k : ~IsLetter(text[i])
    BY <1>4, <2>1
  <2>3. f[k + 1] = IF IsLetter(text[k + 1]) THEN Append(f[k], text[k + 1]) ELSE f[k]
    BY <1>1, <2>1
  <2>4. f[k] \in Seq(Int)
    BY <1>1, <2>1 DEF Text
  <2>5. \A i \in 1..(k + 1) : i \in 1..k \/ i = k + 1
    BY <2>1
  <2>6. \A i \in 1..k : i \in 1..(k + 1)
    OBVIOUS
  <2>7. k + 1 \in 1..(k + 1)
    OBVIOUS
  <2>8. CASE IsLetter(text[k + 1])
    <3>1. f[k + 1] = Append(f[k], text[k + 1])
      BY <2>3, <2>8
    <3>2. f[k + 1] # <<>> /\ Len(f[k + 1]) = Len(f[k]) + 1
      BY ONLY <3>1, <2>4
    <3>3. Len(f[k + 1]) <= k + 1
      BY <3>2, <2>2, <2>4
    <3> QED BY <3>2, <3>3, <2>7, <2>8
  <2>9. CASE ~IsLetter(text[k + 1])
    <3>1. f[k + 1] = f[k]
      BY <2>3, <2>9
    <3>2. Len(f[k + 1]) <= k + 1
      BY <3>1, <2>2, <2>4
    <3>3. f[k + 1] = <<>> <=> \A i \in 1..(k + 1) : ~IsLetter(text[i])
      BY <3>1, <2>2, <2>5, <2>6, <2>9
    <3> QED BY <3>2, <3>3
  <2> QED BY <2>8, <2>9
<1> HIDE DEF S
<1>5. n \in S
  BY <1>2, <1>3, <1>4, Induction
<1>6. /\ Len(f[n]) <= n
      /\ f[n] = <<>> <=> \A i \in 1..n : ~IsLetter(text[i])
  BY <1>5, <1>2 DEF S
<1>7. Letters(text) = <<>> <=> Blank(text)
  BY <1>1, <1>2, <1>6 DEF Blank
<1>8. Letters(text) \in Text /\ Len(Letters(text)) <= Len(text)
  <2>1. f[n] \in Text
    BY <1>1, <1>2
  <2> QED BY <2>1, <1>1, <1>6 DEF n
<1> QED BY <1>7, <1>8

(* One character more is one letter more, or none. *)
LEMMA LettersAppend ==
  ASSUME NEW text \in Text, NEW c \in Int
  PROVE  Letters(Append(text, c)) =
           IF IsLetter(c) THEN Append(Letters(text), c) ELSE Letters(text)
<1> DEFINE n == Len(text)
           u == Append(text, c)
<1>1. PICK f \in [0..n -> Text] :
           /\ f[0] = <<>>
           /\ \A k \in 1..n : f[k] = IF IsLetter(text[k]) THEN Append(f[k - 1], text[k]) ELSE f[k - 1]
           /\ Letters(text) = f[n]
  BY LettersSteps
<1>2. u \in Text /\ Len(u) = n + 1 /\ n \in Nat /\ u[n + 1] = c /\ \A k \in 1..n : u[k] = text[k]
  BY DEF Text
<1> HIDE DEF u
<1>3. PICK g \in [0..Len(u) -> Text] :
           /\ g[0] = <<>>
           /\ \A k \in 1..Len(u) : g[k] = IF IsLetter(u[k]) THEN Append(g[k - 1], u[k]) ELSE g[k - 1]
           /\ Letters(u) = g[Len(u)]
  BY <1>2, LettersSteps
<1> HIDE DEF n
<1> DEFINE S == {k \in Nat : k <= n => f[k] = g[k]}
<1>4. 0 \in S
  BY <1>1, <1>3
<1>5. ASSUME NEW k \in Nat, k \in S PROVE k + 1 \in S
  <2> SUFFICES ASSUME k + 1 <= n PROVE f[k + 1] = g[k + 1]
    OBVIOUS
  <2>1. k + 1 \in 1..n /\ k + 1 \in 1..Len(u) /\ (k + 1) - 1 = k /\ f[k] = g[k]
    BY <1>2, <1>5
  <2> QED BY <2>1, <1>1, <1>2, <1>3
<1> HIDE DEF S
<1>6. n \in S
  BY <1>2, <1>4, <1>5, Induction
<1>7. f[n] = g[n]
  BY <1>6, <1>2 DEF S
<1>8. n + 1 \in 1..Len(u) /\ (n + 1) - 1 = n
  BY <1>2
<1>9. g[n + 1] = IF IsLetter(c) THEN Append(g[n], c) ELSE g[n]
  BY <1>3, <1>8, <1>2
<1> QED BY <1>1, <1>2, <1>3, <1>7, <1>9 DEF u

(* An element behind two sequences is one behind the second. *)
LEMMA AppendConcat ==
  ASSUME NEW T, NEW s \in Seq(T), NEW t \in Seq(T), NEW x \in T
  PROVE  s \o Append(t, x) = Append(s \o t, x)
<1> DEFINE u == Append(t, x)
           v == s \o t
           n == Len(s) + Len(t)
<1>1. /\ u \in Seq(T) /\ Len(u) = Len(t) + 1 /\ u[Len(t) + 1] = x
      /\ \A i \in 1..Len(t) : u[i] = t[i]
  OBVIOUS
<1>2. /\ v \in Seq(T) /\ Len(v) = n
      /\ \A i \in 1..n : v[i] = IF i <= Len(s) THEN s[i] ELSE t[i - Len(s)]
  BY ConcatProperties
<1>3. Len(s) \in Nat /\ Len(t) \in Nat
  OBVIOUS
<1> HIDE DEF u, v
<1>4. /\ s \o u \in Seq(T) /\ Len(s \o u) = n + 1
      /\ \A i \in 1..(n + 1) : (s \o u)[i] = IF i <= Len(s) THEN s[i] ELSE u[i - Len(s)]
  <2>1. Len(s) + Len(u) = n + 1
    BY <1>1, <1>3
  <2>2. /\ s \o u \in Seq(T) /\ Len(s \o u) = Len(s) + Len(u)
        /\ \A i \in 1..(Len(s) + Len(u)) : (s \o u)[i] = IF i <= Len(s) THEN s[i] ELSE u[i - Len(s)]
    BY <1>1, ConcatProperties
  <2> QED BY <2>1, <2>2
<1>5. /\ Append(v, x) \in Seq(T) /\ Len(Append(v, x)) = n + 1
      /\ \A i \in 1..n : Append(v, x)[i] = v[i]
      /\ Append(v, x)[n + 1] = x
  BY <1>2, <1>3
<1> DEFINE su == s \o u
           vx == Append(v, x)
<1> HIDE DEF su, vx
<1>4a. /\ su \in Seq(T) /\ Len(su) = n + 1
       /\ \A i \in 1..(n + 1) : su[i] = IF i <= Len(s) THEN s[i] ELSE u[i - Len(s)]
  BY <1>4 DEF su
<1>5a. /\ vx \in Seq(T) /\ Len(vx) = n + 1
       /\ \A i \in 1..n : vx[i] = v[i]
       /\ vx[n + 1] = x
  BY <1>5 DEF vx
<1>6. ASSUME NEW i \in 1..(n + 1) PROVE su[i] = vx[i]
  <2>1. CASE i <= Len(s)
    <3>1. i \in 1..n
      BY <2>1, <1>3
    <3>2. vx[i] = s[i] /\ su[i] = s[i]
      BY <2>1, <3>1, <1>2, <1>4a, <1>5a
    <3> QED BY <3>2
  <2>2. CASE i > Len(s) /\ i <= n
    <3>1. i - Len(s) \in 1..Len(t) /\ i \in 1..n /\ ~(i <= Len(s))
      BY <2>2, <1>3
    <3> HIDE DEF n
    <3> QED BY <3>1, <1>1, <1>2, <1>4a, <1>5a
  <2>3. CASE i = n + 1
    <3>1. i - Len(s) = Len(t) + 1 /\ ~(i <= Len(s))
      BY <2>3, <1>3
    <3>2. su[i] = u[i - Len(s)]
      BY <3>1, <1>4a
    <3>3. vx[i] = x
      BY <2>3, <1>5a
    <3>4. su[i] = x
      BY <3>1, <3>2, <1>1
    <3> QED BY <3>3, <3>4
  <2> QED BY <2>1, <2>2, <2>3, <1>3
<1>7. su = vx
  <2> HIDE DEF n
  <2> QED BY <1>4a, <1>5a, <1>6, SeqEqual
<1> QED BY <1>7 DEF u, v, su, vx

(* The first k + 1 elements are the first k and one more. *)
LEMMA PrefixAppend ==
  ASSUME NEW T, NEW t \in Seq(T), NEW k \in Nat, k + 1 <= Len(t)
  PROVE  /\ SubSeq(t, 1, k + 1) = Append(SubSeq(t, 1, k), t[k + 1])
         /\ SubSeq(t, 1, k) \in Seq(T) /\ t[k + 1] \in T
OBVIOUS

(* The letters of a text of two parts are those of the parts. *)
LEMMA LettersConcat ==
  ASSUME NEW s \in Text, NEW t \in Text
  PROVE  Letters(s \o t) = Letters(s) \o Letters(t)
<1> DEFINE n == Len(t)
           p(k) == SubSeq(t, 1, k)
           S == {k \in Nat : k <= n => Letters(s \o p(k)) = Letters(s) \o Letters(p(k))}
<1>1. n \in Nat /\ s \in Seq(Int) /\ t \in Seq(Int)
  BY DEF Text
<1>2. 0 \in S
  <2>1. p(0) = <<>> /\ s \o <<>> = s
    BY <1>1
  <2>2. Letters(<<>>) = <<>>
    <3>1. <<>> \in Text /\ Blank(<<>>)
      BY DEF Text, Blank
    <3> QED BY <3>1, LettersType
  <2>3. Letters(s) \in Seq(Int)
    BY LettersType DEF Text
  <2>4. Letters(s) \o <<>> = Letters(s)
    BY <2>3
  <2> QED BY <2>1, <2>2, <2>4
<1>3. ASSUME NEW k \in Nat, k \in S PROVE k + 1 \in S
  <2> SUFFICES ASSUME k + 1 <= n PROVE Letters(s \o p(k + 1)) = Letters(s) \o Letters(p(k + 1))
    OBVIOUS
  <2>1. p(k + 1) = Append(p(k), t[k + 1]) /\ p(k) \in Text /\ t[k + 1] \in Int
    BY <1>1, PrefixAppend DEF Text
  <2>2. Letters(s \o p(k)) = Letters(s) \o Letters(p(k))
    BY <1>3, <1>1
  <2> HIDE DEF p
  <2>3. s \o p(k + 1) = Append(s \o p(k), t[k + 1]) /\ s \o p(k) \in Text
    <3>1. s \in Seq(Int) /\ p(k) \in Seq(Int)
      BY <2>1 DEF Text
    <3> DEFINE r == s
               q == p(k)
               c == t[k + 1]
    <3>2. r \o Append(q, c) = Append(r \o q, c)
      <4>1. r \in Seq(Int) /\ q \in Seq(Int) /\ c \in Int
        BY <3>1, <2>1
      <4> HIDE DEF r, q, c
      <4> QED BY ONLY <4>1, AppendConcat
    <3>3. s \o p(k) \in Text
      BY <3>1 DEF Text
    <3>4. s \o p(k + 1) = Append(s \o p(k), t[k + 1])
      <4>1. p(k + 1) = Append(q, c)
        BY <2>1
      <4> QED BY ONLY <3>2, <4>1, Zenon DEF r, q, c
    <3> QED BY <3>3, <3>4
  <2>4. Letters(s) \in Seq(Int) /\ Letters(p(k)) \in Seq(Int)
    BY <2>1, LettersType DEF Text
  <2>5. CASE IsLetter(t[k + 1])
    <3>1. Letters(s \o p(k + 1)) = Append(Letters(s) \o Letters(p(k)), t[k + 1])
      BY <2>1, <2>2, <2>3, <2>5, LettersAppend
    <3>2. Letters(p(k + 1)) = Append(Letters(p(k)), t[k + 1])
      BY <2>1, <2>5, LettersAppend
    <3> DEFINE a == Letters(s)
               b == Letters(p(k))
               c == t[k + 1]
    <3>3. a \o Append(b, c) = Append(a \o b, c)
      <4>1. a \in Seq(Int) /\ b \in Seq(Int) /\ c \in Int
        BY <2>1, <2>4
      <4> HIDE DEF a, b, c
      <4> QED BY <4>1, AppendConcat
    <3> QED BY <3>1, <3>2, <3>3
  <2>6. CASE ~IsLetter(t[k + 1])
    <3>1. Letters(s \o p(k + 1)) = Letters(s) \o Letters(p(k))
      BY <2>1, <2>2, <2>3, <2>6, LettersAppend
    <3>2. Letters(p(k + 1)) = Letters(p(k))
      BY <2>1, <2>6, LettersAppend
    <3> QED BY <3>1, <3>2
  <2> QED BY <2>5, <2>6
<1> HIDE DEF S
<1>4. n \in S
  BY <1>1, <1>2, <1>3, Induction
<1>5. Letters(s \o p(n)) = Letters(s) \o Letters(p(n))
  BY <1>4, <1>1 DEF S
<1>6. p(n) = t
  BY <1>1
<1> QED BY <1>5, <1>6

(* The letters of several texts. *)
LettersOf(texts) ==
  LET add(letters, text) == letters \o Letters(text) IN FoldLeft(add, <<>>, texts)

(* Two texts are a text. *)
LEMMA ConcatText ==
  ASSUME NEW s \in Text, NEW t \in Text
  PROVE  s \o t \in Text /\ Len(s \o t) = Len(s) + Len(t)
BY DEF Text

(* A text is a sequence, and nothing changes it behind or before. *)
LEMMA TextFacts ==
  ASSUME NEW t \in Text
  PROVE  t \in Seq(Int) /\ Len(t) \in Nat /\ t \o <<>> = t /\ <<>> \o t = t
BY ConcatEmptySeq DEF Text

(* Three texts are a text, whichever two are joined first. *)
LEMMA TextAssociative ==
  ASSUME NEW s \in Text, NEW t \in Text, NEW u \in Text
  PROVE  (s \o t) \o u = s \o (t \o u)
BY ConcatAssociative DEF Text

(* The empty text has no letters. *)
LEMMA NoText == <<>> \in Text /\ Letters(<<>>) = <<>> /\ Len(<<>>) = 0
<1>1. <<>> \in Text /\ Blank(<<>>)
  BY DEF Text, Blank
<1> QED BY <1>1, LettersType

(* The letters of the first texts. *)
LEMMA LettersOfSteps ==
  ASSUME NEW texts \in Seq(Text)
  PROVE  \E f \in [0..Len(texts) -> Text] :
           /\ f[0] = <<>>
           /\ \A k \in 1..Len(texts) : f[k] = f[k - 1] \o Letters(texts[k])
           /\ LettersOf(texts) = f[Len(texts)]
<1> DEFINE start == <<>>
           step == [p \in (Text) \X (Text) |-> p[1] \o Letters(p[2])]
           n    == Len(texts)
           Fits(iter) == iter = [s \in SUBSET DOMAIN texts |->
             IF s = {} THEN start ELSE iter[s \ {Max(s)}] \o Letters(texts[Max(s)])]
           iter == CHOOSE i : Fits(i)
           f    == [k \in 0..n |-> iter[1..k]]
<1>1. LettersOf(texts) = iter[DOMAIN texts]
  BY DEF LettersOf, FoldLeft, MapThenFoldSet
<1>2. start \in Text /\ n \in Nat /\ texts \in [1..n -> Text] /\ DOMAIN texts = 1..n
  BY NoText
<1>3. \A a \in Text, x \in Text : a \o Letters(x) \in Text
  BY LettersType, ConcatText
<1>4. step \in [(Text) \X (Text) -> Text]
  BY <1>3
<1>5. PICK F \in [SUBSET (1..n) -> Text] : F \in Folding(Text, start, step, texts, n)
  <2> HIDE DEF step, start, n
  <2> QED BY <1>2, <1>4, FoldExists
<1>6. ASSUME NEW s \in SUBSET (1..n)
      PROVE  F[s] = IF s = {} THEN start ELSE F[s \ {Max(s)}] \o Letters(texts[Max(s)])
  <2>1. F[s] = IF s = {} THEN start ELSE step[F[s \ {Max(s)}], texts[Max(s)]]
    BY <1>5 DEF Folding
  <2>2. ASSUME s # {}
        PROVE  F[s \ {Max(s)}] \in Text /\ texts[Max(s)] \in Text
    <3>1. Max(s) \in 1..n
      <4> HIDE DEF n
      <4>1. s \subseteq 0..n
        BY <1>2
      <4> QED BY <4>1, <2>2, <1>2, MaxOf
    <3>2. s \ {Max(s)} \in SUBSET (1..n)
      OBVIOUS
    <3> QED BY <3>1, <3>2, <1>2
  <2> QED BY <2>1, <2>2
<1>7. Fits(F)
  <2> HIDE DEF start, n
  <2> QED BY <1>2, <1>6
<1>8. Fits(iter)
  <2> HIDE DEF Fits
  <2> QED BY <1>7
<1>9. iter[1..0] = start
  <2>1. 1..0 = {} /\ 1..0 \in SUBSET DOMAIN texts
    BY <1>2
  <2> HIDE DEF iter, start
  <2> QED BY <1>8, <2>1
<1>10. ASSUME NEW k \in 1..n
       PROVE  iter[1..k] = iter[1..(k - 1)] \o Letters(texts[k])
  <2>1. 1..k \in SUBSET DOMAIN texts /\ 1..k # {} /\ Max(1..k) = k /\ (1..k) \ {k} = 1..(k - 1)
    <3> HIDE DEF n
    <3> QED BY <1>2, InitialSegment
  <2> HIDE DEF iter, start
  <2> QED BY <1>8, <2>1
<1>11. f \in [0..n -> Text]
  <2> HIDE DEF iter, start, n
  <2>1. ASSUME NEW k \in 1..n, iter[1..(k - 1)] \in Text
        PROVE  iter[1..k] \in Text
    <3>1. texts[k] \in Text
      BY <1>2
    <3> QED BY <1>10, <1>3, <3>1, <2>1
  <2>2. \A k \in 0..n : iter[1..k] \in Text
    BY <2>1, <1>9, <1>2, FoldSteps
  <2> QED BY <2>2
<1>12. f[0] = start /\ f[n] = iter[DOMAIN texts]
  <2> HIDE DEF iter, start, n
  <2> QED BY <1>9, <1>2
<1>13. \A k \in 1..n : f[k] = f[k - 1] \o Letters(texts[k])
  <2> HIDE DEF iter
  <2>1. \A k \in 1..n : k \in 0..n /\ k - 1 \in 0..n
    BY <1>2
  <2> QED BY <1>10, <2>1
<1> QED
  <2> HIDE DEF iter, f
  <2> QED BY <1>1, <1>11, <1>12, <1>13

(* No texts have no letters. *)
LEMMA LettersOfNone == LettersOf(<<>>) = <<>>
<1>1. <<>> \in Seq(Text) /\ Len(<<>>) = 0
  OBVIOUS
<1> QED BY <1>1, LettersOfSteps

(* The letters of texts are a text. *)
LEMMA LettersOfType ==
  ASSUME NEW texts \in Seq(Text)
  PROVE  LettersOf(texts) \in Text
<1>1. PICK g \in [0..Len(texts) -> Text] : LettersOf(texts) = g[Len(texts)]
  BY LettersOfSteps
<1> QED BY <1>1

(* The letters of one text more come last. *)
LEMMA LettersOfAppend ==
  ASSUME NEW texts \in Seq(Text), NEW t \in Text
  PROVE  LettersOf(Append(texts, t)) = LettersOf(texts) \o Letters(t)
<1> DEFINE n == Len(texts)
           u == Append(texts, t)
<1>1. PICK f \in [0..n -> Text] :
           /\ f[0] = <<>>
           /\ \A k \in 1..n : f[k] = f[k - 1] \o Letters(texts[k])
           /\ LettersOf(texts) = f[n]
  BY LettersOfSteps
<1>2. u \in Seq(Text) /\ Len(u) = n + 1 /\ n \in Nat /\ u[n + 1] = t /\ \A k \in 1..n : u[k] = texts[k]
  OBVIOUS
<1> HIDE DEF u
<1>3. PICK g \in [0..Len(u) -> Text] :
           /\ g[0] = <<>>
           /\ \A k \in 1..Len(u) : g[k] = g[k - 1] \o Letters(u[k])
           /\ LettersOf(u) = g[Len(u)]
  BY <1>2, LettersOfSteps
<1> HIDE DEF n
<1> DEFINE S == {k \in Nat : k <= n => f[k] = g[k]}
<1>4. 0 \in S
  BY <1>1, <1>3
<1>5. ASSUME NEW k \in Nat, k \in S PROVE k + 1 \in S
  <2> SUFFICES ASSUME k + 1 <= n PROVE f[k + 1] = g[k + 1]
    OBVIOUS
  <2>1. k + 1 \in 1..n /\ k + 1 \in 1..Len(u) /\ (k + 1) - 1 = k /\ f[k] = g[k]
    BY <1>2, <1>5
  <2>2. f[k + 1] = f[k] \o Letters(texts[k + 1])
    BY <2>1, <1>1
  <2>3. g[k + 1] = g[k] \o Letters(texts[k + 1])
    BY <2>1, <1>2, <1>3
  <2> QED BY <2>1, <2>2, <2>3
<1> HIDE DEF S
<1>6. n \in S
  BY <1>2, <1>4, <1>5, Induction
<1>7. f[n] = g[n]
  BY <1>6, <1>2 DEF S
<1>8. n + 1 \in 1..Len(u) /\ (n + 1) - 1 = n
  BY <1>2
<1>9. g[n + 1] = g[n] \o Letters(t)
  BY <1>3, <1>8, <1>2
<1> QED BY <1>1, <1>2, <1>3, <1>7, <1>9 DEF u

(* The letters of two lists of texts are those of the lists. *)
LEMMA LettersOfConcat ==
  ASSUME NEW s \in Seq(Text), NEW t \in Seq(Text)
  PROVE  LettersOf(s \o t) = LettersOf(s) \o LettersOf(t)
<1> DEFINE n == Len(t)
           p(k) == SubSeq(t, 1, k)
           S == {k \in Nat : k <= n => LettersOf(s \o p(k)) = LettersOf(s) \o LettersOf(p(k))}
<1>1. n \in Nat
  OBVIOUS
<1>2. 0 \in S
  <2>1. p(0) = <<>> /\ s \o <<>> = s
    BY ConcatEmptySeq
  <2>2. LettersOf(s) \o <<>> = LettersOf(s)
    BY LettersOfType, TextFacts
  <2> QED BY <2>1, <2>2, LettersOfNone
<1>3. ASSUME NEW k \in Nat, k \in S PROVE k + 1 \in S
  <2> SUFFICES ASSUME k + 1 <= n PROVE LettersOf(s \o p(k + 1)) = LettersOf(s) \o LettersOf(p(k + 1))
    OBVIOUS
  <2>1. p(k + 1) = Append(p(k), t[k + 1]) /\ p(k) \in Seq(Text) /\ t[k + 1] \in Text
    BY <1>1, PrefixAppend
  <2>2. LettersOf(s \o p(k)) = LettersOf(s) \o LettersOf(p(k))
    BY <1>3, <1>1
  <2> DEFINE q == p(k)
             x == t[k + 1]
             w == p(k + 1)
  <2>3. w = Append(q, x) /\ q \in Seq(Text) /\ x \in Text
    BY <2>1
  <2>4. LettersOf(s \o q) = LettersOf(s) \o LettersOf(q)
    BY <2>2
  <2> HIDE DEF p, q, x, w, S, n
  <2>5. s \o Append(q, x) = Append(s \o q, x) /\ s \o q \in Seq(Text)
    <3>1. s \o Append(q, x) = Append(s \o q, x)
      BY <2>3, AppendConcat
    <3>2. s \o q \in Seq(Text)
      BY <2>3, ConcatProperties
    <3> QED BY <3>1, <3>2
  <2>6. LettersOf(Append(s \o q, x)) = LettersOf(s \o q) \o Letters(x)
    BY <2>5, <2>3, LettersOfAppend
  <2>7. LettersOf(Append(q, x)) = LettersOf(q) \o Letters(x)
    BY <2>3, LettersOfAppend
  <2>8. (LettersOf(s) \o LettersOf(q)) \o Letters(x) = LettersOf(s) \o (LettersOf(q) \o Letters(x))
    BY <2>3, LettersOfType, LettersType, TextAssociative
  <2>9. LettersOf(s \o w) = LettersOf(s) \o LettersOf(w)
    BY ONLY <2>3, <2>4, <2>5, <2>6, <2>7, <2>8, Zenon
  <2> QED BY <2>9 DEF w
<1> HIDE DEF S
<1>4. n \in S
  BY <1>1, <1>2, <1>3, Induction
<1>5. LettersOf(s \o p(n)) = LettersOf(s) \o LettersOf(p(n))
  BY <1>4, <1>1 DEF S
<1>6. p(n) = t
  OBVIOUS
<1> QED BY <1>5, <1>6

(* The least of some numbers is one of them. *)
LEMMA MinOf ==
  ASSUME NEW n \in Nat, NEW s \in SUBSET (1..n), s # {}
  PROVE  Min(s) \in s /\ \A x \in s : Min(s) <= x
<1>1. PICK m \in s : \A x \in s : m <= x
  <2>1. s \in SUBSET Nat
    OBVIOUS
  <2> QED BY <2>1, LeastNumber
<1> QED BY <1>1 DEF Min

(* A part of a text, character by character. *)
LEMMA PartType ==
  ASSUME NEW t \in Text, NEW i \in 1..(Len(t) + 1), NEW j \in (i - 1)..Len(t)
  PROVE  /\ SubSeq(t, i, j) \in Text
         /\ Len(SubSeq(t, i, j)) = (j - i) + 1
         /\ \A k \in 1..((j - i) + 1) : SubSeq(t, i, j)[k] = t[(i + k) - 1]
<1>1. \A k \in i..j : t[k] \in Int
  BY DEF Text
<1>2. i \in Int /\ j \in Int
  BY DEF Text
<1> QED BY <1>1, <1>2, SubSeqProperties DEF Text

(* White space has no letters. *)
LEMMA BlankPart ==
  ASSUME NEW t \in Text, NEW i \in 1..(Len(t) + 1), NEW j \in (i - 1)..Len(t),
         \A k \in i..j : ~IsLetter(t[k])
  PROVE  Letters(SubSeq(t, i, j)) = <<>>
<1> DEFINE u == SubSeq(t, i, j)
<1>1. u \in Text /\ Len(u) = (j - i) + 1 /\ \A k \in 1..((j - i) + 1) : u[k] = t[(i + k) - 1]
  BY PartType
<1>2. Len(t) \in Nat
  BY TextFacts
<1>3. \A k \in 1..((j - i) + 1) : (i + k) - 1 \in i..j
  BY <1>2
<1> HIDE DEF u
<1>4. DOMAIN u = 1..((j - i) + 1)
  BY <1>1 DEF Text
<1>5. Blank(u)
  BY <1>1, <1>3, <1>4 DEF Blank
<1> QED BY <1>1, <1>5, LettersType DEF u

(* A text in two parts. *)
LEMMA Parts ==
  ASSUME NEW t \in Text, NEW i \in 0..Len(t)
  PROVE  /\ SubSeq(t, 1, i) \in Text /\ Len(SubSeq(t, 1, i)) = i
         /\ SubSeq(t, i + 1, Len(t)) \in Text /\ Len(SubSeq(t, i + 1, Len(t))) = Len(t) - i
         /\ SubSeq(t, 1, i) \o SubSeq(t, i + 1, Len(t)) = t
         /\ Letters(SubSeq(t, 1, i)) \o Letters(SubSeq(t, i + 1, Len(t))) = Letters(t)
<1> DEFINE n == Len(t)
           a == SubSeq(t, 1, i)
           b == SubSeq(t, i + 1, n)
<1>1. n \in Nat /\ t \in Seq(Int)
  BY TextFacts
<1>2. a \in Text /\ Len(a) = i
  <2>1. 1 \in 1..(n + 1) /\ i \in (1 - 1)..n
    BY <1>1
  <2>2. a \in Text /\ Len(a) = (i - 1) + 1
    BY <2>1, PartType
  <2> QED BY <2>2, <1>1
<1>3. b \in Text /\ Len(b) = n - i
  <2>1. i + 1 \in 1..(n + 1) /\ n \in ((i + 1) - 1)..n
    BY <1>1
  <2>2. b \in Text /\ Len(b) = (n - (i + 1)) + 1
    BY <2>1, PartType
  <2> QED BY <2>2, <1>1
<1>4. a \o b = t
  <2>1. 1 \in 1..(n + 1) /\ i \in (1 - 1)..n /\ n \in i..n
    BY <1>1
  <2>2. a \o b = SubSeq(t, 1, n)
    BY <1>1, <2>1, ConcatAdjacentSubSeq
  <2>3. SubSeq(t, 1, n) = t
    BY <1>1, SubSeqFull
  <2> QED BY <2>2, <2>3
<1> HIDE DEF a, b
<1>5. Letters(a \o b) = Letters(a) \o Letters(b)
  BY <1>2, <1>3, LettersConcat
<1> QED BY <1>2, <1>3, <1>4, <1>5 DEF a, b

(* str::trim_end leaves the letters. *)
LEMMA TrimEndLetters ==
  ASSUME NEW t \in Text
  PROVE  /\ TrimEnd(t) \in Text
         /\ Letters(TrimEnd(t)) = Letters(t)
<1>1. CASE Blank(t)
  BY <1>1, LettersType, NoText DEF TrimEnd
<1>2. CASE ~Blank(t)
  <2> DEFINE n == Len(t)
             j == Max(LetterAt(t))
  <2>1. n \in Nat /\ t \in Seq(Int) /\ DOMAIN t = 1..n
    BY TextFacts
  <2>2. LetterAt(t) \subseteq 1..n /\ LetterAt(t) # {} /\ LetterAt(t) \subseteq 0..n
    BY <1>2, <2>1 DEF LetterAt, Blank
  <2>3. j \in LetterAt(t) /\ \A x \in LetterAt(t) : x <= j
    BY <2>1, <2>2, MaxOf
  <2>4. j \in 0..n /\ \A k \in (j + 1)..n : ~IsLetter(t[k])
    <3> HIDE DEF j
    <3>1. j \in 1..n
      BY <2>2, <2>3
    <3>2. ASSUME NEW k \in (j + 1)..n, IsLetter(t[k]) PROVE FALSE
      <4>1. k \in LetterAt(t)
        BY <3>1, <3>2, <2>1 DEF LetterAt
      <4> QED BY <4>1, <3>1, <2>1, <2>3
    <3> QED BY <3>1, <3>2
  <2> HIDE DEF j
  <2> DEFINE a == SubSeq(t, 1, j)
             b == SubSeq(t, j + 1, n)
  <2>5. a \in Text /\ Letters(a) \o Letters(b) = Letters(t)
    BY <2>4, Parts
  <2>6. Letters(b) = <<>>
    <3>1. j + 1 \in 1..(n + 1) /\ n \in ((j + 1) - 1)..n
      BY <2>1, <2>4
    <3> QED BY <2>4, <3>1, BlankPart
  <2>7. Letters(a) \o <<>> = Letters(a)
    BY <2>5, LettersType, TextFacts
  <2>8. TrimEnd(t) = a
    BY <1>2 DEF TrimEnd, j
  <2> HIDE DEF a, b
  <2> QED BY <2>5, <2>6, <2>7, <2>8
<1> QED BY <1>1, <1>2

(* str::trim leaves the letters, and nothing of a blank text. *)
LEMMA TrimLetters ==
  ASSUME NEW t \in Text
  PROVE  /\ Trim(t) \in Text
         /\ Letters(Trim(t)) = Letters(t)
         /\ Len(Trim(t)) <= Len(t)
         /\ Trim(t) = <<>> <=> Blank(t)
<1>1. CASE Blank(t)
  <2>1. Trim(t) = <<>>
    BY <1>1 DEF Trim
  <2> QED BY <2>1, <1>1, LettersType, NoText, TextFacts
<1>2. CASE ~Blank(t)
  <2> DEFINE n == Len(t)
             i == Min(LetterAt(t))
             j == Max(LetterAt(t))
  <2>1. n \in Nat /\ t \in Seq(Int) /\ DOMAIN t = 1..n
    BY TextFacts
  <2>2. LetterAt(t) \subseteq 1..n /\ LetterAt(t) # {} /\ LetterAt(t) \subseteq 0..n
    BY <1>2, <2>1 DEF LetterAt, Blank
  <2>3. j \in LetterAt(t) /\ \A x \in LetterAt(t) : x <= j
    BY <2>1, <2>2, MaxOf
  <2>4. i \in LetterAt(t) /\ \A x \in LetterAt(t) : i <= x
    BY <2>1, <2>2, MinOf
  <2> HIDE DEF i, j
  <2>5. i \in 1..n /\ j \in i..n
    BY <2>1, <2>2, <2>3, <2>4
  <2>6. ASSUME NEW k \in 1..n, k < i \/ k > j, IsLetter(t[k]) PROVE FALSE
    <3>1. k \in LetterAt(t)
      BY <2>6, <2>1 DEF LetterAt
    <3> QED BY <3>1, <2>1, <2>3, <2>4, <2>5, <2>6
  <2> DEFINE a == SubSeq(t, 1, i - 1)
             b == SubSeq(t, i, j)
             c == SubSeq(t, j + 1, n)
             ab == SubSeq(t, 1, j)
  <2>7. ab \in Text /\ Letters(ab) \o Letters(c) = Letters(t)
    <3>1. j \in 0..n
      BY <2>1, <2>5
    <3> QED BY <3>1, Parts
  <2>8. b \in Text /\ Len(b) <= n /\ a \in Text
    <3>1. i \in 1..(n + 1) /\ j \in (i - 1)..n /\ 1 \in 1..(n + 1) /\ i - 1 \in (1 - 1)..n
      BY <2>1, <2>5
    <3>2. b \in Text /\ Len(b) = (j - i) + 1 /\ a \in Text
      BY <3>1, PartType
    <3>3. (j - i) + 1 <= n
      BY <2>1, <2>5
    <3> QED BY <3>2, <3>3
  <2>9. a \o b = ab
    <3>1. 1 \in 1..(n + 1) /\ i - 1 \in (1 - 1)..n /\ j \in (i - 1)..n /\ (i - 1) + 1 = i
      BY <2>1, <2>5
    <3>2. SubSeq(t, 1, i - 1) \o SubSeq(t, (i - 1) + 1, j) = SubSeq(t, 1, j)
      BY <2>1, <3>1, ConcatAdjacentSubSeq
    <3> QED BY <3>1, <3>2
  <2>10. Letters(a) = <<>>
    <3>1. 1 \in 1..(n + 1) /\ i - 1 \in (1 - 1)..n /\ \A k \in 1..(i - 1) : ~IsLetter(t[k])
      BY <2>1, <2>5, <2>6
    <3> QED BY <3>1, BlankPart
  <2>11. Letters(c) = <<>>
    <3>1. j + 1 \in 1..(n + 1) /\ n \in ((j + 1) - 1)..n /\ \A k \in (j + 1)..n : ~IsLetter(t[k])
      BY <2>1, <2>5, <2>6
    <3> QED BY <3>1, BlankPart
  <2>12. Trim(t) = b
    BY <1>2 DEF Trim, i, j
  <2> HIDE DEF a, b, c, ab
  <2>13. Letters(b) = Letters(t)
    <3>1. Letters(a \o b) = Letters(a) \o Letters(b)
      BY <2>8, LettersConcat
    <3>2. <<>> \o Letters(b) = Letters(b) /\ Letters(ab) \o <<>> = Letters(ab)
      BY <2>7, <2>8, LettersType, TextFacts
    <3> QED BY ONLY <3>1, <3>2, <2>7, <2>9, <2>10, <2>11, Zenon
  <2>14. ~Blank(b)
    BY <2>8, <2>13, <1>2, LettersType
  <2>15. b # <<>>
    BY <2>14 DEF Blank
  <2> QED BY <2>8, <2>12, <2>13, <2>15, <1>2
<1> QED BY <1>1, <1>2

-----------------------------------------------------------------------------
(***************************************************************************)
(* Lines, paragraphs and pieces: what is cut, the letters of all parts are *)
(* those of the text.                                                      *)
(***************************************************************************)
LEMMA LastReplaced ==
  ASSUME NEW T, NEW a \in Seq(T), a # <<>>, NEW y \in T
  PROVE  /\ SubSeq(a, 1, Len(a) - 1) \in Seq(T)
         /\ a[Len(a)] \in T
         /\ a = Append(SubSeq(a, 1, Len(a) - 1), a[Len(a)])
         /\ [a EXCEPT ![Len(a)] = y] = Append(SubSeq(a, 1, Len(a) - 1), y)
<1> DEFINE m == Len(a)
           b == SubSeq(a, 1, m - 1)
<1>1. m \in Nat /\ m >= 1 /\ m - 1 \in Nat /\ (m - 1) + 1 = m
  <2>1. m \in Nat /\ m # 0
    OBVIOUS
  <2> QED BY <2>1
<1>2. SubSeq(a, 1, (m - 1) + 1) = Append(SubSeq(a, 1, m - 1), a[(m - 1) + 1]) /\ b \in Seq(T)
  <2>1. (m - 1) + 1 <= Len(a)
    BY <1>1
  <2> QED BY <1>1, <2>1, PrefixAppend
<1>3. SubSeq(a, 1, m) = a
  BY SubSeqFull
<1>4. Len(b) = m - 1 /\ \A i \in 1..(m - 1) : b[i] = a[i]
  <2>1. \A i \in 1..(m - 1) : a[i] \in T
    BY <1>1
  <2>2. 1 \in Int /\ m - 1 \in Int
    BY <1>1
  <2>3. /\ Len(b) = IF 1 <= m - 1 THEN ((m - 1) - 1) + 1 ELSE 0
        /\ \A i \in 1..(((m - 1) - 1) + 1) : b[i] = a[(1 + i) - 1]
    BY <2>1, <2>2, SubSeqProperties
  <2> HIDE DEF b
  <2>4. Len(b) = m - 1
    <3>1. m - 1 \in 0..Len(a)
      BY <1>1
    <3> QED BY <3>1, SubSeqPrefix DEF b
  <2>5. ASSUME NEW i \in 1..(m - 1) PROVE b[i] = a[i]
    <3>1. i \in 1..(((m - 1) - 1) + 1) /\ (1 + i) - 1 = i
      BY <1>1
    <3> QED BY <3>1, <2>3
  <2> QED BY <2>4, <2>5
<1>5. a[m] \in T
  BY <1>1
<1> DEFINE u == [a EXCEPT ![m] = y]
           v == Append(b, y)
<1>6. u \in Seq(T) /\ Len(u) = m /\ \A i \in 1..m : u[i] = IF i = m THEN y ELSE a[i]
  <2>1. m \in 1..Len(a)
    BY <1>1
  <2> QED BY <2>1, ExceptSeq
<1>7. v \in Seq(T) /\ Len(v) = m /\ v[m] = y /\ \A i \in 1..(m - 1) : v[i] = b[i]
  <2> HIDE DEF b
  <2>1. v \in Seq(T) /\ Len(v) = Len(b) + 1 /\ v[Len(b) + 1] = y /\ \A i \in 1..Len(b) : v[i] = b[i]
    BY <1>2
  <2> HIDE DEF v
  <2> QED BY <2>1, <1>1, <1>4
<1> HIDE DEF b, u, v
<1>8. ASSUME NEW i \in 1..m PROVE u[i] = v[i]
  <2>1. CASE i = m
    BY <2>1, <1>6, <1>7
  <2>2. CASE i # m
    <3>1. i \in 1..(m - 1)
      <4> HIDE DEF m
      <4> QED BY <2>2, <1>1
    <3> QED BY <3>1, <2>2, <1>4, <1>6, <1>7
  <2> QED BY <2>1, <2>2
<1>9. u = v
  <2> HIDE DEF m
  <2> QED BY <1>6, <1>7, <1>8, SeqEqual
<1> QED BY <1>1, <1>2, <1>3, <1>5, <1>9 DEF b, u, v

TextLists == Seq(Text) \ {<<>>}

LineAdded(a, x) ==
  IF x = Newline THEN Append(a, <<>>) ELSE [a EXCEPT ![Len(a)] = Append(@, x)]

(* A character goes to the last line, or begins one. *)
LEMMA LineAddedLetters ==
  ASSUME NEW a \in TextLists, NEW x \in Int
  PROVE  /\ LineAdded(a, x) \in TextLists
         /\ LettersOf(LineAdded(a, x)) =
              IF IsLetter(x) THEN Append(LettersOf(a), x) ELSE LettersOf(a)
<1>1. a \in Seq(Text) /\ a # <<>>
  BY DEF TextLists
<1>2. CASE x = Newline
  <2>1. ~IsLetter(x)
    BY <1>2 DEF IsLetter, Newline
  <2> DEFINE new == Append(a, <<>>)
  <2>2. new \in Seq(Text) /\ new # <<>>
    <3>1. new \in Seq(Text) /\ Len(new) = Len(a) + 1 /\ Len(a) \in Nat
      BY <1>1, NoText
    <3> HIDE DEF new
    <3> QED BY <3>1
  <2>3. LettersOf(new) = LettersOf(a) \o Letters(<<>>)
    BY <1>1, NoText, LettersOfAppend
  <2>4. LettersOf(a) \o <<>> = LettersOf(a)
    BY <1>1, LettersOfType, TextFacts
  <2> HIDE DEF new
  <2>5. LettersOf(new) = LettersOf(a) /\ new \in TextLists
    BY <2>2, <2>3, <2>4, NoText DEF TextLists
  <2>6. LineAdded(a, x) = new
    BY <1>2 DEF LineAdded, new
  <2> QED BY <2>1, <2>5, <2>6
<1>3. CASE x # Newline
  <2> DEFINE m == Len(a)
             b == SubSeq(a, 1, m - 1)
             t == a[m]
             u == Append(t, x)
             new == [a EXCEPT ![m] = u]
  <2>1. t \in Text
    <3>1. m \in 1..Len(a)
      <4>1. m \in Nat /\ m # 0
        BY <1>1
      <4> QED BY <4>1
    <3> QED BY <3>1, <1>1
  <2>2. u \in Text /\ Letters(u) = IF IsLetter(x) THEN Append(Letters(t), x) ELSE Letters(t)
    <3>1. Append(t, x) \in Text
      BY <2>1 DEF Text
    <3> QED BY <3>1, <2>1, LettersAppend
  <2> HIDE DEF t, u
  <2>3. b \in Seq(Text) /\ a = Append(b, a[m]) /\ new = Append(b, u)
    BY <1>1, <2>2, LastReplaced
  <2>4. a = Append(b, t)
    BY <2>3 DEF t
  <2> HIDE DEF m, b, new
  <2>5. LettersOf(Append(b, t)) = LettersOf(b) \o Letters(t)
    BY <2>1, <2>3, LettersOfAppend
  <2>6. LettersOf(Append(b, u)) = LettersOf(b) \o Letters(u)
    BY <2>2, <2>3, LettersOfAppend
  <2>7. new \in TextLists
    <3>1. Append(b, u) \in Seq(Text) /\ Len(Append(b, u)) = Len(b) + 1 /\ Len(b) \in Nat
      BY <2>2, <2>3
    <3>2. new \in Seq(Text) /\ Len(new) # 0
      BY ONLY <3>1, <2>3
    <3>3. new # <<>>
      BY ONLY <3>2
    <3> QED BY <3>2, <3>3 DEF TextLists
  <2>8. LettersOf(new) = IF IsLetter(x) THEN Append(LettersOf(a), x) ELSE LettersOf(a)
    <3>1. CASE IsLetter(x)
      <4> DEFINE y == LettersOf(b)
                 z == Letters(t)
      <4>1. y \in Seq(Int) /\ z \in Seq(Int)
        BY <2>1, <2>3, LettersOfType, LettersType DEF Text
      <4>2. y \o Append(z, x) = Append(y \o z, x)
        <5> HIDE DEF y, z
        <5> QED BY <4>1, AppendConcat
      <4>3. Letters(u) = Append(z, x)
        BY <2>2, <3>1
      <4>4. LettersOf(new) = Append(LettersOf(a), x)
        BY ONLY <4>2, <4>3, <2>3, <2>4, <2>5, <2>6, Zenon DEF y, z
      <4> QED BY <4>4, <3>1
    <3>2. CASE ~IsLetter(x)
      BY ONLY <3>2, <2>2, <2>3, <2>4, <2>5, <2>6, Zenon
    <3> QED BY <3>1, <3>2
  <2>9. LineAdded(a, x) = new
    BY <1>3 DEF LineAdded, new, m, u, t
  <2> QED BY <2>7, <2>8, <2>9
<1> QED BY <1>2, <1>3

(* str::lines after each character. *)
LEMMA LinesSteps ==
  ASSUME NEW text \in Text
  PROVE  \E f \in [0..Len(text) -> TextLists] :
           /\ f[0] = <<<<>>>>
           /\ \A k \in 1..Len(text) : f[k] = LineAdded(f[k - 1], text[k])
           /\ Lines(text) = f[Len(text)]
<1> DEFINE start == <<<<>>>>
           step == [p \in (TextLists) \X (Int) |-> LineAdded(p[1], p[2])]
           n    == Len(text)
           Fits(iter) == iter = [s \in SUBSET DOMAIN text |->
             IF s = {} THEN start ELSE LineAdded(iter[s \ {Max(s)}], text[Max(s)])]
           iter == CHOOSE i : Fits(i)
           f    == [k \in 0..n |-> iter[1..k]]
<1>1. Lines(text) = iter[DOMAIN text]
  BY DEF Lines, LineAdded, FoldLeft, MapThenFoldSet
<1>2. start \in TextLists /\ n \in Nat /\ text \in [1..n -> Int] /\ DOMAIN text = 1..n
  BY NoText DEF Text, TextLists
<1>3. \A a \in TextLists, x \in Int : LineAdded(a, x) \in TextLists
  BY LineAddedLetters
<1>4. step \in [(TextLists) \X (Int) -> TextLists]
  BY <1>3
<1>5. PICK F \in [SUBSET (1..n) -> TextLists] : F \in Folding(TextLists, start, step, text, n)
  <2> HIDE DEF step, start, n
  <2> QED BY <1>2, <1>4, FoldExists
<1>6. ASSUME NEW s \in SUBSET (1..n)
      PROVE  F[s] = IF s = {} THEN start ELSE LineAdded(F[s \ {Max(s)}], text[Max(s)])
  <2>1. F[s] = IF s = {} THEN start ELSE step[F[s \ {Max(s)}], text[Max(s)]]
    BY <1>5 DEF Folding
  <2>2. ASSUME s # {}
        PROVE  F[s \ {Max(s)}] \in TextLists /\ text[Max(s)] \in Int
    <3>1. Max(s) \in 1..n
      <4> HIDE DEF n
      <4>1. s \subseteq 0..n
        BY <1>2
      <4> QED BY <4>1, <2>2, <1>2, MaxOf
    <3>2. s \ {Max(s)} \in SUBSET (1..n)
      OBVIOUS
    <3> QED BY <3>1, <3>2, <1>2
  <2> QED BY <2>1, <2>2
<1>7. Fits(F)
  <2> HIDE DEF start, n
  <2> QED BY <1>2, <1>6
<1>8. Fits(iter)
  <2> HIDE DEF Fits
  <2> QED BY <1>7
<1>9. iter[1..0] = start
  <2>1. 1..0 = {} /\ 1..0 \in SUBSET DOMAIN text
    BY <1>2
  <2> HIDE DEF iter, start
  <2> QED BY <1>8, <2>1
<1>10. ASSUME NEW k \in 1..n
       PROVE  iter[1..k] = LineAdded(iter[1..(k - 1)], text[k])
  <2>1. 1..k \in SUBSET DOMAIN text /\ 1..k # {} /\ Max(1..k) = k /\ (1..k) \ {k} = 1..(k - 1)
    <3> HIDE DEF n
    <3> QED BY <1>2, InitialSegment
  <2> HIDE DEF iter, start
  <2> QED BY <1>8, <2>1
<1>11. f \in [0..n -> TextLists]
  <2> HIDE DEF iter, start, n
  <2>1. ASSUME NEW k \in 1..n, iter[1..(k - 1)] \in TextLists
        PROVE  iter[1..k] \in TextLists
    <3>1. text[k] \in Int
      BY <1>2
    <3> QED BY <1>10, <1>3, <3>1, <2>1
  <2>2. \A k \in 0..n : iter[1..k] \in TextLists
    BY <2>1, <1>9, <1>2, FoldSteps
  <2> QED BY <2>2
<1>12. f[0] = start /\ f[n] = iter[DOMAIN text]
  <2> HIDE DEF iter, start, n
  <2> QED BY <1>9, <1>2
<1>13. \A k \in 1..n : f[k] = LineAdded(f[k - 1], text[k])
  <2> HIDE DEF iter
  <2>1. \A k \in 1..n : k \in 0..n /\ k - 1 \in 0..n
    BY <1>2
  <2> QED BY <1>10, <2>1
<1> QED
  <2> HIDE DEF iter, f
  <2> QED BY <1>1, <1>11, <1>12, <1>13

(* str::lines leaves the letters. *)
LEMMA LinesLetters ==
  ASSUME NEW text \in Text
  PROVE  Lines(text) \in Seq(Text) /\ LettersOf(Lines(text)) = Letters(text)
<1> DEFINE n == Len(text)
<1>1. PICK f \in [0..n -> TextLists] :
           /\ f[0] = <<<<>>>>
           /\ \A k \in 1..n : f[k] = LineAdded(f[k - 1], text[k])
           /\ Lines(text) = f[n]
  BY LinesSteps
<1>2. PICK g \in [0..n -> Text] :
           /\ g[0] = <<>>
           /\ \A k \in 1..n : g[k] = IF IsLetter(text[k]) THEN Append(g[k - 1], text[k]) ELSE g[k - 1]
           /\ Letters(text) = g[n]
  BY LettersSteps
<1>3. n \in Nat /\ \A k \in 1..n : text[k] \in Int
  BY DEF Text
<1> HIDE DEF n
<1> DEFINE S == {k \in Nat : k <= n => LettersOf(f[k]) = g[k]}
<1>5. 0 \in S
  <2>1. LettersOf(<<<<>>>>) = LettersOf(<<>>) \o Letters(<<>>)
    <3>1. <<>> \in Seq(Text) /\ <<<<>>>> = Append(<<>>, <<>>)
      OBVIOUS
    <3> QED BY <3>1, NoText, LettersOfAppend
  <2>2. <<>> \o <<>> = <<>>
    BY NoText, TextFacts
  <2>3. LettersOf(<<<<>>>>) = <<>>
    BY <2>1, <2>2, LettersOfNone, NoText
  <2> QED BY <2>3, <1>1, <1>2
<1>6. ASSUME NEW k \in Nat, k \in S PROVE k + 1 \in S
  <2> SUFFICES ASSUME k + 1 <= n PROVE LettersOf(f[k + 1]) = g[k + 1]
    OBVIOUS
  <2>1. k + 1 \in 1..n /\ (k + 1) - 1 = k /\ k \in 0..n /\ LettersOf(f[k]) = g[k]
    BY <1>3, <1>6
  <2>2. f[k + 1] = LineAdded(f[k], text[k + 1])
    BY <2>1, <1>1
  <2>3. g[k + 1] = IF IsLetter(text[k + 1]) THEN Append(g[k], text[k + 1]) ELSE g[k]
    BY <2>1, <1>2
  <2>4. LettersOf(LineAdded(f[k], text[k + 1])) =
          IF IsLetter(text[k + 1]) THEN Append(LettersOf(f[k]), text[k + 1]) ELSE LettersOf(f[k])
    BY <2>1, <1>1, <1>3, LineAddedLetters
  <2> QED BY ONLY <2>1, <2>2, <2>3, <2>4, Zenon
<1> HIDE DEF S
<1>7. n \in S
  BY <1>3, <1>5, <1>6, Induction
<1>8. LettersOf(f[n]) = g[n]
  BY <1>7, <1>3 DEF S
<1>9. f[n] \in Seq(Text)
  BY <1>1, <1>3 DEF TextLists
<1> QED BY <1>1, <1>2, <1>8, <1>9

(* The finished texts and the one the loop is at. *)
Work == [done : Seq(Text), current : Text]

Gathered(acc) == LettersOf(acc.done) \o Letters(acc.current)

(* What the loop has so far are texts. *)
LEMMA GatheredType ==
  ASSUME NEW acc \in Work
  PROVE  /\ acc.done \in Seq(Text) /\ acc.current \in Text
         /\ LettersOf(acc.done) \in Text /\ Letters(acc.current) \in Text
         /\ Gathered(acc) \in Text
<1>1. acc.done \in Seq(Text) /\ acc.current \in Text
  BY DEF Work
<1>2. LettersOf(acc.done) \in Text /\ Letters(acc.current) \in Text
  BY <1>1, LettersOfType, LettersType
<1> QED BY <1>1, <1>2, ConcatText DEF Gathered

(* The loop starts with no letters. *)
LEMMA StartedLetters == Started \in Work /\ Gathered(Started) = <<>>
<1>1. <<>> \in Seq(Text)
  OBVIOUS
<1>2. Started \in Work /\ Started.done = <<>> /\ Started.current = <<>>
  BY <1>1, NoText DEF Started, Work
<1>3. <<>> \o <<>> = <<>>
  BY NoText, TextFacts
<1> QED BY <1>2, <1>3, NoText, LettersOfNone DEF Gathered

(* To finish a text leaves the letters. *)
LEMMA FlushLetters ==
  ASSUME NEW acc \in Work
  PROVE  /\ Flush(acc) \in Work
         /\ Flush(acc).current = <<>>
         /\ LettersOf(Flush(acc).done) = Gathered(acc)
         /\ Gathered(Flush(acc)) = Gathered(acc)
<1> DEFINE done == IF Blank(acc.current) THEN acc.done ELSE Append(acc.done, Trim(acc.current))
<1>1. Flush(acc) = [done |-> done, current |-> <<>>]
  BY DEF Flush
<1>2. /\ acc.done \in Seq(Text) /\ acc.current \in Text
      /\ LettersOf(acc.done) \in Text /\ Letters(acc.current) \in Text
  BY GatheredType
<1>3. done \in Seq(Text) /\ LettersOf(done) = Gathered(acc)
  <2>1. CASE Blank(acc.current)
    <3>1. Letters(acc.current) = <<>>
      BY <1>2, <2>1, LettersType
    <3>2. LettersOf(acc.done) \o <<>> = LettersOf(acc.done)
      BY <1>2, TextFacts
    <3> QED BY <3>1, <3>2, <2>1, <1>2 DEF Gathered
  <2>2. CASE ~Blank(acc.current)
    <3>1. Trim(acc.current) \in Text /\ Letters(Trim(acc.current)) = Letters(acc.current)
      BY <1>2, TrimLetters
    <3>2. LettersOf(Append(acc.done, Trim(acc.current))) = LettersOf(acc.done) \o Letters(acc.current)
      BY <1>2, <3>1, LettersOfAppend
    <3> QED BY <3>1, <3>2, <2>2, <1>2 DEF Gathered
  <2> QED BY <2>1, <2>2
<1> HIDE DEF done
<1>4. /\ Flush(acc).done = done /\ Flush(acc).current = <<>>
      /\ Flush(acc) \in Work
  BY <1>1, <1>3, NoText DEF Work
<1>5. LettersOf(done) \o <<>> = LettersOf(done)
  BY <1>3, LettersOfType, TextFacts
<1>6. Gathered(Flush(acc)) = Gathered(acc)
  BY <1>3, <1>4, <1>5, NoText DEF Gathered
<1> QED BY <1>3, <1>4, <1>6

(* A line end and a blank line have no letters. *)
LEMMA BreakLetters ==
  ASSUME NEW s \in Seq(Int), s = <<Newline>> \/ s = BlankLine
  PROVE  s \in Text /\ Letters(s) = <<>>
<1>1. DOMAIN s \subseteq 1..2 /\ \A i \in DOMAIN s : s[i] = Newline
  BY DEF BlankLine
<1>2. ~IsLetter(Newline)
  BY DEF IsLetter, Newline
<1>3. Blank(s)
  BY <1>1, <1>2 DEF Blank
<1> QED BY <1>3, LettersType DEF Text

(* A text, a line end and another text. *)
LEMMA JoinLetters ==
  ASSUME NEW s \in Text, NEW b \in Text, Letters(b) = <<>>, NEW t \in Text
  PROVE  /\ (s \o b) \o t \in Text
         /\ Len((s \o b) \o t) = (Len(s) + Len(b)) + Len(t)
         /\ Letters((s \o b) \o t) = Letters(s) \o Letters(t)
<1> DEFINE sb == s \o b
<1>1. sb \in Text /\ Len(sb) = Len(s) + Len(b)
  BY ConcatText
<1>2. Letters(sb) = Letters(s) \o Letters(b)
  BY LettersConcat
<1>3. Letters(s) \o <<>> = Letters(s)
  BY LettersType, TextFacts
<1> HIDE DEF sb
<1>4. sb \o t \in Text /\ Len(sb \o t) = Len(sb) + Len(t) /\ Letters(sb \o t) = Letters(sb) \o Letters(t)
  BY <1>1, ConcatText, LettersConcat
<1> QED BY <1>1, <1>2, <1>3, <1>4 DEF sb

(* A line is added with its letters. *)
LEMMA AddLineLetters ==
  ASSUME NEW acc \in Work, NEW line \in Text
  PROVE  /\ AddLine(acc, line) \in Work
         /\ Gathered(AddLine(acc, line)) = Gathered(acc) \o Letters(line)
<1>0. /\ acc.done \in Seq(Text) /\ acc.current \in Text
      /\ LettersOf(acc.done) \in Text /\ Letters(acc.current) \in Text /\ Gathered(acc) \in Text
  BY GatheredType
<1>1. CASE Blank(line)
  <2>1. AddLine(acc, line) = Flush(acc)
    BY <1>1 DEF AddLine
  <2>2. Letters(line) = <<>>
    BY <1>1, LettersType
  <2>3. Gathered(acc) \o <<>> = Gathered(acc)
    BY <1>0, TextFacts
  <2> QED BY <2>1, <2>2, <2>3, FlushLetters
<1>2. CASE ~Blank(line)
  <2> DEFINE t == TrimEnd(line)
             cur == IF acc.current = <<>> THEN t ELSE acc.current \o <<Newline>> \o t
  <2>1. t \in Text /\ Letters(t) = Letters(line)
    BY TrimEndLetters
  <2>2. AddLine(acc, line) = [acc EXCEPT !.current = cur]
    BY <1>2 DEF AddLine
  <2> HIDE DEF t
  <2>3. cur \in Text /\ Letters(cur) = Letters(acc.current) \o Letters(line)
    <3>1. CASE acc.current = <<>>
      <4>1. <<>> \o Letters(line) = Letters(line)
        BY LettersType, TextFacts
      <4> QED BY <4>1, <3>1, <2>1, NoText
    <3>2. CASE acc.current # <<>>
      <4>1. <<Newline>> \in Seq(Int)
        BY DEF Newline
      <4>2. <<Newline>> \in Text /\ Letters(<<Newline>>) = <<>>
        BY <4>1, BreakLetters
      <4> DEFINE b == <<Newline>>
      <4>3. b \in Text /\ Letters(b) = <<>>
        BY <4>2
      <4> HIDE DEF b
      <4>4. (acc.current \o b) \o t \in Text /\ Letters((acc.current \o b) \o t) = Letters(acc.current) \o Letters(t)
        BY <4>3, <1>0, <2>1, JoinLetters
      <4>5. cur = (acc.current \o b) \o t
        BY <3>2 DEF b
      <4> HIDE DEF cur
      <4> QED BY <4>4, <4>5, <2>1
    <3> QED BY <3>1, <3>2
  <2> HIDE DEF cur
  <2>4. /\ AddLine(acc, line) \in Work
        /\ AddLine(acc, line).done = acc.done /\ AddLine(acc, line).current = cur
    BY <2>2, <2>3, <1>0 DEF Work
  <2>5. (LettersOf(acc.done) \o Letters(acc.current)) \o Letters(line)
          = LettersOf(acc.done) \o (Letters(acc.current) \o Letters(line))
    <3>1. Letters(line) \in Text
      BY LettersType
    <3> QED BY <3>1, <1>0, TextAssociative
  <2> QED BY <2>3, <2>4, <2>5 DEF Gathered
<1> QED BY <1>1, <1>2

(* The paragraphs after each line. *)
LEMMA ParagraphsSteps ==
  ASSUME NEW content \in Text
  PROVE  \E f \in [0..Len(Lines(content)) -> Work] :
           /\ f[0] = Started
           /\ \A k \in 1..Len(Lines(content)) : f[k] = AddLine(f[k - 1], Lines(content)[k])
           /\ Paragraphs(content) = Flush(f[Len(Lines(content))]).done
<1> DEFINE start == Started
           step == [p \in (Work) \X (Text) |-> AddLine(p[1], p[2])]
           n    == Len(Lines(content))
           Fits(iter) == iter = [s \in SUBSET DOMAIN Lines(content) |->
             IF s = {} THEN start ELSE AddLine(iter[s \ {Max(s)}], Lines(content)[Max(s)])]
           iter == CHOOSE i : Fits(i)
           f    == [k \in 0..n |-> iter[1..k]]
<1>1. Paragraphs(content) = Flush(iter[DOMAIN Lines(content)]).done
  BY DEF Paragraphs, FoldLeft, MapThenFoldSet
<1>2. start \in Work /\ n \in Nat /\ Lines(content) \in [1..n -> Text] /\ DOMAIN Lines(content) = 1..n
  BY LinesLetters, StartedLetters
<1>3. \A a \in Work, x \in Text : AddLine(a, x) \in Work
  BY AddLineLetters
<1>4. step \in [(Work) \X (Text) -> Work]
  BY <1>3
<1>5. PICK F \in [SUBSET (1..n) -> Work] : F \in Folding(Work, start, step, Lines(content), n)
  <2> HIDE DEF step, start, n
  <2> QED BY <1>2, <1>4, FoldExists
<1>6. ASSUME NEW s \in SUBSET (1..n)
      PROVE  F[s] = IF s = {} THEN start ELSE AddLine(F[s \ {Max(s)}], Lines(content)[Max(s)])
  <2>1. F[s] = IF s = {} THEN start ELSE step[F[s \ {Max(s)}], Lines(content)[Max(s)]]
    BY <1>5 DEF Folding
  <2>2. ASSUME s # {}
        PROVE  F[s \ {Max(s)}] \in Work /\ Lines(content)[Max(s)] \in Text
    <3>1. Max(s) \in 1..n
      <4> HIDE DEF n
      <4>1. s \subseteq 0..n
        BY <1>2
      <4> QED BY <4>1, <2>2, <1>2, MaxOf
    <3>2. s \ {Max(s)} \in SUBSET (1..n)
      OBVIOUS
    <3> QED BY <3>1, <3>2, <1>2
  <2> QED BY <2>1, <2>2
<1>7. Fits(F)
  <2> HIDE DEF start, n
  <2> QED BY <1>2, <1>6
<1>8. Fits(iter)
  <2> HIDE DEF Fits
  <2> QED BY <1>7
<1>9. iter[1..0] = start
  <2>1. 1..0 = {} /\ 1..0 \in SUBSET DOMAIN Lines(content)
    BY <1>2
  <2> HIDE DEF iter, start
  <2> QED BY <1>8, <2>1
<1>10. ASSUME NEW k \in 1..n
       PROVE  iter[1..k] = AddLine(iter[1..(k - 1)], Lines(content)[k])
  <2>1. 1..k \in SUBSET DOMAIN Lines(content) /\ 1..k # {} /\ Max(1..k) = k /\ (1..k) \ {k} = 1..(k - 1)
    <3> HIDE DEF n
    <3> QED BY <1>2, InitialSegment
  <2> HIDE DEF iter, start
  <2> QED BY <1>8, <2>1
<1>11. f \in [0..n -> Work]
  <2> HIDE DEF iter, start, n
  <2>1. ASSUME NEW k \in 1..n, iter[1..(k - 1)] \in Work
        PROVE  iter[1..k] \in Work
    <3>1. Lines(content)[k] \in Text
      BY <1>2
    <3> QED BY <1>10, <1>3, <3>1, <2>1
  <2>2. \A k \in 0..n : iter[1..k] \in Work
    BY <2>1, <1>9, <1>2, FoldSteps
  <2> QED BY <2>2
<1>12. f[0] = start /\ f[n] = iter[DOMAIN Lines(content)]
  <2> HIDE DEF iter, start, n
  <2> QED BY <1>9, <1>2
<1>13. \A k \in 1..n : f[k] = AddLine(f[k - 1], Lines(content)[k])
  <2> HIDE DEF iter
  <2>1. \A k \in 1..n : k \in 0..n /\ k - 1 \in 0..n
    BY <1>2
  <2> QED BY <1>10, <2>1
<1> QED
  <2> HIDE DEF iter, f
  <2> QED BY <1>1, <1>11, <1>12, <1>13

(* The paragraphs of a content have its letters. *)
LEMMA ParagraphsLetters ==
  ASSUME NEW content \in Text
  PROVE  Paragraphs(content) \in Seq(Text) /\ LettersOf(Paragraphs(content)) = Letters(content)
<1> DEFINE lines == Lines(content)
           n == Len(lines)
<1>1. PICK f \in [0..n -> Work] :
           /\ f[0] = Started
           /\ \A k \in 1..n : f[k] = AddLine(f[k - 1], lines[k])
           /\ Paragraphs(content) = Flush(f[n]).done
  BY ParagraphsSteps
<1>2. lines \in Seq(Text) /\ LettersOf(lines) = Letters(content)
  BY LinesLetters
<1> HIDE DEF lines
<1>3. PICK g \in [0..n -> Text] :
           /\ g[0] = <<>>
           /\ \A k \in 1..n : g[k] = g[k - 1] \o Letters(lines[k])
           /\ LettersOf(lines) = g[n]
  BY <1>2, LettersOfSteps
<1>4. n \in Nat /\ \A k \in 1..n : lines[k] \in Text
  BY <1>2
<1> HIDE DEF n
<1> DEFINE S == {k \in Nat : k <= n => Gathered(f[k]) = g[k]}
<1>5. 0 \in S
  BY <1>1, <1>3, StartedLetters
<1>6. ASSUME NEW k \in Nat, k \in S PROVE k + 1 \in S
  <2> SUFFICES ASSUME k + 1 <= n PROVE Gathered(f[k + 1]) = g[k + 1]
    OBVIOUS
  <2>1. k + 1 \in 1..n /\ (k + 1) - 1 = k /\ k \in 0..n /\ Gathered(f[k]) = g[k]
    BY <1>4, <1>6
  <2>2. f[k + 1] = AddLine(f[k], lines[k + 1])
    BY <2>1, <1>1
  <2>3. g[k + 1] = g[k] \o Letters(lines[k + 1])
    BY <2>1, <1>3
  <2>4. Gathered(AddLine(f[k], lines[k + 1])) = Gathered(f[k]) \o Letters(lines[k + 1])
    <3>1. f[k] \in Work /\ lines[k + 1] \in Text
      BY <2>1, <1>1, <1>4
    <3> QED BY <3>1, AddLineLetters
  <2> QED BY ONLY <2>1, <2>2, <2>3, <2>4, Zenon
<1> HIDE DEF S
<1>7. n \in S
  BY <1>4, <1>5, <1>6, Induction
<1>8. Gathered(f[n]) = g[n]
  BY <1>7, <1>4 DEF S
<1>9. f[n] \in Work
  BY <1>1, <1>4
<1>10. Flush(f[n]).done \in Seq(Text) /\ LettersOf(Flush(f[n]).done) = Gathered(f[n])
  BY <1>9, FlushLetters, GatheredType
<1> QED BY <1>1, <1>2, <1>3, <1>8, <1>10

(* Texts that may be pieces: none is blank or longer than max. *)
Fit(texts, max) == \A i \in 1..Len(texts) : ~Blank(texts[i]) /\ Len(texts[i]) <= max

(* A piece that fits is added. *)
LEMMA FitAppend ==
  ASSUME NEW max \in Nat, NEW texts \in Seq(Text), Fit(texts, max), NEW t \in Text,
         ~Blank(t), Len(t) <= max
  PROVE  Fit(Append(texts, t), max)
<1> DEFINE u == Append(texts, t)
           n == Len(texts)
<1>1. n \in Nat /\ Len(u) = n + 1 /\ u[n + 1] = t /\ \A i \in 1..n : u[i] = texts[i]
  OBVIOUS
<1> HIDE DEF u
<1>2. ASSUME NEW i \in 1..(n + 1) PROVE ~Blank(u[i]) /\ Len(u[i]) <= max
  <2>1. CASE i = n + 1
    BY <2>1, <1>1
  <2>2. CASE i # n + 1
    <3>1. i \in 1..n
      <4> HIDE DEF n
      <4> QED BY <2>2, <1>1
    <3> QED BY <3>1, <1>1 DEF Fit
  <2> QED BY <2>1, <2>2
<1>3. Fit(u, max)
  BY <1>1, <1>2 DEF Fit
<1> QED BY <1>3 DEF u

(* Pieces that fit are added. *)
LEMMA FitConcat ==
  ASSUME NEW max \in Nat, NEW s \in Seq(Text), Fit(s, max), NEW t \in Seq(Text), Fit(t, max)
  PROVE  Fit(s \o t, max)
<1> DEFINE u == s \o t
           m == Len(s)
           n == Len(t)
<1>1. /\ m \in Nat /\ n \in Nat /\ Len(u) = m + n
      /\ \A i \in 1..(m + n) : u[i] = IF i <= m THEN s[i] ELSE t[i - m]
  <2>1. m \in Nat /\ n \in Nat
    OBVIOUS
  <2> QED BY <2>1, ConcatProperties
<1> HIDE DEF u
<1>2. ASSUME NEW i \in 1..(m + n) PROVE ~Blank(u[i]) /\ Len(u[i]) <= max
  <2>1. CASE i <= m
    <3>1. i \in 1..m
      <4> HIDE DEF m, n
      <4> QED BY <2>1, <1>1
    <3>2. u[i] = s[i]
      BY <2>1, <1>1
    <3> QED BY <3>1, <3>2 DEF Fit
  <2>2. CASE ~(i <= m)
    <3>1. i - m \in 1..n
      <4> HIDE DEF m, n
      <4> QED BY <2>2, <1>1
    <3>2. u[i] = t[i - m]
      BY <2>2, <1>1
    <3> QED BY <3>1, <3>2 DEF Fit
  <2> QED BY <2>1, <2>2
<1>3. Fit(u, max)
  BY <1>1, <1>2 DEF Fit
<1> QED BY <1>3 DEF u

(* A finished piece fits. *)
LEMMA FlushFit ==
  ASSUME NEW max \in Nat, NEW acc \in Work, Fit(acc.done, max), Len(acc.current) <= max
  PROVE  Fit(Flush(acc).done, max)
<1>1. acc.done \in Seq(Text) /\ acc.current \in Text
  BY GatheredType
<1>2. CASE Blank(acc.current)
  BY <1>2 DEF Flush
<1>3. CASE ~Blank(acc.current)
  <2> DEFINE t == Trim(acc.current)
  <2>1. t \in Text /\ Letters(t) = Letters(acc.current) /\ Len(t) <= Len(acc.current)
    BY <1>1, TrimLetters
  <2>2. Flush(acc).done = Append(acc.done, t)
    BY <1>3 DEF Flush
  <2> HIDE DEF t
  <2>3. ~Blank(t)
    BY <1>1, <1>3, <2>1, LettersType
  <2>4. Len(t) <= max
    BY <1>1, <2>1, TextFacts
  <2> QED BY <1>1, <2>1, <2>2, <2>3, <2>4, FitAppend
<1> QED BY <1>2, <1>3

(* How many pieces split_large_text makes, and where each is. *)
LEMMA Division ==
  ASSUME NEW a \in Nat, NEW m \in Nat \ {0}
  PROVE  /\ a \div m \in Nat
         /\ (a \div m) * m <= a
         /\ a < (a \div m) * m + m
OBVIOUS

(* Multiples grow by one summand. *)
LEMMA Product ==
  ASSUME NEW k \in Nat, NEW n \in Nat, NEW m \in Nat
  PROVE  /\ k * m \in Nat /\ (k + 1) * m = k * m + m
         /\ k <= n => k * m <= n * m
OBVIOUS

(* A piece starts in the text, and the last one ends where it ends. *)
LEMMA PieceAt ==
  ASSUME NEW len \in Nat, NEW max \in Nat \ {0}
  PROVE  LET count == (len + max - 1) \div max
         IN /\ count \in Nat
            /\ \A k \in 1..count :
                 /\ (k - 1) * max \in Nat /\ (k - 1) * max < len
                 /\ k * max = (k - 1) * max + max
            /\ len <= count * max
<1> DEFINE count == (len + max - 1) \div max
           a == len + max - 1
<1>1. a \in Nat
  OBVIOUS
<1>2. count \in Nat /\ count * max <= a /\ a < count * max + max
  <2> HIDE DEF a
  <2>1. a \div max \in Nat /\ (a \div max) * max <= a /\ a < (a \div max) * max + max
    BY <1>1, Division
  <2> QED BY <2>1 DEF a
<1> HIDE DEF count
<1>3. count * max \in Nat
  BY <1>2, Product
<1>4. len <= count * max
  <2> DEFINE p == count * max
  <2>1. p \in Nat /\ len + max - 1 < p + max
    BY <1>2, <1>3
  <2> HIDE DEF p
  <2>2. len <= p
    BY <2>1
  <2> QED BY <2>2 DEF p
<1>5. ASSUME NEW k \in 1..count
      PROVE  (k - 1) * max \in Nat /\ (k - 1) * max < len /\ k * max = (k - 1) * max + max
  <2>1. k - 1 \in Nat /\ (k - 1) + 1 = k /\ k \in Nat /\ k <= count /\ max \in Nat
    BY <1>2
  <2>2. (k - 1) * max \in Nat /\ ((k - 1) + 1) * max = (k - 1) * max + max
    BY <2>1, Product
  <2>3. k * max <= count * max
    BY <2>1, <1>2, Product
  <2> DEFINE p == count * max
             q == k * max
             r == (k - 1) * max
  <2>4. p \in Nat /\ r \in Nat /\ q = r + max /\ q <= p /\ p <= len + max - 1
    BY <2>1, <2>2, <2>3, <1>2, <1>3
  <2> HIDE DEF p, q, r
  <2>5. r < len
    BY <2>4
  <2> QED BY <2>4, <2>5 DEF q, r
<1> QED BY <1>2, <1>4, <1>5 DEF count

PiecesOf(text, max) ==
  [i \in 1..((Len(text) + max - 1) \div max) |->
     Trim(SubSeq(text, (i - 1) * max + 1, Min({i * max, Len(text)})))]

PieceAdded(done, piece) == IF piece = <<>> THEN done ELSE Append(done, piece)

(* A piece goes on where the one before it ends. *)
LEMMA PieceText ==
  ASSUME NEW text \in Text, NEW max \in Nat \ {0},
         NEW k \in 1..((Len(text) + max - 1) \div max)
  PROVE  LET from == (k - 1) * max
             to   == Min({k * max, Len(text)})
             part == SubSeq(text, from + 1, to)
         IN /\ from \in 0..Len(text) /\ to \in from..Len(text)
            /\ from = Min({(k - 1) * max, Len(text)})
            /\ part \in Text /\ Len(part) <= max
            /\ Letters(SubSeq(text, 1, to)) = Letters(SubSeq(text, 1, from)) \o Letters(part)
<1> DEFINE len   == Len(text)
           from  == (k - 1) * max
           to    == Min({k * max, len})
           part  == SubSeq(text, from + 1, to)
           start == SubSeq(text, 1, from)
           all   == SubSeq(text, 1, to)
<1>1. len \in Nat /\ text \in Seq(Int) /\ max \in Nat /\ max > 0
  BY TextFacts
<1>2. from \in Nat /\ from < len /\ k * max = from + max
  <2> HIDE DEF len
  <2>1. k \in 1..((len + max - 1) \div max)
    BY DEF len
  <2> QED BY <1>1, <2>1, PieceAt
<1>3. to = IF from + max <= len THEN from + max ELSE len
  <2> HIDE DEF len, from
  <2>1. from + max \in Int /\ len \in Int
    BY <1>1, <1>2
  <2>2. Min({from + max, len}) = IF from + max <= len THEN from + max ELSE len
    BY <2>1, MinOfTwo
  <2> QED BY <2>2, <1>2
<1>4. from = Min({from, len})
  <2> HIDE DEF len, from
  <2>1. from \in Int /\ len \in Int /\ from <= len
    BY <1>1, <1>2
  <2> QED BY <2>1, MinOfTwo
<1> HIDE DEF from, to
<1>5. from \in 0..len /\ to \in from..len /\ to - from <= max
  BY <1>1, <1>2, <1>3
<1>6. part \in Text /\ Len(part) <= max
  <2>1. from + 1 \in 1..(len + 1) /\ to \in ((from + 1) - 1)..len
    BY <1>1, <1>5
  <2>2. part \in Text /\ Len(part) = (to - (from + 1)) + 1
    BY <2>1, PartType
  <2> HIDE DEF part, len
  <2> QED BY <2>2, <1>1, <1>5
<1>7. start \in Text
  <2>1. 1 \in 1..(len + 1) /\ from \in (1 - 1)..len
    BY <1>1, <1>5
  <2> QED BY <2>1, PartType
<1>8. start \o part = all
  <2>1. 1 \in 1..(len + 1) /\ from \in (1 - 1)..len /\ to \in from..len
    BY <1>1, <1>5
  <2> QED BY <2>1, <1>1, ConcatAdjacentSubSeq
<1>9. Letters(start \o part) = Letters(start) \o Letters(part)
  <2> HIDE DEF start, part
  <2> QED BY <1>6, <1>7, LettersConcat
<1> QED BY <1>4, <1>5, <1>6, <1>8, <1>9 DEF from, to

(* The pieces are texts. *)
LEMMA PiecesOfType ==
  ASSUME NEW text \in Text, NEW max \in Nat \ {0}
  PROVE  PiecesOf(text, max) \in Seq(Text)
<1> DEFINE count == (Len(text) + max - 1) \div max
           piece(i) == Trim(SubSeq(text, (i - 1) * max + 1, Min({i * max, Len(text)})))
<1>1. count \in Nat
  <2>1. Len(text) \in Nat
    BY TextFacts
  <2> QED BY <2>1, PieceAt
<1>2. ASSUME NEW i \in 1..count PROVE piece(i) \in Text
  BY PieceText, TrimLetters
<1> HIDE DEF count, piece
<1>3. [i \in 1..count |-> piece(i)] \in Seq(Text)
  BY <1>1, <1>2
<1> QED BY <1>3 DEF PiecesOf, count, piece

(* The pieces that are not blank are texts. *)
LEMMA PieceAddedType ==
  ASSUME NEW done \in Seq(Text), NEW piece \in Text
  PROVE  PieceAdded(done, piece) \in Seq(Text)
BY DEF PieceAdded

(* The pieces of split_large_text. *)
LEMMA SplitSteps ==
  ASSUME NEW text \in Text, NEW max \in Nat \ {0}
  PROVE  \E f \in [0..Len(PiecesOf(text, max)) -> Seq(Text)] :
           /\ f[0] = <<>>
           /\ \A k \in 1..Len(PiecesOf(text, max)) : f[k] = PieceAdded(f[k - 1], PiecesOf(text, max)[k])
           /\ SplitLargeText(text, max) = f[Len(PiecesOf(text, max))]
<1> DEFINE start == <<>>
           step == [p \in (Seq(Text)) \X (Text) |-> PieceAdded(p[1], p[2])]
           n    == Len(PiecesOf(text, max))
           Fits(iter) == iter = [s \in SUBSET DOMAIN PiecesOf(text, max) |->
             IF s = {} THEN start ELSE PieceAdded(iter[s \ {Max(s)}], PiecesOf(text, max)[Max(s)])]
           iter == CHOOSE i : Fits(i)
           f    == [k \in 0..n |-> iter[1..k]]
<1>1. SplitLargeText(text, max) = iter[DOMAIN PiecesOf(text, max)]
  BY DEF SplitLargeText, PiecesOf, PieceAdded, FoldLeft, MapThenFoldSet
<1>2. start \in Seq(Text) /\ n \in Nat /\ PiecesOf(text, max) \in [1..n -> Text] /\ DOMAIN PiecesOf(text, max) = 1..n
  BY PiecesOfType
<1>3. \A a \in Seq(Text), x \in Text : PieceAdded(a, x) \in Seq(Text)
  BY PieceAddedType
<1>4. step \in [(Seq(Text)) \X (Text) -> Seq(Text)]
  BY <1>3
<1>5. PICK F \in [SUBSET (1..n) -> Seq(Text)] : F \in Folding(Seq(Text), start, step, PiecesOf(text, max), n)
  <2> HIDE DEF step, start, n
  <2> QED BY <1>2, <1>4, FoldExists
<1>6. ASSUME NEW s \in SUBSET (1..n)
      PROVE  F[s] = IF s = {} THEN start ELSE PieceAdded(F[s \ {Max(s)}], PiecesOf(text, max)[Max(s)])
  <2>1. F[s] = IF s = {} THEN start ELSE step[F[s \ {Max(s)}], PiecesOf(text, max)[Max(s)]]
    BY <1>5 DEF Folding
  <2>2. ASSUME s # {}
        PROVE  F[s \ {Max(s)}] \in Seq(Text) /\ PiecesOf(text, max)[Max(s)] \in Text
    <3>1. Max(s) \in 1..n
      <4> HIDE DEF n
      <4>1. s \subseteq 0..n
        BY <1>2
      <4> QED BY <4>1, <2>2, <1>2, MaxOf
    <3>2. s \ {Max(s)} \in SUBSET (1..n)
      OBVIOUS
    <3> QED BY <3>1, <3>2, <1>2
  <2> QED BY <2>1, <2>2
<1>7. Fits(F)
  <2> HIDE DEF start, n
  <2> QED BY <1>2, <1>6
<1>8. Fits(iter)
  <2> HIDE DEF Fits
  <2> QED BY <1>7
<1>9. iter[1..0] = start
  <2>1. 1..0 = {} /\ 1..0 \in SUBSET DOMAIN PiecesOf(text, max)
    BY <1>2
  <2> HIDE DEF iter, start
  <2> QED BY <1>8, <2>1
<1>10. ASSUME NEW k \in 1..n
       PROVE  iter[1..k] = PieceAdded(iter[1..(k - 1)], PiecesOf(text, max)[k])
  <2>1. 1..k \in SUBSET DOMAIN PiecesOf(text, max) /\ 1..k # {} /\ Max(1..k) = k /\ (1..k) \ {k} = 1..(k - 1)
    <3> HIDE DEF n
    <3> QED BY <1>2, InitialSegment
  <2> HIDE DEF iter, start
  <2> QED BY <1>8, <2>1
<1>11. f \in [0..n -> Seq(Text)]
  <2> HIDE DEF iter, start, n
  <2>1. ASSUME NEW k \in 1..n, iter[1..(k - 1)] \in Seq(Text)
        PROVE  iter[1..k] \in Seq(Text)
    <3>1. PiecesOf(text, max)[k] \in Text
      BY <1>2
    <3> QED BY <1>10, <1>3, <3>1, <2>1
  <2>2. \A k \in 0..n : iter[1..k] \in Seq(Text)
    BY <2>1, <1>9, <1>2, FoldSteps
  <2> QED BY <2>2
<1>12. f[0] = start /\ f[n] = iter[DOMAIN PiecesOf(text, max)]
  <2> HIDE DEF iter, start, n
  <2> QED BY <1>9, <1>2
<1>13. \A k \in 1..n : f[k] = PieceAdded(f[k - 1], PiecesOf(text, max)[k])
  <2> HIDE DEF iter
  <2>1. \A k \in 1..n : k \in 0..n /\ k - 1 \in 0..n
    BY <1>2
  <2> QED BY <1>10, <2>1
<1> QED
  <2> HIDE DEF iter, f
  <2> QED BY <1>1, <1>11, <1>12, <1>13

(* split_large_text leaves the letters, and its pieces fit. *)
LEMMA SplitLetters ==
  ASSUME NEW text \in Text, NEW max \in Nat \ {0}
  PROVE  /\ SplitLargeText(text, max) \in Seq(Text)
         /\ LettersOf(SplitLargeText(text, max)) = Letters(text)
         /\ Fit(SplitLargeText(text, max), max)
<1> DEFINE pieces == PiecesOf(text, max)
           n      == Len(pieces)
           len    == Len(text)
           to(k)  == Min({k * max, len})
           part(k) == SubSeq(text, (k - 1) * max + 1, to(k))
<1>1. PICK f \in [0..n -> Seq(Text)] :
           /\ f[0] = <<>>
           /\ \A k \in 1..n : f[k] = PieceAdded(f[k - 1], pieces[k])
           /\ SplitLargeText(text, max) = f[n]
  BY SplitSteps
<1>2. /\ n = (len + max - 1) \div max /\ n \in Nat
      /\ \A k \in 1..n : pieces[k] = Trim(part(k))
  <2> DEFINE count == (len + max - 1) \div max
  <2>1. count \in Nat /\ len \in Nat
    <3>1. len \in Nat
      BY TextFacts
    <3> QED BY <3>1, PieceAt
  <2>2. pieces = [k \in 1..count |-> Trim(part(k))]
    BY DEF PiecesOf
  <2> HIDE DEF count, pieces, part
  <2>3. n = count
    <3>1. pieces \in Seq(Text)
      BY PiecesOfType DEF pieces
    <3>2. DOMAIN pieces = 1..n /\ n \in Nat
      BY <3>1
    <3>3. DOMAIN pieces = 1..count
      BY <2>2
    <3> HIDE DEF n
    <3> QED BY <3>2, <3>3, <2>1
  <2> QED BY <2>1, <2>2, <2>3 DEF count
<1> HIDE DEF pieces, n
<1>3. ASSUME NEW k \in 1..n
      PROVE  /\ part(k) \in Text /\ Len(part(k)) <= max
             /\ Letters(SubSeq(text, 1, to(k))) = Letters(SubSeq(text, 1, to(k - 1))) \o Letters(part(k))
  <2>1. k \in 1..((Len(text) + max - 1) \div max)
    BY <1>2
  <2> QED BY <2>1, PieceText
<1>4. SubSeq(text, 1, to(0)) = <<>> /\ SubSeq(text, 1, to(n)) = text
  <2>1. len \in Nat /\ text \in Seq(Int)
    BY TextFacts
  <2>2. n * max \in Nat /\ len <= n * max
    <3>1. max \in Nat
      OBVIOUS
    <3> HIDE DEF len
    <3> QED BY <1>2, <2>1, <3>1, PieceAt, Product
  <2>3. to(n) = len /\ to(0) = 0
    <3>1. 0 * max = 0
      OBVIOUS
    <3> DEFINE p == n * max
               z == 0 * max
    <3>2. p \in Nat /\ len <= p /\ z = 0
      BY <2>2, <3>1
    <3> HIDE DEF p, z, len
    <3>3. Min({p, len}) = len /\ Min({z, len}) = 0
      BY <3>2, <2>1, MinOfTwo
    <3> QED BY <3>3 DEF p, z
  <2> HIDE DEF to
  <2> QED BY <2>1, <2>3, SubSeqFull, SubSeqEmpty
<1> DEFINE all(k) == SubSeq(text, 1, to(k))
           Good(k) == LettersOf(f[k]) = Letters(all(k)) /\ Fit(f[k], max)
           S == {k \in Nat : k <= n => Good(k)}
<1>5. 0 \in S
  <2>1. Good(0)
    <3>1. Fit(<<>>, max)
      BY DEF Fit
    <3> QED BY <3>1, <1>1, <1>4, NoText, LettersOfNone
  <2> HIDE DEF Good
  <2> QED BY <2>1
<1>6. ASSUME NEW k \in Nat, k \in S PROVE k + 1 \in S
  <2> HIDE DEF Good
  <2> SUFFICES ASSUME k + 1 <= n PROVE Good(k + 1)
    OBVIOUS
  <2>1. k + 1 \in 1..n /\ (k + 1) - 1 = k /\ k \in 0..n /\ k + 1 \in 0..n /\ Good(k)
    BY <1>2, <1>6
  <2> DEFINE t == part(k + 1)
             w == f[k]
             x == f[k + 1]
             u == Trim(t)
             one == all(k)
             two == all(k + 1)
  <2>2. t \in Text /\ Len(t) <= max /\ Letters(two) = Letters(one) \o Letters(t)
    BY <1>3, <2>1
  <2>3. x = PieceAdded(w, u)
    <3>1. f[k + 1] = PieceAdded(f[k], pieces[k + 1]) /\ pieces[k + 1] = Trim(part(k + 1))
      <4> HIDE DEF part
      <4> QED BY <2>1, <1>1, <1>2
    <3> HIDE DEF part
    <3> QED BY <3>1
  <2>4. w \in Seq(Text) /\ LettersOf(w) = Letters(one) /\ Fit(w, max)
    BY <1>1, <2>1 DEF Good
  <2> SUFFICES LettersOf(x) = Letters(two) /\ Fit(x, max)
    BY DEF Good
  <2> HIDE DEF t, w, x, one, two, part, all, to
  <2>5. /\ u \in Text /\ Letters(u) = Letters(t) /\ Len(u) <= Len(t)
        /\ u = <<>> <=> Blank(t)
    BY <2>2, TrimLetters
  <2> HIDE DEF u
  <2>6. CASE u = <<>>
    <3>1. Letters(t) = <<>>
      BY <2>5, <2>6, NoText
    <3>2. LettersOf(w) \o <<>> = LettersOf(w)
      BY <2>4, LettersOfType, TextFacts
    <3>3. x = w
      BY <2>3, <2>6 DEF PieceAdded
    <3> QED BY ONLY <3>1, <3>2, <3>3, <2>2, <2>4, Zenon
  <2>7. CASE u # <<>>
    <3>1. x = Append(w, u)
      BY <2>3, <2>7 DEF PieceAdded
    <3>2. LettersOf(Append(w, u)) = LettersOf(w) \o Letters(u)
      BY <2>4, <2>5, LettersOfAppend
    <3>3. ~Blank(u)
      BY <2>2, <2>5, <2>7, LettersType
    <3>4. Len(u) <= max
      BY <2>2, <2>5, TextFacts
    <3>5. Fit(Append(w, u), max)
      BY <2>4, <2>5, <3>3, <3>4, FitAppend
    <3> QED BY ONLY <3>1, <3>2, <3>5, <2>2, <2>4, <2>5, Zenon
  <2> QED BY <2>6, <2>7
<1> HIDE DEF S
<1>7. n \in S
  BY <1>2, <1>5, <1>6, Induction
<1>8. Good(n)
  <2> HIDE DEF Good
  <2> QED BY <1>7, <1>2 DEF S
<1>9. f[n] \in Seq(Text)
  BY <1>1, <1>2
<1> QED BY <1>1, <1>4, <1>8, <1>9

(* A paragraph is added with its letters, and the pieces fit. *)
LEMMA AddParagraphLetters ==
  ASSUME NEW max \in Nat \ {0}, NEW acc \in Work, NEW paragraph \in Text
  PROVE  LET new == AddParagraph(acc, paragraph, max)
         IN /\ new \in Work
            /\ Gathered(new) = Gathered(acc) \o Letters(paragraph)
            /\ Fit(acc.done, max) /\ Len(acc.current) <= max
                 => Fit(new.done, max) /\ Len(new.current) <= max
<1> DEFINE new     == AddParagraph(acc, paragraph, max)
           flushed == Flush(acc)
<1>1. /\ acc.done \in Seq(Text) /\ acc.current \in Text
      /\ LettersOf(acc.done) \in Text /\ Letters(acc.current) \in Text /\ Gathered(acc) \in Text
  BY GatheredType
<1>2. /\ flushed \in Work /\ flushed.current = <<>>
      /\ LettersOf(flushed.done) = Gathered(acc)
      /\ flushed.done \in Seq(Text)
  BY FlushLetters, GatheredType
<1>3. Fit(acc.done, max) /\ Len(acc.current) <= max => Fit(flushed.done, max)
  BY FlushFit
<1>4. Len(paragraph) \in Nat /\ Letters(paragraph) \in Text /\ max \in Nat
  BY TextFacts, LettersType
<1> HIDE DEF flushed
<1>5. CASE Len(paragraph) > max
  <2> DEFINE cuts == SplitLargeText(paragraph, max)
             done == flushed.done \o cuts
  <2>1. new = [flushed EXCEPT !.done = @ \o cuts]
    BY <1>5 DEF AddParagraph, flushed
  <2>2. cuts \in Seq(Text) /\ LettersOf(cuts) = Letters(paragraph) /\ Fit(cuts, max)
    BY SplitLetters
  <2> HIDE DEF cuts
  <2>3. /\ done \in Seq(Text)
        /\ LettersOf(done) = LettersOf(flushed.done) \o LettersOf(cuts)
        /\ Fit(flushed.done, max) => Fit(done, max)
    <3>1. done \in Seq(Text)
      BY <1>2, <2>2, ConcatProperties
    <3>2. LettersOf(done) = LettersOf(flushed.done) \o LettersOf(cuts)
      BY <1>2, <2>2, LettersOfConcat
    <3>3. Fit(flushed.done, max) => Fit(done, max)
      BY <1>2, <1>4, <2>2, FitConcat
    <3> QED BY <3>1, <3>2, <3>3
  <2> HIDE DEF done
  <2>4. new \in Work /\ new.done = done /\ new.current = <<>>
    <3>1. new = [flushed EXCEPT !.done = done]
      BY <2>1 DEF done
    <3> HIDE DEF new
    <3> QED BY <3>1, <2>3, <1>2, NoText DEF Work
  <2> HIDE DEF new
  <2>5. LettersOf(done) \o <<>> = LettersOf(done)
    BY <2>3, LettersOfType, TextFacts
  <2>6. Gathered(new) = Gathered(acc) \o Letters(paragraph)
    <3>1. Gathered(new) = LettersOf(new.done) \o Letters(new.current)
      BY DEF Gathered
    <3>2. Letters(<<>>) = <<>>
      BY NoText
    <3> QED BY ONLY <3>1, <3>2, <2>2, <2>3, <2>4, <2>5, <1>2, Zenon
  <2>7. Fit(acc.done, max) /\ Len(acc.current) <= max => Fit(new.done, max) /\ Len(new.current) <= max
    BY <1>3, <1>4, <2>3, <2>4, NoText
  <2> QED BY <2>4, <2>6, <2>7 DEF new
<1>6. CASE Len(paragraph) <= max /\ acc.current = <<>>
  <2>1. new = [acc EXCEPT !.current = paragraph]
    BY <1>6 DEF AddParagraph
  <2> HIDE DEF new
  <2>2. new \in Work /\ new.done = acc.done /\ new.current = paragraph
    BY <2>1, <1>1 DEF Work
  <2>3. LettersOf(acc.done) \o <<>> = LettersOf(acc.done)
    BY <1>1, TextFacts
  <2>4. Gathered(new) = Gathered(acc) \o Letters(paragraph)
    <3>1. Gathered(new) = LettersOf(new.done) \o Letters(new.current)
      BY DEF Gathered
    <3>2. Gathered(acc) = LettersOf(acc.done) \o Letters(acc.current)
      BY DEF Gathered
    <3>3. Letters(<<>>) = <<>>
      BY NoText
    <3> QED BY ONLY <3>1, <3>2, <3>3, <2>2, <2>3, <1>6, Zenon
  <2>5. Fit(acc.done, max) /\ Len(acc.current) <= max => Fit(new.done, max) /\ Len(new.current) <= max
    BY <1>6, <2>2
  <2> QED BY <2>2, <2>4, <2>5 DEF new
<1>7. CASE /\ ~(Len(paragraph) > max) /\ ~(Len(paragraph) <= max /\ acc.current = <<>>)
           /\ Len(acc.current) + 2 + Len(paragraph) <= max
  <2> DEFINE cur == (acc.current \o BlankLine) \o paragraph
  <2>1. new = [acc EXCEPT !.current = cur]
    BY <1>7 DEF AddParagraph
  <2>2. BlankLine \in Seq(Int) /\ Len(BlankLine) = 2
    BY DEF BlankLine, Newline
  <2>3. BlankLine \in Text /\ Letters(BlankLine) = <<>>
    BY <2>2, BreakLetters
  <2>4. cur \in Text /\ Len(cur) = (Len(acc.current) + Len(BlankLine)) + Len(paragraph)
        /\ Letters(cur) = Letters(acc.current) \o Letters(paragraph)
    BY <1>1, <2>3, JoinLetters
  <2> HIDE DEF cur, new
  <2>5. new \in Work /\ new.done = acc.done /\ new.current = cur
    BY <2>1, <2>4, <1>1 DEF Work
  <2>6. (LettersOf(acc.done) \o Letters(acc.current)) \o Letters(paragraph)
          = LettersOf(acc.done) \o (Letters(acc.current) \o Letters(paragraph))
    BY <1>1, <1>4, TextAssociative
  <2>7. Gathered(new) = Gathered(acc) \o Letters(paragraph)
    <3>1. Gathered(new) = LettersOf(new.done) \o Letters(new.current)
      BY DEF Gathered
    <3>2. Gathered(acc) = LettersOf(acc.done) \o Letters(acc.current)
      BY DEF Gathered
    <3> QED BY ONLY <3>1, <3>2, <2>4, <2>5, <2>6, Zenon
  <2>8. Len(cur) <= max
    <3>1. Len(acc.current) \in Nat
      BY <1>1, TextFacts
    <3> QED BY <3>1, <1>4, <1>7, <2>2, <2>4
  <2>9. Fit(acc.done, max) => Fit(new.done, max) /\ Len(new.current) <= max
    BY <2>5, <2>8
  <2> QED BY <2>5, <2>7, <2>9 DEF new
<1>8. CASE /\ ~(Len(paragraph) > max) /\ ~(Len(paragraph) <= max /\ acc.current = <<>>)
           /\ ~(Len(acc.current) + 2 + Len(paragraph) <= max)
  <2>1. new = [flushed EXCEPT !.current = paragraph]
    BY <1>8 DEF AddParagraph, flushed
  <2> HIDE DEF new
  <2>2. new \in Work /\ new.done = flushed.done /\ new.current = paragraph
    BY <2>1, <1>2 DEF Work
  <2>3. Gathered(new) = Gathered(acc) \o Letters(paragraph)
    BY <2>2, <1>2 DEF Gathered
  <2>4. Len(paragraph) <= max
    BY <1>4, <1>8
  <2>5. Fit(acc.done, max) /\ Len(acc.current) <= max => Fit(new.done, max) /\ Len(new.current) <= max
    BY <1>3, <2>2, <2>4
  <2> QED BY <2>2, <2>3, <2>5 DEF new
<1> QED
  <2> HIDE DEF new
  <2> QED BY <1>5, <1>6, <1>7, <1>8

(* The pieces after each paragraph. *)
LEMMA PiecesSteps ==
  ASSUME NEW content \in Text, NEW max \in Nat \ {0}
  PROVE  \E f \in [0..Len(Paragraphs(content)) -> Work] :
           /\ f[0] = Started
           /\ \A k \in 1..Len(Paragraphs(content)) : f[k] = AddParagraph(f[k - 1], Paragraphs(content)[k], max)
           /\ Pieces(content, max) = Flush(f[Len(Paragraphs(content))]).done
<1> DEFINE start == Started
           step == [p \in (Work) \X (Text) |-> AddParagraph(p[1], p[2], max)]
           n    == Len(Paragraphs(content))
           Fits(iter) == iter = [s \in SUBSET DOMAIN Paragraphs(content) |->
             IF s = {} THEN start ELSE AddParagraph(iter[s \ {Max(s)}], Paragraphs(content)[Max(s)], max)]
           iter == CHOOSE i : Fits(i)
           f    == [k \in 0..n |-> iter[1..k]]
<1>1. Pieces(content, max) = Flush(iter[DOMAIN Paragraphs(content)]).done
  BY DEF Pieces, FoldLeft, MapThenFoldSet
<1>2. start \in Work /\ n \in Nat /\ Paragraphs(content) \in [1..n -> Text] /\ DOMAIN Paragraphs(content) = 1..n
  BY ParagraphsLetters, StartedLetters
<1>3. \A a \in Work, x \in Text : AddParagraph(a, x, max) \in Work
  BY AddParagraphLetters
<1>4. step \in [(Work) \X (Text) -> Work]
  BY <1>3
<1>5. PICK F \in [SUBSET (1..n) -> Work] : F \in Folding(Work, start, step, Paragraphs(content), n)
  <2> HIDE DEF step, start, n
  <2> QED BY <1>2, <1>4, FoldExists
<1>6. ASSUME NEW s \in SUBSET (1..n)
      PROVE  F[s] = IF s = {} THEN start ELSE AddParagraph(F[s \ {Max(s)}], Paragraphs(content)[Max(s)], max)
  <2>1. F[s] = IF s = {} THEN start ELSE step[F[s \ {Max(s)}], Paragraphs(content)[Max(s)]]
    BY <1>5 DEF Folding
  <2>2. ASSUME s # {}
        PROVE  F[s \ {Max(s)}] \in Work /\ Paragraphs(content)[Max(s)] \in Text
    <3>1. Max(s) \in 1..n
      <4> HIDE DEF n
      <4>1. s \subseteq 0..n
        BY <1>2
      <4> QED BY <4>1, <2>2, <1>2, MaxOf
    <3>2. s \ {Max(s)} \in SUBSET (1..n)
      OBVIOUS
    <3> QED BY <3>1, <3>2, <1>2
  <2> QED BY <2>1, <2>2
<1>7. Fits(F)
  <2> HIDE DEF start, n
  <2> QED BY <1>2, <1>6
<1>8. Fits(iter)
  <2> HIDE DEF Fits
  <2> QED BY <1>7
<1>9. iter[1..0] = start
  <2>1. 1..0 = {} /\ 1..0 \in SUBSET DOMAIN Paragraphs(content)
    BY <1>2
  <2> HIDE DEF iter, start
  <2> QED BY <1>8, <2>1
<1>10. ASSUME NEW k \in 1..n
       PROVE  iter[1..k] = AddParagraph(iter[1..(k - 1)], Paragraphs(content)[k], max)
  <2>1. 1..k \in SUBSET DOMAIN Paragraphs(content) /\ 1..k # {} /\ Max(1..k) = k /\ (1..k) \ {k} = 1..(k - 1)
    <3> HIDE DEF n
    <3> QED BY <1>2, InitialSegment
  <2> HIDE DEF iter, start
  <2> QED BY <1>8, <2>1
<1>11. f \in [0..n -> Work]
  <2> HIDE DEF iter, start, n
  <2>1. ASSUME NEW k \in 1..n, iter[1..(k - 1)] \in Work
        PROVE  iter[1..k] \in Work
    <3>1. Paragraphs(content)[k] \in Text
      BY <1>2
    <3> QED BY <1>10, <1>3, <3>1, <2>1
  <2>2. \A k \in 0..n : iter[1..k] \in Work
    BY <2>1, <1>9, <1>2, FoldSteps
  <2> QED BY <2>2
<1>12. f[0] = start /\ f[n] = iter[DOMAIN Paragraphs(content)]
  <2> HIDE DEF iter, start, n
  <2> QED BY <1>9, <1>2
<1>13. \A k \in 1..n : f[k] = AddParagraph(f[k - 1], Paragraphs(content)[k], max)
  <2> HIDE DEF iter
  <2>1. \A k \in 1..n : k \in 0..n /\ k - 1 \in 0..n
    BY <1>2
  <2> QED BY <1>10, <2>1
<1> QED
  <2> HIDE DEF iter, f
  <2> QED BY <1>1, <1>11, <1>12, <1>13

(* The pieces of a content have its letters, and fit. *)
LEMMA PiecesLetters ==
  ASSUME NEW content \in Text, NEW max \in Nat \ {0}
  PROVE  /\ Pieces(content, max) \in Seq(Text)
         /\ LettersOf(Pieces(content, max)) = Letters(content)
         /\ Fit(Pieces(content, max), max)
<1> DEFINE paragraphs == Paragraphs(content)
           n == Len(paragraphs)
<1>1. PICK f \in [0..n -> Work] :
           /\ f[0] = Started
           /\ \A k \in 1..n : f[k] = AddParagraph(f[k - 1], paragraphs[k], max)
           /\ Pieces(content, max) = Flush(f[n]).done
  BY PiecesSteps
<1>2. paragraphs \in Seq(Text) /\ LettersOf(paragraphs) = Letters(content)
  BY ParagraphsLetters
<1> HIDE DEF paragraphs
<1>3. PICK g \in [0..n -> Text] :
           /\ g[0] = <<>>
           /\ \A k \in 1..n : g[k] = g[k - 1] \o Letters(paragraphs[k])
           /\ LettersOf(paragraphs) = g[n]
  BY <1>2, LettersOfSteps
<1>4. n \in Nat /\ \A k \in 1..n : paragraphs[k] \in Text
  BY <1>2
<1> HIDE DEF n
<1> DEFINE Good(k) == /\ Gathered(f[k]) = g[k]
                      /\ Fit(f[k].done, max) /\ Len(f[k].current) <= max
           S == {k \in Nat : k <= n => Good(k)}
<1>5. 0 \in S
  <2>1. Fit(Started.done, max) /\ Len(Started.current) <= max
    BY NoText DEF Started, Fit
  <2>2. Good(0)
    BY <2>1, <1>1, <1>3, StartedLetters
  <2> HIDE DEF Good
  <2> QED BY <2>2
<1>6. ASSUME NEW k \in Nat, k \in S PROVE k + 1 \in S
  <2> HIDE DEF Good
  <2> SUFFICES ASSUME k + 1 <= n PROVE Good(k + 1)
    OBVIOUS
  <2>1. k + 1 \in 1..n /\ (k + 1) - 1 = k /\ k \in 0..n /\ Good(k)
    BY <1>4, <1>6
  <2> DEFINE w == f[k]
             p == paragraphs[k + 1]
             x == f[k + 1]
  <2>2. x = AddParagraph(w, p, max) /\ w \in Work /\ p \in Text
    BY <2>1, <1>1, <1>4
  <2>3. g[k + 1] = g[k] \o Letters(p)
    BY <2>1, <1>3
  <2>4. Gathered(w) = g[k] /\ Fit(w.done, max) /\ Len(w.current) <= max
    BY <2>1 DEF Good
  <2> SUFFICES Gathered(x) = g[k + 1] /\ Fit(x.done, max) /\ Len(x.current) <= max
    BY DEF Good
  <2> HIDE DEF w, p, x
  <2>5. /\ Gathered(x) = Gathered(w) \o Letters(p)
        /\ Fit(w.done, max) /\ Len(w.current) <= max => Fit(x.done, max) /\ Len(x.current) <= max
    BY <2>2, AddParagraphLetters
  <2> QED BY ONLY <2>3, <2>4, <2>5, Zenon
<1> HIDE DEF S
<1>7. n \in S
  BY <1>4, <1>5, <1>6, Induction
<1>8. Good(n)
  <2> HIDE DEF Good
  <2> QED BY <1>7, <1>4 DEF S
<1>9. f[n] \in Work
  BY <1>1, <1>4
<1>10. /\ Flush(f[n]).done \in Seq(Text)
       /\ LettersOf(Flush(f[n]).done) = Gathered(f[n])
       /\ Fit(Flush(f[n]).done, max)
  BY <1>8, <1>9, FlushLetters, FlushFit, GatheredType
<1> QED BY <1>1, <1>2, <1>3, <1>8, <1>10

-----------------------------------------------------------------------------
(***************************************************************************)
(* Chunks: a piece, behind the end of the chunk before it.                 *)
(***************************************************************************)
(* The letters of the text are those with the numbers a + 1 to b. *)
Run(t, a, b) ==
  /\ a \in Nat /\ b \in Nat /\ a <= b
  /\ Len(Letters(t)) = b - a
  /\ \A j \in 1..(b - a) : Letters(t)[j] = a + j

(* The last n characters have the last letters. *)
LEMMA SuffixLetters ==
  ASSUME NEW t \in Text, NEW n \in 0..Len(t)
  PROVE  /\ Suffix(t, n) \in Text
         /\ Len(Suffix(t, n)) = n
         /\ \E a \in Text : Letters(t) = a \o Letters(Suffix(t, n))
<1> DEFINE len == Len(t)
           i == len - n
           a == SubSeq(t, 1, i)
           s == SubSeq(t, i + 1, len)
<1>1. len \in Nat /\ i \in 0..len
  BY TextFacts
<1>2. /\ a \in Text /\ s \in Text /\ Len(s) = len - i
      /\ Letters(a) \o Letters(s) = Letters(t)
  <2> HIDE DEF i
  <2> QED BY <1>1, Parts
<1>3. Suffix(t, n) = s
  BY <1>1 DEF Suffix
<1>4. len - i = n
  BY <1>1
<1> HIDE DEF a, s, i
<1>5. Letters(a) \in Text
  BY <1>2, LettersType
<1>6. Letters(t) = Letters(a) \o Letters(s)
  BY ONLY <1>2, Zenon
<1> QED BY <1>2, <1>3, <1>4, <1>5, <1>6

(* The last n characters have at most the last n letters. *)
LEMMA RunSuffix ==
  ASSUME NEW t \in Text, NEW a, NEW b, Run(t, a, b), NEW n \in 0..Len(t)
  PROVE  \E x \in Nat : Run(Suffix(t, n), x, b) /\ b - n <= x
<1> DEFINE s == Suffix(t, n)
<1>1. s \in Text /\ Len(s) = n
  BY SuffixLetters
<1>2. PICK front \in Text : Letters(t) = front \o Letters(s)
  BY SuffixLetters
<1> HIDE DEF s
<1> DEFINE l == Letters(s)
           x == b - Len(l)
<1>3. l \in Text /\ l \in Seq(Int) /\ front \in Seq(Int) /\ Len(l) <= n /\ Len(l) \in Nat /\ Len(front) \in Nat
  <2>1. l \in Text /\ Len(l) <= n
    BY <1>1, LettersType
  <2> QED BY <2>1, TextFacts
<1>4. a \in Nat /\ b \in Nat /\ a <= b /\ Len(Letters(t)) = b - a /\ \A j \in 1..(b - a) : Letters(t)[j] = a + j
  BY DEF Run
<1> HIDE DEF l
<1>5. /\ Len(front \o l) = Len(front) + Len(l)
      /\ \A j \in 1..(Len(front) + Len(l)) : (front \o l)[j] = IF j <= Len(front) THEN front[j] ELSE l[j - Len(front)]
  BY <1>3, ConcatProperties
<1> DEFINE whole == front \o l
<1>6. Letters(t) = whole
  BY <1>2 DEF l
<1>7. /\ Len(whole) = Len(front) + Len(l)
      /\ \A j \in 1..(Len(front) + Len(l)) : whole[j] = IF j <= Len(front) THEN front[j] ELSE l[j - Len(front)]
  BY <1>5
<1> HIDE DEF whole
<1>8. Len(front) + Len(l) = b - a
  BY <1>4, <1>6, <1>7
<1>9. x \in Nat /\ x <= b /\ b - x = Len(l) /\ b - n <= x /\ x = a + Len(front)
  BY <1>3, <1>4, <1>8
<1>10. ASSUME NEW j \in 1..Len(l) PROVE l[j] = x + j
  <2> HIDE DEF x
  <2> DEFINE p == Len(front) + j
  <2>1. p \in 1..(b - a) /\ p \in 1..(Len(front) + Len(l)) /\ ~(p <= Len(front)) /\ p - Len(front) = j
    BY <1>3, <1>8
  <2>2. whole[p] = l[j]
    <3> HIDE DEF p
    <3> QED BY <2>1, <1>7
  <2>3. whole[p] = a + p
    <3> HIDE DEF p
    <3> QED BY <2>1, <1>4, <1>6
  <2>4. a + p = x + j
    BY <1>3, <1>4, <1>9
  <2> QED BY <2>2, <2>3, <2>4
<1>11. Run(s, x, b)
  <2> HIDE DEF x
  <2>1. Len(Letters(s)) = b - x /\ \A j \in 1..(b - x) : Letters(s)[j] = x + j
    BY <1>9, <1>10 DEF l
  <2> QED BY <2>1, <1>4, <1>9 DEF Run
<1> QED
  <2> HIDE DEF x
  <2> QED BY <1>9, <1>11 DEF s

(* Letters that go on where others end. *)
LEMMA RunJoin ==
  ASSUME NEW s \in Text, NEW t \in Text, NEW u \in Text, Letters(u) = Letters(s) \o Letters(t),
         NEW a, NEW b, NEW c, Run(s, a, b), Run(t, b, c)
  PROVE  Run(u, a, c)
<1> DEFINE k == Letters(s)
           l == Letters(t)
           w == k \o l
<1>1. k \in Seq(Int) /\ l \in Seq(Int)
  BY LettersType DEF Text
<1>2. /\ a \in Nat /\ b \in Nat /\ c \in Nat /\ a <= b /\ b <= c
      /\ Len(k) = b - a /\ \A j \in 1..(b - a) : k[j] = a + j
      /\ Len(l) = c - b /\ \A j \in 1..(c - b) : l[j] = b + j
  BY DEF Run
<1> HIDE DEF k, l
<1>3. /\ Len(w) = Len(k) + Len(l)
      /\ \A j \in 1..(Len(k) + Len(l)) : w[j] = IF j <= Len(k) THEN k[j] ELSE l[j - Len(k)]
  BY <1>1, ConcatProperties
<1> HIDE DEF w
<1>4. Len(k) + Len(l) = c - a
  BY <1>2
<1>5. ASSUME NEW j \in 1..(c - a) PROVE w[j] = a + j
  <2>1. CASE j <= b - a
    <3>1. j \in 1..(b - a)
      BY <2>1, <1>2
    <3> QED BY <3>1, <2>1, <1>2, <1>3, <1>4
  <2>2. CASE ~(j <= b - a)
    <3>1. j - (b - a) \in 1..(c - b) /\ b + (j - (b - a)) = a + j
      BY <2>2, <1>2
    <3>2. w[j] = l[j - (b - a)]
      BY <2>2, <1>2, <1>3, <1>4
    <3> DEFINE i == j - (b - a)
    <3>3. i \in 1..(c - b) /\ b + i = a + j /\ w[j] = l[i]
      BY <3>1, <3>2
    <3> HIDE DEF i
    <3>4. l[i] = b + i
      BY <3>3, <1>2
    <3> QED BY <3>3, <3>4
  <2> QED BY <2>1, <2>2
<1>6. Letters(u) = w
  BY DEF w, k, l
<1> QED BY <1>2, <1>3, <1>4, <1>5, <1>6 DEF Run

(* The smallest of three numbers. *)
LEMMA MinOfThree ==
  ASSUME NEW a \in Nat, NEW b \in Nat, NEW c \in Nat
  PROVE  Min({a, b, c}) \in {a, b, c} /\ \A x \in {a, b, c} : Min({a, b, c}) <= x
<1>1. {a, b, c} \in SUBSET Nat /\ {a, b, c} # {}
  OBVIOUS
<1>2. PICK m \in {a, b, c} : \A x \in {a, b, c} : m <= x
  <2> DEFINE T == {a, b, c}
  <2> HIDE DEF T
  <2>1. T \in SUBSET Nat /\ T # {}
    BY <1>1 DEF T
  <2>2. \E m \in T : \A x \in T : m <= x
    BY <2>1, LeastNumber
  <2> QED BY <2>2 DEF T
<1> QED BY <1>2 DEF Min

(* What is repeated fits: in the overlap, and before the chunk. *)
LEMMA OverlapLenBounds ==
  ASSUME NEW previous \in Text, NEW chunk \in Text, NEW opts,
         opts.max \in Nat, opts.overlap \in Nat
  PROVE  LET n == OverlapLen(previous, chunk, opts)
         IN /\ n \in 0..Len(previous)
            /\ n <= opts.overlap
            /\ n # 0 => n + 2 + Len(chunk) <= opts.max
<1> DEFINE n == OverlapLen(previous, chunk, opts)
           available == opts.max - Len(chunk)
           max == opts.max
           overlap == opts.overlap
           len == Len(previous)
<1>1. len \in Nat /\ Len(chunk) \in Nat /\ max \in Nat /\ overlap \in Nat
  BY TextFacts
<1>2. n = IF available <= 2 THEN 0 ELSE Min({overlap, len, available - 2})
  BY DEF OverlapLen
<1>3. available \in Int /\ available + Len(chunk) = max
  BY <1>1
<1> HIDE DEF n, available, max, overlap, len
<1>4. CASE available <= 2
  BY <1>1, <1>2, <1>4 DEF n, max, overlap, len
<1>5. CASE ~(available <= 2)
  <2> DEFINE free == available - 2
  <2>1. free \in Nat /\ free + 2 + Len(chunk) = max
    BY <1>1, <1>3, <1>5
  <2>2. n = Min({overlap, len, free})
    BY <1>2, <1>5
  <2> HIDE DEF free
  <2>3. n \in {overlap, len, free} /\ n <= overlap /\ n <= len /\ n <= free
    BY <1>1, <2>1, <2>2, MinOfThree
  <2>4. n \in 0..len /\ n <= overlap /\ n + 2 + Len(chunk) <= max
    BY <1>1, <2>1, <2>3
  <2> QED BY <2>4 DEF n, len, max, overlap
<1> QED BY <1>4, <1>5

ChunkAdded(list, chunk, opts) ==
  LET n == IF list = <<>> THEN 0 ELSE OverlapLen(Last(list), chunk, opts)
  IN Append(list, IF n = 0 THEN chunk ELSE Suffix(Last(list), n) \o BlankLine \o chunk)

(* A piece with the letters b + 1 to c is added to chunks that end at b. *)
LEMMA ChunkCovers ==
  ASSUME NEW list \in Seq(Text), NEW piece \in Text, NEW opts,
         opts.max \in Nat, opts.overlap \in Nat
  PROVE  /\ ChunkAdded(list, piece, opts) \in Seq(Text)
         /\ \E chunk \in Text :
              /\ ChunkAdded(list, piece, opts) = Append(list, chunk)
              /\ Len(piece) <= opts.max => Len(chunk) <= opts.max
              /\ \A b, c : /\ Run(piece, b, c)
                           /\ list # <<>> => \E a : Run(list[Len(list)], a, b)
                           => \E x \in Nat : Run(chunk, x, c) /\ x <= b /\ b - opts.overlap <= x
<1>1. CASE list = <<>> \/ OverlapLen(Last(list), piece, opts) = 0
  <2>1. ChunkAdded(list, piece, opts) = Append(list, piece)
    BY <1>1 DEF ChunkAdded
  <2>2. ASSUME NEW b, NEW c, Run(piece, b, c)
        PROVE  \E x \in Nat : Run(piece, x, c) /\ x <= b /\ b - opts.overlap <= x
    <3>1. b \in Nat /\ b <= b /\ b - opts.overlap <= b
      BY <2>2 DEF Run
    <3> QED BY <3>1, <2>2
  <2> QED BY <2>1, <2>2
<1>2. CASE list # <<>> /\ OverlapLen(Last(list), piece, opts) # 0
  <2> DEFINE previous == list[Len(list)]
             n == OverlapLen(previous, piece, opts)
             s == Suffix(previous, n)
             chunk == (s \o BlankLine) \o piece
  <2>1. previous \in Text
    <3>1. Len(list) \in 1..Len(list)
      <4>1. Len(list) \in Nat /\ Len(list) # 0
        BY <1>2
      <4> QED BY <4>1
    <3> QED BY <3>1
  <2>2. Last(list) = previous
    BY DEF Last
  <2>3. ChunkAdded(list, piece, opts) = Append(list, chunk)
    BY <1>2, <2>2 DEF ChunkAdded
  <2> HIDE DEF previous
  <2>4. n \in 0..Len(previous) /\ n <= opts.overlap /\ n + 2 + Len(piece) <= opts.max
    <3>1. n # 0
      BY <1>2, <2>2
    <3> QED BY <3>1, <2>1, OverlapLenBounds
  <2> HIDE DEF n
  <2>5. s \in Text /\ Len(s) = n
    BY <2>1, <2>4, SuffixLetters
  <2>6. BlankLine \in Text /\ Letters(BlankLine) = <<>> /\ Len(BlankLine) = 2
    <3>1. BlankLine \in Seq(Int) /\ Len(BlankLine) = 2
      BY DEF BlankLine, Newline
    <3> QED BY <3>1, BreakLetters
  <2>7. ASSUME NEW b, Run(previous, CHOOSE a : Run(previous, a, b), b)
        PROVE  \E x \in Nat : Run(s, x, b) /\ b - n <= x
    BY <2>7, <2>1, <2>4, RunSuffix
  <2> HIDE DEF s
  <2>8. /\ chunk \in Text
        /\ Len(chunk) = (Len(s) + Len(BlankLine)) + Len(piece)
        /\ Letters(chunk) = Letters(s) \o Letters(piece)
    BY <2>5, <2>6, JoinLetters
  <2> HIDE DEF chunk
  <2>9. Len(chunk) <= opts.max
    <3>1. Len(piece) \in Nat
      BY TextFacts
    <3> QED BY <3>1, <2>4, <2>5, <2>6, <2>8
  <2>10. ASSUME NEW b, NEW c, Run(piece, b, c), \E a : Run(previous, a, b)
         PROVE  \E x \in Nat : Run(chunk, x, c) /\ x <= b /\ b - opts.overlap <= x
    <3>1. PICK x \in Nat : Run(s, x, b) /\ b - n <= x
      BY <2>7, <2>10
    <3>2. Run(chunk, x, c)
      BY <3>1, <2>5, <2>8, <2>10, RunJoin
    <3>3. b \in Nat /\ x <= b
      BY <3>1 DEF Run
    <3>4. b - opts.overlap <= x
      BY <3>1, <3>3, <2>4
    <3> QED BY <3>2, <3>3, <3>4
  <2>11. Append(list, chunk) \in Seq(Text)
    BY <2>8
  <2>12. \A b, c : /\ Run(piece, b, c)
                   /\ list # <<>> => \E a : Run(list[Len(list)], a, b)
                   => \E x \in Nat : Run(chunk, x, c) /\ x <= b /\ b - opts.overlap <= x
    <3>1. list[Len(list)] = previous
      BY DEF previous
    <3> QED BY ONLY <3>1, <2>10, <1>2, Zenon
  <2> QED BY ONLY <2>3, <2>8, <2>9, <2>11, <2>12, Zenon
<1> QED BY <1>1, <1>2

(* apply_overlap after each piece. *)
LEMMA OverlappedSteps ==
  ASSUME NEW pieces \in Seq(Text), NEW opts, opts.max \in Nat, opts.overlap \in Nat
  PROVE  \E f \in [0..Len(pieces) -> Seq(Text)] :
           /\ f[0] = <<>>
           /\ \A k \in 1..Len(pieces) : f[k] = ChunkAdded(f[k - 1], pieces[k], opts)
           /\ Overlapped(pieces, opts) = f[Len(pieces)]
<1> DEFINE start == <<>>
           step == [p \in (Seq(Text)) \X (Text) |-> ChunkAdded(p[1], p[2], opts)]
           n    == Len(pieces)
           Fits(iter) == iter = [s \in SUBSET DOMAIN pieces |->
             IF s = {} THEN start ELSE ChunkAdded(iter[s \ {Max(s)}], pieces[Max(s)], opts)]
           iter == CHOOSE i : Fits(i)
           f    == [k \in 0..n |-> iter[1..k]]
<1>1. Overlapped(pieces, opts) = iter[DOMAIN pieces]
  BY DEF Overlapped, ChunkAdded, FoldLeft, MapThenFoldSet
<1>2. start \in Seq(Text) /\ n \in Nat /\ pieces \in [1..n -> Text] /\ DOMAIN pieces = 1..n
  OBVIOUS
<1>3. \A a \in Seq(Text), x \in Text : ChunkAdded(a, x, opts) \in Seq(Text)
  BY ChunkCovers
<1>4. step \in [(Seq(Text)) \X (Text) -> Seq(Text)]
  BY <1>3
<1>5. PICK F \in [SUBSET (1..n) -> Seq(Text)] : F \in Folding(Seq(Text), start, step, pieces, n)
  <2> HIDE DEF step, start, n
  <2> QED BY <1>2, <1>4, FoldExists
<1>6. ASSUME NEW s \in SUBSET (1..n)
      PROVE  F[s] = IF s = {} THEN start ELSE ChunkAdded(F[s \ {Max(s)}], pieces[Max(s)], opts)
  <2>1. F[s] = IF s = {} THEN start ELSE step[F[s \ {Max(s)}], pieces[Max(s)]]
    BY <1>5 DEF Folding
  <2>2. ASSUME s # {}
        PROVE  F[s \ {Max(s)}] \in Seq(Text) /\ pieces[Max(s)] \in Text
    <3>1. Max(s) \in 1..n
      <4> HIDE DEF n
      <4>1. s \subseteq 0..n
        BY <1>2
      <4> QED BY <4>1, <2>2, <1>2, MaxOf
    <3>2. s \ {Max(s)} \in SUBSET (1..n)
      OBVIOUS
    <3> QED BY <3>1, <3>2, <1>2
  <2> QED BY <2>1, <2>2
<1>7. Fits(F)
  <2> HIDE DEF start, n
  <2> QED BY <1>2, <1>6
<1>8. Fits(iter)
  <2> HIDE DEF Fits
  <2> QED BY <1>7
<1>9. iter[1..0] = start
  <2>1. 1..0 = {} /\ 1..0 \in SUBSET DOMAIN pieces
    BY <1>2
  <2> HIDE DEF iter, start
  <2> QED BY <1>8, <2>1
<1>10. ASSUME NEW k \in 1..n
       PROVE  iter[1..k] = ChunkAdded(iter[1..(k - 1)], pieces[k], opts)
  <2>1. 1..k \in SUBSET DOMAIN pieces /\ 1..k # {} /\ Max(1..k) = k /\ (1..k) \ {k} = 1..(k - 1)
    <3> HIDE DEF n
    <3> QED BY <1>2, InitialSegment
  <2> HIDE DEF iter, start
  <2> QED BY <1>8, <2>1
<1>11. f \in [0..n -> Seq(Text)]
  <2> HIDE DEF iter, start, n
  <2>1. ASSUME NEW k \in 1..n, iter[1..(k - 1)] \in Seq(Text)
        PROVE  iter[1..k] \in Seq(Text)
    <3>1. pieces[k] \in Text
      BY <1>2
    <3> QED BY <1>10, <1>3, <3>1, <2>1
  <2>2. \A k \in 0..n : iter[1..k] \in Seq(Text)
    BY <2>1, <1>9, <1>2, FoldSteps
  <2> QED BY <2>2
<1>12. f[0] = start /\ f[n] = iter[DOMAIN pieces]
  <2> HIDE DEF iter, start, n
  <2> QED BY <1>9, <1>2
<1>13. \A k \in 1..n : f[k] = ChunkAdded(f[k - 1], pieces[k], opts)
  <2> HIDE DEF iter
  <2>1. \A k \in 1..n : k \in 0..n /\ k - 1 \in 0..n
    BY <1>2
  <2> QED BY <1>10, <2>1
<1> QED
  <2> HIDE DEF iter, f
  <2> QED BY <1>1, <1>11, <1>12, <1>13

(* What letters each piece of a numbered text has. *)
LEMMA PieceRuns ==
  ASSUME NEW pieces \in Seq(Text),
         LettersOf(pieces) = [k \in 1..Len(LettersOf(pieces)) |-> k]
  PROVE  \E e \in [0..Len(pieces) -> Nat] :
           /\ e[0] = 0 /\ e[Len(pieces)] = Len(LettersOf(pieces))
           /\ \A k \in 1..Len(pieces) : Run(pieces[k], e[k - 1], e[k])
<1> DEFINE n == Len(pieces)
<1>1. PICK g \in [0..n -> Text] :
           /\ g[0] = <<>>
           /\ \A k \in 1..n : g[k] = g[k - 1] \o Letters(pieces[k])
           /\ LettersOf(pieces) = g[n]
  BY LettersOfSteps
<1>2. n \in Nat /\ \A k \in 1..n : Letters(pieces[k]) \in Text
  <2>1. n \in Nat /\ \A k \in 1..n : pieces[k] \in Text
    OBVIOUS
  <2> QED BY <2>1, LettersType
<1> HIDE DEF n
<1>3. ASSUME NEW k \in 1..n
      PROVE  LET l == Letters(pieces[k])
             IN /\ Len(g[k - 1]) \in Nat /\ Len(l) \in Nat
                /\ Len(g[k]) = Len(g[k - 1]) + Len(l)
                /\ \A j \in 1..Len(g[k - 1]) : g[k][j] = g[k - 1][j]
                /\ \A j \in 1..Len(l) : g[k][Len(g[k - 1]) + j] = l[j]
  <2> DEFINE a == g[k - 1]
             b == Letters(pieces[k])
             c == g[k]
  <2>1. a \in Seq(Int) /\ b \in Seq(Int) /\ c = a \o b
    <3>1. k - 1 \in 0..n
      BY <1>2
    <3>2. g[k - 1] \in Text
      BY <3>1, <1>1
    <3> QED BY <3>2, <1>1, <1>2 DEF Text
  <2> HIDE DEF a, b, c
  <2>2. Len(a) \in Nat /\ Len(b) \in Nat
    BY <2>1
  <2>3. /\ Len(a \o b) = Len(a) + Len(b)
        /\ \A j \in 1..(Len(a) + Len(b)) : (a \o b)[j] = IF j <= Len(a) THEN a[j] ELSE b[j - Len(a)]
    BY <2>1, ConcatProperties
  <2>4. Len(c) = Len(a) + Len(b) /\ \A j \in 1..(Len(a) + Len(b)) : c[j] = IF j <= Len(a) THEN a[j] ELSE b[j - Len(a)]
    BY ONLY <2>1, <2>3, Zenon
  <2>5. \A j \in 1..Len(a) : c[j] = a[j]
    BY <2>2, <2>4
  <2>6. ASSUME NEW j \in 1..Len(b) PROVE c[Len(a) + j] = b[j]
    <3> DEFINE i == Len(a) + j
    <3>1. i \in 1..(Len(a) + Len(b)) /\ ~(i <= Len(a)) /\ i - Len(a) = j
      BY <2>2
    <3> HIDE DEF i
    <3>2. c[i] = b[j]
      BY <3>1, <2>4
    <3> QED BY <3>2 DEF i
  <2> QED BY <2>2, <2>4, <2>5, <2>6 DEF a, b, c
<1> DEFINE Numbers(t) == \A j \in 1..Len(t) : t[j] = j
           S == {k \in Nat : k <= n => Numbers(g[n - k])}
<1>4. 0 \in S
  <2>1. Len(g[n]) \in Nat
    BY <1>1, <1>2 DEF Text
  <2> DEFINE t == g[n]
  <2>2. t = [k \in 1..Len(t) |-> k]
    BY <1>1
  <2> HIDE DEF t
  <2>3. Numbers(t)
    BY <2>2
  <2>4. n - 0 = n
    BY <1>2
  <2> HIDE DEF Numbers
  <2> QED BY <2>3, <2>4 DEF t
<1>5. ASSUME NEW k \in Nat, k \in S PROVE k + 1 \in S
  <2> HIDE DEF Numbers
  <2> SUFFICES ASSUME k + 1 <= n PROVE Numbers(g[n - (k + 1)])
    OBVIOUS
  <2> DEFINE i == n - k
  <2>1. i \in 1..n /\ n - (k + 1) = i - 1 /\ Numbers(g[i])
    BY <1>2, <1>5
  <2> HIDE DEF i
  <2>2. /\ Len(g[i - 1]) \in Nat /\ Len(g[i - 1]) <= Len(g[i]) /\ Len(g[i]) \in Nat
        /\ \A j \in 1..Len(g[i - 1]) : g[i][j] = g[i - 1][j]
    <3> DEFINE l == Letters(pieces[i])
               a == Len(g[i - 1])
               c == Len(g[i])
    <3>1. /\ a \in Nat /\ Len(l) \in Nat /\ c = a + Len(l)
          /\ \A j \in 1..a : g[i][j] = g[i - 1][j]
      BY <1>3, <2>1
    <3> HIDE DEF l, a, c
    <3>2. a \in Nat /\ a <= c /\ c \in Nat
      BY <3>1
    <3> QED BY <3>1, <3>2 DEF a, c
  <2> DEFINE a == g[i - 1]
             c == g[i]
  <2>3. /\ Len(a) \in Nat /\ Len(a) <= Len(c) /\ Len(c) \in Nat
        /\ \A j \in 1..Len(a) : c[j] = a[j]
        /\ Numbers(c)
    BY <2>1, <2>2
  <2> HIDE DEF a, c
  <2>4. Numbers(a)
    BY <2>3 DEF Numbers
  <2> QED BY <2>1, <2>4 DEF a
<1> HIDE DEF S, Numbers
<1>6. \A k \in Nat : k \in S
  BY <1>4, <1>5, Induction
<1>7. ASSUME NEW i \in 0..n PROVE Numbers(g[i])
  <2>1. n - i \in Nat /\ n - i <= n /\ n - (n - i) = i
    BY <1>2
  <2>2. n - i \in S
    BY <2>1, <1>6
  <2> DEFINE k == n - i
  <2>3. k <= n /\ k \in S /\ n - k = i
    BY <2>1, <2>2
  <2> HIDE DEF k
  <2> QED BY <2>3 DEF S
<1> DEFINE e == [k \in 0..n |-> Len(g[k])]
<1>8. e \in [0..n -> Nat] /\ e[0] = 0 /\ e[n] = Len(LettersOf(pieces))
  <2>1. \A k \in 0..n : Len(g[k]) \in Nat
    BY <1>1 DEF Text
  <2>2. 0 \in 0..n /\ n \in 0..n /\ Len(<<>>) = 0
    BY <1>2
  <2> QED BY <2>1, <2>2, <1>1
<1>9. ASSUME NEW k \in 1..n PROVE Run(pieces[k], e[k - 1], e[k])
  <2> DEFINE l == Letters(pieces[k])
             a == Len(g[k - 1])
             c == g[k]
  <2>1. /\ a \in Nat /\ Len(l) \in Nat /\ Len(c) = a + Len(l)
        /\ \A j \in 1..Len(l) : c[a + j] = l[j]
    BY <1>3
  <2>2. Numbers(c) /\ e[k - 1] = a /\ e[k] = Len(c)
    <3>1. k \in 0..n /\ k - 1 \in 0..n
      BY <1>2
    <3> QED BY <3>1, <1>7
  <2> HIDE DEF e, a, c
  <2> SUFFICES Run(pieces[k], a, a + Len(l))
    BY <2>1, <2>2
  <2>3. /\ a <= a + Len(l) /\ a + Len(l) \in Nat /\ (a + Len(l)) - a = Len(l)
        /\ \A j \in 1..Len(l) : a + j \in 1..Len(c)
    <3> HIDE DEF l
    <3> QED BY <2>1
  <2>4. \A j \in 1..Len(l) : l[j] = a + j
    <3> HIDE DEF l
    <3> QED BY <2>1, <2>2, <2>3 DEF Numbers
  <2> QED BY <2>1, <2>3, <2>4 DEF Run
<1> QED
  <2> HIDE DEF e
  <2> QED BY <1>8, <1>9 DEF n

(* The chunks have the letters of their pieces, and may start earlier. *)
LEMMA ChunkRuns ==
  ASSUME NEW pieces \in Seq(Text), NEW opts, opts.max \in Nat, opts.overlap \in Nat,
         Fit(pieces, opts.max),
         NEW e \in [0..Len(pieces) -> Nat],
         \A k \in 1..Len(pieces) : Run(pieces[k], e[k - 1], e[k])
  PROVE  LET list == Overlapped(pieces, opts)
         IN /\ list \in Seq(Text) /\ Len(list) = Len(pieces)
            /\ \A i \in 1..Len(pieces) :
                 /\ Len(list[i]) <= opts.max
                 /\ e[i - 1] < e[i]
                 /\ \E x \in Nat : Run(list[i], x, e[i]) /\ x <= e[i - 1] /\ e[i - 1] - opts.overlap <= x
<1> DEFINE n == Len(pieces)
           Covered(t, i) == \E x \in Nat : Run(t, x, e[i]) /\ x <= e[i - 1] /\ e[i - 1] - opts.overlap <= x
<1>1. PICK f \in [0..n -> Seq(Text)] :
           /\ f[0] = <<>>
           /\ \A k \in 1..n : f[k] = ChunkAdded(f[k - 1], pieces[k], opts)
           /\ Overlapped(pieces, opts) = f[n]
  BY OverlappedSteps
<1>2. n \in Nat /\ \A k \in 1..n : pieces[k] \in Text
  OBVIOUS
<1>3. ASSUME NEW k \in 1..n PROVE Len(pieces[k]) <= opts.max /\ e[k - 1] < e[k]
  <2>1. ~Blank(pieces[k]) /\ Len(pieces[k]) <= opts.max
    BY DEF Fit
  <2>2. Letters(pieces[k]) # <<>> /\ Letters(pieces[k]) \in Seq(Int)
    BY <2>1, <1>2, LettersType DEF Text
  <2>3. e[k - 1] \in Nat /\ e[k] \in Nat /\ Len(Letters(pieces[k])) = e[k] - e[k - 1]
    BY DEF Run
  <2>4. Len(Letters(pieces[k])) # 0 /\ Len(Letters(pieces[k])) \in Nat
    BY <2>2
  <2> QED BY <2>1, <2>3, <2>4
<1> HIDE DEF n, Covered
<1> DEFINE Good(k) == /\ Len(f[k]) = k
                      /\ \A i \in 1..k : Len(f[k][i]) <= opts.max /\ Covered(f[k][i], i)
           S == {k \in Nat : k <= n => Good(k)}
<1>4. 0 \in S
  <2>1. Good(0)
    BY <1>1, NoText
  <2> HIDE DEF Good
  <2> QED BY <2>1
<1>5. ASSUME NEW k \in Nat, k \in S PROVE k + 1 \in S
  <2> HIDE DEF Good
  <2> SUFFICES ASSUME k + 1 <= n PROVE Good(k + 1)
    OBVIOUS
  <2>1. k + 1 \in 1..n /\ (k + 1) - 1 = k /\ k \in 0..n /\ Good(k)
    BY <1>2, <1>5
  <2> DEFINE list == f[k]
             new == f[k + 1]
             p == pieces[k + 1]
  <2>2. list \in Seq(Text) /\ p \in Text /\ new = ChunkAdded(list, p, opts)
    BY <2>1, <1>1, <1>2
  <2>3. Len(list) = k /\ \A i \in 1..k : Len(list[i]) <= opts.max /\ Covered(list[i], i)
    BY <2>1 DEF Good
  <2>4. Run(p, e[k], e[k + 1]) /\ Len(p) <= opts.max
    BY <2>1, <1>3 DEF n
  <2> SUFFICES /\ Len(new) = k + 1
               /\ \A i \in 1..(k + 1) : Len(new[i]) <= opts.max /\ Covered(new[i], i)
    BY DEF Good
  <2> HIDE DEF list, new, p
  <2>5. PICK chunk \in Text :
           /\ ChunkAdded(list, p, opts) = Append(list, chunk)
           /\ Len(p) <= opts.max => Len(chunk) <= opts.max
           /\ \A b, c : /\ Run(p, b, c)
                        /\ list # <<>> => \E a : Run(list[Len(list)], a, b)
                        => \E x \in Nat : Run(chunk, x, c) /\ x <= b /\ b - opts.overlap <= x
    BY <2>2, ChunkCovers
  <2>6. list # <<>> => \E a : Run(list[Len(list)], a, e[k])
    <3> SUFFICES ASSUME list # <<>> PROVE \E a : Run(list[k], a, e[k])
      BY <2>3
    <3>1. k \in 1..k
      BY <2>2, <2>3
    <3> QED BY <3>1, <2>3 DEF Covered
  <2>7. Covered(chunk, k + 1)
    <3>1. \E x \in Nat : Run(chunk, x, e[k + 1]) /\ x <= e[k] /\ e[k] - opts.overlap <= x
      BY <2>4, <2>5, <2>6
    <3> QED BY <3>1, <2>1 DEF Covered
  <2>8. /\ Len(new) = k + 1 /\ new[k + 1] = chunk
        /\ \A i \in 1..k : new[i] = list[i]
    BY <2>2, <2>3, <2>5
  <2>9. ASSUME NEW i \in 1..(k + 1) PROVE Len(new[i]) <= opts.max /\ Covered(new[i], i)
    <3>1. CASE i = k + 1
      BY <3>1, <2>4, <2>5, <2>7, <2>8
    <3>2. CASE i # k + 1
      <4>1. i \in 1..k
        BY <3>2
      <4> QED BY <4>1, <2>3, <2>8
    <3> QED BY <3>1, <3>2
  <2> QED BY <2>8, <2>9
<1> HIDE DEF S
<1>6. n \in S
  BY <1>2, <1>4, <1>5, Induction
<1>7. Good(n)
  <2> HIDE DEF Good
  <2> QED BY <1>6, <1>2 DEF S
<1>8. f[n] \in Seq(Text)
  BY <1>1, <1>2
<1> QED BY <1>1, <1>3, <1>7, <1>8 DEF n, Covered

-----------------------------------------------------------------------------
(***************************************************************************)
(* The context of a question.                                              *)
(***************************************************************************)
Acc == [texts : Seq(Text), used : Nat, full : BOOLEAN]

(* What one round leaves: nothing new, or a part of the text. *)
LEMMA IncludeCases ==
  ASSUME NEW acc \in Acc, NEW text \in Text, NEW budget \in Nat
  PROVE  \/ Include(acc, text, budget) = [acc EXCEPT !.full = TRUE]
         \/ \E part \in Text :
              /\ text # <<>> => part # <<>>
              /\ acc.used + (SourceLine + 2) + Len(part) <= budget
              /\ Include(acc, text, budget) =
                   [texts |-> Append(acc.texts, part),
                    used  |-> acc.used + (SourceLine + 2) + Len(part),
                    full  |-> acc.used + (SourceLine + 2) + Len(part) >= budget]
<1> DEFINE available == budget - acc.used - (SourceLine + 2)
           m    == Min({Len(text), available})
           part == SubSeq(text, 1, m)
<1>1. SourceLine \in Nat /\ acc.used \in Nat /\ Len(text) \in Nat /\ text \in Seq(Int)
  BY SourceLineAssumption, TextFacts DEF Acc
<1>2. CASE acc.full \/ available <= 0
  BY <1>2 DEF Include
<1>3. CASE ~(acc.full \/ available <= 0)
  <2>1. available \in Nat /\ available > 0
    BY <1>1, <1>3
  <2>2. /\ m \in 0..Len(text) /\ m <= available
        /\ Len(text) # 0 => m # 0
    <3> HIDE DEF available
    <3>1. m = IF Len(text) <= available THEN Len(text) ELSE available
      BY <1>1, <2>1, MinOfTwo
    <3> HIDE DEF m
    <3> QED BY <3>1, <1>1, <2>1
  <2>3. Include(acc, text, budget) =
          [texts |-> Append(acc.texts, part),
           used  |-> acc.used + (SourceLine + 2) + Len(part),
           full  |-> acc.used + (SourceLine + 2) + Len(part) >= budget]
    BY <1>3 DEF Include
  <2> HIDE DEF m
  <2>4. part \in Text /\ Len(part) = m
    BY <1>1, <2>2, SubSeqPrefix DEF Text
  <2> HIDE DEF part
  <2>5. acc.used + (SourceLine + 2) + Len(part) <= budget
    BY <1>1, <2>1, <2>2, <2>4
  <2>6. text # <<>> => part # <<>>
    <3> SUFFICES ASSUME text # <<>> PROVE part # <<>>
      OBVIOUS
    <3>1. Len(text) # 0
      BY <1>1
    <3>2. Len(part) # 0
      BY <3>1, <2>2, <2>4
    <3> QED BY <3>2, NoText
  <2> QED BY <2>3, <2>4, <2>5, <2>6
<1> QED BY <1>2, <1>3

(* A round leaves texts and a count. *)
LEMMA IncludeType ==
  ASSUME NEW acc \in Acc, NEW text \in Text, NEW budget \in Nat
  PROVE  Include(acc, text, budget) \in Acc
<1> DEFINE new == Include(acc, text, budget)
<1>1. acc.texts \in Seq(Text) /\ acc.used \in Nat /\ SourceLine \in Nat
  BY SourceLineAssumption DEF Acc
<1>2. CASE new = [acc EXCEPT !.full = TRUE]
  <2> HIDE DEF new
  <2>1. new \in Acc
    BY <1>2 DEF Acc
  <2> QED BY <2>1 DEF new
<1>3. ASSUME NEW part \in Text,
             new = [texts |-> Append(acc.texts, part),
                    used  |-> acc.used + (SourceLine + 2) + Len(part),
                    full  |-> acc.used + (SourceLine + 2) + Len(part) >= budget]
      PROVE  new \in Acc
  <2> DEFINE u == acc.used + (SourceLine + 2) + Len(part)
             t == Append(acc.texts, part)
  <2>1. u \in Nat /\ t \in Seq(Text) /\ new = [texts |-> t, used |-> u, full |-> u >= budget]
    <3>1. Len(part) \in Nat
      BY TextFacts
    <3> QED BY <3>1, <1>1, <1>3
  <2> HIDE DEF u, t, new
  <2>2. new \in Acc
    BY <2>1 DEF Acc
  <2> QED BY <2>2
<1> QED
  <2>1. \/ new = [acc EXCEPT !.full = TRUE]
        \/ \E part \in Text :
             new = [texts |-> Append(acc.texts, part),
                    used  |-> acc.used + (SourceLine + 2) + Len(part),
                    full  |-> acc.used + (SourceLine + 2) + Len(part) >= budget]
    BY IncludeCases
  <2>2. ASSUME new = [acc EXCEPT !.full = TRUE] PROVE new \in Acc
    BY <2>2, <1>2
  <2>3. ASSUME NEW part \in Text,
               new = [texts |-> Append(acc.texts, part),
                      used  |-> acc.used + (SourceLine + 2) + Len(part),
                      full  |-> acc.used + (SourceLine + 2) + Len(part) >= budget]
        PROVE  new \in Acc
    <3> HIDE DEF new
    <3> QED BY ONLY <2>3, <1>3, Zenon
  <2> QED
    <3>1. new \in Acc
      <4> HIDE DEF new
      <4> QED BY ONLY <2>1, <2>2, <2>3, Zenon
    <3> QED BY <3>1

(* The loop of limit_context_chunks. *)
LEMMA LimitContextSteps ==
  ASSUME NEW texts \in Seq(Text), NEW budget \in Nat
  PROVE  \E f \in [0..Len(texts) -> Acc] :
           /\ f[0] = [texts |-> <<>>, used |-> 0, full |-> budget = 0]
           /\ \A k \in 1..Len(texts) : f[k] = Include(f[k - 1], texts[k], budget)
           /\ LimitContext(texts, budget) = f[Len(texts)].texts
<1> DEFINE start == [texts |-> <<>>, used |-> 0, full |-> budget = 0]
           step == [p \in (Acc) \X (Text) |-> Include(p[1], p[2], budget)]
           n    == Len(texts)
           Fits(iter) == iter = [s \in SUBSET DOMAIN texts |->
             IF s = {} THEN start ELSE Include(iter[s \ {Max(s)}], texts[Max(s)], budget)]
           iter == CHOOSE i : Fits(i)
           f    == [k \in 0..n |-> iter[1..k]]
<1>1. LimitContext(texts, budget) = iter[DOMAIN texts].texts
  BY DEF LimitContext, FoldLeft, MapThenFoldSet
<1>2. start \in Acc /\ n \in Nat /\ texts \in [1..n -> Text] /\ DOMAIN texts = 1..n
  BY DEF Acc
<1>3. \A a \in Acc, x \in Text : Include(a, x, budget) \in Acc
  BY IncludeType
<1>4. step \in [(Acc) \X (Text) -> Acc]
  BY <1>3
<1>5. PICK F \in [SUBSET (1..n) -> Acc] : F \in Folding(Acc, start, step, texts, n)
  <2> HIDE DEF step, start, n
  <2> QED BY <1>2, <1>4, FoldExists
<1>6. ASSUME NEW s \in SUBSET (1..n)
      PROVE  F[s] = IF s = {} THEN start ELSE Include(F[s \ {Max(s)}], texts[Max(s)], budget)
  <2>1. F[s] = IF s = {} THEN start ELSE step[F[s \ {Max(s)}], texts[Max(s)]]
    BY <1>5 DEF Folding
  <2>2. ASSUME s # {}
        PROVE  F[s \ {Max(s)}] \in Acc /\ texts[Max(s)] \in Text
    <3>1. Max(s) \in 1..n
      <4> HIDE DEF n
      <4>1. s \subseteq 0..n
        BY <1>2
      <4> QED BY <4>1, <2>2, <1>2, MaxOf
    <3>2. s \ {Max(s)} \in SUBSET (1..n)
      OBVIOUS
    <3> QED BY <3>1, <3>2, <1>2
  <2> QED BY <2>1, <2>2
<1>7. Fits(F)
  <2> HIDE DEF start, n
  <2> QED BY <1>2, <1>6
<1>8. Fits(iter)
  <2> HIDE DEF Fits
  <2> QED BY <1>7
<1>9. iter[1..0] = start
  <2>1. 1..0 = {} /\ 1..0 \in SUBSET DOMAIN texts
    BY <1>2
  <2> HIDE DEF iter, start
  <2> QED BY <1>8, <2>1
<1>10. ASSUME NEW k \in 1..n
       PROVE  iter[1..k] = Include(iter[1..(k - 1)], texts[k], budget)
  <2>1. 1..k \in SUBSET DOMAIN texts /\ 1..k # {} /\ Max(1..k) = k /\ (1..k) \ {k} = 1..(k - 1)
    <3> HIDE DEF n
    <3> QED BY <1>2, InitialSegment
  <2> HIDE DEF iter, start
  <2> QED BY <1>8, <2>1
<1>11. f \in [0..n -> Acc]
  <2> HIDE DEF iter, start, n
  <2>1. ASSUME NEW k \in 1..n, iter[1..(k - 1)] \in Acc
        PROVE  iter[1..k] \in Acc
    <3>1. texts[k] \in Text
      BY <1>2
    <3> QED BY <1>10, <1>3, <3>1, <2>1
  <2>2. \A k \in 0..n : iter[1..k] \in Acc
    BY <2>1, <1>9, <1>2, FoldSteps
  <2> QED BY <2>2
<1>12. f[0] = start /\ f[n] = iter[DOMAIN texts]
  <2> HIDE DEF iter, start, n
  <2> QED BY <1>9, <1>2
<1>13. \A k \in 1..n : f[k] = Include(f[k - 1], texts[k], budget)
  <2> HIDE DEF iter
  <2>1. \A k \in 1..n : k \in 0..n /\ k - 1 \in 0..n
    BY <1>2
  <2> QED BY <1>10, <2>1
<1> QED
  <2> HIDE DEF iter, f
  <2> QED BY <1>1, <1>11, <1>12, <1>13


LenAdded(n, text) == n + (IF n = 0 THEN 0 ELSE 2) + SourceLine + 1 + Len(text)

(* A length is a number. *)
LEMMA LenAddedType ==
  ASSUME NEW n \in Nat, NEW text \in Text
  PROVE  LenAdded(n, text) \in Nat
<1>1. SourceLine \in Nat /\ Len(text) \in Nat
  BY SourceLineAssumption, TextFacts
<1> QED BY <1>1 DEF LenAdded

(* The length of the context after each text. *)
LEMMA ContextLenSteps ==
  ASSUME NEW texts \in Seq(Text)
  PROVE  \E f \in [0..Len(texts) -> Nat] :
           /\ f[0] = 0
           /\ \A k \in 1..Len(texts) : f[k] = LenAdded(f[k - 1], texts[k])
           /\ ContextLen(texts) = f[Len(texts)]
<1> DEFINE start == 0
           step == [p \in (Nat) \X (Text) |-> LenAdded(p[1], p[2])]
           n    == Len(texts)
           Fits(iter) == iter = [s \in SUBSET DOMAIN texts |->
             IF s = {} THEN start ELSE LenAdded(iter[s \ {Max(s)}], texts[Max(s)])]
           iter == CHOOSE i : Fits(i)
           f    == [k \in 0..n |-> iter[1..k]]
<1>1. ContextLen(texts) = iter[DOMAIN texts]
  BY DEF ContextLen, LenAdded, FoldLeft, MapThenFoldSet
<1>2. start \in Nat /\ n \in Nat /\ texts \in [1..n -> Text] /\ DOMAIN texts = 1..n
  OBVIOUS
<1>3. \A a \in Nat, x \in Text : LenAdded(a, x) \in Nat
  BY LenAddedType
<1>4. step \in [(Nat) \X (Text) -> Nat]
  BY <1>3
<1>5. PICK F \in [SUBSET (1..n) -> Nat] : F \in Folding(Nat, start, step, texts, n)
  <2> HIDE DEF step, start, n
  <2> QED BY <1>2, <1>4, FoldExists
<1>6. ASSUME NEW s \in SUBSET (1..n)
      PROVE  F[s] = IF s = {} THEN start ELSE LenAdded(F[s \ {Max(s)}], texts[Max(s)])
  <2>1. F[s] = IF s = {} THEN start ELSE step[F[s \ {Max(s)}], texts[Max(s)]]
    BY <1>5 DEF Folding
  <2>2. ASSUME s # {}
        PROVE  F[s \ {Max(s)}] \in Nat /\ texts[Max(s)] \in Text
    <3>1. Max(s) \in 1..n
      <4> HIDE DEF n
      <4>1. s \subseteq 0..n
        BY <1>2
      <4> QED BY <4>1, <2>2, <1>2, MaxOf
    <3>2. s \ {Max(s)} \in SUBSET (1..n)
      OBVIOUS
    <3> QED BY <3>1, <3>2, <1>2
  <2> QED BY <2>1, <2>2
<1>7. Fits(F)
  <2> HIDE DEF start, n
  <2> QED BY <1>2, <1>6
<1>8. Fits(iter)
  <2> HIDE DEF Fits
  <2> QED BY <1>7
<1>9. iter[1..0] = start
  <2>1. 1..0 = {} /\ 1..0 \in SUBSET DOMAIN texts
    BY <1>2
  <2> HIDE DEF iter, start
  <2> QED BY <1>8, <2>1
<1>10. ASSUME NEW k \in 1..n
       PROVE  iter[1..k] = LenAdded(iter[1..(k - 1)], texts[k])
  <2>1. 1..k \in SUBSET DOMAIN texts /\ 1..k # {} /\ Max(1..k) = k /\ (1..k) \ {k} = 1..(k - 1)
    <3> HIDE DEF n
    <3> QED BY <1>2, InitialSegment
  <2> HIDE DEF iter, start
  <2> QED BY <1>8, <2>1
<1>11. f \in [0..n -> Nat]
  <2> HIDE DEF iter, start, n
  <2>1. ASSUME NEW k \in 1..n, iter[1..(k - 1)] \in Nat
        PROVE  iter[1..k] \in Nat
    <3>1. texts[k] \in Text
      BY <1>2
    <3> QED BY <1>10, <1>3, <3>1, <2>1
  <2>2. \A k \in 0..n : iter[1..k] \in Nat
    BY <2>1, <1>9, <1>2, FoldSteps
  <2> QED BY <2>2
<1>12. f[0] = start /\ f[n] = iter[DOMAIN texts]
  <2> HIDE DEF iter, start, n
  <2> QED BY <1>9, <1>2
<1>13. \A k \in 1..n : f[k] = LenAdded(f[k - 1], texts[k])
  <2> HIDE DEF iter
  <2>1. \A k \in 1..n : k \in 0..n /\ k - 1 \in 0..n
    BY <1>2
  <2> QED BY <1>10, <2>1
<1> QED
  <2> HIDE DEF iter, f
  <2> QED BY <1>1, <1>11, <1>12, <1>13

(* One text more in the context. *)
LEMMA ContextLenAppend ==
  ASSUME NEW texts \in Seq(Text), NEW t \in Text
  PROVE  /\ ContextLen(texts) \in Nat
         /\ ContextLen(Append(texts, t)) = LenAdded(ContextLen(texts), t)
<1> DEFINE n == Len(texts)
           u == Append(texts, t)
<1>1. PICK f \in [0..n -> Nat] :
           /\ f[0] = 0
           /\ \A k \in 1..n : f[k] = LenAdded(f[k - 1], texts[k])
           /\ ContextLen(texts) = f[n]
  BY ContextLenSteps
<1>2. u \in Seq(Text) /\ Len(u) = n + 1 /\ n \in Nat /\ u[n + 1] = t /\ \A k \in 1..n : u[k] = texts[k]
  OBVIOUS
<1> HIDE DEF u
<1>3. PICK g \in [0..Len(u) -> Nat] :
           /\ g[0] = 0
           /\ \A k \in 1..Len(u) : g[k] = LenAdded(g[k - 1], u[k])
           /\ ContextLen(u) = g[Len(u)]
  BY <1>2, ContextLenSteps
<1> HIDE DEF n
<1> DEFINE S == {k \in Nat : k <= n => f[k] = g[k]}
<1>4. 0 \in S
  BY <1>1, <1>3
<1>5. ASSUME NEW k \in Nat, k \in S PROVE k + 1 \in S
  <2> SUFFICES ASSUME k + 1 <= n PROVE f[k + 1] = g[k + 1]
    OBVIOUS
  <2>1. k + 1 \in 1..n /\ k + 1 \in 1..Len(u) /\ (k + 1) - 1 = k /\ f[k] = g[k]
    BY <1>2, <1>5
  <2>2. f[k + 1] = LenAdded(f[k], texts[k + 1])
    BY <2>1, <1>1
  <2>3. g[k + 1] = LenAdded(g[k], texts[k + 1])
    BY <2>1, <1>2, <1>3
  <2> QED BY <2>1, <2>2, <2>3
<1> HIDE DEF S
<1>6. n \in S
  BY <1>2, <1>4, <1>5, Induction
<1>7. f[n] = g[n]
  BY <1>6, <1>2 DEF S
<1>8. n + 1 \in 1..Len(u) /\ (n + 1) - 1 = n
  BY <1>2
<1>9. g[n + 1] = LenAdded(g[n], t)
  BY <1>3, <1>8, <1>2
<1>10. f[n] \in Nat
  BY <1>1, <1>2
<1> QED BY <1>1, <1>2, <1>3, <1>7, <1>9, <1>10 DEF u

(* A context of no texts is empty. *)
LEMMA ContextLenNone == ContextLen(<<>>) = 0
<1>1. <<>> \in Seq(Text) /\ Len(<<>>) = 0
  OBVIOUS
<1> QED BY <1>1, ContextLenSteps

(* What the loop has collected, and what it counts. *)
Counted(acc, budget) ==
  /\ acc.texts = <<>> => acc.used = 0
  /\ acc.texts # <<>> =>
       /\ ContextLen(acc.texts) > 0
       /\ ContextLen(acc.texts) = acc.used + Len(acc.texts) - 2
       /\ acc.used <= budget
  /\ \A i \in 1..Len(acc.texts) : acc.texts[i] # <<>>

(* A round keeps count. *)
LEMMA IncludeCounted ==
  ASSUME NEW acc \in Acc, NEW text \in Text, text # <<>>, NEW budget \in Nat, Counted(acc, budget)
  PROVE  Counted(Include(acc, text, budget), budget)
<1> DEFINE new == Include(acc, text, budget)
<1>1. acc.texts \in Seq(Text) /\ acc.used \in Nat /\ SourceLine \in Nat /\ SourceLine > 0
  BY SourceLineAssumption DEF Acc
<1>2. CASE new = [acc EXCEPT !.full = TRUE]
  <2>1. new.texts = acc.texts /\ new.used = acc.used
    <3> HIDE DEF new
    <3> QED BY <1>2 DEF Acc
  <2> HIDE DEF new
  <2>2. Counted(new, budget)
    BY <2>1 DEF Counted
  <2> QED BY <2>2 DEF new
<1>3. ASSUME NEW part \in Text, part # <<>>,
             acc.used + (SourceLine + 2) + Len(part) <= budget,
             new = [texts |-> Append(acc.texts, part),
                    used  |-> acc.used + (SourceLine + 2) + Len(part),
                    full  |-> acc.used + (SourceLine + 2) + Len(part) >= budget]
      PROVE  Counted(new, budget)
  <2> DEFINE u == acc.used + (SourceLine + 2) + Len(part)
             texts == acc.texts
             t == Append(texts, part)
             n == Len(texts)
  <2>1. Len(part) \in Nat /\ u \in Nat /\ u <= budget /\ u = acc.used + (SourceLine + 2) + Len(part)
    <3>1. Len(part) \in Nat
      BY TextFacts
    <3> QED BY <3>1, <1>1, <1>3
  <2>2. new.texts = t /\ new.used = u
    <3> HIDE DEF new
    <3> QED BY <1>3
  <2>3. /\ t \in Seq(Text) /\ Len(t) = n + 1 /\ n \in Nat
        /\ t[n + 1] = part /\ \A i \in 1..n : t[i] = texts[i]
    BY <1>1
  <2>4. ContextLen(t) = LenAdded(ContextLen(texts), part) /\ ContextLen(texts) \in Nat
    BY <1>1, ContextLenAppend
  <2>5. texts = <<>> <=> n = 0
    BY <1>1
  <2>6. texts \in Seq(Text)
    BY <1>1
  <2> HIDE DEF texts, t, n, u
  <2>7. ContextLen(t) > 0 /\ ContextLen(t) = u + (n + 1) - 2
    <3>1. CASE texts = <<>>
      <4>1. ContextLen(texts) = 0 /\ acc.used = 0
        BY <3>1, ContextLenNone DEF Counted, texts
      <4> QED BY <4>1, <3>1, <1>1, <2>1, <2>3, <2>4, <2>5 DEF LenAdded
    <3>2. CASE texts # <<>>
      <4>1. ContextLen(texts) > 0 /\ ContextLen(texts) = acc.used + n - 2
        BY <3>2 DEF Counted, texts, n
      <4>2. ContextLen(t) = ContextLen(texts) + 2 + SourceLine + 1 + Len(part)
        <5> DEFINE was == ContextLen(texts)
        <5>1. was \in Nat /\ was > 0 /\ ContextLen(t) = LenAdded(was, part)
          BY <4>1, <2>4
        <5> HIDE DEF was
        <5>2. LenAdded(was, part) = was + 2 + SourceLine + 1 + Len(part)
          BY <5>1 DEF LenAdded
        <5> QED BY <5>1, <5>2 DEF was
      <4> DEFINE was == ContextLen(texts)
                 is  == ContextLen(t)
      <4>3. was > 0 /\ was = acc.used + n - 2 /\ is = was + 2 + SourceLine + 1 + Len(part) /\ was \in Nat
        BY <4>1, <4>2, <2>4
      <4> HIDE DEF was, is
      <4>4. is > 0 /\ is = u + (n + 1) - 2
        <5> DEFINE used == acc.used
                   len  == Len(part)
        <5>1. /\ was > 0 /\ was = used + n - 2 /\ is = was + 2 + SourceLine + 1 + len /\ was \in Nat
              /\ u = used + (SourceLine + 2) + len /\ used \in Nat /\ len \in Nat /\ n \in Nat
              /\ SourceLine \in Nat
          BY <4>3, <1>1, <2>1, <2>3
        <5> HIDE DEF used, len
        <5> QED BY ONLY <5>1
      <4> QED BY <4>4 DEF is
    <3> QED BY <3>1, <3>2
  <2>8. ASSUME NEW i \in 1..(n + 1) PROVE t[i] # <<>>
    <3>1. CASE i = n + 1
      BY <3>1, <2>3, <1>3
    <3>2. CASE i # n + 1
      <4>1. i \in 1..n
        BY <3>2, <2>3
      <4>2. texts[i] # <<>>
        BY <4>1 DEF Counted, texts, n
      <4> QED BY <4>1, <4>2, <2>3
    <3> QED BY <3>1, <3>2
  <2>9. t # <<>>
    <3>1. Len(t) # 0
      BY <2>3
    <3> QED BY <3>1, NoText
  <2> HIDE DEF new
  <2> QED BY <2>1, <2>2, <2>3, <2>7, <2>8, <2>9 DEF Counted
<1> QED
  <2>1. \/ new = [acc EXCEPT !.full = TRUE]
        \/ \E part \in Text :
             /\ part # <<>>
             /\ acc.used + (SourceLine + 2) + Len(part) <= budget
             /\ new = [texts |-> Append(acc.texts, part),
                       used  |-> acc.used + (SourceLine + 2) + Len(part),
                       full  |-> acc.used + (SourceLine + 2) + Len(part) >= budget]
    BY IncludeCases
  <2>2. ASSUME new = [acc EXCEPT !.full = TRUE] PROVE Counted(new, budget)
    BY <2>2, <1>2
  <2>3. ASSUME NEW part \in Text, part # <<>>,
               acc.used + (SourceLine + 2) + Len(part) <= budget,
               new = [texts |-> Append(acc.texts, part),
                      used  |-> acc.used + (SourceLine + 2) + Len(part),
                      full  |-> acc.used + (SourceLine + 2) + Len(part) >= budget]
        PROVE  Counted(new, budget)
    <3> HIDE DEF new
    <3> QED BY ONLY <2>3, <1>3, Zenon
  <2>4. Counted(new, budget)
    <3> HIDE DEF new
    <3> QED BY ONLY <2>1, <2>2, <2>3, Zenon
  <2> QED BY <2>4

(* limit_context_chunks keeps to the budget. *)
LEMMA LimitContextBound ==
  ASSUME NEW texts \in Seq(Text), \A i \in 1..Len(texts) : texts[i] # <<>>, NEW budget \in Nat
  PROVE  LET kept == LimitContext(texts, budget)
         IN /\ kept \in Seq(Text)
            /\ ContextLen(kept) <= budget + Max({0, Len(kept) - 2})
            /\ \A i \in 1..Len(kept) : kept[i] # <<>>
<1> DEFINE n == Len(texts)
<1>1. PICK f \in [0..n -> Acc] :
           /\ f[0] = [texts |-> <<>>, used |-> 0, full |-> budget = 0]
           /\ \A k \in 1..n : f[k] = Include(f[k - 1], texts[k], budget)
           /\ LimitContext(texts, budget) = f[n].texts
  BY LimitContextSteps
<1>2. n \in Nat /\ \A k \in 1..n : texts[k] \in Text /\ texts[k] # <<>>
  OBVIOUS
<1> HIDE DEF n
<1> DEFINE S == {k \in Nat : k <= n => Counted(f[k], budget)}
<1>3. 0 \in S
  <2>1. f[0].texts = <<>> /\ f[0].used = 0
    BY <1>1
  <2>2. Counted(f[0], budget)
    BY <2>1, NoText DEF Counted
  <2> QED BY <2>2
<1>4. ASSUME NEW k \in Nat, k \in S PROVE k + 1 \in S
  <2> SUFFICES ASSUME k + 1 <= n PROVE Counted(f[k + 1], budget)
    OBVIOUS
  <2>1. k + 1 \in 1..n /\ (k + 1) - 1 = k /\ k \in 0..n /\ Counted(f[k], budget)
    BY <1>2, <1>4
  <2>2. f[k + 1] = Include(f[k], texts[k + 1], budget) /\ f[k] \in Acc
    BY <2>1, <1>1
  <2>3. texts[k + 1] \in Text /\ texts[k + 1] # <<>>
    BY <2>1, <1>2
  <2>4. Counted(Include(f[k], texts[k + 1], budget), budget)
    BY <2>1, <2>2, <2>3, IncludeCounted
  <2> QED BY ONLY <2>2, <2>4, Zenon
<1> HIDE DEF S
<1>5. n \in S
  BY <1>2, <1>3, <1>4, Induction
<1> DEFINE acc  == f[n]
           kept == acc.texts
<1>6. Counted(acc, budget) /\ acc \in Acc
  BY <1>1, <1>5, <1>2 DEF S
<1> HIDE DEF acc
<1>7. kept \in Seq(Text) /\ Len(kept) \in Nat /\ (kept = <<>> <=> Len(kept) = 0) /\ acc.used \in Nat
  <2>1. kept \in Seq(Text) /\ acc.used \in Nat
    BY <1>6 DEF Acc
  <2> QED BY <2>1
<1>8. \A i \in 1..Len(kept) : kept[i] # <<>>
  BY <1>6 DEF Counted
<1>9. ContextLen(kept) <= budget + Max({0, Len(kept) - 2})
  <2> DEFINE c == Len(kept)
  <2>1. Max({0, c - 2}) = IF 0 >= c - 2 THEN 0 ELSE c - 2
    <3>1. 0 \in Int /\ c - 2 \in Int
      BY <1>7
    <3> QED BY <3>1, MaxOfTwo
  <2>2. CASE kept = <<>>
    <3>1. ContextLen(kept) = 0 /\ Max({0, c - 2}) = 0
      BY <2>1, <2>2, <1>7, ContextLenNone
    <3> QED BY <3>1
  <2>3. CASE kept # <<>>
    <3>1. ContextLen(kept) = acc.used + c - 2 /\ acc.used <= budget
      BY <2>3, <1>6 DEF Counted
    <3> HIDE DEF kept, c
    <3>2. c \in Nat /\ acc.used \in Nat
      BY <1>7 DEF c
    <3>3. c - 2 <= Max({0, c - 2})
      BY <2>1, <3>2
    <3> DEFINE most == Max({0, c - 2})
    <3>4. most \in Nat /\ c - 2 <= most
      BY <2>1, <3>2
    <3> HIDE DEF most
    <3> QED BY <3>1, <3>2, <3>4 DEF most, c
  <2> QED BY <2>2, <2>3
<1>10. LimitContext(texts, budget) = kept
  BY <1>1 DEF acc
<1> HIDE DEF kept
<1> QED BY <1>7, <1>8, <1>9, <1>10

-----------------------------------------------------------------------------
(***************************************************************************)
(* The chunks of a document.                                               *)
(***************************************************************************)
CutOf(d, content, opts) ==
  LET texts == IF CannotChunk(content, opts) THEN <<>> ELSE ChunkDocument(content, opts)
  IN [i \in DOMAIN texts |-> [doc |-> d, index |-> i, text |-> texts[i]]]

(* What ChunksCoverText says of one document. *)
Covers(list, content, opts) ==
  LET n(i)     == Letters(list[i].text)
      first(i) == n(i)[1]
      last(i)  == Last(n(i))
      count    == Len(list)
  IN /\ \A i \in 1..count :
          /\ ~Blank(list[i].text)
          /\ Len(list[i].text) <= opts.max
          /\ n(i) = [k \in 1..Len(n(i)) |-> first(i) + k - 1]
          /\ i > 1 => first(i) - last(i - 1) \in (1 - opts.overlap)..1 /\ last(i) > last(i - 1)
     /\ first(1) = 1 /\ last(count) = Len(Letters(content))

(* The first and the last letter of a chunk. *)
LEMMA RunLetters ==
  ASSUME NEW t \in Text, NEW a, NEW b, Run(t, a, b), a < b
  PROVE  LET n == Letters(t)
         IN /\ ~Blank(t)
            /\ n[1] = a + 1 /\ Last(n) = b
            /\ n = [k \in 1..Len(n) |-> n[1] + k - 1]
<1> DEFINE n == Letters(t)
           len == Len(n)
<1>1. n \in Seq(Int) /\ (n = <<>> <=> Blank(t))
  BY LettersType DEF Text
<1>2. /\ a \in Nat /\ b \in Nat /\ len = b - a
      /\ \A j \in 1..(b - a) : n[j] = a + j
  BY DEF Run
<1> HIDE DEF n
<1>3. len \in Nat /\ len >= 1 /\ 1 \in 1..(b - a) /\ len \in 1..(b - a) /\ a + len = b
  BY <1>2
<1>4. n[1] = a + 1
  BY <1>2, <1>3
<1>5. n[len] = b
  <2> HIDE DEF len
  <2> QED BY <1>2, <1>3
<1>6. ~Blank(t)
  <2>1. n # <<>>
    BY <1>3, NoText
  <2> QED BY <2>1, <1>1
<1>7. n = [k \in 1..len |-> n[1] + k - 1]
  <2> DEFINE first == n[1]
             m == [k \in 1..len |-> first + k - 1]
  <2>0. first = a + 1 /\ n \in [1..len -> Int] /\ DOMAIN n = 1..len
    BY <1>1, <1>4
  <2> HIDE DEF first, len
  <2>1. \A k \in 1..len : n[k] = first + k - 1
    BY <2>0, <1>2, <1>3
  <2>2. n = m
    BY <2>0, <2>1
  <2> QED BY <2>2 DEF first, len
<1> QED BY <1>4, <1>5, <1>6, <1>7 DEF n, Last

(* chunk_document: chunks with their indexes, that cover the content. *)
LEMMA DocumentChunks ==
  ASSUME NEW d \in Docs, NEW content \in Contents[d], NEW opts \in Options
  PROVE  LET list == CutOf(d, content, opts)
         IN /\ list \in Seq(Chunk)
            /\ \A i \in 1..Len(list) : list[i].doc = d /\ list[i].index = i
            /\ ~CannotChunk(content, opts) => Covers(list, content, opts)
<1> DEFINE list == CutOf(d, content, opts)
           max     == opts.max
           overlap == opts.overlap
<1>1. /\ content \in Text /\ opts.max \in Nat /\ opts.overlap \in Nat
      /\ Letters(content) = [k \in 1..Len(Letters(content)) |-> k]
  <2>1. opts \in [max : Nat, overlap : Nat, top_k : Nat, budget : Nat]
    BY KnowledgeAssumption
  <2>2. content \in Seq(Int) /\ Letters(content) = [k \in 1..Len(Letters(content)) |-> k]
    BY KnowledgeAssumption
  <2> QED BY <2>1, <2>2 DEF Text
<1>2. CASE CannotChunk(content, opts)
  <2>1. list = <<>>
    <3>1. list = [i \in DOMAIN <<>> |-> [doc |-> d, index |-> i, text |-> <<>>[i]]]
      BY <1>2 DEF CutOf
    <3>2. DOMAIN <<>> = {}
      OBVIOUS
    <3> HIDE DEF list
    <3> QED BY <3>1, <3>2
  <2> HIDE DEF list
  <2>2. list \in Seq(Chunk) /\ Len(list) = 0
    BY <2>1
  <2> QED BY <2>2, <1>2 DEF list
<1>3. CASE ~CannotChunk(content, opts)
  <2> DEFINE pieces == Pieces(content, opts.max)
             texts  == Overlapped(pieces, opts)
             n      == Len(pieces)
  <2>1. opts.max \in Nat \ {0} /\ ~Blank(content)
    BY <1>1, <1>3 DEF CannotChunk
  <2>2. /\ pieces \in Seq(Text)
        /\ LettersOf(pieces) = Letters(content)
        /\ Fit(pieces, opts.max)
    BY <1>1, <2>1, PiecesLetters
  <2> HIDE DEF pieces
  <2>3. LettersOf(pieces) = [k \in 1..Len(LettersOf(pieces)) |-> k]
    BY <2>2, <1>1
  <2>4. PICK e \in [0..n -> Nat] :
           /\ e[0] = 0 /\ e[n] = Len(Letters(content))
           /\ \A k \in 1..n : Run(pieces[k], e[k - 1], e[k])
    <3>1. \E e \in [0..Len(pieces) -> Nat] :
            /\ e[0] = 0 /\ e[Len(pieces)] = Len(LettersOf(pieces))
            /\ \A k \in 1..Len(pieces) : Run(pieces[k], e[k - 1], e[k])
      BY <2>2, <2>3, PieceRuns
    <3> QED BY <3>1, <2>2
  <2>5. /\ texts \in Seq(Text) /\ Len(texts) = n
        /\ \A i \in 1..n :
             /\ Len(texts[i]) <= opts.max
             /\ e[i - 1] < e[i]
             /\ \E x \in Nat : Run(texts[i], x, e[i]) /\ x <= e[i - 1] /\ e[i - 1] - opts.overlap <= x
    BY <1>1, <2>2, <2>4, ChunkRuns
  <2>6. n \in Nat /\ n >= 1
    <3>1. n \in Nat
      BY <2>2
    <3>2. Letters(content) # <<>> /\ Letters(content) \in Seq(Int)
      BY <1>1, <2>1, LettersType DEF Text
    <3>3. Len(Letters(content)) # 0
      BY <3>2
    <3>4. n # 0
      BY <2>4, <3>3
    <3> QED BY <3>1, <3>4
  <2>7. /\ DOMAIN texts = 1..n
        /\ list = [i \in 1..n |-> [doc |-> d, index |-> i, text |-> texts[i]]]
    <3>1. DOMAIN texts = 1..n
      BY <2>5
    <3>2. list = [i \in DOMAIN texts |-> [doc |-> d, index |-> i, text |-> texts[i]]]
      BY <1>3 DEF CutOf, ChunkDocument, pieces
    <3> HIDE DEF list, texts, n
    <3> QED BY <3>1, <3>2
  <2> HIDE DEF list, texts, n
  <2>8. ASSUME NEW i \in 1..n
        PROVE  LET l == Letters(texts[i])
               IN /\ texts[i] \in Text
                  /\ ~Blank(texts[i])
                  /\ l[1] \in Nat /\ l[1] >= 1 /\ l[1] - 1 <= e[i - 1] /\ e[i - 1] - opts.overlap <= l[1] - 1
                  /\ Last(l) = e[i]
                  /\ l = [k \in 1..Len(l) |-> l[1] + k - 1]
    <3>1. PICK x \in Nat : Run(texts[i], x, e[i]) /\ x <= e[i - 1] /\ e[i - 1] - opts.overlap <= x
      BY <2>5
    <3>2. e[i - 1] < e[i] /\ e[i - 1] \in Nat /\ e[i] \in Nat /\ texts[i] \in Text
      BY <2>4, <2>5, <2>6
    <3>3. x < e[i]
      BY <3>1, <3>2
    <3> DEFINE l == Letters(texts[i])
    <3>4. /\ ~Blank(texts[i])
          /\ l[1] = x + 1 /\ Last(l) = e[i]
          /\ l = [k \in 1..Len(l) |-> l[1] + k - 1]
      BY <3>1, <3>2, <3>3, RunLetters
    <3> HIDE DEF l
    <3>5. l[1] - 1 = x /\ l[1] \in Nat /\ l[1] >= 1
      BY <3>4
    <3> QED BY <3>1, <3>2, <3>4, <3>5 DEF l
  <2>9. ASSUME NEW i \in 1..n
        PROVE  list[i] \in Chunk /\ list[i].doc = d /\ list[i].index = i /\ list[i].text = texts[i]
    <3>1. texts[i] \in Seq(Int) \ {<<>>} /\ i \in Nat
      <4>1. texts[i] \in Seq(Int) /\ ~Blank(texts[i])
        BY <2>8 DEF Text
      <4>2. Blank(<<>>)
        BY DEF Blank
      <4> QED BY <4>1, <4>2
    <3> QED BY <3>1, <2>7 DEF Chunk
  <2>10. list \in Seq(Chunk) /\ Len(list) = n
    <3>1. list \in [1..n -> Chunk]
      BY <2>7, <2>9
    <3> QED BY <3>1, <2>6
  <2>11. Covers(list, content, opts)
    <3> DEFINE l(i) == Letters(list[i].text)
    <3>1. ASSUME NEW i \in 1..n
          PROVE  /\ ~Blank(list[i].text)
                 /\ Len(list[i].text) <= opts.max
                 /\ l(i)[1] \in Nat /\ l(i)[1] >= 1 /\ l(i)[1] - 1 <= e[i - 1] /\ e[i - 1] - opts.overlap <= l(i)[1] - 1
                 /\ Last(l(i)) = e[i] /\ e[i - 1] < e[i] /\ e[i] \in Nat /\ e[i - 1] \in Nat
                 /\ l(i) = [k \in 1..Len(l(i)) |-> l(i)[1] + k - 1]
      <4>1. list[i].text = texts[i] /\ e[i] \in Nat /\ e[i - 1] \in Nat
        BY <2>4, <2>6, <2>9
      <4> QED BY <4>1, <2>5, <2>8
    <3> DEFINE first(i) == l(i)[1]
               last(i)  == Last(l(i))
    <3>2. ASSUME NEW i \in 1..n, i > 1
          PROVE  first(i) - last(i - 1) \in (1 - opts.overlap)..1 /\ last(i) > last(i - 1)
      <4>1. i - 1 \in 1..n
        BY <3>2, <2>6
      <4>2. last(i - 1) = e[i - 1]
        BY <4>1, <3>1
      <4>3. /\ first(i) \in Nat /\ first(i) >= 1 /\ first(i) - 1 <= e[i - 1] /\ e[i - 1] - opts.overlap <= first(i) - 1
            /\ last(i) = e[i] /\ e[i - 1] < e[i] /\ e[i - 1] \in Nat /\ e[i] \in Nat
        BY <3>1
      <4> DEFINE f == first(i) - 1
                 p == e[i - 1]
      <4>5. f \in Nat /\ f <= p /\ p - opts.overlap <= f /\ p \in Nat
        BY <4>3
      <4> HIDE DEF f, p
      <4>6. (f + 1) - p \in (1 - opts.overlap)..1
        BY <4>5, <1>1
      <4>7. first(i) - last(i - 1) = (f + 1) - p
        <5> DEFINE g == first(i)
        <5>1. g \in Nat /\ f = g - 1
          BY <4>3 DEF f
        <5> HIDE DEF g
        <5>2. (f + 1) - p = g - p
          BY <5>1, <4>5
        <5> QED BY <5>2, <4>2 DEF g, p
      <4> QED BY <4>2, <4>3, <4>6, <4>7
    <3>3. first(1) = 1 /\ last(n) = Len(Letters(content))
      <4>1. 1 \in 1..n /\ n \in 1..n /\ 1 - 1 = 0
        BY <2>6
      <4>2. last(n) = e[n]
        BY <4>1, <3>1
      <4>3. first(1) \in Nat /\ first(1) >= 1 /\ first(1) - 1 <= e[1 - 1]
        BY <4>1, <3>1
      <4> DEFINE g == first(1)
      <4>4. g \in Nat /\ g >= 1 /\ g - 1 <= 0
        BY <4>1, <4>3, <2>4
      <4> HIDE DEF g
      <4>5. g = 1
        BY <4>4
      <4> QED BY <4>2, <4>5, <2>4 DEF g
    <3> QED BY <3>1, <3>2, <3>3, <2>10 DEF Covers
  <2>12. /\ list \in Seq(Chunk)
         /\ \A i \in 1..Len(list) : list[i].doc = d /\ list[i].index = i
         /\ Covers(list, content, opts)
    BY <2>9, <2>10, <2>11
  <2> QED BY <2>12 DEF list
<1> QED BY <1>2, <1>3

-----------------------------------------------------------------------------
(***************************************************************************)
(* The invariant.  Its parts: what the documents are cut into; what a task *)
(* holds, which is chunks of whole documents; what the retriever stores;   *)
(* what a question was given.                                              *)
(***************************************************************************)
Cuts ==
  /\ options \in Options
  /\ CutsType(cut)
  /\ \A d \in Docs : ~CannotChunk(contents[d], options) => Covers(cut[d], contents[d], options)
  /\ \A d \in documents : d \in Docs /\ ~CannotChunk(contents[d], options)

Held ==
  /\ chunks \subseteq Docs /\ IsFiniteSet(chunks)
  /\ DOMAIN batch = Tasks /\ \A t \in Tasks : AllOrNone(cut, batch[t])
  /\ DOMAIN snapshot = Tasks /\ \A t \in Tasks : snapshot[t] \in Seq(Chunk)

Stored ==
  /\ entries \in Seq(Chunk) /\ ToSet(entries) \subseteq latest
  /\ ~repeated => /\ Ascending(entries) /\ AllOrNone(cut, entries)
                  /\ latest \subseteq ToSet(entries)

Bounded(texts, budget) ==
  /\ texts \in Seq(Text)
  /\ ContextLen(texts) <= budget + Max({0, Len(texts) - 2})
  /\ \A i \in 1..Len(texts) : texts[i] # <<>>

Answered == context # None => Bounded(context, options.budget)

KnowledgeInv == Cuts /\ Held /\ Stored /\ Answered

(* The chunks of one document. *)
LEMMA OneDocument ==
  ASSUME NEW cuts, CutsType(cuts), NEW d \in Docs
  PROVE  AllOrNone(cuts, cuts[d])
<1>1. AllOrNone(cuts, <<>>) /\ OfDoc(<<>>, d) = {}
  BY NoList DEF OfDoc, ToSet
<1>2. AllOrNone(cuts, <<>> \o cuts[d])
  BY <1>1, Joined
<1>3. cuts[d] \in Seq(Chunk)
  BY CutFacts
<1>4. <<>> \o cuts[d] = cuts[d]
  <2> DEFINE list == cuts[d]
  <2>1. list \in Seq(Chunk)
    BY <1>3
  <2> HIDE DEF list
  <2>2. <<>> \o list = list
    BY <2>1, ConcatEmptySeq
  <2> QED BY <2>2 DEF list
<1> QED BY <1>2, <1>4

(* An empty context keeps to every budget. *)
LEMMA NoneBounded ==
  ASSUME NEW budget \in Nat
  PROVE  Bounded(<<>>, budget)
<1>1. Max({0, -2}) = 0
  <2>1. 0 \in Int /\ -2 \in Int /\ 0 >= -2
    OBVIOUS
  <2> QED BY <2>1, MaxOfTwo
<1>2. <<>> \in Seq(Text) /\ Len(<<>>) = 0 /\ 0 - 2 = -2
  OBVIOUS
<1>3. ContextLen(<<>>) <= budget + 0
  BY ContextLenNone
<1> QED BY <1>1, <1>2, <1>3 DEF Bounded

(* The options are numbers. *)
LEMMA OptionsType ==
  ASSUME NEW opts \in Options
  PROVE  opts.max \in Nat /\ opts.overlap \in Nat /\ opts.top_k \in Nat /\ opts.budget \in Nat
<1>1. opts \in [max : Nat, overlap : Nat, top_k : Nat, budget : Nat]
  BY KnowledgeAssumption
<1> QED BY <1>1

(* The texts of the chunks that are ranked. *)
LEMMA RankedTexts ==
  ASSUME NEW list \in Seq(Chunk), options \in Options, NEW p \in Rankings(Len(list))
  PROVE  LET texts == Texts([i \in DOMAIN p |-> list[p[i]]])
         IN texts \in Seq(Text) /\ \A i \in 1..Len(texts) : texts[i] # <<>>
<1> DEFINE n == Len(list)
           m == Min({options.top_k, n})
           ranked == [i \in DOMAIN p |-> list[p[i]]]
           texts == Texts(ranked)
<1>1. n \in Nat /\ options.top_k \in Nat /\ \A i \in 1..n : list[i] \in Chunk
  BY OptionsType
<1>2. m \in Nat /\ p \in [1..m -> 1..n]
  <2>1. p \in [1..m -> 1..n]
    BY DEF Rankings
  <2> HIDE DEF n
  <2>2. m = IF options.top_k <= n THEN options.top_k ELSE n
    BY <1>1, MinOfTwo
  <2>3. m \in Nat
    BY <1>1, <2>2
  <2> QED BY <2>1, <2>3
<1> HIDE DEF n, m
<1>3. ranked \in [1..m -> Chunk]
  BY <1>1, <1>2
<1> HIDE DEF ranked
<1>4. texts = [i \in 1..m |-> ranked[i].text]
  BY <1>3 DEF Texts
<1>5. \A i \in 1..m : ranked[i].text \in Text /\ ranked[i].text # <<>>
  BY <1>3 DEF Chunk, Text
<1> HIDE DEF texts
<1>6. texts \in [1..m -> Text] /\ \A i \in 1..m : texts[i] # <<>>
  BY <1>4, <1>5
<1>7. texts \in Seq(Text) /\ Len(texts) = m
  BY <1>2, <1>6
<1> QED BY <1>6, <1>7 DEF texts, ranked

(* The invariant holds initially. *)
LEMMA KnowledgeInit == Init => KnowledgeInv
<1> SUFFICES ASSUME Init PROVE KnowledgeInv
  OBVIOUS
<1>1. options \in Options
  BY DEF Init
<1>2. ASSUME NEW d \in Docs
      PROVE  /\ cut[d] \in Seq(Chunk)
             /\ \A i \in 1..Len(cut[d]) : cut[d][i].doc = d /\ cut[d][i].index = i
             /\ ~CannotChunk(contents[d], options) => Covers(cut[d], contents[d], options)
  <2>1. cut[d] = CutOf(d, contents[d], options)
    BY DEF Init, ChunksOf, CutOf
  <2>2. contents[d] \in Contents[d]
    BY DEF Init
  <2> QED BY <2>1, <2>2, <1>1, DocumentChunks
<1>3. Cuts
  BY <1>1, <1>2 DEF Cuts, CutsType, Init
<1>4. Held
  <2>1. chunks = {} /\ batch = [t \in Tasks |-> <<>>] /\ snapshot = [t \in Tasks |-> <<>>]
    BY DEF Init
  <2>2. IsFiniteSet({})
    BY FS_EmptySet
  <2> QED BY <2>1, <2>2, NoList DEF Held
<1>5. Stored
  <2>1. entries = <<>> /\ latest = {}
    BY DEF Init
  <2>2. ToSet(<<>>) = {}
    BY DEF ToSet
  <2> QED BY <2>1, <2>2, NoList DEF Stored, Ascending
<1>6. Answered
  BY DEF Init, Answered
<1> QED BY <1>3, <1>4, <1>5, <1>6 DEF KnowledgeInv

(* Every step preserves the invariant. *)
LEMMA KnowledgeStep == KnowledgeInv /\ [Next]_vars => KnowledgeInv'
<1> SUFFICES ASSUME Cuts, Held, Stored, Answered, [Next]_vars
             PROVE  Cuts' /\ Held' /\ Stored' /\ Answered'
  BY DEF KnowledgeInv
<1>0. CutsType(cut) /\ options \in Options
  BY DEF Cuts
<1>1. ASSUME NEW t \in Tasks, NEW d \in Docs, AddDocument(t, d)
      PROVE  Cuts' /\ Held' /\ Stored' /\ Answered'
  <2>1. Cuts'
    BY <1>1 DEF AddDocument, Cuts, index
  <2>2. Held'
    <3>1. chunks' \subseteq Docs /\ IsFiniteSet(chunks')
      <4>1. chunks' = chunks \cup {d}
        BY <1>1 DEF AddDocument
      <4>2. IsFiniteSet(chunks \cup {d})
        BY FS_AddElement DEF Held
      <4> QED BY <4>1, <4>2 DEF Held
    <3>2. AllOrNone(cut, cut[d])
      BY <1>0, OneDocument
    <3>3. DOMAIN batch' = Tasks /\ \A u \in Tasks : AllOrNone(cut, batch'[u])
      BY <1>1, <3>2 DEF AddDocument, Gives, Held
    <3> QED BY <1>1, <3>1, <3>3 DEF AddDocument, Held, index
  <2>3. Stored' /\ Answered'
    BY <1>1 DEF AddDocument, Stored, Answered, index
  <2> QED BY <2>1, <2>2, <2>3
<1>2. ASSUME NEW t \in Tasks, NEW d \in Docs, RemoveDocument(t, d)
      PROVE  Cuts' /\ Held' /\ Stored' /\ Answered'
  BY <1>2 DEF RemoveDocument, Cuts, Held, Stored, Answered, index
<1>3. ASSUME NEW t \in Tasks, NEW d \in Docs, ChunksForDocument(t, d)
      PROVE  Cuts' /\ Held' /\ Stored' /\ Answered'
  <2>1. Cuts' /\ Stored' /\ Answered'
    BY <1>3 DEF ChunksForDocument, Cuts, Stored, Answered, base, index
  <2> DEFINE list == IF d \in chunks THEN cut[d] ELSE <<>>
  <2>2. AllOrNone(cut, list)
    BY <1>0, OneDocument, NoList
  <2>3. batch' = [batch EXCEPT ![t] = list]
    BY <1>3 DEF ChunksForDocument, Gives
  <2> HIDE DEF list
  <2>4. DOMAIN batch' = Tasks /\ \A u \in Tasks : AllOrNone(cut, batch'[u])
    BY <2>2, <2>3 DEF Held
  <2>5. Held'
    BY <1>3, <2>4 DEF ChunksForDocument, Held, base
  <2> QED BY <2>1, <2>5
<1>4. ASSUME NEW t \in Tasks, RemoveChunks(t)
      PROVE  Cuts' /\ Held' /\ Stored' /\ Answered'
  <2>1. chunks' \subseteq Docs /\ IsFiniteSet(chunks')
    <3>1. chunks' = chunks \ {removing.doc}
      BY <1>4 DEF RemoveChunks
    <3>2. IsFiniteSet(chunks \ {removing.doc})
      BY FS_RemoveElement DEF Held
    <3> QED BY <3>1, <3>2 DEF Held
  <2>2. Held'
    BY <1>4, <2>1 DEF RemoveChunks, Held, index
  <2> QED BY <1>4, <2>2 DEF RemoveChunks, Cuts, Stored, Answered, index
<1>5. ASSUME NEW t \in Tasks, ChunksForSource(t)
      PROVE  Cuts' /\ Held' /\ Stored' /\ Answered'
  <2>1. Cuts' /\ Stored' /\ Answered'
    BY <1>5 DEF ChunksForSource, Cuts, Stored, Answered, base, index
  <2>2. PICK ids \in [1..Cardinality(chunks) -> chunks] :
           /\ \A i, j \in DOMAIN ids : i < j => ids[i] < ids[j]
           /\ batch' = [batch EXCEPT ![t] = ChunksInOrder(ids)]
    BY <1>5 DEF ChunksForSource, Gives
  <2>3. ids \in Seq(Docs) /\ DOMAIN ids \subseteq Nat
    <3>1. Cardinality(chunks) \in Nat
      BY FS_CardinalityType DEF Held
    <3>2. chunks \subseteq Docs
      BY DEF Held
    <3> QED BY <3>1, <3>2
  <2>4. IsInjective(ids)
    <3>1. ASSUME NEW i \in DOMAIN ids, NEW j \in DOMAIN ids, ids[i] = ids[j] PROVE i = j
      <4>1. ids[i] \in Nat /\ i \in Nat /\ j \in Nat
        <5>1. ids[i] \in Docs /\ Docs \subseteq Nat
          BY KnowledgeAssumption DEF Held
        <5> QED BY <5>1, <2>3
      <4>2. ~(i < j) /\ ~(j < i)
        BY <3>1, <4>1, <2>2
      <4> QED BY <4>1, <4>2
    <3> QED BY <3>1 DEF IsInjective
  <2>5. AllOrNone(cut, ChunksInOrder(ids))
    BY <1>0, <2>3, <2>4, InOrderList
  <2>6. DOMAIN batch' = Tasks /\ \A u \in Tasks : AllOrNone(cut, batch'[u])
    BY <2>2, <2>5 DEF Held
  <2>7. Held'
    BY <1>5, <2>6 DEF ChunksForSource, Held, base
  <2> QED BY <2>1, <2>7
<1>6. ASSUME NEW t \in Tasks, Index(t)
      PROVE  Cuts' /\ Held' /\ Stored' /\ Answered'
  <2>1. Cuts' /\ Held' /\ Answered'
    BY <1>6 DEF Index, Cuts, Held, Answered, base
  <2>2. Stored'
    <3>1. CASE batch[t] = <<>>
      <4>1. entries' = <<>> /\ latest' = {} /\ cut' = cut
        BY <1>6, <3>1 DEF Index, base
      <4> QED BY <4>1, NoList DEF Stored, Ascending, ToSet
    <3>2. CASE batch[t] # <<>>
      BY <1>6, <3>2 DEF Index, Stored, base, index
    <3> QED BY <3>1, <3>2
  <2> QED BY <2>1, <2>2
<1>7. ASSUME NEW t \in Tasks, Indexed(t)
      PROVE  Cuts' /\ Held' /\ Stored' /\ Answered'
  <2>1. Cuts' /\ Answered'
    BY <1>7 DEF Indexed, Cuts, Answered, base
  <2>2. Held'
    <3>1. batch' = [batch EXCEPT ![t] = <<>>]
      BY <1>7 DEF Indexed, Gives
    <3>2. DOMAIN batch' = Tasks /\ \A u \in Tasks : AllOrNone(cut, batch'[u])
      BY <3>1, NoList DEF Held
    <3> QED BY <1>7, <3>2 DEF Indexed, Held, base
  <2>3. Stored'
    <3> DEFINE list == batch[t]
    <3>1. PICK response \in Responses(Len(list)) :
             IF Len(response) = Len(list) /\ \A i \in DOMAIN response : response[i] <= Len(list)
             THEN /\ entries' = Replaced(Sorted([i \in DOMAIN response |-> list[response[i]]]))
                  /\ latest' = ToSet(list) /\ repeated' = ~IsInjective(response)
             ELSE UNCHANGED index
      BY <1>7 DEF Indexed
    <3>2. AllOrNone(cut, list) /\ cut' = cut
      BY <1>7 DEF Indexed, Held, base
    <3>3. CASE Len(response) = Len(list) /\ \A i \in DOMAIN response : response[i] <= Len(list)
      <4> DEFINE new == Sorted([i \in DOMAIN response |-> list[response[i]]])
      <4>1. entries' = new /\ latest' = ToSet(list) /\ (~repeated' => IsInjective(response))
        BY <3>1, <3>3 DEF Replaced
      <4> HIDE DEF list
      <4>2. /\ new \in Seq(Chunk) /\ Ascending(new) /\ ToSet(new) \subseteq ToSet(list)
            /\ IsInjective(response) => AllOrNone(cut, new) /\ ToSet(list) \subseteq ToSet(new)
        BY <3>2, <3>3, AnswerStored
      <4> HIDE DEF new
      <4> QED BY <4>1, <4>2, <3>2 DEF Stored
    <3>4. CASE ~(Len(response) = Len(list) /\ \A i \in DOMAIN response : response[i] <= Len(list))
      <4>1. entries' = entries /\ latest' = latest /\ repeated' = repeated
        <5>1. UNCHANGED index
          BY <3>1, <3>4
        <5> QED BY <5>1 DEF index
      <4> QED BY <4>1, <3>2 DEF Stored
    <3> QED BY <3>3, <3>4
  <2> QED BY <2>1, <2>2, <2>3
<1>8. ASSUME NEW t \in Tasks, Retrieve(t)
      PROVE  Cuts' /\ Held' /\ Stored' /\ Answered'
  <2>1. Cuts' /\ Stored'
    BY <1>8 DEF Retrieve, Cuts, Stored, base, index
  <2>2. CASE options.top_k = 0 \/ entries = <<>>
    <3>1. context' = <<>> /\ snapshot' = snapshot /\ options' = options
      BY <1>8, <2>2 DEF Retrieve, base
    <3>2. Held'
      BY <1>8, <3>1 DEF Retrieve, Held, base
    <3>3. Answered'
      <4>1. Bounded(<<>>, options.budget)
        BY <1>0, OptionsType, NoneBounded
      <4> QED BY <3>1, <4>1 DEF Answered
    <3> QED BY <2>1, <3>2, <3>3
  <2>3. CASE ~(options.top_k = 0 \/ entries = <<>>)
    <3>1. context' = None /\ snapshot' = [snapshot EXCEPT ![t] = entries]
      BY <1>8, <2>3 DEF Retrieve
    <3>2. entries \in Seq(Chunk)
      BY DEF Stored
    <3>3. DOMAIN snapshot' = Tasks /\ \A u \in Tasks : snapshot'[u] \in Seq(Chunk)
      BY <3>1, <3>2 DEF Held
    <3>4. Held'
      BY <1>8, <3>3 DEF Retrieve, Held, base
    <3> QED BY <2>1, <3>1, <3>4 DEF Answered
  <2> QED BY <2>2, <2>3
<1>9. ASSUME NEW t \in Tasks, Retrieved(t)
      PROVE  Cuts' /\ Held' /\ Stored' /\ Answered'
  <2>1. Cuts' /\ Stored'
    BY <1>9 DEF Retrieved, Cuts, Stored, base, index
  <2>2. Held'
    <3>1. snapshot' = [snapshot EXCEPT ![t] = <<>>]
      BY <1>9 DEF Retrieved
    <3>2. <<>> \in Seq(Chunk)
      OBVIOUS
    <3>3. DOMAIN snapshot' = Tasks /\ \A u \in Tasks : snapshot'[u] \in Seq(Chunk)
      BY <3>1, <3>2 DEF Held
    <3> QED BY <1>9, <3>3 DEF Retrieved, Held, base
  <2>3. Answered'
    <3> DEFINE list == snapshot[t]
    <3>1. PICK p \in Rankings(Len(list)) :
             context' = LimitContext(Texts([i \in DOMAIN p |-> list[p[i]]]), options.budget)
      BY <1>9 DEF Retrieved
    <3>2. list \in Seq(Chunk) /\ options' = options
      BY <1>9 DEF Retrieved, Held, base
    <3> HIDE DEF list
    <3> DEFINE texts == Texts([i \in DOMAIN p |-> list[p[i]]])
    <3>3. texts \in Seq(Text) /\ \A i \in 1..Len(texts) : texts[i] # <<>>
      BY <1>0, <3>2, RankedTexts
    <3>4. context' = LimitContext(texts, options.budget)
      BY <3>1
    <3> HIDE DEF texts
    <3>5. options.budget \in Nat
      BY <1>0, OptionsType
    <3>6. Bounded(LimitContext(texts, options.budget), options.budget)
      BY <3>3, <3>5, LimitContextBound DEF Bounded
    <3> QED BY <3>2, <3>4, <3>6 DEF Answered
  <2> QED BY <2>1, <2>2, <2>3
<1>10. ASSUME NEW t \in Tasks, Fails(t)
       PROVE  Cuts' /\ Held' /\ Stored' /\ Answered'
  <2>1. Cuts' /\ Stored' /\ Answered'
    BY <1>10 DEF Fails, Cuts, Stored, Answered, base, index
  <2>2. Held'
    <3>1. snapshot' = [snapshot EXCEPT ![t] = <<>>] /\ batch' = [batch EXCEPT ![t] = <<>>]
      BY <1>10 DEF Fails, Gives
    <3>2. DOMAIN snapshot' = Tasks /\ \A u \in Tasks : snapshot'[u] \in Seq(Chunk)
      <4>1. <<>> \in Seq(Chunk)
        OBVIOUS
      <4> QED BY <3>1, <4>1 DEF Held
    <3>3. DOMAIN batch' = Tasks /\ \A u \in Tasks : AllOrNone(cut, batch'[u])
      BY <3>1, NoList DEF Held
    <3> QED BY <1>10, <3>2, <3>3 DEF Fails, Held, base
  <2> QED BY <2>1, <2>2
<1>11. ASSUME UNCHANGED vars
       PROVE  Cuts' /\ Held' /\ Stored' /\ Answered'
  BY <1>11 DEF vars, Cuts, Held, Stored, Answered
<1> QED
  BY <1>1, <1>2, <1>3, <1>4, <1>5, <1>6, <1>7, <1>8, <1>9, <1>10, <1>11 DEF Next

(* The invariant holds, whatever the documents, the options and the tasks  *)
(* are.                                                                    *)
THEOREM KnowledgeInvariant == Spec => []KnowledgeInv
<1>1. Init => KnowledgeInv
  BY KnowledgeInit
<1>2. KnowledgeInv /\ [Next]_vars => KnowledgeInv'
  BY KnowledgeStep
<1> QED BY <1>1, <1>2, PTL DEF Spec

(* The chunks of a document are its text: no letter of it is left out or   *)
(* moved by the cutting into lines, paragraphs, pieces and chunks, and a   *)
(* chunk starts where the one before it ends or, by at most the overlap,   *)
(* earlier.                                                                *)
THEOREM ChunksAreTheText == Spec => []ChunksCoverText
<1>1. KnowledgeInv => ChunksCoverText
  <2> SUFFICES ASSUME KnowledgeInv, NEW d \in documents
               PROVE  Covers(cut[d], contents[d], options)
    BY DEF ChunksCoverText, Covers
  <2>1. d \in Docs /\ ~CannotChunk(contents[d], options)
    BY DEF KnowledgeInv, Cuts
  <2> QED BY <2>1 DEF KnowledgeInv, Cuts
<1> QED BY <1>1, KnowledgeInvariant, PTL

(* The entries are chunks of the index call answered last, and of no other *)
(* one; unless the embedder named a text twice they are all its chunks,    *)
(* each once and sorted, and all chunks of a document or none.             *)
THEOREM EntriesAreOfOneCall == Spec => []EntriesOfOneCall
<1>1. KnowledgeInv => EntriesOfOneCall
  <2>0. KnowledgeInv => /\ ToSet(entries) \subseteq latest
                        /\ ~repeated => latest \subseteq ToSet(entries)
    BY DEF KnowledgeInv, Stored
  <2> SUFFICES ASSUME KnowledgeInv, ~repeated
               PROVE  /\ \A i, j \in DOMAIN entries :
                           i < j => entries[i] # entries[j] /\ Before(entries[i], entries[j])
                      /\ \A d \in Docs : {c \in ToSet(entries) : c.doc = d} \in {{}, ToSet(cut[d])}
    BY <2>0 DEF EntriesOfOneCall
  <2>1. entries \in Seq(Chunk) /\ Ascending(entries) /\ AllOrNone(cut, entries)
    BY DEF KnowledgeInv, Stored
  <2>2. ASSUME NEW i \in DOMAIN entries, NEW j \in DOMAIN entries, i < j
        PROVE  entries[i] # entries[j] /\ Before(entries[i], entries[j])
    <3>1. i # j
      <4>1. i \in Nat /\ j \in Nat
        BY <2>1
      <4> QED BY <4>1, <2>2
    <3>2. IsInjective(entries)
      BY <2>1 DEF AllOrNone
    <3>3. entries[i] # entries[j]
      BY <3>1, <3>2 DEF IsInjective
    <3>4. Before(entries[i], entries[j])
      BY <2>1, <2>2 DEF Ascending
    <3> QED BY <3>3, <3>4
  <2>3. \A d \in Docs : {c \in ToSet(entries) : c.doc = d} \in {{}, ToSet(cut[d])}
    BY <2>1 DEF AllOrNone, OfDoc
  <2> QED BY <2>2, <2>3
<1> QED BY <1>1, KnowledgeInvariant, PTL

(* The context of a question keeps to the budget, but for one character of *)
(* each chunk after the second, and no chunk of it is empty.               *)
THEOREM ContextKeepsBudget == Spec => []ContextWithinBudget
<1>1. KnowledgeInv => ContextWithinBudget
  <2> SUFFICES ASSUME KnowledgeInv, context # None
               PROVE  /\ ContextLen(context) <= options.budget + Max({0, Len(context) - 2})
                      /\ \A i \in DOMAIN context : context[i] # <<>>
    BY DEF ContextWithinBudget
  <2>1. Bounded(context, options.budget)
    BY DEF KnowledgeInv, Answered
  <2>2. DOMAIN context = 1..Len(context)
    BY <2>1 DEF Bounded
  <2> QED BY <2>1, <2>2 DEF Bounded
<1> QED BY <1>1, KnowledgeInvariant, PTL

=============================================================================
