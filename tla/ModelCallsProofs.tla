-------------------------- MODULE ModelCallsProofs --------------------------
(***************************************************************************)
(* Proofs about what an agent asks of its provider: its tools, for any     *)
(* names, tools and order of configuring and asking, and the streamed      *)
(* answer, for every set of texts and every bound: first what holds        *)
(* whatever the decoder returns, then what the decoder does to a body, in  *)
(* whatever frames it comes.                                               *)
(***************************************************************************)
EXTENDS ModelCalls, SequenceTheorems, WellFoundedInduction, TLAPS

(***************************************************************************)
(* The tools: what runs is what was offered, and only an unchecked path    *)
(* shadows a shared tool.  The invariant ties the last request to the      *)
(* tools the agent has now: they do not change while it asks.              *)
(***************************************************************************)
ToolTables ==
  /\ tools \in [Names -> Impls \cup {None}]
  /\ registry \in [Names -> Impls \cup {None}]
  /\ shared \in [Names -> Impls \cup {None}]

(* While the agent asks, its tools are those of the last request. *)
OfferStands ==
  /\ asking => offered = Tools!Definitions
  /\ ran # None => asking /\ ran.name \in Names

ToolsInv ==
  ToolTables /\ OfferStands /\ Tools!CalledAsOffered /\ Tools!ShadowedOnlyUnchecked

LEMMA ToolsInitially == Tools!Init => ToolsInv
BY DEF Tools!Init, Tools!NoTools, ToolsInv, ToolTables, OfferStands,
       Tools!CalledAsOffered, Tools!ShadowedOnlyUnchecked

(* The application changes the tools between two asks. *)
LEMMA ConfigureKeeps ==
  ASSUME ToolsInv, Tools!Configure
  PROVE  ToolsInv'
<1>1. ~asking /\ ran = None /\ UNCHANGED <<asking, offered, ran>>
  BY DEF Tools!Configure, Tools!RegistryAddTool, Tools!AddTool, Tools!TryAddTool,
         Tools!NewRegistry, Tools!SetToolRegistry, Tools!Ask, ToolsInv, OfferStands
<1>2. OfferStands' /\ Tools!CalledAsOffered'
  BY <1>1 DEF OfferStands, Tools!CalledAsOffered
<1>3. ToolTables' /\ Tools!ShadowedOnlyUnchecked'
  <2>1. ASSUME NEW n \in Names, NEW i \in Impls, Tools!RegistryAddTool(n, i)
        PROVE  ToolTables' /\ Tools!ShadowedOnlyUnchecked'
    BY <2>1 DEF Tools!RegistryAddTool, ToolsInv, ToolTables, Tools!ShadowedOnlyUnchecked
  <2>2. ASSUME NEW n \in Names, NEW i \in Impls, Tools!AddTool(n, i)
        PROVE  ToolTables' /\ Tools!ShadowedOnlyUnchecked'
    BY <2>2 DEF Tools!AddTool, ToolsInv, ToolTables, Tools!ShadowedOnlyUnchecked
  <2>3. ASSUME NEW n \in Names, NEW i \in Impls, Tools!TryAddTool(n, i)
        PROVE  ToolTables' /\ Tools!ShadowedOnlyUnchecked'
    BY <2>3 DEF Tools!TryAddTool, ToolsInv, ToolTables, Tools!ShadowedOnlyUnchecked
  <2>4. ASSUME Tools!NewRegistry
        PROVE  ToolTables' /\ Tools!ShadowedOnlyUnchecked'
    BY <2>4 DEF Tools!NewRegistry, Tools!NoTools, ToolsInv, ToolTables,
                Tools!ShadowedOnlyUnchecked
  <2>5. ASSUME Tools!SetToolRegistry
        PROVE  ToolTables' /\ Tools!ShadowedOnlyUnchecked'
    BY <2>5 DEF Tools!SetToolRegistry, ToolsInv, ToolTables, Tools!ShadowedOnlyUnchecked
  <2> QED BY <2>1, <2>2, <2>3, <2>4, <2>5 DEF Tools!Configure
<1> QED BY <1>2, <1>3 DEF ToolsInv

LEMMA ToolsStep ==
  ASSUME ToolsInv, [Tools!Next]_toolsVars
  PROVE  ToolsInv'
<1>1. CASE Tools!Configure
  BY <1>1, ConfigureKeeps
<1>2. CASE Tools!BuildRequest
  BY <1>2 DEF Tools!BuildRequest, Tools!Definitions, ToolsInv, ToolTables, OfferStands,
              Tools!CalledAsOffered, Tools!ShadowedOnlyUnchecked
<1>3. CASE Tools!AskReturns
  BY <1>3 DEF Tools!AskReturns, ToolsInv, ToolTables, OfferStands,
              Tools!CalledAsOffered, Tools!ShadowedOnlyUnchecked
<1>4. ASSUME NEW n \in Names, Tools!RunToolCall(n)
      PROVE  ToolsInv'
  <2>1. offered[n] = Tools!FindTool(n)
    BY <1>4 DEF Tools!RunToolCall, ToolsInv, OfferStands, Tools!Definitions, Tools!FindTool
  <2>2. /\ ran' = [name |-> n, tool |-> Tools!FindTool(n)] /\ asking
        /\ UNCHANGED <<tools, registry, shared, asking, offered, unchecked>>
    BY <1>4 DEF Tools!RunToolCall
  <2> QED BY <2>1, <2>2 DEF ToolsInv, ToolTables, OfferStands, Tools!Definitions,
             Tools!CalledAsOffered, Tools!ShadowedOnlyUnchecked
<1>5. CASE UNCHANGED toolsVars
  BY <1>5 DEF toolsVars, ToolsInv, ToolTables, OfferStands, Tools!Definitions,
              Tools!CalledAsOffered, Tools!ShadowedOnlyUnchecked
<1> QED BY <1>1, <1>2, <1>3, <1>4, <1>5 DEF Tools!Next

(* With the calls of the provider and the streamed answer around them, the *)
(* tools take no other steps.                                              *)
LEMMA CallsAreToolsSteps == [CallsNext]_callsVars => [Tools!Next]_toolsVars
BY DEF CallsNext, callsVars, Configure, AskModel, OpenStream, EmbedTexts, Answer, TimesOut,
       RunTool, Return, ReadStream, Tools!Next

LEMMA CallsInv == CallsSpec => []ToolsInv
<1>1. CallsInit => ToolsInv
  BY ToolsInitially DEF CallsInit
<1>2. ToolsInv /\ [CallsNext]_callsVars => ToolsInv'
  BY CallsAreToolsSteps, ToolsStep
<1> QED BY <1>1, <1>2, PTL DEF CallsSpec

(* A tool that runs was offered by the last request under the name the     *)
(* model called, and it is the very tool whose definition was offered.     *)
THEOREM RunsAsOffered == CallsSpec => []CalledAsOffered
<1>1. ToolsInv => CalledAsOffered
  BY DEF ToolsInv, CalledAsOffered
<1> QED BY <1>1, CallsInv, PTL

(* A shared tool is shadowed only by a tool added on an unchecked path.    *)
THEOREM CheckedNamesAreFree == CallsSpec => []ShadowedOnlyUnchecked
<1>1. ToolsInv => ShadowedOnlyUnchecked
  BY DEF ToolsInv, ShadowedOnlyUnchecked
<1> QED BY <1>1, CallsInv, PTL

-----------------------------------------------------------------------------
(***************************************************************************)
(* The streamed answer: what holds whatever the decoder returns.           *)
(***************************************************************************)
(* Nobody reads a stream that is read to its end, and the stream is only   *)
(* done when the AgentStream knows: with both, no event left in pending    *)
(* after [DONE] can be taken.                                              *)
ReadInv ==
  /\ Reading => ~read
  /\ done => read
  /\ ReturnedIsRead

(* The stream is opened with nothing read. *)
LEMMA ReadInit == Init => ReadInv
BY DEF Init, ReadInv, Reading, ReturnedIsRead

(* A frame, however it decodes, leaves the answer and both flags alone.    *)
LEMMA FrameReadsNothing ==
  ASSUME Frame
  PROVE  /\ UNCHANGED <<done, read, content>>
         /\ Reading
         /\ \/ UNCHANGED <<at, returned>>
            \/ at' = (IF at = "reading" THEN "idle" ELSE "dropped") /\ UNCHANGED returned
<1>1. UNCHANGED <<done, read, content>> /\ Reading
  BY DEF Frame, Awaiting
<1>2. PICK frame \in Frames :
        IF Push(frame).ok
        THEN pending' = Push(frame).events /\ UNCHANGED <<at, returned, failed>>
        ELSE ReturnsError /\ UNCHANGED pending
  BY DEF Frame
<1>3. CASE Push(frame).ok
  BY <1>1, <1>2, <1>3
<1>4. CASE ~Push(frame).ok
  BY <1>1, <1>2, <1>4 DEF ReturnsError
<1> QED BY <1>3, <1>4

(* Every step keeps ReadInv: the text is returned and kept in one step,    *)
(* and only PopDone and BodyEnds set done, together with read.             *)
LEMMA ReadStep == ReadInv /\ [Next]_vars => ReadInv'
<1> SUFFICES ASSUME ReadInv, [Next]_vars PROVE ReadInv'
  OBVIOUS
<1> USE DEF ReadInv, Reading, ReturnedIsRead
<1>1. CASE NextText \/ Finish \/ CancelNextText \/ Drop
  BY <1>1 DEF NextText, Finish, CancelNextText, Drop, Awaiting
<1>2. CASE Frame
  BY <1>2, FrameReadsNothing
<1>3. CASE Breaks \/ BodyEnds
  BY <1>3 DEF Breaks, BodyEnds, Awaiting, ReturnsError, ReturnsNone
<1>4. ASSUME NEW e \in Texts, PopText(e) PROVE ReadInv'
  BY <1>4 DEF PopText, Pop, ReturnsText
<1>5. CASE PopEmpty \/ PopTool \/ PopDone
  BY <1>5 DEF PopEmpty, PopTool, PopDone, Pop, ReturnsError, ReturnsNone
<1>6. CASE UNCHANGED vars
  BY <1>6 DEF vars
<1> QED BY <1>1, <1>2, <1>3, <1>4, <1>5, <1>6 DEF Next

(* What next_text returned is what finish would save, for every stream and *)
(* after every error.                                                      *)
THEOREM ReadIsKept == Spec => []ReturnedIsRead
<1>1. ReadInv => ReturnedIsRead
  BY DEF ReadInv
<1> QED BY <1>1, ReadInit, ReadStep, PTL DEF Spec

(* From a state that satisfies ReadInv, a step of a stream that is done    *)
(* adds nothing to the answer.                                             *)
LEMMA FusedStep == ReadInv /\ [Next]_vars => [done => done' /\ content' = content]_vars
<1> SUFFICES ASSUME ReadInv, [Next]_vars, done PROVE done' /\ content' = content
  OBVIOUS
<1>0. ~Reading
  BY DEF ReadInv
<1>1. CASE NextText \/ Finish \/ CancelNextText \/ Drop
  BY <1>1 DEF NextText, Finish, CancelNextText, Drop
<1>2. CASE Frame \/ Breaks \/ BodyEnds
  BY <1>0, <1>2 DEF Frame, Breaks, BodyEnds, Awaiting
<1>3. ASSUME NEW e \in Texts, PopText(e) PROVE FALSE
  BY <1>0, <1>3 DEF PopText, Pop
<1>4. CASE PopEmpty \/ PopTool \/ PopDone
  BY <1>0, <1>4 DEF PopEmpty, PopTool, PopDone, Pop
<1>5. CASE UNCHANGED vars
  BY <1>5 DEF vars
<1> QED BY <1>1, <1>2, <1>3, <1>4, <1>5 DEF Next

(* After [DONE] nothing is added, whatever events are left in pending and  *)
(* however often finish and next_text are called.                          *)
THEOREM Fused == Spec => FusedAfterDone
<1> QED BY ReadInit, ReadStep, FusedStep, PTL DEF Spec, FusedAfterDone

(* The calls of the agent take no other step of a stream than its own.     *)
LEMMA CallsAreStreamSteps == [CallsNext]_callsVars => [Next]_vars
BY DEF CallsNext, callsVars, Configure, AskModel, OpenStream, EmbedTexts, Answer, TimesOut,
       RunTool, Return, ReadStream

(* The same for the stream of an agent that configures its tools, asks and *)
(* embeds around it.                                                       *)
THEOREM ReadIsKeptInCalls == CallsSpec => []ReturnedIsRead
<1>1. CallsInit => ReadInv
  BY ReadInit DEF CallsInit
<1>2. ReadInv /\ [CallsNext]_callsVars => ReadInv'
  BY CallsAreStreamSteps, ReadStep
<1>3. ReadInv => ReturnedIsRead
  BY DEF ReadInv
<1> QED BY <1>1, <1>2, <1>3, PTL DEF CallsSpec

-----------------------------------------------------------------------------
(***************************************************************************)
(* What the decoder computes: induction, as a fact about sets, and what is *)
(* kept of a sequence.                                                     *)
(***************************************************************************)

(* Of a set of numbers one is the least. *)
LEMMA LeastNumber ==
  ASSUME NEW T, T \subseteq Nat, T # {}
  PROVE  \E n \in T : \A m \in T : n <= m
<1> DEFINE R == OpToRel(<, Nat)
<1>1. PICK x \in T : \A y \in T : ~ (<<y, x>> \in R)
  BY NatLessThanWellFounded, WFMin
<1>2. \A i, j \in Nat : i < j => <<i, j>> \in R
  BY DEF OpToRel
<1> HIDE DEF R
<1>3. \A y \in T : ~ (y < x)
  BY <1>1, <1>2
<1>4. \A y \in T : x <= y
  BY <1>3
<1> QED BY <1>4

(* Of a bounded set of numbers one is the greatest. *)
LEMMA GreatestNumber ==
  ASSUME NEW n \in Nat, NEW T, T \subseteq 0..n, T # {}
  PROVE  \E m \in T : \A k \in T : k <= m
<1> DEFINE U == {n - x : x \in T}
<1>1. \A x \in T : x \in 0..n
  OBVIOUS
<1>2. \A x \in T : n - x \in Nat
  BY <1>1
<1>3. U \subseteq Nat /\ U # {}
  BY <1>2
<1>4. PICK u \in U : \A v \in U : u <= v
  <2> HIDE DEF U
  <2> QED BY <1>3, LeastNumber
<1>5. PICK m \in T : u = n - m
  OBVIOUS
<1>6. ASSUME NEW k \in T PROVE k <= m
  <2>1. n - m <= n - k
    BY <1>4, <1>5
  <2> QED BY <2>1, <1>1
<1> QED BY <1>6

(* Induction over numbers. *)
LEMMA Induction ==
  ASSUME NEW S, 0 \in S, \A n \in Nat : n \in S => n + 1 \in S
  PROVE  \A n \in Nat : n \in S
<1> SUFFICES ASSUME NEW x \in Nat, x \notin S PROVE FALSE
  OBVIOUS
<1> DEFINE T == {n \in Nat : n \notin S}
<1>1. PICK n \in T : \A m \in T : n <= m
  BY LeastNumber
<1>2. n # 0 /\ n - 1 \in Nat /\ n - 1 \in S
  BY <1>1
<1> QED BY <1>1, <1>2

(* Induction over sequences. *)
LEMMA SequenceInduction ==
  ASSUME NEW T, NEW G, <<>> \in G,
         \A s \in Seq(T), c \in T : s \in G => Append(s, c) \in G
  PROVE  \A s \in Seq(T) : s \in G
<1> DEFINE S == {n \in Nat : \A s \in Seq(T) : Len(s) = n => s \in G}
<1>1. 0 \in S
  <2>1. \A s \in Seq(T) : Len(s) = 0 => s = <<>>
    OBVIOUS
  <2> QED BY <2>1
<1>2. ASSUME NEW n \in Nat, n \in S PROVE n + 1 \in S
  <2> SUFFICES ASSUME NEW s \in Seq(T), Len(s) = n + 1 PROVE s \in G
    OBVIOUS
  <2> DEFINE t == SubSeq(s, 1, n)
  <2>1. t \in Seq(T) /\ Len(t) = n /\ s[n + 1] \in T
    OBVIOUS
  <2>2. s = Append(t, s[n + 1])
    OBVIOUS
  <2>3. t \in G
    BY <1>2, <2>1
  <2> HIDE DEF t
  <2> QED BY <2>1, <2>2, <2>3
<1> HIDE DEF S
<1>3. \A n \in Nat : n \in S
  BY <1>1, <1>2, Induction
<1>4. ASSUME NEW s \in Seq(T) PROVE s \in G
  <2>1. Len(s) \in Nat
    OBVIOUS
  <2>2. Len(s) \in S
    BY <2>1, <1>3
  <2> QED BY <2>2 DEF S
<1> QED BY <1>4

(* The functions that go on by step from a, up to m. *)
Recursive(A, m, a, step) ==
  {f \in [0..m -> A] : f[0] = a /\ \A k \in 1..m : f[k] = step[<<f[k - 1], k>>]}

(* There is one, whatever it computes. *)
LEMMA Recursion ==
  ASSUME NEW A, NEW m \in Nat, NEW a \in A, NEW step \in [A \X (1..m) -> A]
  PROVE  Recursive(A, m, a, step) # {}
<1> DEFINE Good(f, n) == /\ f \in [0..n -> A] /\ f[0] = a
                         /\ \A k \in 1..n : f[k] = step[<<f[k - 1], k>>]
           S == {n \in Nat : n <= m => \E f \in [0..n -> A] : Good(f, n)}
<1>1. 0 \in S
  <2> DEFINE f == [k \in 0..0 |-> a]
  <2>1. Good(f, 0)
    OBVIOUS
  <2> QED BY <2>1
<1>2. ASSUME NEW n \in Nat, n \in S PROVE n + 1 \in S
  <2> SUFFICES ASSUME n + 1 <= m PROVE \E g \in [0..(n + 1) -> A] : Good(g, n + 1)
    OBVIOUS
  <2>1. PICK f \in [0..n -> A] : Good(f, n)
    BY <1>2
  <2> DEFINE g == [k \in 0..(n + 1) |-> IF k = n + 1 THEN step[<<f[n], n + 1>>] ELSE f[k]]
  <2>2. f[n] \in A /\ n + 1 \in 1..m
    BY <2>1
  <2>3. step[<<f[n], n + 1>>] \in A
    BY <2>2
  <2>4. \A k \in 0..(n + 1) : k # n + 1 => k \in 0..n
    OBVIOUS
  <2>5. g \in [0..(n + 1) -> A]
    BY <2>1, <2>3, <2>4
  <2>6. g[0] = a
    BY <2>1
  <2>7. ASSUME NEW k \in 1..(n + 1) PROVE g[k] = step[<<g[k - 1], k>>]
    <3>1. k - 1 \in 0..(n + 1) /\ k - 1 # n + 1 /\ g[k - 1] = f[k - 1]
      OBVIOUS
    <3>2. CASE k = n + 1
      <4>1. k - 1 = n
        BY <3>2
      <4> QED BY <3>1, <3>2, <4>1
    <3>3. CASE k # n + 1
      <4>1. k \in 1..n /\ g[k] = f[k]
        BY <3>3
      <4>2. f[k] = step[<<f[k - 1], k>>]
        BY <4>1, <2>1
      <4> QED BY <3>1, <4>1, <4>2
    <3> QED BY <3>2, <3>3
  <2> HIDE DEF g
  <2> QED BY <2>5, <2>6, <2>7
<1>3. m \in S
  <2> HIDE DEF S
  <2> QED BY <1>1, <1>2, Induction
<1>4. PICK f \in [0..m -> A] : Good(f, m)
  BY <1>3
<1> QED BY <1>4 DEF Recursive

(* One more character is kept or not. *)
Keep(s, c, S) == IF c \in S THEN Append(s, c) ELSE s

(* What is kept of the first k characters, for each k. *)
Keeping(T, S, b) ==
  {f \in [0..Len(b) -> Seq(T)] :
     /\ f[0] = <<>>
     /\ \A k \in 1..Len(b) : f[k] = Keep(f[k - 1], b[k], S)
     /\ Kept(b, S) = f[Len(b)]}

(* Kept computes that. *)
LEMMA KeptSteps ==
  ASSUME NEW T, NEW S, NEW b \in Seq(T)
  PROVE  Keeping(T, S, b) # {}
<1> DEFINE m == Len(b)
           start == <<>>
           step == [x \in Seq(T) \X (1..m) |-> Keep(x[1], b[x[2]], S)]
           Fits(f) == f = [i \in 0..Len(b) |->
              IF i = 0 THEN <<>>
              ELSE IF b[i] \in S THEN Append(f[i - 1], b[i]) ELSE f[i - 1]]
           kept == CHOOSE f : Fits(f)
<1>1. Kept(b, S) = kept[Len(b)]
  BY DEF Kept
<1>2. m \in Nat /\ start \in Seq(T) /\ \A i \in 1..m : b[i] \in T
  OBVIOUS
<1>3. step \in [Seq(T) \X (1..m) -> Seq(T)]
  <2>1. ASSUME NEW x \in Seq(T) \X (1..m) PROVE Keep(x[1], b[x[2]], S) \in Seq(T)
    BY <1>2 DEF Keep
  <2> QED BY <2>1
<1>4. PICK f \in [0..m -> Seq(T)] :
        f[0] = start /\ \A k \in 1..m : f[k] = step[<<f[k - 1], k>>]
  <2> HIDE DEF step, start, m
  <2>1. PICK f \in Recursive(Seq(T), m, start, step) : TRUE
    BY <1>2, <1>3, Recursion
  <2> QED BY <2>1 DEF Recursive
<1>5. ASSUME NEW k \in 0..m, k # 0
      PROVE  f[k] = Keep(f[k - 1], b[k], S)
  <2>1. k \in 1..m /\ f[k - 1] \in Seq(T)
    BY <1>5
  <2>2. f[k] = step[<<f[k - 1], k>>]
    BY <1>4, <2>1
  <2> QED BY <2>1, <2>2
<1>6. f[0] = <<>>
  BY <1>4, <1>2
<1>7. Fits(f)
  <2>1. ASSUME NEW i \in 0..m
        PROVE  f[i] = IF i = 0 THEN <<>>
                      ELSE IF b[i] \in S THEN Append(f[i - 1], b[i]) ELSE f[i - 1]
    BY <1>5, <1>6 DEF Keep
  <2> QED BY <2>1
<1>8. Fits(kept)
  <2> HIDE DEF Fits
  <2> QED BY <1>7
<1>9. kept[0] = <<>> /\ DOMAIN kept = 0..m
  <2> HIDE DEF kept
  <2> QED BY <1>8, <1>2
<1>10. ASSUME NEW k \in 1..m PROVE kept[k] = Keep(kept[k - 1], b[k], S)
  <2> HIDE DEF kept
  <2>1. k \in 0..m /\ k # 0
    OBVIOUS
  <2> QED BY <1>8, <2>1 DEF Keep
<1> HIDE DEF kept
<1>11. kept \in [0..m -> Seq(T)]
  <2> DEFINE P == {k \in Nat : k <= m => kept[k] \in Seq(T)}
  <2>1. 0 \in P
    <3>1. <<>> \in Seq(T)
      OBVIOUS
    <3> QED BY ONLY <1>9, <3>1
  <2>2. ASSUME NEW k \in Nat, k \in P PROVE k + 1 \in P
    <3> SUFFICES ASSUME k + 1 <= m PROVE kept[k + 1] \in Seq(T)
      OBVIOUS
    <3>1. kept[k] \in Seq(T) /\ k + 1 \in 1..m /\ (k + 1) - 1 = k /\ b[k + 1] \in T
      BY <2>2, <1>2
    <3>2. kept[k + 1] = Keep(kept[k], b[k + 1], S)
      BY <3>1, <1>10
    <3> QED BY <3>1, <3>2 DEF Keep
  <2> HIDE DEF P
  <2>3. \A k \in Nat : k \in P
    BY <2>1, <2>2, Induction
  <2>4. ASSUME NEW k \in 0..m PROVE kept[k] \in Seq(T)
    BY <2>3 DEF P
  <2>5. kept = [k \in 0..m |-> kept[k]]
    BY <1>8
  <2> QED BY <2>4, <2>5
<1>12. kept \in Keeping(T, S, b)
  BY <1>1, <1>9, <1>10, <1>11 DEF Keeping
<1> QED BY <1>12

(* Of no characters none is kept. *)
LEMMA KeptNothing ==
  ASSUME NEW S
  PROVE  Kept(<<>>, S) = <<>>
<1>1. <<>> \in Seq({}) /\ Len(<<>>) = 0
  OBVIOUS
<1> DEFINE e == <<>>
<1>2. PICK f \in Keeping({}, S, e) : TRUE
  <2>1. e \in Seq({})
    BY <1>1
  <2> HIDE DEF e
  <2> QED BY <2>1, KeptSteps
<1>3. f[0] = <<>> /\ Kept(e, S) = f[Len(e)]
  BY <1>2 DEF Keeping
<1> QED BY <1>1, <1>3

(* What is kept of one character more. *)
LEMMA KeptAppend ==
  ASSUME NEW T, NEW S, NEW b \in Seq(T), NEW c \in T
  PROVE  /\ Kept(b, S) \in Seq(T)
         /\ Kept(Append(b, c), S) = Keep(Kept(b, S), c, S)
<1> DEFINE d == Append(b, c)
           n == Len(b)
<1>1. d \in Seq(T) /\ Len(d) = n + 1 /\ n \in Nat /\ d[n + 1] = c
      /\ \A i \in 1..n : d[i] = b[i]
  OBVIOUS
<1>2. PICK f \in [0..n -> Seq(T)] :
           /\ f[0] = <<>>
           /\ \A k \in 1..n : f[k] = Keep(f[k - 1], b[k], S)
           /\ Kept(b, S) = f[n]
  <2>1. PICK f \in Keeping(T, S, b) : TRUE
    BY KeptSteps
  <2> QED BY <2>1 DEF Keeping
<1>3. PICK g \in [0..(n + 1) -> Seq(T)] :
           /\ g[0] = <<>>
           /\ \A k \in 1..(n + 1) : g[k] = Keep(g[k - 1], d[k], S)
           /\ Kept(d, S) = g[n + 1]
  <2> HIDE DEF d, n
  <2>1. PICK g \in Keeping(T, S, d) : TRUE
    BY <1>1, KeptSteps
  <2> QED BY <1>1, <2>1 DEF Keeping
<1> HIDE DEF d, n
<1>4. g[n] = f[n]
  <2> DEFINE P == {k \in Nat : k <= n => g[k] = f[k]}
  <2>1. 0 \in P
    BY <1>2, <1>3
  <2>2. ASSUME NEW k \in Nat, k \in P PROVE k + 1 \in P
    <3> SUFFICES ASSUME k + 1 <= n PROVE g[k + 1] = f[k + 1]
      OBVIOUS
    <3>1. g[k] = f[k] /\ k + 1 \in 1..n /\ k + 1 \in 1..(n + 1) /\ (k + 1) - 1 = k
      BY <2>2, <1>1
    <3>2. d[k + 1] = b[k + 1]
      BY <3>1, <1>1
    <3>3. f[k + 1] = Keep(f[k], b[k + 1], S)
      BY <3>1, <1>2
    <3>4. g[k + 1] = Keep(g[k], d[k + 1], S)
      BY <3>1, <1>3
    <3> QED BY <3>1, <3>2, <3>3, <3>4
  <2> HIDE DEF P
  <2>3. n \in P
    BY <2>1, <2>2, <1>1, Induction
  <2> QED BY <2>3, <1>1 DEF P
<1>5. g[n + 1] = Keep(g[n], d[n + 1], S)
  <2>1. n + 1 \in 1..(n + 1) /\ (n + 1) - 1 = n
    BY <1>1
  <2> QED BY <2>1, <1>3
<1>6. Kept(d, S) = Keep(Kept(b, S), c, S)
  BY <1>1, <1>2, <1>3, <1>4, <1>5
<1>7. f[n] \in Seq(T)
  BY <1>1
<1> QED BY <1>2, <1>6, <1>7 DEF d

(* An element behind two sequences is one behind the second. *)
LEMMA AppendConcat ==
  ASSUME NEW T, NEW x \in Seq(T), NEW y \in Seq(T), NEW c \in T
  PROVE  x \o Append(y, c) = Append(x \o y, c)
OBVIOUS

(* What is kept of two sequences is what is kept of each. *)
LEMMA KeptConcat ==
  ASSUME NEW T, NEW S, NEW x \in Seq(T), NEW y \in Seq(T)
  PROVE  Kept(x \o y, S) = Kept(x, S) \o Kept(y, S)
<1> DEFINE G == {z \in Seq(T) : Kept(x \o z, S) = Kept(x, S) \o Kept(z, S)}
<1>1. <<>> \in G
  <2>1. x \o <<>> = x /\ Kept(<<>>, S) = <<>>
    BY KeptNothing
  <2>2. Kept(x, S) \in Seq(T)
    <3>1. PICK f \in Keeping(T, S, x) : TRUE
      BY KeptSteps
    <3> QED BY <3>1 DEF Keeping
  <2>3. Kept(x, S) \o <<>> = Kept(x, S)
    BY <2>2
  <2>4. Kept(x \o <<>>, S) = Kept(x, S) \o Kept(<<>>, S)
    BY ONLY <2>1, <2>3, Zenon
  <2> QED BY <2>4
<1>2. ASSUME NEW z \in Seq(T), NEW c \in T, z \in G PROVE Append(z, c) \in G
  <2>1. x \o z \in Seq(T) /\ Append(z, c) \in Seq(T)
    OBVIOUS
  <2>2. x \o Append(z, c) = Append(x \o z, c)
    BY AppendConcat
  <2>3. Kept(Append(x \o z, c), S) = Keep(Kept(x \o z, S), c, S)
    BY <2>1, KeptAppend
  <2>4. /\ Kept(Append(z, c), S) = Keep(Kept(z, S), c, S)
        /\ Kept(z, S) \in Seq(T) /\ Kept(x, S) \in Seq(T)
    BY KeptAppend
  <2>5. Kept(x, S) \o Keep(Kept(z, S), c, S) = Keep(Kept(x, S) \o Kept(z, S), c, S)
    <3>1. Kept(x, S) \o Append(Kept(z, S), c) = Append(Kept(x, S) \o Kept(z, S), c)
      BY <2>4, AppendConcat
    <3> QED BY <3>1 DEF Keep
  <2>6. Kept(x \o z, S) = Kept(x, S) \o Kept(z, S)
    BY <1>2
  <2>7. Kept(x \o Append(z, c), S) = Kept(x, S) \o Kept(Append(z, c), S)
    BY ONLY <2>2, <2>3, <2>4, <2>5, <2>6, Zenon
  <2> QED BY <2>1, <2>7
<1> HIDE DEF G
<1>3. y \in G
  BY <1>1, <1>2, SequenceInduction
<1> QED BY <1>3 DEF G

(* All that is kept is to be kept. *)
LEMMA KeptType ==
  ASSUME NEW T, NEW S, NEW b \in Seq(T)
  PROVE  Kept(b, S) \in Seq(S)
<1> DEFINE G == {z \in Seq(T) : Kept(z, S) \in Seq(S)}
<1>1. <<>> \in G
  <2>1. Kept(<<>>, S) = <<>> /\ <<>> \in Seq(S) /\ <<>> \in Seq(T)
    BY KeptNothing
  <2> QED BY <2>1
<1>2. ASSUME NEW z \in Seq(T), NEW c \in T, z \in G PROVE Append(z, c) \in G
  <2>1. Kept(Append(z, c), S) = Keep(Kept(z, S), c, S)
    BY KeptAppend
  <2>2. Kept(z, S) \in Seq(S)
    BY <1>2
  <2>3. Keep(Kept(z, S), c, S) \in Seq(S)
    BY <2>2 DEF Keep
  <2> QED BY <2>1, <2>3
<1> HIDE DEF G
<1>3. b \in G
  BY <1>1, <1>2, SequenceInduction
<1> QED BY <1>3 DEF G

(* What is kept of what was kept. *)
LEMMA KeptOfKept ==
  ASSUME NEW T, NEW S, NEW R, S \subseteq R, NEW b \in Seq(T)
  PROVE  Kept(Kept(b, R), S) = Kept(b, S)
<1> DEFINE G == {z \in Seq(T) : Kept(Kept(z, R), S) = Kept(z, S)}
<1>1. <<>> \in G
  BY KeptNothing
<1>2. ASSUME NEW z \in Seq(T), NEW c \in T, z \in G PROVE Append(z, c) \in G
  <2>1. /\ Kept(Append(z, c), S) = Keep(Kept(z, S), c, S)
        /\ Kept(Append(z, c), R) = Keep(Kept(z, R), c, R)
        /\ Kept(z, R) \in Seq(T)
    BY KeptAppend
  <2>2. Kept(Append(Kept(z, R), c), S) = Keep(Kept(Kept(z, R), S), c, S)
    BY <2>1, KeptAppend
  <2>3. Kept(Kept(z, R), S) = Kept(z, S)
    BY <1>2
  <2>4. Kept(Keep(Kept(z, R), c, R), S) = Keep(Kept(z, S), c, S)
    <3>1. CASE c \in R
      BY <3>1, <2>2, <2>3 DEF Keep
    <3>2. CASE c \notin R
      BY <3>2, <2>3 DEF Keep
    <3> QED BY <3>1, <3>2
  <2>5. Kept(Kept(Append(z, c), R), S) = Kept(Append(z, c), S)
    BY <2>1, <2>4
  <2> QED BY <2>5
<1> HIDE DEF G
<1>3. b \in G
  BY <1>1, <1>2, SequenceInduction
<1> QED BY <1>3 DEF G

Without(b, d) == \A i \in 1..Len(b) : b[i] # d

(* One more element is d or not. *)
LEMMA WithoutAppend ==
  ASSUME NEW T, NEW b \in Seq(T), NEW c \in T, NEW d
  PROVE  Without(Append(b, c), d) <=> Without(b, d) /\ c # d
<1>1. /\ Len(Append(b, c)) = Len(b) + 1 /\ Len(b) \in Nat
      /\ Append(b, c)[Len(b) + 1] = c
      /\ \A i \in 1..Len(b) : Append(b, c)[i] = b[i]
  OBVIOUS
<1>2. \A i \in 1..(Len(b) + 1) : i \in 1..Len(b) \/ i = Len(b) + 1
  OBVIOUS
<1>3. \A i \in 1..Len(b) : i \in 1..(Len(b) + 1)
  OBVIOUS
<1>4. Len(b) + 1 \in 1..(Len(b) + 1)
  OBVIOUS
<1> DEFINE a == Append(b, c)
           n == Len(b)
<1> HIDE DEF a, n
<1>5. Len(a) = n + 1 /\ a[n + 1] = c /\ \A i \in 1..n : a[i] = b[i]
  BY <1>1 DEF a, n
<1>6. /\ \A i \in 1..(n + 1) : i \in 1..n \/ i = n + 1
      /\ \A i \in 1..n : i \in 1..(n + 1)
      /\ n + 1 \in 1..(n + 1) /\ n = Len(b)
  BY <1>2, <1>3, <1>4 DEF n
<1>7. (\A i \in 1..(n + 1) : a[i] # d) <=> (\A i \in 1..n : b[i] # d) /\ c # d
  BY ONLY <1>5, <1>6, Zenon
<1> QED BY <1>5, <1>6, <1>7 DEF Without, a

(* An element that is to be kept is in both or in neither. *)
LEMMA KeptWithout ==
  ASSUME NEW T, NEW S, NEW d \in S, NEW b \in Seq(T)
  PROVE  Without(Kept(b, S), d) <=> Without(b, d)
<1> DEFINE G == {z \in Seq(T) : Without(Kept(z, S), d) <=> Without(z, d)}
<1>1. <<>> \in G
  <2>1. Kept(<<>>, S) = <<>>
    BY KeptNothing
  <2> QED BY <2>1
<1>2. ASSUME NEW z \in Seq(T), NEW c \in T, z \in G PROVE Append(z, c) \in G
  <2>1. /\ Kept(Append(z, c), S) = Keep(Kept(z, S), c, S)
        /\ Kept(z, S) \in Seq(T)
    BY KeptAppend
  <2>2. Without(Append(z, c), d) <=> Without(z, d) /\ c # d
    BY WithoutAppend
  <2>3. Without(Append(Kept(z, S), c), d) <=> Without(Kept(z, S), d) /\ c # d
    BY <2>1, WithoutAppend
  <2>4. Without(Kept(z, S), d) <=> Without(z, d)
    BY <1>2
  <2>5. Without(Keep(Kept(z, S), c, S), d) <=> Without(Append(z, c), d)
    <3>1. CASE c \in S
      BY <3>1, <2>2, <2>3, <2>4 DEF Keep
    <3>2. CASE c \notin S
      <4>1. c # d
        BY <3>2
      <4> QED BY <4>1, <3>2, <2>2, <2>4 DEF Keep
    <3> QED BY <3>1, <3>2
  <2>6. Without(Kept(Append(z, c), S), d) <=> Without(Append(z, c), d)
    BY <2>1, <2>5
  <2> QED BY <2>6
<1> HIDE DEF G
<1>3. b \in G
  BY <1>1, <1>2, SequenceInduction
<1> QED BY <1>3 DEF G

(* Of a sequence without them none is kept. *)
LEMMA KeptNone ==
  ASSUME NEW T, NEW S, NEW b \in Seq(T), \A i \in 1..Len(b) : b[i] \notin S
  PROVE  Kept(b, S) = <<>>
<1>1. Kept(b, S) \in Seq(S)
  BY KeptType
<1>2. ASSUME NEW d \in S PROVE Without(Kept(b, S), d)
  <2>1. Without(b, d)
    BY DEF Without
  <2> QED BY <2>1, KeptWithout
<1> DEFINE k == Kept(b, S)
<1> HIDE DEF k
<1>3. k \in Seq(S) /\ \A d \in S : Without(k, d)
  BY <1>1, <1>2 DEF k
<1>4. ASSUME Len(k) # 0 PROVE FALSE
  <2>1. 1 \in 1..Len(k) /\ k[1] \in S
    BY <1>3, <1>4
  <2>2. Without(k, k[1])
    BY <1>3, <2>1
  <2> QED BY <2>1, <2>2 DEF Without
<1>5. k = <<>>
  BY <1>3, <1>4
<1> QED BY <1>5 DEF k

(* What is before the first d is the same however it is put together. *)
LEMMA BeforeFirst ==
  ASSUME NEW T, NEW d \in T, NEW u \in Seq(T), NEW v \in Seq(T),
         NEW x \in Seq(T), NEW y \in Seq(T),
         Without(u, d), Without(x, d), u \o (<<d>> \o v) = x \o (<<d>> \o y)
  PROVE  u = x
<1> DEFINE w == u \o (<<d>> \o v)
<1>1. <<d>> \o v \in Seq(T) /\ (<<d>> \o v)[1] = d /\ Len(<<d>> \o v) = 1 + Len(v)
  OBVIOUS
<1>2. <<d>> \o y \in Seq(T) /\ (<<d>> \o y)[1] = d /\ Len(<<d>> \o y) = 1 + Len(y)
  OBVIOUS
<1> DEFINE p == <<d>> \o v
           q == <<d>> \o y
<1> HIDE DEF p, q
<1>3. /\ p \in Seq(T) /\ p[1] = d /\ Len(p) >= 1
      /\ q \in Seq(T) /\ q[1] = d /\ Len(q) >= 1
  BY <1>1, <1>2 DEF p, q
<1>4. u \o p = x \o q
  BY DEF p, q
<1>5. /\ \A i \in 1..Len(u) : (u \o p)[i] = u[i]
      /\ (u \o p)[Len(u) + 1] = d
  BY <1>3
<1>6. /\ \A i \in 1..Len(x) : (x \o q)[i] = x[i]
      /\ (x \o q)[Len(x) + 1] = d
  BY <1>3
<1>7. Len(u) \in Nat /\ Len(x) \in Nat
  OBVIOUS
<1>8. ~(Len(u) < Len(x))
  <2> SUFFICES ASSUME Len(u) < Len(x) PROVE FALSE
    OBVIOUS
  <2>1. Len(u) + 1 \in 1..Len(x)
    BY <1>7
  <2>2. x[Len(u) + 1] = d
    BY <2>1, <1>4, <1>5, <1>6
  <2> QED BY <2>1, <2>2 DEF Without
<1>9. ~(Len(x) < Len(u))
  <2> SUFFICES ASSUME Len(x) < Len(u) PROVE FALSE
    OBVIOUS
  <2>1. Len(x) + 1 \in 1..Len(u)
    BY <1>7
  <2>2. u[Len(x) + 1] = d
    BY <2>1, <1>4, <1>5, <1>6
  <2> QED BY <2>1, <2>2 DEF Without
<1>10. Len(u) = Len(x)
  BY <1>7, <1>8, <1>9
<1>11. \A i \in 1..Len(u) : u[i] = x[i]
  BY <1>4, <1>5, <1>6, <1>10
<1> QED
  <2> DEFINE n == Len(u)
  <2>1. u \in [1..n -> T] /\ x \in [1..n -> T]
    BY <1>10
  <2> QED BY <2>1, <1>11

-----------------------------------------------------------------------------
(***************************************************************************)
(* push: what a frame makes of the buffer.                                 *)
(***************************************************************************)

(* The first elements of a sequence are the first of them and the others. *)
LEMMA SplitFirst ==
  ASSUME NEW T, NEW b \in Seq(T), NEW j \in 0..Len(b), NEW i \in 0..j
  PROVE  SubSeq(b, 1, j) = SubSeq(b, 1, i) \o SubSeq(b, i + 1, j)
OBVIOUS

(* A sequence is its first elements and the others. *)
LEMMA Split ==
  ASSUME NEW T, NEW b \in Seq(T), NEW j \in 0..Len(b)
  PROVE  b = SubSeq(b, 1, j) \o SubSeq(b, j + 1, Len(b))
<1>1. SubSeq(b, 1, Len(b)) = b /\ Len(b) \in 0..Len(b)
  OBVIOUS
<1>2. SubSeq(b, 1, Len(b)) = SubSeq(b, 1, j) \o SubSeq(b, j + 1, Len(b))
  BY ONLY <1>1, SplitFirst, b \in Seq(T), j \in 0..Len(b)
<1> QED BY ONLY <1>1, <1>2, Zenon

(* Two sequences are as long as each. *)
LEMMA ConcatLength ==
  ASSUME NEW T, NEW x \in Seq(T), NEW y \in Seq(T)
  PROVE  Len(x \o y) = Len(x) + Len(y) /\ x \o y \in Seq(T)
OBVIOUS

(* Three sequences are one, whichever two are joined first. *)
LEMMA Associative ==
  ASSUME NEW T, NEW x \in Seq(T), NEW y \in Seq(T), NEW z \in Seq(T)
  PROVE  x \o (y \o z) = (x \o y) \o z
OBVIOUS

(* A delimiter is found where one is, and is two or four characters long.  *)
LEMMA FirstDelimiterFound ==
  ASSUME NEW b \in Seq(Chars), HasDelimiter(b)
  PROVE  LET p == FirstDelimiter(b)
         IN /\ p \in 1..Len(b)
            /\ \/ /\ DelimiterLen(b, p) = 2 /\ p + 1 <= Len(b)
                  /\ b[p] = "LF" /\ b[p + 1] = "LF"
               \/ /\ DelimiterLen(b, p) = 4 /\ p + 3 <= Len(b)
                  /\ b[p] = "CR" /\ b[p + 1] = "LF" /\ b[p + 2] = "CR" /\ b[p + 3] = "LF"
<1> DEFINE S == {p \in 1..Len(b) : DelimiterAt(b, p)}
           p == FirstDelimiter(b)
<1>1. S \subseteq Nat /\ S # {}
  BY DEF HasDelimiter
<1>2. PICK q \in S : \A r \in S : q <= r
  <2> HIDE DEF S
  <2> QED BY <1>1, LeastNumber
<1>3. \A r \in 1..(q - 1) : ~DelimiterAt(b, r)
  <2> SUFFICES ASSUME NEW r \in 1..(q - 1), DelimiterAt(b, r) PROVE FALSE
    OBVIOUS
  <2>1. q \in 1..Len(b) /\ Len(b) \in Nat
    OBVIOUS
  <2>2. r \in 1..Len(b) /\ ~(q <= r)
    BY <2>1
  <2> QED BY <2>2, <1>2
<1>4. p \in 1..Len(b) /\ DelimiterAt(b, p)
  <2>1. q \in 1..Len(b) /\ DelimiterAt(b, q)
    OBVIOUS
  <2> QED BY <2>1, <1>3 DEF FirstDelimiter
<1> HIDE DEF p, S
<1>5. ASSUME NEW d \in Seq(Chars), StartsWith(b, p, d), NEW n \in Nat, Len(d) = n
      PROVE  p + n - 1 <= Len(b) /\ \A i \in 1..n : b[p + i - 1] = d[i]
  <2>1. p + n - 1 <= Len(b) /\ SubSeq(b, p, p + n - 1) = d
    BY <1>5 DEF StartsWith
  <2>2. ASSUME NEW i \in 1..n PROVE SubSeq(b, p, p + n - 1)[i] = b[p + i - 1]
    BY <2>1, <1>4
  <2> QED BY <2>1, <2>2
<1>6. {"CR", "LF"} \subseteq Chars
  BY DEF Chars
<1>7. CASE StartsWith(b, p, <<"LF", "LF">>)
  <2> DEFINE d == <<"LF", "LF">>
  <2>1. d \in Seq(Chars) /\ Len(d) = 2 /\ d[1] = "LF" /\ d[2] = "LF"
    BY <1>6
  <2>2. DelimiterLen(b, p) = 2 /\ StartsWith(b, p, d)
    BY <1>7 DEF DelimiterLen
  <2> HIDE DEF d
  <2>3. p + 2 - 1 <= Len(b) /\ \A i \in 1..2 : b[p + i - 1] = d[i]
    BY <2>1, <2>2, <1>5
  <2>4. 1 \in 1..2 /\ 2 \in 1..2 /\ p + 1 - 1 = p /\ p + 2 - 1 = p + 1
    BY <1>4
  <2>5. b[p] = "LF" /\ b[p + 1] = "LF" /\ p + 1 <= Len(b)
    BY <2>1, <2>3, <2>4
  <2> QED BY <2>2, <2>5, <1>4 DEF p
<1>8. CASE ~StartsWith(b, p, <<"LF", "LF">>)
  <2> DEFINE d == <<"CR", "LF", "CR", "LF">>
  <2>1. d \in Seq(Chars) /\ Len(d) = 4 /\ d[1] = "CR" /\ d[2] = "LF" /\ d[3] = "CR" /\ d[4] = "LF"
    BY <1>6
  <2>2. DelimiterLen(b, p) = 4 /\ StartsWith(b, p, d)
    BY <1>4, <1>8 DEF DelimiterLen, DelimiterAt, Delimiters
  <2> HIDE DEF d
  <2>3. p + 4 - 1 <= Len(b) /\ \A i \in 1..4 : b[p + i - 1] = d[i]
    BY <2>1, <2>2, <1>5
  <2>4. /\ 1 \in 1..4 /\ 2 \in 1..4 /\ 3 \in 1..4 /\ 4 \in 1..4
        /\ p + 1 - 1 = p /\ p + 2 - 1 = p + 1 /\ p + 3 - 1 = p + 2 /\ p + 4 - 1 = p + 3
    BY <1>4
  <2>5. b[p] = "CR" /\ b[p + 1] = "LF" /\ b[p + 2] = "CR" /\ b[p + 3] = "LF" /\ p + 3 <= Len(b)
    BY <2>1, <2>3, <2>4
  <2> QED BY <2>2, <2>5, <1>4 DEF p
<1> QED BY <1>7, <1>8

(* What the decoder has after some turns of bytes: the events it has taken *)
(* off, which end with a blank line, and their data lines.                 *)
Ended(eaten) == eaten # <<>> => BlankLineEnds(eaten, Len(eaten))

Decoded(d, bytes) ==
  /\ d.rest \in Seq(Chars)
  /\ d.ok => \E eaten \in Seq(Chars) :
       bytes = eaten \o d.rest /\ Ended(eaten) /\ d.events = DataLines(eaten)

(* A stopped decoder has nothing to take off. *)
Stopped(d) == d.ok => ~HasDelimiter(d.rest)

Decoding == [ok : BOOLEAN, events : Seq(DataTokens), rest : Seq(Chars)]

(* The data lines of characters are tokens. *)
LEMMA DataLinesType ==
  ASSUME NEW b \in Seq(Chars)
  PROVE  DataLines(b) \in Seq(DataTokens)
BY KeptType DEF DataLines

(* A text that ends with a blank line does, whatever is before it. *)
LEMMA EndedConcat ==
  ASSUME NEW x \in Seq(Chars), NEW y \in Seq(Chars), Ended(y), y = <<>> => Ended(x)
  PROVE  Ended(x \o y)
<1>1. CASE y = <<>>
  <2>1. x \o y = x
    BY <1>1
  <2> QED BY <2>1
<1>2. CASE y # <<>>
  <2> DEFINE n == Len(x)
             m == Len(y)
             w == x \o y
  <2>1. BlankLineEnds(y, m) /\ m >= 1 /\ n \in Nat /\ m \in Nat
    BY <1>2 DEF Ended
  <2>2. Len(w) = n + m /\ \A i \in 1..m : w[n + i] = y[i]
    OBVIOUS
  <2> HIDE DEF n, m, w
  <2> DEFINE line == IF m > 1 /\ y[m - 1] = "CR" THEN m - 1 ELSE m
  <2>3. y[m] = "LF" /\ line > 1 /\ y[line - 1] = "LF" /\ line \in 1..m
    BY <2>1 DEF BlankLineEnds
  <2>4. m > 1
    BY <2>1, <2>3
  <2>5. w[n + m] = "LF" /\ w[(n + m) - 1] = y[m - 1]
    <3>1. m \in 1..m /\ m - 1 \in 1..m /\ (n + m) - 1 = n + (m - 1)
      BY <2>1, <2>4
    <3> QED BY <3>1, <2>2, <2>3
  <2>6. (IF n + m > 1 /\ w[(n + m) - 1] = "CR" THEN (n + m) - 1 ELSE n + m) = n + line
    BY <2>1, <2>4, <2>5
  <2>7. w[(n + line) - 1] = "LF" /\ n + line > 1
    <3>1. line - 1 \in 1..m /\ (n + line) - 1 = n + (line - 1) /\ n + line > 1
      BY <2>1, <2>3
    <3> QED BY <3>1, <2>2, <2>3
  <2> HIDE DEF line
  <2>8. BlankLineEnds(w, n + m)
    <3> DEFINE j == n + m
               at2 == n + line
    <3>1. w[j] = "LF" /\ (IF j > 1 /\ w[j - 1] = "CR" THEN j - 1 ELSE j) = at2
      BY <2>5, <2>6
    <3>2. at2 > 1 /\ w[at2 - 1] = "LF"
      BY <2>7
    <3> HIDE DEF j, at2
    <3>3. BlankLineEnds(w, j)
      BY ONLY <3>1, <3>2 DEF BlankLineEnds
    <3> QED BY <3>3 DEF j
  <2> QED BY <2>8, <2>2 DEF Ended, w
<1> QED BY <1>1, <1>2

(* A turn takes an event off. *)
LEMMA TurnDecodes ==
  ASSUME NEW bytes \in Seq(Chars), NEW d \in Decoding, Decoded(d, bytes)
  PROVE  /\ Turn(d) \in Decoding
         /\ Decoded(Turn(d), bytes)
         /\ Stopped(d) => Turn(d) = d
         /\ ~Stopped(d) => Len(Turn(d).rest) <= Len(d.rest) - 2
<1>1. CASE Stopped(d)
  <2>1. Turn(d) = d
    BY <1>1 DEF Stopped, Turn
  <2> QED BY <2>1, <1>1
<1>2. CASE ~Stopped(d)
  <2> DEFINE b == d.rest
             p == FirstDelimiter(b)
             k == DelimiterLen(b, p)
             event == SubSeq(b, 1, p - 1)
             blank == SubSeq(b, p, p + k - 1)
             rest == SubSeq(b, p + k, Len(b))
  <2>1. d.ok /\ HasDelimiter(b) /\ b \in Seq(Chars)
    BY <1>2 DEF Stopped, Decoded
  <2>2. /\ p \in 1..Len(b)
        /\ \/ /\ k = 2 /\ p + 1 <= Len(b)
              /\ b[p] = "LF" /\ b[p + 1] = "LF"
           \/ /\ k = 4 /\ p + 3 <= Len(b)
              /\ b[p] = "CR" /\ b[p + 1] = "LF" /\ b[p + 2] = "CR" /\ b[p + 3] = "LF"
    <3> HIDE DEF b
    <3> QED BY <2>1, FirstDelimiterFound
  <2>3. Turn(d) = [ok |-> Parses(event), events |-> d.events \o DataLines(event), rest |-> rest]
    BY <2>1 DEF Turn
  <2> HIDE DEF b, p, k
  <2>4. /\ k \in {2, 4} /\ p + k - 1 <= Len(b) /\ Len(b) \in Nat
        /\ p \in 1..Len(b)
    BY <2>1, <2>2
  <2>5. /\ event \in Seq(Chars) /\ Len(event) = p - 1
        /\ blank \in Seq(Chars) /\ Len(blank) = k
        /\ \A i \in 1..k : blank[i] = b[p + i - 1]
    BY <2>1, <2>4
  <2>6. rest \in Seq(Chars) /\ Len(rest) = Len(b) - (p + k - 1)
    BY <2>1, <2>4
  <2>7. b = (event \o blank) \o rest
    <3>1. p - 1 \in 0..(p + k - 1) /\ p + k - 1 \in 0..Len(b) /\ (p - 1) + 1 = p
          /\ (p + k - 1) + 1 = p + k
      BY <2>4
    <3>2. SubSeq(b, 1, p + k - 1) = SubSeq(b, 1, p - 1) \o SubSeq(b, (p - 1) + 1, p + k - 1)
      BY ONLY <2>1, <3>1, SplitFirst
    <3>3. b = SubSeq(b, 1, p + k - 1) \o SubSeq(b, (p + k - 1) + 1, Len(b))
      BY ONLY <2>1, <3>1, Split
    <3> QED BY ONLY <3>1, <3>2, <3>3, Zenon
  <2>8. Ended(blank)
    <3>1. CASE k = 2
      <4>1. blank[1] = "LF" /\ blank[2] = "LF"
        BY <3>1, <2>2, <2>5, <2>4
      <4> HIDE DEF blank
      <4> QED BY <4>1, <2>5, <3>1 DEF Ended, BlankLineEnds
    <3>2. CASE k = 4
      <4>1. /\ blank[2] = b[p + 1] /\ blank[3] = b[p + 2] /\ blank[4] = b[p + 3]
        <5>1. 1 \in 1..k /\ 2 \in 1..k /\ 3 \in 1..k /\ 4 \in 1..k /\ p + 2 - 1 = p + 1
              /\ p + 3 - 1 = p + 2 /\ p + 4 - 1 = p + 3
          BY <3>2, <2>4
        <5> QED BY <5>1, <2>5
      <4>2. blank[2] = "LF" /\ blank[3] = "CR" /\ blank[4] = "LF"
        BY <4>1, <3>2, <2>2
      <4> HIDE DEF blank
      <4> QED BY <4>2, <2>5, <3>2 DEF Ended, BlankLineEnds
    <3> QED BY <3>1, <3>2, <2>4
  <2>9. DataLines(event \o blank) = DataLines(event)
    <3>1. \A i \in 1..Len(blank) : blank[i] \notin DataTokens
      <4> SUFFICES ASSUME NEW i \in 1..Len(blank) PROVE blank[i] \notin DataTokens
        OBVIOUS
      <4>1. blank[i] = b[p + i - 1] /\ i \in 1..k
        BY <2>5
      <4>2. CASE k = 2
        <5>1. p + i - 1 = p \/ p + i - 1 = p + 1
          BY <4>1, <4>2, <2>4
        <5> QED BY <5>1, <4>1, <4>2, <2>2, StreamAssumption DEF DataTokens, ChunkTokens
      <4>3. CASE k = 4
        <5>1. p + i - 1 \in {p, p + 1, p + 2, p + 3}
          BY <4>1, <4>3, <2>4
        <5> QED BY <5>1, <4>1, <4>3, <2>2, StreamAssumption DEF DataTokens, ChunkTokens
      <4> QED BY <4>2, <4>3, <2>4
    <3> HIDE DEF event, blank
    <3>2. Kept(blank, DataTokens) = <<>>
      BY <3>1, <2>5, KeptNone
    <3>3. Kept(event \o blank, DataTokens) = Kept(event, DataTokens) \o Kept(blank, DataTokens)
      BY <2>5, KeptConcat
    <3>4. Kept(event, DataTokens) \in Seq(DataTokens)
      BY <2>5, KeptType
    <3> QED BY <3>2, <3>3, <3>4 DEF DataLines
  <2> HIDE DEF event, blank, rest
  <2>10. DataLines(event) \in Seq(DataTokens) /\ Parses(event) \in BOOLEAN
    BY <2>5, DataLinesType DEF Parses
  <2>11. Turn(d) \in Decoding
    <3>1. d.events \in Seq(DataTokens)
      BY DEF Decoding
    <3>2. d.events \o DataLines(event) \in Seq(DataTokens)
      BY <3>1, <2>10
    <3> QED BY <3>2, <2>3, <2>6, <2>10 DEF Decoding
  <2>12. Decoded(Turn(d), bytes)
    <3>1. PICK eaten \in Seq(Chars) :
            bytes = eaten \o b /\ Ended(eaten) /\ d.events = DataLines(eaten)
      BY <2>1 DEF Decoded, b
    <3> DEFINE more == eaten \o (event \o blank)
    <3>2. event \o blank \in Seq(Chars) /\ more \in Seq(Chars)
      BY <2>5
    <3>3. bytes = more \o rest
      <4>1. rest \in Seq(Chars)
        BY <2>6
      <4>2. bytes = eaten \o ((event \o blank) \o rest)
        BY <3>1, <2>7
      <4>3. eaten \o ((event \o blank) \o rest) = (eaten \o (event \o blank)) \o rest
        BY ONLY <3>1, <3>2, <4>1, Associative
      <4> QED BY <4>2, <4>3
    <3>4. Ended(event \o blank) /\ event \o blank # <<>>
      <4>1. blank # <<>>
        BY <2>5, <2>4
      <4>2. Ended(event \o blank)
        BY <4>1, <2>5, <2>8, EndedConcat
      <4>3. Len(event \o blank) = Len(event) + Len(blank)
        BY ONLY <2>5, ConcatLength
      <4>4. Len(event \o blank) # 0
        BY <4>3, <2>5, <2>4
      <4> QED BY <4>2, <4>4
    <3>5. Ended(more)
      BY <3>1, <3>2, <3>4, EndedConcat
    <3>6. DataLines(more) = DataLines(eaten) \o DataLines(event \o blank)
      BY <3>1, <3>2, KeptConcat DEF DataLines
    <3> HIDE DEF more
    <3>7. Turn(d).events = DataLines(more) /\ Turn(d).rest = rest
      BY <3>1, <3>6, <2>9, <2>3
    <3> QED BY <3>2, <3>3, <3>5, <3>7, <2>6 DEF Decoded
  <2>13. Len(Turn(d).rest) <= Len(d.rest) - 2
    BY <2>3, <2>4, <2>6 DEF b
  <2> QED BY <1>2, <2>11, <2>12, <2>13
<1> QED BY <1>1, <1>2

(* push takes off all events that have arrived, unless one does not parse: *)
(* the loop stops before its turns are used up, because a turn takes a     *)
(* delimiter off.                                                          *)
LEMMA PushDecodes ==
  ASSUME NEW bytes \in Seq(Chars)
  PROVE  LET d == Decode(bytes)
         IN d \in Decoding /\ Decoded(d, bytes) /\ Stopped(d)
<1> DEFINE m == Len(bytes)
           A == {d \in Decoding : Decoded(d, bytes)}
           start == [ok |-> TRUE, events |-> <<>>, rest |-> bytes]
           step == [x \in A \X (1..m) |-> Turn(x[1])]
           Fits(f) == f = [turns \in 0..Len(bytes) |->
              IF turns = 0 THEN [ok |-> TRUE, events |-> <<>>, rest |-> bytes]
              ELSE Turn(f[turns - 1])]
           after == CHOOSE f : Fits(f)
           last == m \div 2
<1>1. Decode(bytes) = after[Len(bytes) \div 2]
  BY DEF Decode
<1>2. m \in Nat /\ last \in 0..m /\ m - 2 * last <= 1
  OBVIOUS
<1>3. start \in A
  <2>1. start \in Decoding
    BY DEF Decoding
  <2>2. <<>> \in Seq(Chars) /\ bytes = <<>> \o bytes /\ Ended(<<>>)
    BY DEF Ended
  <2>3. DataLines(<<>>) = <<>>
    BY KeptNothing DEF DataLines
  <2>4. Decoded(start, bytes)
    BY <2>2, <2>3 DEF Decoded
  <2> QED BY <2>1, <2>4
<1>4. step \in [A \X (1..m) -> A]
  <2>1. ASSUME NEW x \in A \X (1..m) PROVE Turn(x[1]) \in A
    <3>1. x[1] \in A
      OBVIOUS
    <3> DEFINE d == x[1]
    <3> HIDE DEF d
    <3>2. d \in Decoding /\ Decoded(d, bytes)
      BY <3>1 DEF d
    <3>3. Turn(d) \in Decoding /\ Decoded(Turn(d), bytes)
      BY <3>2, TurnDecodes
    <3> QED BY <3>3 DEF d
  <2> HIDE DEF A
  <2> QED BY <2>1
<1>5. PICK f \in [0..m -> A] :
        f[0] = start /\ \A k \in 1..m : f[k] = step[<<f[k - 1], k>>]
  <2> HIDE DEF step, start, m, A
  <2>1. PICK f \in Recursive(A, m, start, step) : TRUE
    BY <1>2, <1>3, <1>4, Recursion
  <2> QED BY <2>1 DEF Recursive
<1>6. ASSUME NEW k \in 0..m, k # 0
      PROVE  f[k] = Turn(f[k - 1])
  <2> HIDE DEF A, m
  <2>1. k \in 1..m /\ k - 1 \in 0..m
    BY <1>2, <1>6
  <2>3. f[k - 1] \in A
    BY <2>1
  <2>2. f[k] = step[<<f[k - 1], k>>]
    BY <1>5, <2>1
  <2> QED BY <2>1, <2>2, <2>3
<1>7. Fits(f)
  <2> HIDE DEF A
  <2>1. ASSUME NEW k \in 0..m
        PROVE  f[k] = IF k = 0 THEN start ELSE Turn(f[k - 1])
    <3> HIDE DEF start, m
    <3> QED BY <1>5, <1>6
  <2> QED BY <2>1
<1>8. Fits(after)
  <2> HIDE DEF Fits
  <2> QED BY <1>7
<1>9. after[0] = start /\ \A k \in 1..m : after[k] = Turn(after[k - 1])
  <2> HIDE DEF after
  <2>1. 0 \in 0..m /\ \A k \in 1..m : k \in 0..m /\ k # 0
    BY <1>2
  <2> QED BY <1>8, <2>1
<1> HIDE DEF after, start, step, Fits
<1>10. ASSUME NEW k \in Nat, k <= m
       PROVE  after[k] \in A /\ (~Stopped(after[k]) => Len(after[k].rest) <= m - 2 * k)
  <2> DEFINE P == {i \in Nat : i <= m =>
                     after[i] \in A /\ (~Stopped(after[i]) => Len(after[i].rest) <= m - 2 * i)}
  <2>1. 0 \in P
    <3>1. after[0] \in A /\ after[0].rest = bytes
      BY <1>3, <1>9 DEF start
    <3>2. Len(after[0].rest) <= m - 2 * 0
      BY <3>1, <1>2
    <3> QED BY <3>1, <3>2
  <2>2. ASSUME NEW i \in Nat, i \in P PROVE i + 1 \in P
    <3> SUFFICES ASSUME i + 1 <= m
                 PROVE  /\ after[i + 1] \in A
                        /\ ~Stopped(after[i + 1]) => Len(after[i + 1].rest) <= m - 2 * (i + 1)
      OBVIOUS
    <3> DEFINE d == after[i]
               e == after[i + 1]
    <3>1. d \in Decoding /\ Decoded(d, bytes) /\ (~Stopped(d) => Len(d.rest) <= m - 2 * i)
      BY <2>2, <1>2
    <3>2. e = Turn(d)
      <4>1. i + 1 \in 1..m /\ (i + 1) - 1 = i
        BY <1>2
      <4> QED BY <4>1, <1>9
    <3> HIDE DEF d, e
    <3>3. /\ e \in Decoding /\ Decoded(e, bytes)
          /\ Stopped(d) => e = d
          /\ ~Stopped(d) => Len(e.rest) <= Len(d.rest) - 2
      BY <3>1, <3>2, TurnDecodes
    <3>4. Len(d.rest) \in Nat /\ Len(e.rest) \in Nat
      BY <3>1, <3>3 DEF Decoding
    <3>5. ASSUME ~Stopped(e) PROVE Len(e.rest) <= m - 2 * (i + 1)
      <4>1. ~Stopped(d)
        BY <3>3, <3>5
      <4>2. Len(e.rest) <= Len(d.rest) - 2 /\ Len(d.rest) <= m - 2 * i
        BY <4>1, <3>1, <3>3
      <4> QED BY <4>2, <3>4, <1>2
    <3> QED BY <3>3, <3>5 DEF e
  <2> HIDE DEF P
  <2>3. k \in P
    BY <2>1, <2>2, Induction
  <2> QED BY <2>3, <1>10 DEF P
<1> DEFINE d == after[last]
<1> HIDE DEF last
<1>11. d \in A /\ (~Stopped(d) => Len(d.rest) <= 1)
  <2>1. last \in Nat /\ last <= m
    BY <1>2
  <2>2. d \in A /\ (~Stopped(d) => Len(d.rest) <= m - 2 * last)
    BY <2>1, <1>10
  <2>3. Len(d.rest) \in Nat
    BY <2>2 DEF Decoding
  <2> QED BY <2>2, <2>3, <1>2
<1>12. Decode(bytes) = d
  BY <1>1 DEF last
<1> HIDE DEF d
<1>13. d \in Decoding /\ Decoded(d, bytes)
  BY <1>11
<1>14. Stopped(d)
  <2> SUFFICES ASSUME ~Stopped(d) PROVE FALSE
    OBVIOUS
  <2> DEFINE b == d.rest
             p == FirstDelimiter(b)
  <2>1. b \in Seq(Chars) /\ HasDelimiter(b) /\ Len(b) <= 1
    BY <1>11, <1>13 DEF Stopped, Decoding
  <2> HIDE DEF b
  <2>2. p \in 1..Len(b) /\ (p + 1 <= Len(b) \/ p + 3 <= Len(b))
    BY <2>1, FirstDelimiterFound
  <2>3. Len(b) \in Nat
    BY <2>1
  <2> HIDE DEF p
  <2> QED BY <2>1, <2>2, <2>3
<1> QED BY <1>12, <1>13, <1>14

-----------------------------------------------------------------------------
(***************************************************************************)
(* What the server sends.                                                  *)
(***************************************************************************)
EolType == eol \in {<<"LF">>, <<"CR", "LF">>}

(* A CR is sent by a server whose lines end with CR LF, and there a LF     *)
(* comes behind one.                                                       *)
LineEnds(b) ==
  \A i \in 1..Len(b) :
    /\ b[i] = "CR" => Len(eol) = 2
    /\ b[i] = "LF" /\ Len(eol) = 2 => i > 1 /\ b[i - 1] = "CR"

(* The characters that end lines, and [DONE], are no texts. *)
LEMMA Distinct ==
  /\ "CR" \in Chars /\ "LF" \in Chars
  /\ "CR" \notin LineTokens /\ "LF" \notin LineTokens
  /\ "CR" \notin Texts /\ "LF" \notin Texts /\ "done" \notin Texts /\ "empty" \notin Texts
  /\ "space" \notin Texts
  /\ "done" \in DataTokens /\ "empty" \in DataTokens /\ Texts \subseteq DataTokens
  /\ DataTokens \subseteq Chars
BY StreamAssumption DEF Chars, LineTokens, DataTokens, ChunkTokens

(* What may follow keeps the line ends. *)
LEMMA LineEndsAppend ==
  ASSUME EolType, NEW b \in Seq(Chars), NEW c \in Chars, LineEnds(b), MayFollow(b, c)
  PROVE  LineEnds(Append(b, c))
<1> DEFINE n == Len(b)
           a == Append(b, c)
<1>1. n \in Nat /\ Len(a) = n + 1 /\ a[n + 1] = c /\ \A i \in 1..n : a[i] = b[i]
  OBVIOUS
<1>2. (c = "CR" => Len(eol) = 2) /\ (c = "LF" /\ Len(eol) = 2 => n # 0 /\ b[n] = "CR")
  <2>1. b # <<>> => n # 0
    OBVIOUS
  <2> QED BY <2>1, Distinct DEF MayFollow
<1>3. \A i \in 1..n : /\ b[i] = "CR" => Len(eol) = 2
                      /\ b[i] = "LF" /\ Len(eol) = 2 => i > 1 /\ b[i - 1] = "CR"
  BY DEF LineEnds
<1> HIDE DEF n, a
<1>4. ASSUME NEW i \in 1..(n + 1)
      PROVE  /\ a[i] = "CR" => Len(eol) = 2
             /\ a[i] = "LF" /\ Len(eol) = 2 => i > 1 /\ a[i - 1] = "CR"
  <2>1. CASE i = n + 1
    <3>1. n # 0 => n \in 1..n /\ n + 1 > 1 /\ (n + 1) - 1 = n
      BY <1>1
    <3> QED BY <2>1, <3>1, <1>1, <1>2
  <2>2. CASE i # n + 1
    <3>1. i \in 1..n /\ (i > 1 => i - 1 \in 1..n)
      BY <2>2, <1>1
    <3> QED BY <3>1, <1>1, <1>3
  <2> QED BY <2>1, <2>2
<1> QED BY <1>1, <1>4 DEF LineEnds, a

(* One character more of a frame. *)
Longer(frames) ==
  frames \cup
  UNION {{Append(f, c) : c \in {d \in Chars : MayFollow(wire \o f, d)}} : f \in frames}

(* Frames stay frames. *)
LEMMA LongerType ==
  ASSUME NEW frames, frames \subseteq Seq(Chars)
  PROVE  Longer(frames) \subseteq Seq(Chars)
<1> SUFFICES ASSUME NEW g \in Longer(frames) PROVE g \in Seq(Chars)
  OBVIOUS
<1>1. CASE g \in frames
  BY <1>1
<1>2. CASE g \notin frames
  <2>1. PICK f \in frames : g \in {Append(f, c) : c \in {d \in Chars : MayFollow(wire \o f, d)}}
    BY <1>2 DEF Longer
  <2>2. PICK c \in Chars : g = Append(f, c)
    BY <2>1
  <2>3. f \in Seq(Chars)
    BY <2>1
  <2> QED BY <2>2, <2>3
<1> QED BY <1>1, <1>2

(* A frame goes on where the body was. *)
LEMMA FrameFollows ==
  ASSUME EolType, wire \in Seq(Chars), LineEnds(wire), NEW frame \in Frames
  PROVE  frame \in Seq(Chars) /\ LineEnds(wire \o frame)
<1> DEFINE m == MaxFrame
           A == SUBSET Seq(Chars)
           start == {<<>>}
           step == [x \in A \X (1..m) |-> Longer(x[1])]
           Fits(f) == f = [n \in 0..MaxFrame |->
              IF n = 0 THEN {<<>>}
              ELSE f[n - 1] \cup
                   UNION {{Append(g, c) : c \in {d \in Chars : MayFollow(wire \o g, d)}} : g \in f[n - 1]}]
           of == CHOOSE f : Fits(f)
<1>1. Frames = of[MaxFrame] \ {<<>>}
  BY DEF Frames
<1>2. m \in Nat
  BY StreamAssumption
<1>3. start \in A
  OBVIOUS
<1>4. step \in [A \X (1..m) -> A]
  <2>1. ASSUME NEW x \in A \X (1..m) PROVE Longer(x[1]) \in A
    <3>1. x[1] \subseteq Seq(Chars)
      OBVIOUS
    <3>2. Longer(x[1]) \subseteq Seq(Chars)
      BY <3>1, LongerType
    <3> QED BY <3>2
  <2> HIDE DEF A
  <2> QED BY <2>1
<1>5. PICK f \in [0..m -> A] :
        f[0] = start /\ \A k \in 1..m : f[k] = step[<<f[k - 1], k>>]
  <2> HIDE DEF step, start, m, A
  <2>1. PICK f \in Recursive(A, m, start, step) : TRUE
    BY <1>2, <1>3, <1>4, Recursion
  <2> QED BY <2>1 DEF Recursive
<1>6. ASSUME NEW k \in 0..m, k # 0
      PROVE  f[k] = Longer(f[k - 1])
  <2> HIDE DEF A, m
  <2>1. k \in 1..m /\ k - 1 \in 0..m
    BY <1>2, <1>6
  <2>2. f[k - 1] \in A
    BY <2>1
  <2>3. f[k] = step[<<f[k - 1], k>>]
    BY <1>5, <2>1
  <2> QED BY <2>1, <2>2, <2>3
<1>7. Fits(f)
  <2> HIDE DEF A
  <2>1. ASSUME NEW n \in 0..m
        PROVE  f[n] = IF n = 0 THEN {<<>>}
              ELSE f[n - 1] \cup
                   UNION {{Append(g, c) : c \in {d \in Chars : MayFollow(wire \o g, d)}} : g \in f[n - 1]}
    <3>1. CASE n = 0
      BY <3>1, <1>5
    <3>2. CASE n # 0
      <4>1. f[n] = Longer(f[n - 1])
        BY <3>2, <1>6
      <4> QED BY <3>2, <4>1 DEF Longer
    <3> QED BY <3>1, <3>2
  <2>2. f = [n \in 0..m |-> f[n]]
    BY <1>5
  <2> QED BY <2>1, <2>2
<1>8. Fits(of)
  <2> HIDE DEF Fits
  <2> QED BY <1>7
<1>9. of[0] = start /\ \A k \in 1..m : of[k] = Longer(of[k - 1])
  <2> HIDE DEF of
  <2>1. 0 \in 0..m
    BY <1>2
  <2>2. of[0] = start
    BY <1>8, <2>1
  <2>3. ASSUME NEW k \in 1..m PROVE of[k] = Longer(of[k - 1])
    <3>1. k \in 0..m /\ k # 0
      BY <1>2
    <3> QED BY <1>8, <3>1 DEF Longer
  <2> QED BY <2>2, <2>3
<1> HIDE DEF of, step, Fits
<1> DEFINE Good(g) == g \in Seq(Chars) /\ LineEnds(wire \o g)
           P == {k \in Nat : k <= m => \A g \in of[k] : Good(g)}
<1>10. 0 \in P
  <2>1. wire \o <<>> = wire /\ <<>> \in Seq(Chars)
    OBVIOUS
  <2>2. Good(<<>>)
    BY <2>1
  <2>3. of[0] = {<<>>}
    BY <1>9
  <2> HIDE DEF Good
  <2> QED BY <2>2, <2>3
<1>11. ASSUME NEW k \in Nat, k \in P PROVE k + 1 \in P
  <2> SUFFICES ASSUME k + 1 <= m, NEW g \in of[k + 1] PROVE Good(g)
    OBVIOUS
  <2>1. \A h \in of[k] : Good(h)
    BY <1>11, <1>2
  <2>2. of[k + 1] = Longer(of[k])
    <3>1. k + 1 \in 1..m /\ (k + 1) - 1 = k
      BY <1>2
    <3> QED BY <3>1, <1>9
  <2>3. CASE g \in of[k]
    BY <2>1, <2>3
  <2>4. CASE g \notin of[k]
    <3>1. PICK h \in of[k] : g \in {Append(h, c) : c \in {d \in Chars : MayFollow(wire \o h, d)}}
      <4> HIDE DEF Good
      <4> QED BY <2>2, <2>4 DEF Longer
    <3>2. PICK c \in Chars : g = Append(h, c) /\ MayFollow(wire \o h, c)
      BY <3>1
    <3>3. h \in Seq(Chars) /\ LineEnds(wire \o h)
      BY <2>1
    <3>4. wire \o h \in Seq(Chars)
      BY <3>3
    <3>5. LineEnds(Append(wire \o h, c))
      BY <3>2, <3>3, <3>4, LineEndsAppend
    <3>6. wire \o Append(h, c) = Append(wire \o h, c)
      BY <3>3, AppendConcat
    <3>7. g \in Seq(Chars)
      BY <3>2, <3>3
    <3> QED BY <3>2, <3>5, <3>6, <3>7
  <2> QED BY <2>3, <2>4
<1> HIDE DEF P, Good, m
<1>12. m \in P
  BY <1>2, <1>10, <1>11, Induction
<1>13. Good(frame)
  BY <1>1, <1>2, <1>12 DEF P, m
<1> QED BY <1>13 DEF Good

-----------------------------------------------------------------------------
(***************************************************************************)
(* The complete part of the body, and the part before [DONE].              *)
(***************************************************************************)

(* A delimiter, character by character. *)
LEMMA StartsHere ==
  ASSUME NEW b \in Seq(Chars), NEW d \in Seq(Chars), Len(d) >= 1,
         NEW p \in 1..Len(b), p + Len(d) - 1 <= Len(b),
         \A i \in 1..Len(d) : b[p + i - 1] = d[i]
  PROVE  StartsWith(b, p, d)
<1> DEFINE n == Len(d)
           s == SubSeq(b, p, p + n - 1)
<1>1. Len(b) \in Nat /\ n \in Nat \ {0} /\ p + n - 1 \in 0..Len(b)
  OBVIOUS
<1>2. s \in Seq(Chars) /\ Len(s) = n /\ \A i \in 1..n : s[i] = b[p + i - 1]
  BY <1>1
<1> HIDE DEF s
<1>3. s \in [1..n -> Chars] /\ d \in [1..n -> Chars] /\ \A i \in 1..n : s[i] = d[i]
  BY <1>2
<1>4. s = d
  BY <1>3
<1> QED BY <1>4 DEF s, StartsWith

(* Where a blank line ends the buffer has a delimiter, or only the rest of *)
(* the line end after the events that are taken off.                       *)
LEMMA BlankLineBehind ==
  ASSUME EolType, NEW eaten \in Seq(Chars), NEW rest \in Seq(Chars), NEW w \in Seq(Chars),
         w = eaten \o rest, LineEnds(w), Ended(eaten), ~HasDelimiter(rest),
         NEW j \in 1..Len(w), BlankLineEnds(w, j), NEW i \in (Len(eaten) + 1)..j
  PROVE  w[i] \in {"CR", "LF"}
<1> DEFINE n == Len(eaten)
           m == Len(rest)
           line == IF j > 1 /\ w[j - 1] = "CR" THEN j - 1 ELSE j
<1>1. /\ n \in Nat /\ m \in Nat /\ Len(w) = n + m
      /\ \A k \in 1..n : w[k] = eaten[k]
      /\ \A k \in 1..m : w[n + k] = rest[k]
  OBVIOUS
<1>2. w[j] = "LF" /\ line > 1 /\ w[line - 1] = "LF" /\ line \in 1..j
  BY DEF BlankLineEnds
<1>3. n # 0 => w[n] = "LF"
  <2>1. n # 0 => eaten # <<>> /\ n \in 1..n
    BY <1>1
  <2> QED BY <2>1, <1>1 DEF Ended, BlankLineEnds
<1>4. i \in (n + 1)..j
  OBVIOUS
<1> HIDE DEF n, m
<1>5. CASE line - 1 <= n
  <2>1. i = j \/ (i = j - 1 /\ w[j - 1] = "CR")
    BY <1>1, <1>2, <1>4, <1>5
  <2> QED BY <2>1, <1>2
<1>6. CASE line - 1 > n
  <2>1. CASE Len(eol) # 2
    <3>1. line = j
      <4>1. j > 1 => w[j - 1] # "CR"
        <5>1. j > 1 => j - 1 \in 1..Len(w)
          BY <1>1
        <5> QED BY <5>1, <2>1 DEF LineEnds
      <4> QED BY <4>1
    <3> DEFINE p == j - 1 - n
               d == <<"LF", "LF">>
    <3>2. w[j] = "LF" /\ w[j - 1] = "LF" /\ j - 1 > n
      BY <3>1, <1>2, <1>6
    <3>3. p \in 1..m /\ p + 1 \in 1..m /\ n + p = j - 1 /\ n + (p + 1) = j
      BY <3>2, <1>1
    <3> HIDE DEF p
    <3>4. rest[p] = "LF" /\ rest[p + 1] = "LF"
      BY <3>2, <3>3, <1>1
    <3>5. d \in Seq(Chars) /\ Len(d) = 2 /\ d[1] = "LF" /\ d[2] = "LF"
      BY Distinct
    <3>6. \A k \in 1..Len(d) : rest[p + k - 1] = d[k]
      <4>1. p + 1 - 1 = p /\ p + 2 - 1 = p + 1 /\ \A k \in 1..2 : k = 1 \/ k = 2
        BY <3>3, <1>1
      <4> QED BY <4>1, <3>4, <3>5
    <3> HIDE DEF d
    <3>7. StartsWith(rest, p, d)
      <4>1. p \in 1..Len(rest)
        BY <3>3 DEF m
      <4>2. p + Len(d) - 1 <= Len(rest)
        <5>1. p + 2 - 1 = p + 1 /\ p + 1 <= m
          BY <3>3, <1>1
        <5> QED BY <5>1, <3>5 DEF m
      <4>3. Len(d) >= 1
        BY <3>5
      <4> QED BY <4>1, <4>2, <4>3, <3>5, <3>6, StartsHere
    <3> QED BY <3>3, <3>7 DEF HasDelimiter, DelimiterAt, Delimiters, d, m
  <2>2. CASE Len(eol) = 2
    <3>1. j > 1 /\ w[j - 1] = "CR" /\ line = j - 1
      BY <2>2, <1>2 DEF LineEnds
    <3>2. w[j - 2] = "LF" /\ j - 2 > n /\ j - 2 \in 1..Len(w)
      BY <3>1, <1>1, <1>2, <1>6
    <3>3. j - 2 > 1 /\ w[j - 3] = "CR"
      <4>1. (j - 2) - 1 = j - 3
        OBVIOUS
      <4>2. j - 2 > 1 /\ w[(j - 2) - 1] = "CR"
        BY <3>2, <2>2 DEF LineEnds
      <4> QED BY <4>1, <4>2
    <3>4. j - 3 > n
      <4>1. j - 3 # n
        <5> SUFFICES ASSUME j - 3 = n PROVE FALSE
          OBVIOUS
        <5>1. n # 0 /\ w[n] = "CR"
          BY <3>3, <1>1
        <5> QED BY <5>1, <1>3
      <4> QED BY <4>1, <3>2, <1>1
    <3> DEFINE p == j - 3 - n
               d == <<"CR", "LF", "CR", "LF">>
    <3>5. /\ p \in 1..m /\ p + 1 \in 1..m /\ p + 2 \in 1..m /\ p + 3 \in 1..m
          /\ n + p = j - 3 /\ n + (p + 1) = j - 2 /\ n + (p + 2) = j - 1 /\ n + (p + 3) = j
      BY <3>4, <1>1
    <3> HIDE DEF p
    <3>6. rest[p] = "CR" /\ rest[p + 1] = "LF" /\ rest[p + 2] = "CR" /\ rest[p + 3] = "LF"
      BY <3>1, <3>2, <3>3, <3>5, <1>1, <1>2
    <3>7. d \in Seq(Chars) /\ Len(d) = 4 /\ d[1] = "CR" /\ d[2] = "LF" /\ d[3] = "CR" /\ d[4] = "LF"
      BY Distinct
    <3>8. \A k \in 1..Len(d) : rest[p + k - 1] = d[k]
      <4>1. /\ p + 1 - 1 = p /\ p + 2 - 1 = p + 1 /\ p + 3 - 1 = p + 2 /\ p + 4 - 1 = p + 3
            /\ \A k \in 1..4 : k = 1 \/ k = 2 \/ k = 3 \/ k = 4
        BY <3>5, <1>1
      <4> QED BY <4>1, <3>6, <3>7
    <3> HIDE DEF d
    <3>9. StartsWith(rest, p, d)
      <4>1. p \in 1..Len(rest)
        BY <3>5 DEF m
      <4>2. p + Len(d) - 1 <= Len(rest)
        <5>1. p + 4 - 1 = p + 3 /\ p + 3 <= m
          BY <3>5, <1>1
        <5> QED BY <5>1, <3>7 DEF m
      <4>3. Len(d) >= 1
        BY <3>7
      <4> QED BY <4>1, <4>2, <4>3, <3>7, <3>8, StartsHere
    <3> QED BY <3>5, <3>9 DEF HasDelimiter, DelimiterAt, Delimiters, d, m
  <2> QED BY <2>1, <2>2
<1> QED BY <1>1, <1>2, <1>5, <1>6

(* The texts of the complete part are those of the events taken off.       *)
LEMMA CompleteTexts ==
  ASSUME EolType, NEW eaten \in Seq(Chars), NEW rest \in Seq(Chars), NEW w \in Seq(Chars),
         w = eaten \o rest, LineEnds(w), Ended(eaten), ~HasDelimiter(rest)
  PROVE  TextsIn(CompletePart(w)) = TextsIn(eaten)
<1> DEFINE n == Len(eaten)
           ends == {j \in 1..Len(w) : BlankLineEnds(w, j)}
<1>1. /\ n \in Nat /\ Len(w) \in Nat /\ n <= Len(w) /\ SubSeq(w, 1, n) = eaten
      /\ \A k \in 1..n : w[k] = eaten[k]
  <2>1. n \in Nat /\ Len(w) = n + Len(rest) /\ Len(rest) \in Nat
    OBVIOUS
  <2>2. SubSeq(w, 1, n) = eaten
    OBVIOUS
  <2>3. \A k \in 1..n : w[k] = eaten[k]
    OBVIOUS
  <2> QED BY <2>1, <2>2, <2>3
<1>2. n # 0 => n \in ends
  <2> SUFFICES ASSUME n # 0 PROVE n \in ends
    OBVIOUS
  <2>1. eaten # <<>> /\ n \in 1..n /\ n \in 1..Len(w)
    BY <1>1
  <2>2. BlankLineEnds(eaten, n)
    BY <2>1 DEF Ended
  <2> DEFINE line == IF n > 1 /\ eaten[n - 1] = "CR" THEN n - 1 ELSE n
  <2>3. eaten[n] = "LF" /\ line > 1 /\ eaten[line - 1] = "LF" /\ line \in 1..n
    BY <2>1, <2>2, <1>1 DEF BlankLineEnds
  <2>4. n > 1 => w[n - 1] = eaten[n - 1]
    BY <1>1
  <2>5. w[n] = eaten[n] /\ w[line - 1] = eaten[line - 1]
    BY <2>1, <2>3, <1>1
  <2>6. BlankLineEnds(w, n)
    BY <2>3, <2>4, <2>5 DEF BlankLineEnds
  <2> QED BY <2>1, <2>6
<1>3. CASE ends = {}
  <2>1. n = 0
    BY <1>2, <1>3
  <2>2. eaten = <<>>
    BY <2>1
  <2>3. CompletePart(w) = <<>>
    BY <1>3 DEF CompletePart
  <2> QED BY <2>2, <2>3
<1>4. CASE ends # {}
  <2>1. ends \subseteq 0..Len(w)
    BY <1>1
  <2>2. \E j \in ends : \A k \in ends : k <= j
    <3> HIDE DEF ends
    <3> QED BY <2>1, <1>1, <1>4, GreatestNumber
  <2> DEFINE e == CHOOSE j \in ends : \A k \in ends : k <= j
  <2>3. e \in ends /\ \A k \in ends : k <= e
    <3> HIDE DEF ends
    <3> QED BY <2>2
  <2>4. CompletePart(w) = SubSeq(w, 1, e)
    BY <1>4 DEF CompletePart
  <2> HIDE DEF e
  <2>5. e \in 1..Len(w) /\ BlankLineEnds(w, e)
    BY <2>3
  <2>6. n <= e
    <3>1. n # 0 => n <= e
      BY <1>2, <2>3
    <3> QED BY <3>1, <2>5, <1>1
  <2> DEFINE tail == SubSeq(w, n + 1, e)
  <2>7. SubSeq(w, 1, e) = eaten \o tail
    <3>1. e \in 0..Len(w) /\ n \in 0..e
      BY <2>5, <2>6, <1>1
    <3>2. SubSeq(w, 1, e) = SubSeq(w, 1, n) \o SubSeq(w, n + 1, e)
      <4> HIDE DEF n
      <4> QED BY <3>1, SplitFirst
    <3> QED BY <3>2, <1>1
  <2>8. tail \in Seq(Chars) /\ \A k \in 1..Len(tail) : tail[k] \notin Texts
    <3>1. tail \in Seq(Chars) /\ Len(tail) = e - n /\ \A k \in 1..(e - n) : tail[k] = w[n + k]
      BY <2>5, <2>6, <1>1
    <3> HIDE DEF tail
    <3>2. ASSUME NEW k \in 1..(e - n) PROVE tail[k] \notin Texts
      <4>1. n + k \in (Len(eaten) + 1)..e
        BY <2>5, <2>6, <1>1
      <4>2. w[n + k] \in {"CR", "LF"}
        <5> HIDE DEF n
        <5> QED BY <4>1, <2>5, BlankLineBehind
      <4> QED BY <4>2, <3>1, Distinct
    <3> QED BY <3>1, <3>2
  <2> HIDE DEF tail
  <2>9. TextsIn(tail) = <<>>
    BY <2>8, KeptNone DEF TextsIn
  <2>10. TextsIn(eaten \o tail) = TextsIn(eaten) \o TextsIn(tail)
    BY <2>8, KeptConcat DEF TextsIn
  <2>11. TextsIn(eaten) \in Seq(Texts)
    BY KeptType DEF TextsIn
  <2>12. TextsIn(eaten) \o <<>> = TextsIn(eaten)
    BY <2>11
  <2> QED BY ONLY <2>4, <2>7, <2>9, <2>10, <2>12, Zenon
<1> QED BY <1>3, <1>4

(* Without [DONE] all of the body is before it. *)
LEMMA NoDone ==
  ASSUME NEW b \in Seq(Chars), Without(b, "done")
  PROVE  BeforeDone(b) = b
BY DEF BeforeDone, Without

(* What is before the first [DONE]. *)
LEMMA FirstDone ==
  ASSUME NEW x \in Seq(Chars), NEW y \in Seq(Chars), Without(x, "done")
  PROVE  BeforeDone(x \o (<<"done">> \o y)) = x
<1> DEFINE b == x \o (<<"done">> \o y)
           n == Len(x)
           dones == {i \in 1..Len(b) : b[i] = "done"}
           z == <<"done">> \o y
<1>1. z \in Seq(Chars) /\ Len(z) >= 1 /\ Len(z) \in Nat /\ z[1] = "done"
  BY Distinct
<1> HIDE DEF z
<1>2. x \o z \in Seq(Chars) /\ Len(x \o z) = n + Len(z) /\ n \in Nat
      /\ (\A i \in 1..n : (x \o z)[i] = x[i]) /\ (x \o z)[n + 1] = "done"
      /\ SubSeq(x \o z, 1, n) = x
  <2>1. Len(x \o z) = n + Len(z) /\ n \in Nat /\ x \o z \in Seq(Chars)
    BY <1>1, ConcatLength
  <2>2. \A i \in 1..n : (x \o z)[i] = x[i]
    BY <1>1
  <2>3. (x \o z)[n + 1] = "done"
    BY <1>1
  <2>4. SubSeq(x \o z, 1, n) = x
    BY <1>1
  <2> QED BY <2>1, <2>2, <2>3, <2>4
<1>3. b = x \o z
  BY DEF z
<1> HIDE DEF b
<1>4. n + 1 \in dones
  BY <1>1, <1>2, <1>3
<1>5. \A i \in dones : n + 1 <= i
  <2> SUFFICES ASSUME NEW i \in dones, ~(n + 1 <= i) PROVE FALSE
    OBVIOUS
  <2>1. i \in 1..n /\ b[i] = "done"
    BY <1>2, <1>3
  <2>2. x[i] = "done"
    BY <2>1, <1>2, <1>3
  <2> QED BY <2>1, <2>2 DEF Without
<1> DEFINE first == CHOOSE i \in dones : \A k \in dones : i <= k
<1>6. first \in dones /\ \A k \in dones : first <= k
  BY <1>4, <1>5
<1> HIDE DEF first
<1>7. first = n + 1
  BY <1>2, <1>3, <1>4, <1>5, <1>6
<1>8. BeforeDone(b) = SubSeq(b, 1, first - 1)
  BY <1>4 DEF BeforeDone, first
<1>9. (n + 1) - 1 = n
  BY <1>2
<1> QED BY <1>2, <1>3, <1>7, <1>8, <1>9 DEF b

(* What is before the first d, and what is behind it. *)
Divisions(b, d) ==
  {z \in Seq(Chars) \X Seq(Chars) : Without(z[1], d) /\ b = z[1] \o (<<d>> \o z[2])}

LEMMA Divided ==
  ASSUME NEW d \in Chars, NEW b \in Seq(Chars), ~Without(b, d)
  PROVE  Divisions(b, d) # {}
<1> DEFINE ds == {i \in 1..Len(b) : b[i] = d}
<1>1. ds \subseteq Nat /\ ds # {} /\ Len(b) \in Nat
  BY DEF Without
<1>2. PICK q \in ds : \A r \in ds : q <= r
  <2> HIDE DEF ds
  <2> QED BY <1>1, LeastNumber
<1>3. q \in 1..Len(b) /\ b[q] = d
  OBVIOUS
<1> DEFINE x == SubSeq(b, 1, q - 1)
           s == SubSeq(b, q, q)
           y == SubSeq(b, q + 1, Len(b))
<1>4. x \in Seq(Chars) /\ Len(x) = q - 1 /\ \A i \in 1..(q - 1) : x[i] = b[i]
  BY <1>1, <1>3
<1>5. y \in Seq(Chars)
  BY <1>1, <1>3
<1>6. s = <<d>>
  <2>1. s \in Seq(Chars) /\ Len(s) = 1 /\ s[1] = d
    BY <1>1, <1>3
  <2> HIDE DEF s
  <2> QED BY <2>1
<1>7. Without(x, d)
  <2> SUFFICES ASSUME NEW i \in 1..Len(x), x[i] = d PROVE FALSE
    BY DEF Without
  <2>1. i \in 1..(q - 1) /\ b[i] = d
    BY <1>4
  <2>2. i \in ds /\ ~(q <= i)
    BY <2>1, <1>1, <1>3
  <2> QED BY <2>2, <1>2
<1>8. SubSeq(b, 1, q) = x \o s
  <2>1. q \in 0..Len(b) /\ q - 1 \in 0..q /\ (q - 1) + 1 = q
    BY <1>1, <1>3
  <2>2. SubSeq(b, 1, q) = SubSeq(b, 1, q - 1) \o SubSeq(b, (q - 1) + 1, q)
    BY <2>1, SplitFirst
  <2> QED BY <2>1, <2>2
<1>9. b = SubSeq(b, 1, q) \o y
  <2>1. q \in 0..Len(b)
    BY <1>1, <1>3
  <2> QED BY <2>1, Split
<1> HIDE DEF x, s, y
<1>10. (x \o s) \o y = x \o (s \o y)
  <2>1. s \in Seq(Chars)
    BY <1>6
  <2>2. x \o (s \o y) = (x \o s) \o y
    BY <2>1, <1>4, <1>5, Associative
  <2> QED BY <2>2
<1>11. b = x \o (<<d>> \o y)
  BY ONLY <1>6, <1>8, <1>9, <1>10, Zenon
<1>12. <<x, y>> \in Divisions(b, d)
  BY <1>4, <1>5, <1>7, <1>11 DEF Divisions
<1> QED BY <1>12

-----------------------------------------------------------------------------
(***************************************************************************)
(* The answer, whatever frames the body comes in.                          *)
(***************************************************************************)

(* The body is what the decoder has taken off and its buffer; of the data  *)
(* lines taken off, those that were popped gave the texts of the answer,   *)
(* and the others are pending.                                             *)
Taken(eaten, popped) ==
  /\ wire = eaten \o buffer /\ Ended(eaten)
  /\ DataLines(eaten) = popped \o pending
  /\ content = TextsIn(popped)
  /\ ~done => Without(popped, "done")

AnswerInv ==
  /\ ReadInv /\ (read => done) /\ (at = "answered" => done)
  /\ EolType
  /\ ~failed =>
       /\ wire \in Seq(Chars) /\ buffer \in Seq(Chars) /\ pending \in Seq(DataTokens)
       /\ LineEnds(wire) /\ ~HasDelimiter(buffer)
       /\ \E eaten \in Seq(Chars), popped \in Seq(DataTokens) : Taken(eaten, popped)
       /\ done => content = TextsIn(BeforeDone(wire))

(* A stream is opened with nothing received. *)
LEMMA AnswerInit == Init => AnswerInv
<1> SUFFICES ASSUME Init PROVE AnswerInv
  OBVIOUS
<1>1. ReadInv /\ (read => done) /\ (at = "answered" => done) /\ EolType
  BY ReadInit DEF Init, EolType
<1>2. /\ wire = <<>> /\ buffer = <<>> /\ pending = <<>> /\ content = <<>> /\ ~done
  BY DEF Init
<1>3. DataLines(<<>>) = <<>> /\ TextsIn(<<>>) = <<>>
  BY KeptNothing DEF DataLines, TextsIn
<1>4. <<>> \o <<>> = <<>> /\ Without(<<>>, "done") /\ Ended(<<>>)
  BY DEF Without, Ended
<1>5. <<>> \in Seq(Chars) /\ <<>> \in Seq(DataTokens)
  OBVIOUS
<1>6. LineEnds(wire) /\ ~HasDelimiter(buffer)
  BY <1>2 DEF LineEnds, HasDelimiter
<1>7. Taken(<<>>, <<>>)
  BY <1>2, <1>3, <1>4 DEF Taken
<1> QED BY <1>1, <1>2, <1>5, <1>6, <1>7 DEF AnswerInv

(* What is in the last conjunct does not change with the variables of the  *)
(* decoder.                                                                *)
LEMMA NothingReceived ==
  ASSUME AnswerInv, ReadInv', UNCHANGED <<eol, wire, buffer, pending, content, done, read>>,
         ~failed' => ~failed, at' = "answered" => done
  PROVE  AnswerInv'
<1>1. EolType' /\ (LineEnds(wire) => LineEnds(wire)')
  BY DEF AnswerInv, EolType, LineEnds
<1>2. \A eaten, popped : Taken(eaten, popped) => Taken(eaten, popped)'
  BY DEF Taken
<1> QED BY <1>1, <1>2 DEF AnswerInv

(* A frame: what of the buffer and the frame is taken off is decoded.      *)
LEMMA FrameTaken ==
  ASSUME AnswerInv, ReadInv', Frame
  PROVE  AnswerInv'
<1>1. /\ pending = <<>> /\ ~done
      /\ UNCHANGED <<eol, body, done, read, content>>
  BY DEF Frame, Awaiting
<1>2. PICK frame \in Frames :
        /\ wire' = wire \o frame
        /\ buffer' = Push(frame).rest
        /\ IF Push(frame).ok
           THEN pending' = Push(frame).events /\ UNCHANGED <<at, returned, failed>>
           ELSE ReturnsError /\ UNCHANGED pending
  BY DEF Frame
<1>3. EolType' /\ (read => done)' /\ (at = "answered" => done)'
  <2>1. at' # "answered" \/ UNCHANGED at
    <3>1. CASE Push(frame).ok
      BY <3>1, <1>2
    <3>2. CASE ~Push(frame).ok
      BY <3>2, <1>2 DEF ReturnsError
    <3> QED BY <3>1, <3>2
  <2> QED BY <2>1, <1>1 DEF AnswerInv, EolType
<1>4. CASE ~Push(frame).ok
  <2>1. failed'
    BY <1>2, <1>4 DEF ReturnsError
  <2> QED BY <2>1, <1>3 DEF AnswerInv
<1>5. CASE Push(frame).ok /\ failed
  <2>1. failed'
    BY <1>2, <1>5
  <2> QED BY <2>1, <1>3 DEF AnswerInv
<1>6. CASE Push(frame).ok /\ ~failed
  <2> DEFINE bytes == buffer \o frame
             d == Decode(bytes)
  <2>1. /\ EolType /\ wire \in Seq(Chars) /\ buffer \in Seq(Chars) /\ LineEnds(wire)
        /\ \E eaten \in Seq(Chars), popped \in Seq(DataTokens) : Taken(eaten, popped)
    BY <1>6 DEF AnswerInv
  <2>2. frame \in Seq(Chars) /\ LineEnds(wire \o frame)
    BY <2>1, FrameFollows
  <2>3. bytes \in Seq(Chars)
    BY <2>1, <2>2
  <2>4. Push(frame) = d
    BY DEF Push
  <2> HIDE DEF bytes
  <2>5. d \in Decoding /\ Decoded(d, bytes) /\ Stopped(d)
    BY <2>3, PushDecodes
  <2> HIDE DEF d
  <2>6. d.ok /\ d.rest \in Seq(Chars) /\ d.events \in Seq(DataTokens) /\ ~HasDelimiter(d.rest)
    BY <1>6, <2>4, <2>5 DEF Decoding, Stopped
  <2>7. PICK more \in Seq(Chars) :
          bytes = more \o d.rest /\ Ended(more) /\ d.events = DataLines(more)
    BY <2>5, <2>6 DEF Decoded
  <2>8. PICK eaten \in Seq(Chars), popped \in Seq(DataTokens) : Taken(eaten, popped)
    BY <2>1
  <2> DEFINE all == eaten \o more
             rest == d.rest
  <2> HIDE DEF rest
  <2>9. rest \in Seq(Chars) /\ bytes = more \o rest
    BY <2>6, <2>7 DEF rest
  <2>10. wire \o frame = all \o rest
    <3>1. wire = eaten \o buffer
      BY <2>8 DEF Taken
    <3>2. eaten \o (buffer \o frame) = (eaten \o buffer) \o frame
      <4>1. eaten \in Seq(Chars) /\ buffer \in Seq(Chars) /\ frame \in Seq(Chars)
        BY <2>1, <2>2
      <4> QED BY ONLY <4>1, Associative
    <3>3. eaten \o (more \o rest) = (eaten \o more) \o rest
      <4>1. eaten \in Seq(Chars) /\ more \in Seq(Chars) /\ rest \in Seq(Chars)
        BY <2>9
      <4> QED BY ONLY <4>1, Associative
    <3>4. buffer \o frame = more \o rest
      BY <2>9 DEF bytes
    <3>5. (eaten \o buffer) \o frame = (eaten \o more) \o rest
      BY ONLY <3>2, <3>3, <3>4, Zenon
    <3> QED BY ONLY <3>1, <3>5, Zenon
  <2>11. all \in Seq(Chars) /\ Ended(all)
    <3>1. all \in Seq(Chars)
      OBVIOUS
    <3>2. Ended(eaten)
      BY <2>8 DEF Taken
    <3>3. Ended(all)
      BY <3>2, <2>7, EndedConcat
    <3> QED BY <3>1, <3>3
  <2>12. DataLines(all) = popped \o d.events
    <3>1. DataLines(all) = DataLines(eaten) \o DataLines(more)
      BY KeptConcat DEF DataLines
    <3>2. DataLines(eaten) = popped
      <4>1. DataLines(eaten) = popped \o <<>>
        BY <2>8, <1>1 DEF Taken
      <4>2. popped \o <<>> = popped
        OBVIOUS
      <4> QED BY <4>1, <4>2
    <3>3. DataLines(more) = d.events
      BY <2>7
    <3> HIDE DEF all
    <3> QED BY <3>1, <3>2, <3>3
  <2> HIDE DEF all
  <2>13. /\ wire' = all \o rest /\ buffer' = rest /\ pending' = d.events
         /\ content' = content /\ done' = done
    BY <1>1, <1>2, <1>6, <2>4, <2>10 DEF rest
  <2>14. Taken(all, popped)'
    <3>1. content = TextsIn(popped) /\ Without(popped, "done")
      BY <2>8, <1>1 DEF Taken
    <3>2. wire' = all \o buffer' /\ DataLines(all) = popped \o pending'
      BY <2>12, <2>13
    <3> QED BY <3>1, <3>2, <2>11, <2>13 DEF Taken
  <2>15. LineEnds(wire)'
    <3>1. wire' = wire \o frame /\ eol' = eol
      BY <1>1, <1>2
    <3> QED BY <2>2, <3>1 DEF LineEnds
  <2>16. wire' \in Seq(Chars)
    BY <2>1, <2>2, <1>2
  <2>17. buffer' \in Seq(Chars) /\ ~HasDelimiter(buffer)' /\ pending' \in Seq(DataTokens) /\ ~done'
    BY <2>6, <2>9, <2>13, <1>1 DEF rest
  <2> QED BY <2>11, <2>14, <2>15, <2>16, <2>17, <1>3 DEF AnswerInv
<1> QED BY <1>4, <1>5, <1>6

(* An event is popped: its text, if it has one, is the next of the answer. *)
LEMMA PopTaken ==
  ASSUME NEW eaten \in Seq(Chars), NEW popped \in Seq(DataTokens), NEW e \in DataTokens,
         pending \in Seq(DataTokens), Taken(eaten, popped), Pop(e),
         content' = Keep(content, e, Texts), e = "done" => done', done => done'
  PROVE  /\ Append(popped, e) \in Seq(DataTokens)
         /\ Taken(eaten, Append(popped, e))'
         /\ pending' \in Seq(DataTokens)
<1>1. pending # <<>> /\ e = Head(pending) /\ pending' = Tail(pending)
      /\ UNCHANGED <<eol, wire, body, buffer>>
  BY DEF Pop
<1>2. Tail(pending) \in Seq(DataTokens) /\ Append(popped, e) \in Seq(DataTokens)
  BY <1>1
<1>3. pending = <<e>> \o Tail(pending)
  BY <1>1
<1>4. Append(popped, e) \o Tail(pending) = popped \o pending
  <2> DEFINE t == Tail(pending)
             one == <<e>>
  <2>1. t \in Seq(DataTokens) /\ one \in Seq(DataTokens)
    BY <1>2
  <2>2. Append(popped, e) = popped \o one
    OBVIOUS
  <2>3. pending = one \o t
    BY <1>3
  <2> HIDE DEF t, one
  <2>4. popped \o (one \o t) = (popped \o one) \o t
    BY <2>1, Associative
  <2>5. Append(popped, e) \o t = popped \o pending
    BY ONLY <2>2, <2>3, <2>4, Zenon
  <2> QED BY <2>5 DEF t
<1>5. TextsIn(Append(popped, e)) = Keep(TextsIn(popped), e, Texts)
  BY KeptAppend DEF TextsIn
<1>6. Without(Append(popped, e), "done") <=> Without(popped, "done") /\ e # "done"
  BY WithoutAppend
<1>7. Taken(eaten, popped) /\ content = TextsIn(popped)
  BY DEF Taken
<1>8. content' = TextsIn(Append(popped, e))
  BY <1>5, <1>7
<1>9. DataLines(eaten) = Append(popped, e) \o pending'
  BY <1>1, <1>4 DEF Taken
<1>10. ~done' => Without(Append(popped, e), "done")
  BY <1>6 DEF Taken
<1>11. wire' = eaten \o buffer' /\ Ended(eaten)
  BY <1>1 DEF Taken
<1>12. Taken(eaten, Append(popped, e))'
  BY <1>8, <1>9, <1>10, <1>11 DEF Taken
<1> QED BY <1>1, <1>2, <1>12

(* When [DONE] is popped, all texts before it have been.                   *)
LEMMA DoneIsWhole ==
  ASSUME NEW eaten \in Seq(Chars), NEW popped \in Seq(DataTokens), buffer \in Seq(Chars),
         pending \in Seq(DataTokens), Taken(eaten, popped), Pop("done"), ~done
  PROVE  content = TextsIn(BeforeDone(wire))
<1> DEFINE t == Tail(pending)
           rest == buffer
<1>1. pending # <<>> /\ "done" = Head(pending)
  BY DEF Pop
<1>2. t \in Seq(DataTokens) /\ pending = <<"done">> \o t
  BY <1>1
<1> HIDE DEF t
<1>3. DataLines(eaten) = popped \o (<<"done">> \o t) /\ Without(popped, "done")
      /\ content = TextsIn(popped) /\ wire = eaten \o rest
  BY <1>2 DEF Taken
<1> HIDE DEF rest
<1>4. ~Without(eaten, "done")
  <2> SUFFICES ASSUME Without(eaten, "done") PROVE FALSE
    OBVIOUS
  <2> DEFINE z == <<"done">> \o t
             w == popped \o z
  <2>1. z \in Seq(DataTokens) /\ Len(z) \in Nat /\ Len(z) >= 1 /\ z[1] = "done"
    BY <1>2, Distinct
  <2> HIDE DEF z
  <2>2. Len(w) = Len(popped) + Len(z) /\ w[Len(popped) + 1] = "done" /\ Len(popped) \in Nat
    <3>1. Len(w) = Len(popped) + Len(z) /\ Len(popped) \in Nat
      BY <2>1, ConcatLength
    <3>2. w[Len(popped) + 1] = "done"
      BY <2>1
    <3> QED BY <3>1, <3>2
  <2>3. Without(Kept(eaten, DataTokens), "done")
    BY Distinct, KeptWithout
  <2>4. Without(w, "done")
    BY <2>3, <1>3 DEF DataLines, z
  <2> HIDE DEF w
  <2>5. Len(popped) + 1 \in 1..Len(w)
    BY <2>1, <2>2
  <2> QED BY <2>2, <2>4, <2>5 DEF Without
<1>5. PICK x \in Seq(Chars), y \in Seq(Chars) :
        Without(x, "done") /\ eaten = x \o (<<"done">> \o y)
  <2>1. "done" \in Chars
    BY Distinct
  <2>2. PICK z \in Divisions(eaten, "done") : TRUE
    BY <2>1, <1>4, Divided
  <2>3. z[1] \in Seq(Chars) /\ z[2] \in Seq(Chars)
    BY <2>2 DEF Divisions
  <2>4. Without(z[1], "done") /\ eaten = z[1] \o (<<"done">> \o z[2])
    BY <2>2 DEF Divisions
  <2> QED BY <2>3, <2>4
<1> DEFINE dx == Kept(x, DataTokens)
           dy == Kept(y, DataTokens)
           one == <<"done">>
<1>6. dx \in Seq(DataTokens) /\ dy \in Seq(DataTokens)
  BY KeptType
<1>7. Kept(one, DataTokens) = one
  <2>1. one = Append(<<>>, "done") /\ <<>> \in Seq(Chars) /\ "done" \in Chars
    BY Distinct
  <2>2. Kept(Append(<<>>, "done"), DataTokens) = Keep(Kept(<<>>, DataTokens), "done", DataTokens)
    BY <2>1, KeptAppend
  <2>3. Keep(<<>>, "done", DataTokens) = one
    BY Distinct DEF Keep
  <2> HIDE DEF one
  <2> QED BY <2>1, <2>2, <2>3, KeptNothing
<1>8. one \in Seq(Chars) /\ one \o y \in Seq(Chars) /\ one \in Seq(DataTokens)
  BY Distinct
<1> HIDE DEF one
<1>9. Kept(eaten, DataTokens) = dx \o (one \o dy)
  <2>1. Kept(one \o y, DataTokens) = Kept(one, DataTokens) \o dy
    BY <1>8, KeptConcat
  <2>2. Kept(x \o (one \o y), DataTokens) = dx \o Kept(one \o y, DataTokens)
    BY <1>8, KeptConcat
  <2>3. eaten = x \o (one \o y)
    BY <1>5 DEF one
  <2> HIDE DEF dx, dy
  <2> QED BY <2>1, <2>2, <2>3, <1>7
<1>10. Without(dx, "done")
  BY <1>5, Distinct, KeptWithout
<1> HIDE DEF dx, dy
<1>11. popped = dx
  <2>1. popped \o (<<"done">> \o t) = dx \o (<<"done">> \o dy)
    BY <1>3, <1>9 DEF DataLines, one
  <2>2. "done" \in DataTokens
    BY Distinct
  <2> QED BY <2>1, <2>2, <1>2, <1>3, <1>6, <1>10, BeforeFirst
<1>12. TextsIn(popped) = TextsIn(x)
  <2>1. Texts \subseteq DataTokens
    BY Distinct
  <2>2. Kept(Kept(x, DataTokens), Texts) = Kept(x, Texts)
    BY <2>1, KeptOfKept
  <2> QED BY <1>11, <2>2 DEF dx, TextsIn
<1>13. BeforeDone(wire) = x
  <2>1. rest \in Seq(Chars)
    BY DEF rest
  <2>2. (one \o y) \o rest = one \o (y \o rest) /\ y \o rest \in Seq(Chars)
    <3>1. one \o (y \o rest) = (one \o y) \o rest
      <4>1. one \in Seq(Chars) /\ y \in Seq(Chars) /\ rest \in Seq(Chars)
        BY <2>1, <1>8
      <4> QED BY ONLY <4>1, Associative
    <3>2. y \o rest \in Seq(Chars)
      BY <2>1
    <3> QED BY <3>1, <3>2
  <2>3. x \o ((one \o y) \o rest) = (x \o (one \o y)) \o rest
    <3>1. x \in Seq(Chars) /\ one \o y \in Seq(Chars) /\ rest \in Seq(Chars)
      BY <2>1, <1>8
    <3> QED BY ONLY <3>1, Associative
  <2>4. wire = x \o (one \o (y \o rest))
    <3>1. wire = eaten \o rest /\ eaten = x \o (one \o y)
      BY <1>3, <1>5 DEF one
    <3> QED BY ONLY <3>1, <2>2, <2>3, Zenon
  <2>5. BeforeDone(x \o (one \o (y \o rest))) = x
    BY <2>2, <1>5, FirstDone DEF one
  <2> QED BY <2>4, <2>5
<1> QED BY <1>3, <1>12, <1>13

(* When the body ends between events, all its texts have been popped.      *)
LEMMA EndIsWhole ==
  ASSUME NEW eaten \in Seq(Chars), NEW popped \in Seq(DataTokens), buffer \in Seq(Chars),
         Taken(eaten, popped), pending = <<>>, ~done, ~HasPartialEvent
  PROVE  content = TextsIn(BeforeDone(wire))
<1> DEFINE rest == buffer
<1>1. DataLines(eaten) = popped /\ Without(popped, "done") /\ content = TextsIn(popped)
      /\ wire = eaten \o rest /\ rest \in Seq(Chars)
  <2>1. popped \o <<>> = popped
    OBVIOUS
  <2> QED BY <2>1 DEF Taken
<1>2. \A i \in 1..Len(rest) : rest[i] \in {"CR", "LF", "space"}
  BY DEF HasPartialEvent
<1> HIDE DEF rest
<1>3. Without(rest, "done") /\ TextsIn(rest) = <<>>
  <2>1. Without(rest, "done")
    BY <1>2 DEF Without
  <2>2. \A i \in 1..Len(rest) : rest[i] \notin Texts
    BY <1>2, Distinct
  <2> QED BY <2>1, <2>2, <1>1, KeptNone DEF TextsIn
<1>4. Without(eaten, "done")
  <2>1. Without(Kept(eaten, DataTokens), "done")
    BY <1>1 DEF DataLines
  <2> QED BY <2>1, Distinct, KeptWithout
<1>5. Without(eaten \o rest, "done") /\ eaten \o rest \in Seq(Chars)
  <2>1. /\ eaten \o rest \in Seq(Chars) /\ Len(eaten \o rest) = Len(eaten) + Len(rest)
        /\ Len(eaten) \in Nat /\ Len(rest) \in Nat
        /\ \A i \in 1..Len(eaten) : (eaten \o rest)[i] = eaten[i]
        /\ \A i \in 1..Len(rest) : (eaten \o rest)[Len(eaten) + i] = rest[i]
    <3>1. eaten \o rest \in Seq(Chars) /\ Len(eaten \o rest) = Len(eaten) + Len(rest)
      BY <1>1, ConcatLength
    <3>2. \A i \in 1..Len(eaten) : (eaten \o rest)[i] = eaten[i]
      BY <1>1
    <3>3. \A i \in 1..Len(rest) : (eaten \o rest)[Len(eaten) + i] = rest[i]
      BY <1>1
    <3> QED BY <3>1, <3>2, <3>3, <1>1
  <2>2. ASSUME NEW i \in 1..Len(eaten \o rest) PROVE (eaten \o rest)[i] # "done"
    <3>1. CASE i <= Len(eaten)
      <4>1. i \in 1..Len(eaten)
        BY <3>1, <2>1
      <4> QED BY <4>1, <2>1, <1>4 DEF Without
    <3>2. CASE i > Len(eaten)
      <4> DEFINE k == i - Len(eaten)
      <4>1. k \in 1..Len(rest) /\ Len(eaten) + k = i
        BY <3>2, <2>1
      <4> HIDE DEF k
      <4> QED BY <4>1, <2>1, <1>3 DEF Without
    <3> QED BY <3>1, <3>2, <2>1
  <2> QED BY <2>1, <2>2 DEF Without
<1>6. BeforeDone(wire) = eaten \o rest
  BY <1>1, <1>5, NoDone
<1>7. TextsIn(eaten \o rest) = TextsIn(eaten) \o TextsIn(rest)
  BY <1>1, KeptConcat DEF TextsIn
<1>8. TextsIn(eaten) \in Seq(Texts)
  BY KeptType DEF TextsIn
<1>9. TextsIn(eaten) \o <<>> = TextsIn(eaten)
  BY <1>8
<1>10. TextsIn(popped) = TextsIn(eaten)
  <2>1. Texts \subseteq DataTokens
    BY Distinct
  <2>2. Kept(Kept(eaten, DataTokens), Texts) = Kept(eaten, Texts)
    BY <2>1, KeptOfKept
  <2> QED BY <2>2, <1>1 DEF TextsIn, DataLines
<1> QED BY ONLY <1>1, <1>3, <1>6, <1>7, <1>9, <1>10, Zenon

(* What has been decoded when events are pending, or the stream is open.   *)
LEMMA AnswerFacts ==
  ASSUME AnswerInv, ~failed
  PROVE  /\ buffer \in Seq(Chars) /\ pending \in Seq(DataTokens)
         /\ \E eaten \in Seq(Chars), popped \in Seq(DataTokens) : Taken(eaten, popped)
BY DEF AnswerInv

(* An event that is popped, of whatever kind, stays in order; [DONE] is    *)
(* popped last.                                                            *)
LEMMA PopKeeps ==
  ASSUME AnswerInv, ReadInv', NEW e \in DataTokens, Pop(e),
         content' = Keep(content, e, Texts), UNCHANGED failed,
         (done' <=> done \/ e = "done"), (read' <=> read \/ e = "done"),
         at' = "answered" => done'
  PROVE  AnswerInv'
<1>1. /\ Reading /\ ~read /\ ~done
      /\ UNCHANGED <<eol, wire, buffer>>
  BY DEF AnswerInv, ReadInv, Pop
<1>2. EolType' /\ (read => done)' /\ (at = "answered" => done)'
  BY <1>1 DEF AnswerInv, EolType
<1>3. CASE failed
  BY <1>2, <1>3 DEF AnswerInv
<1>4. CASE ~failed
  <2>1. buffer \in Seq(Chars) /\ pending \in Seq(DataTokens)
    BY <1>4, AnswerFacts
  <2>2. PICK eaten \in Seq(Chars), popped \in Seq(DataTokens) : Taken(eaten, popped)
    BY <1>4, AnswerFacts
  <2>3. /\ Append(popped, e) \in Seq(DataTokens) /\ pending' \in Seq(DataTokens)
        /\ Taken(eaten, Append(popped, e))'
    BY <2>1, <2>2, <1>1, PopTaken
  <2>4. wire' \in Seq(Chars) /\ buffer' \in Seq(Chars) /\ LineEnds(wire)' /\ ~HasDelimiter(buffer)'
    BY <1>1, <1>4 DEF AnswerInv, LineEnds
  <2>5. done' => content' = TextsIn(BeforeDone(wire'))
    <3> SUFFICES ASSUME done' PROVE content' = TextsIn(BeforeDone(wire'))
      OBVIOUS
    <3>1. e = "done" /\ Pop("done")
      BY <1>1
    <3>2. content = TextsIn(BeforeDone(wire))
      BY <3>1, <2>1, <2>2, <1>1, DoneIsWhole
    <3>3. content' = content
      BY <3>1, Distinct DEF Keep
    <3> QED BY <3>2, <3>3, <1>1
  <2> QED BY <1>2, <2>3, <2>4, <2>5 DEF AnswerInv
<1> QED BY <1>3, <1>4

(* The body ends.                                                          *)
LEMMA EndKeeps ==
  ASSUME AnswerInv, ReadInv', BodyEnds
  PROVE  AnswerInv'
<1>1. /\ Reading /\ ~read /\ ~done /\ pending = <<>>
      /\ UNCHANGED <<eol, wire, buffer, pending, content>>
  BY DEF AnswerInv, ReadInv, BodyEnds, Awaiting
<1>2. EolType'
  BY <1>1 DEF AnswerInv, EolType
<1>3. CASE HasPartialEvent
  <2>1. failed' /\ at' # "answered" /\ UNCHANGED <<done, read>>
    BY <1>3 DEF BodyEnds, ReturnsError
  <2> QED BY <2>1, <1>1, <1>2 DEF AnswerInv
<1>4. CASE ~HasPartialEvent
  <2>1. done' /\ UNCHANGED failed
    BY <1>4 DEF BodyEnds, ReturnsNone
  <2>2. CASE failed
    BY <2>1, <2>2, <1>2 DEF AnswerInv
  <2>3. CASE ~failed
    <3>1. buffer \in Seq(Chars) /\ pending \in Seq(DataTokens)
      BY <2>3, AnswerFacts
    <3>2. PICK eaten \in Seq(Chars), popped \in Seq(DataTokens) : Taken(eaten, popped)
      BY <2>3, AnswerFacts
    <3>3. content = TextsIn(BeforeDone(wire))
      BY <3>1, <3>2, <1>1, <1>4, EndIsWhole
    <3>4. Taken(eaten, popped)'
      BY <3>2, <2>1, <1>1 DEF Taken
    <3>5. /\ wire' \in Seq(Chars) /\ buffer' \in Seq(Chars) /\ pending' \in Seq(DataTokens)
          /\ LineEnds(wire)' /\ ~HasDelimiter(buffer)'
      BY <1>1, <2>3 DEF AnswerInv, LineEnds
    <3>6. content' = TextsIn(BeforeDone(wire'))
      BY <3>3, <1>1
    <3> QED BY <1>2, <2>1, <3>4, <3>5, <3>6 DEF AnswerInv
  <2> QED BY <2>2, <2>3
<1> QED BY <1>3, <1>4

(* Every step keeps AnswerInv.                                             *)
LEMMA AnswerStep == AnswerInv /\ [Next]_vars => AnswerInv'
<1> SUFFICES ASSUME AnswerInv, [Next]_vars PROVE AnswerInv'
  OBVIOUS
<1>0. ReadInv'
  BY ReadStep DEF AnswerInv
<1>1. CASE NextText \/ Finish \/ CancelNextText \/ Drop \/ UNCHANGED vars
  <2>1. UNCHANGED <<eol, wire, buffer, pending, content, done, read, failed>>
    BY <1>1 DEF NextText, Finish, CancelNextText, Drop, vars
  <2>2. at' = "answered" => done
    BY <1>1 DEF NextText, Finish, CancelNextText, Drop, vars, AnswerInv
  <2> QED BY <2>1, <2>2, <1>0, NothingReceived
<1>2. CASE Frame
  BY <1>2, <1>0, FrameTaken
<1>3. CASE Breaks
  <2>1. failed' /\ at' # "answered" /\ UNCHANGED <<eol, done, read>>
    BY <1>3 DEF Breaks, ReturnsError
  <2> QED BY <2>1, <1>0 DEF AnswerInv, EolType
<1>4. CASE BodyEnds
  BY <1>4, <1>0, EndKeeps
<1>5. ASSUME NEW e \in Texts, PopText(e) PROVE AnswerInv'
  <2>1. e \in DataTokens /\ e # "done"
    BY Distinct
  <2>2. Pop(e) /\ UNCHANGED <<done, read, failed>> /\ content' = Append(content, e)
    BY <1>5 DEF PopText, ReturnsText
  <2>3. content' = Keep(content, e, Texts)
    BY <2>2 DEF Keep
  <2>4. at' = "answered" => done
    BY <1>5 DEF PopText, ReturnsText, AnswerInv
  <2>5. (done' <=> done \/ e = "done") /\ (read' <=> read \/ e = "done")
    BY <2>1, <2>2, <1>0 DEF AnswerInv, ReadInv, Pop
  <2> QED BY <2>1, <2>2, <2>3, <2>4, <2>5, <1>0, PopKeeps
<1>6. CASE PopEmpty
  <2>1. "empty" \in DataTokens /\ "empty" \notin Texts
    BY Distinct
  <2>2. Pop("empty") /\ UNCHANGED <<done, read, failed, content, at>>
    BY <1>6 DEF PopEmpty
  <2>3. content' = Keep(content, "empty", Texts)
    BY <2>1, <2>2 DEF Keep
  <2>4. at' = "answered" => done
    BY <2>2 DEF AnswerInv
  <2>5. (done' <=> done \/ "empty" = "done") /\ (read' <=> read \/ "empty" = "done")
    BY <2>2 DEF AnswerInv, ReadInv, Pop
  <2> QED BY <2>1, <2>2, <2>3, <2>4, <2>5, <1>0, PopKeeps
<1>7. CASE PopTool
  <2>1. failed' /\ at' # "answered" /\ UNCHANGED <<eol, done, read>>
    BY <1>7 DEF PopTool, Pop, ReturnsError
  <2> QED BY <2>1, <1>0 DEF AnswerInv, EolType
<1>8. CASE PopDone
  <2>1. "done" \in DataTokens /\ "done" \notin Texts
    BY Distinct
  <2>2. Pop("done") /\ done' = TRUE /\ read' = TRUE /\ UNCHANGED <<failed, content>>
    BY <1>8 DEF PopDone, ReturnsNone
  <2>3. content' = Keep(content, "done", Texts)
    BY <2>1, <2>2 DEF Keep
  <2>4. (done' <=> done \/ "done" = "done") /\ (read' <=> read \/ "done" = "done")
    BY <2>2
  <2> QED BY <2>1, <2>2, <2>3, <2>4, <1>0, PopKeeps
<1> QED BY <1>1, <1>2, <1>3, <1>4, <1>5, <1>6, <1>7, <1>8 DEF Next

(* The texts taken and pending are those of the events taken off.          *)
LEMMA AnswerInOrder == AnswerInv => DecodedInOrder
<1> SUFFICES ASSUME AnswerInv, ~failed
             PROVE  content \o TextsIn(pending) = TextsIn(CompletePart(wire))
  BY DEF DecodedInOrder
<1>1. /\ EolType /\ wire \in Seq(Chars) /\ buffer \in Seq(Chars) /\ pending \in Seq(DataTokens)
      /\ LineEnds(wire) /\ ~HasDelimiter(buffer)
  BY DEF AnswerInv
<1>2. PICK eaten \in Seq(Chars), popped \in Seq(DataTokens) : Taken(eaten, popped)
  BY AnswerFacts
<1>3. /\ wire = eaten \o buffer /\ Ended(eaten) /\ DataLines(eaten) = popped \o pending
      /\ content = TextsIn(popped)
  BY <1>2 DEF Taken
<1>4. TextsIn(CompletePart(wire)) = TextsIn(eaten)
  <2> DEFINE w == wire
             rest == buffer
  <2>1. w \in Seq(Chars) /\ rest \in Seq(Chars) /\ w = eaten \o rest
        /\ LineEnds(w) /\ ~HasDelimiter(rest)
    BY <1>1, <1>3
  <2> HIDE DEF w, rest
  <2>2. TextsIn(CompletePart(w)) = TextsIn(eaten)
    BY <2>1, <1>1, <1>3, CompleteTexts
  <2> QED BY <2>2 DEF w
<1>5. TextsIn(DataLines(eaten)) = TextsIn(eaten)
  <2>1. Texts \subseteq DataTokens
    BY Distinct
  <2>2. Kept(Kept(eaten, DataTokens), Texts) = Kept(eaten, Texts)
    BY <2>1, KeptOfKept
  <2> QED BY <2>2 DEF TextsIn, DataLines
<1>6. TextsIn(popped \o pending) = TextsIn(popped) \o TextsIn(pending)
  <2> DEFINE later == pending
  <2>1. later \in Seq(DataTokens)
    BY <1>1
  <2> HIDE DEF later
  <2>2. Kept(popped \o later, Texts) = Kept(popped, Texts) \o Kept(later, Texts)
    BY <2>1, KeptConcat
  <2> QED BY <2>2 DEF TextsIn, later
<1> QED BY ONLY <1>3, <1>4, <1>5, <1>6, Zenon

(* A finished answer is that of all that was sent before [DONE].           *)
LEMMA AnswerIsWhole == AnswerInv => AnswerWhole
BY DEF AnswerInv, AnswerWhole

(* The decoder works for frames of any size that cut the body anywhere,    *)
(* also between the characters of a blank line: what it has returned and   *)
(* what next_text has taken are the texts of the events that are complete. *)
THEOREM DecodesInOrder == Spec => []DecodedInOrder
<1> QED BY AnswerInit, AnswerStep, AnswerInOrder, PTL DEF Spec

(* A stream that is finished without an error gave all the text before     *)
(* [DONE], or before the end of the body, however many events are pending. *)
THEOREM AnswersWhole == Spec => []AnswerWhole
<1> QED BY AnswerInit, AnswerStep, AnswerIsWhole, PTL DEF Spec

(* The same of the stream of an agent that configures, asks and embeds     *)
(* around it.                                                              *)
LEMMA AnswerInCalls == CallsSpec => []AnswerInv
<1>1. CallsInit => AnswerInv
  BY AnswerInit DEF CallsInit
<1>2. AnswerInv /\ [CallsNext]_callsVars => AnswerInv'
  BY CallsAreStreamSteps, AnswerStep
<1> QED BY <1>1, <1>2, PTL DEF CallsSpec

(* No event of a stream is decoded early, late, twice or not at all,       *)
(* whatever its agent did before it opened the stream.                     *)
THEOREM DecodesInOrderInCalls == CallsSpec => []DecodedInOrder
<1> QED BY AnswerInCalls, AnswerInOrder, PTL

(* And an agent that finishes its stream has all that the provider said    *)
(* before [DONE], or an error.                                             *)
THEOREM AnswersWholeInCalls == CallsSpec => []AnswerWhole
<1> QED BY AnswerInCalls, AnswerIsWhole, PTL
=============================================================================
