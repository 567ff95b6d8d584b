------------------------- MODULE FilterGraphProofs -------------------------
(***************************************************************************)
(* A filter graph computes, depth first and with state left between the    *)
(* calls, what its chain means state by state.                             *)
(*                                                                         *)
(* The link between the two is Arrived(c, l, given): what has come into    *)
(* each state after l once state l, a collection, has given some batches   *)
(* on (l = 0: once the cursor has).  The states before the next collection *)
(* pass batches on one by one, so that one more batch adds one more, or    *)
(* none, to each (AfterMore); the collection takes them all.  When all     *)
(* have been given, what came as far as that collection is what the chain  *)
(* means there (ArrivedAll), and the checkpoint moves l to it.  DataInv    *)
(* says what each state holds between any two calls in these terms.        *)
(*                                                                         *)
(* InputInv says how long the batches are and that none stays in a state.  *)
(* DataInv rests on it, as the input of a state that is fed is empty, and  *)
(* both rest on the places of the calls, ControlInv.                       *)
(*                                                                         *)
(* Once the output is what the chain means, what is in it is a matter of   *)
(* the chain alone.  A state that takes what it is given gives all of it   *)
(* but what its filter drops, each feature once, whether it pushes,        *)
(* merges, groups or meters (GivesWhole, state by state).  The output is   *)
(* the last batch only, so that all of it is there if the last state was   *)
(* given no more than one, which is what OnceInv counts.                   *)
(*                                                                         *)
(* FlattenSeq, Only, BatchesInto and Arrived are recursive functions: each *)
(* is chosen, so that a lemma shows first that there is one to choose.     *)
(***************************************************************************)
EXTENDS FilterGraph, QueueLemmas, SequenceTheorems

-----------------------------------------------------------------------------
(***************************************************************************)
(* Leaving elements out.                                                   *)
(***************************************************************************)
\* The function that Only chooses
Keeps(s, S, f) ==
  f = [n \in 0..Len(s) |->
         IF n = 0 THEN <<>>
         ELSE IF s[n] \in S THEN Append(f[n - 1], s[n]) ELSE f[n - 1]]

\* There is one,
LEMMA KeepsExists ==
  ASSUME NEW A, NEW s \in Seq(A), NEW S
  PROVE  \E f : Keeps(s, S, f)
<1> DEFINE N == Len(s)
           V == Seq(A)
           H == [x \in (1..N) \X V |->
                   IF s[x[1]] \in S THEN Append(x[2], s[x[1]]) ELSE x[2]]
<1>1. N \in Nat /\ <<>> \in V
  OBVIOUS
<1>2. \A n \in 1..N, v \in V :
        H[<<n, v>>] = IF s[n] \in S THEN Append(v, s[n]) ELSE v
  OBVIOUS
<1>3. H \in [(1..N) \X V -> V]
  OBVIOUS
<1> HIDE DEF H, N, V
<1>4. PICK f : Computes(N, V, <<>>, H, f)
  BY <1>1, <1>3, LoopComputes
<1>5. /\ f \in [0..N -> V] /\ f[0] = <<>>
      /\ \A n \in 1..N : f[n] = H[<<n, f[n - 1]>>]
  BY <1>4 DEF Computes
<1>6. \A n \in 1..N : f[n - 1] \in V
  BY <1>1, <1>5
<1>7. ASSUME NEW n \in 0..N
      PROVE  f[n] = IF n = 0 THEN <<>>
                    ELSE IF s[n] \in S THEN Append(f[n - 1], s[n]) ELSE f[n - 1]
  <2>1. CASE n = 0
    BY <1>5, <2>1
  <2>2. CASE n # 0
    <3>1. n \in 1..N
      BY <1>1, <2>2
    <3>. QED
      BY <1>2, <1>5, <1>6, <2>2, <3>1
  <2>. QED
    BY <2>1, <2>2
<1>8. Keeps(s, S, f)
  BY <1>5, <1>7 DEF Keeps, N
<1>. QED
  BY <1>8

\* which is a sequence at each step.
LEMMA KeepsSteps ==
  ASSUME NEW A, NEW s \in Seq(A), NEW S, NEW f, Keeps(s, S, f)
  PROVE  /\ f \in [0..Len(s) -> Seq(A)] /\ f[0] = <<>>
         /\ \A n \in 1..Len(s) :
              f[n] = IF s[n] \in S THEN Append(f[n - 1], s[n]) ELSE f[n - 1]
<1> DEFINE N == Len(s)
           P == {n \in 0..N : f[n] \in Seq(A)}
<1>1. N \in Nat /\ \A n \in 1..N : s[n] \in A
  OBVIOUS
<1>2. /\ DOMAIN f = 0..N /\ f = [n \in 0..N |-> f[n]]
      /\ \A n \in 0..N :
           f[n] = IF n = 0 THEN <<>>
                  ELSE IF s[n] \in S THEN Append(f[n - 1], s[n]) ELSE f[n - 1]
  BY DEF Keeps
<1> HIDE DEF N
<1>3. /\ f[0] = <<>>
      /\ \A n \in 1..N :
           f[n] = IF s[n] \in S THEN Append(f[n - 1], s[n]) ELSE f[n - 1]
  <2>1. 0 \in 0..N /\ \A n \in 1..N : n \in 0..N /\ n # 0
    BY <1>1
  <2>2. f[0] = <<>>
    BY <1>2, <2>1
  <2>3. ASSUME NEW n \in 1..N
        PROVE  f[n] = IF s[n] \in S THEN Append(f[n - 1], s[n]) ELSE f[n - 1]
    <3>1. n \in 0..N /\ n # 0
      BY <2>1
    <3>. QED
      BY <1>2, <3>1
  <2>. QED
    BY <2>2, <2>3
<1>4. 0 \in P
  <2>1. <<>> \in Seq(A) /\ 0 \in 0..N
    BY <1>1
  <2>. QED
    BY <1>3, <2>1
<1>5. ASSUME NEW n \in 1..N, n - 1 \in P PROVE n \in P
  <2>1. f[n - 1] \in Seq(A) /\ s[n] \in A
    BY <1>1, <1>5
  <2>2. f[n] = Append(f[n - 1], s[n]) \/ f[n] = f[n - 1]
    BY <1>3
  <2>3. Append(f[n - 1], s[n]) \in Seq(A)
    BY <2>1
  <2>4. f[n] \in Seq(A)
    BY <2>1, <2>2, <2>3
  <2>5. n \in 0..N
    BY <1>1
  <2>. QED
    BY <2>4, <2>5
<1>6. 0..N \subseteq P
  <2> HIDE DEF P
  <2>. QED
    BY <1>1, <1>4, <1>5, CountUp
<1>. QED
  BY <1>2, <1>3, <1>6 DEF N

\* Only, by its recursion
LEMMA OnlyDef ==
  ASSUME NEW A, NEW s \in Seq(A), NEW S
  PROVE  \E f : Keeps(s, S, f) /\ Only(s, S) = f[Len(s)]
<1>1. Keeps(s, S, CHOOSE f : Keeps(s, S, f))
  BY KeepsExists
<1>2. Only(s, S) = (CHOOSE f : Keeps(s, S, f))[Len(s)]
  BY DEF Only, Keeps
<1>. QED
  BY <1>1, <1>2

LEMMA OnlyEmpty == ASSUME NEW S PROVE Only(<<>>, S) = <<>>
<1>1. <<>> \in Seq({}) /\ Len(<<>>) = 0
  OBVIOUS
<1>2. PICK f : Keeps(<<>>, S, f) /\ Only(<<>>, S) = f[0]
  BY <1>1, OnlyDef
<1>. QED
  BY <1>1, <1>2 DEF Keeps

\* What is left is a sequence.
LEMMA OnlyIsSeq ==
  ASSUME NEW A, NEW s \in Seq(A), NEW S
  PROVE  Only(s, S) \in Seq(A)
<1>1. PICK f : Keeps(s, S, f) /\ Only(s, S) = f[Len(s)]
  BY OnlyDef
<1>2. f \in [0..Len(s) -> Seq(A)]
  BY <1>1, KeepsSteps
<1>3. Len(s) \in 0..Len(s)
  OBVIOUS
<1>. QED
  BY <1>1, <1>2, <1>3

\* One more element
LEMMA OnlyAppend ==
  ASSUME NEW A, NEW s \in Seq(A), NEW a \in A, NEW S
  PROVE  Only(Append(s, a), S) = IF a \in S THEN Append(Only(s, S), a)
                                            ELSE Only(s, S)
<1> DEFINE N == Len(s)
           t == Append(s, a)
<1>1. /\ N \in Nat /\ t \in Seq(A) /\ Len(t) = N + 1 /\ t[N + 1] = a
      /\ \A i \in 1..N : t[i] = s[i]
  OBVIOUS
<1> HIDE DEF t
<1>2. PICK f : Keeps(s, S, f) /\ Only(s, S) = f[Len(s)]
  BY OnlyDef
<1>3. PICK g : Keeps(t, S, g) /\ Only(t, S) = g[Len(t)]
  BY <1>1, OnlyDef
<1>4. /\ f[0] = <<>>
      /\ \A n \in 1..N :
           f[n] = IF s[n] \in S THEN Append(f[n - 1], s[n]) ELSE f[n - 1]
  BY <1>2, KeepsSteps
<1>5. /\ g[0] = <<>>
      /\ \A n \in 1..Len(t) :
           g[n] = IF t[n] \in S THEN Append(g[n - 1], t[n]) ELSE g[n - 1]
  BY <1>1, <1>3, KeepsSteps
<1> HIDE DEF N
<1>6. \A n \in 1..N : n \in 1..Len(t)
  BY <1>1
<1>7. f[N] = g[N]
  <2>1. ASSUME NEW n \in 1..N, f[n - 1] = g[n - 1] PROVE f[n] = g[n]
    <3>1. n \in 1..Len(t) /\ t[n] = s[n]
      BY <1>1, <1>6
    <3>. QED
      BY <1>4, <1>5, <2>1, <3>1
  <2>2. f[0] = g[0]
    BY <1>4, <1>5
  <2>3. \A n \in 1..N : f[n - 1] = g[n - 1] => f[n] = g[n]
    BY <2>1
  <2>4. N \in Nat
    BY <1>1
  <2>5. \A n \in 0..N : f[n] = g[n]
    BY <2>2, <2>3, <2>4, LoopsAgree, ZenonT(40)
  <2>. QED
    BY <1>1, <2>5
<1>8. g[N + 1] = IF a \in S THEN Append(g[N], a) ELSE g[N]
  <2>1. N + 1 \in 1..Len(t) /\ (N + 1) - 1 = N
    BY <1>1
  <2>. QED
    BY <1>1, <1>5, <2>1
<1>. QED
  BY <1>1, <1>2, <1>3, <1>7, <1>8 DEF t, N

\* The elements that are left are those of the set, and no more than there were.
LEMMA OnlyElements ==
  ASSUME NEW A, NEW s \in Seq(A), NEW S
  PROVE  /\ Range(Only(s, S)) = Range(s) \cap S
         /\ Len(Only(s, S)) <= Len(s)
<1> DEFINE P == {t \in Seq(A) : /\ Range(Only(t, S)) = Range(t) \cap S
                                /\ Len(Only(t, S)) <= Len(t)}
<1>1. <<>> \in P
  <2>1. <<>> \in Seq(A) /\ Len(<<>>) <= Len(<<>>)
    OBVIOUS
  <2>. QED
    BY <2>1, OnlyEmpty, EmptyQueue
<1>2. ASSUME NEW t \in Seq(A), NEW a \in A, t \in P PROVE Append(t, a) \in P
  <2> DEFINE o == Only(t, S)
  <2>1. o \in Seq(A) /\ Range(o) = Range(t) \cap S /\ Len(o) <= Len(t)
    BY <1>2, OnlyIsSeq
  <2>2. /\ Append(t, a) \in Seq(A) /\ Range(Append(t, a)) = Range(t) \cup {a}
        /\ Len(Append(t, a)) = Len(t) + 1 /\ Len(t) \in Nat
    BY AppendToQueue
  <2>3. /\ Append(o, a) \in Seq(A) /\ Range(Append(o, a)) = Range(o) \cup {a}
        /\ Len(Append(o, a)) = Len(o) + 1 /\ Len(o) \in Nat
    BY <2>1, AppendToQueue
  <2>4. Only(Append(t, a), S) = IF a \in S THEN Append(o, a) ELSE o
    BY OnlyAppend
  <2> HIDE DEF o
  <2>5. /\ Range(Only(Append(t, a), S)) = Range(Append(t, a)) \cap S
        /\ Len(Only(Append(t, a), S)) <= Len(Append(t, a))
    <3>1. CASE a \in S
      <4>1. Only(Append(t, a), S) = Append(o, a)
        BY <2>4, <3>1
      <4>2. Range(Append(o, a)) = Range(Append(t, a)) \cap S
        BY <2>1, <2>2, <2>3, <3>1
      <4>3. Len(Append(o, a)) <= Len(Append(t, a))
        BY <2>1, <2>2, <2>3
      <4>. QED
        BY <4>1, <4>2, <4>3
    <3>2. CASE a \notin S
      <4>1. Only(Append(t, a), S) = o
        BY <2>4, <3>2
      <4>2. Range(o) = Range(Append(t, a)) \cap S
        BY <2>1, <2>2, <3>2
      <4>3. Len(o) <= Len(Append(t, a))
        BY <2>1, <2>2, <2>3
      <4>. QED
        BY <4>1, <4>2, <4>3
    <3>. QED
      BY <3>1, <3>2
  <2>. QED
    BY <2>2, <2>5
<1>3. Seq(A) \subseteq P
  <2> HIDE DEF P
  <2>. QED
    BY <1>1, <1>2, AppendUp
<1>. QED
  BY <1>3

\* What is left is a sequence of the set.
LEMMA OnlyTyped ==
  ASSUME NEW A, NEW s \in Seq(A), NEW S
  PROVE  Only(s, S) \in Seq(A \cap S)
<1>1. Only(s, S) \in Seq(A) /\ Range(Only(s, S)) = Range(s) \cap S
  BY OnlyIsSeq, OnlyElements
<1>2. Range(s) \subseteq A
  BY QueueRange
<1>3. Range(Only(s, S)) \subseteq A \cap S
  BY <1>1, <1>2
<1>. QED
  BY <1>1, <1>3, SeqOfElements

\* Nothing is left out that is in the set.
LEMMA OnlyAll ==
  ASSUME NEW A, NEW s \in Seq(A), NEW S, A \subseteq S
  PROVE  Only(s, S) = s
<1> DEFINE P == {t \in Seq(A) : Only(t, S) = t}
<1>1. <<>> \in P
  <2>1. <<>> \in Seq(A)
    OBVIOUS
  <2>. QED
    BY <2>1, OnlyEmpty
<1>2. ASSUME NEW t \in Seq(A), NEW a \in A, t \in P PROVE Append(t, a) \in P
  <2>1. Append(t, a) \in Seq(A) /\ a \in S
    OBVIOUS
  <2>2. Only(Append(t, a), S) = Append(t, a)
    BY <1>2, <2>1, OnlyAppend
  <2>. QED
    BY <2>1, <2>2
<1>3. Seq(A) \subseteq P
  <2> HIDE DEF P
  <2>. QED
    BY <1>1, <1>2, AppendUp
<1>. QED
  BY <1>3

\* Only the elements of the sequence matter in the set.
LEMMA OnlyAgree ==
  ASSUME NEW A, NEW s \in Seq(A), NEW S, NEW T, A \cap S = A \cap T
  PROVE  Only(s, S) = Only(s, T)
<1> DEFINE P == {t \in Seq(A) : Only(t, S) = Only(t, T)}
<1>1. <<>> \in P
  <2>1. <<>> \in Seq(A)
    OBVIOUS
  <2>. QED
    BY <2>1, OnlyEmpty
<1>2. ASSUME NEW t \in Seq(A), NEW a \in A, t \in P PROVE Append(t, a) \in P
  <2>1. Append(t, a) \in Seq(A) /\ (a \in S <=> a \in T)
    OBVIOUS
  <2>2. /\ Only(Append(t, a), S) = IF a \in S THEN Append(Only(t, S), a)
                                             ELSE Only(t, S)
        /\ Only(Append(t, a), T) = IF a \in T THEN Append(Only(t, T), a)
                                             ELSE Only(t, T)
    BY OnlyAppend
  <2>3. Only(Append(t, a), S) = Only(Append(t, a), T)
    BY <1>2, <2>1, <2>2
  <2>. QED
    BY <2>1, <2>3
<1>3. Seq(A) \subseteq P
  <2> HIDE DEF P
  <2>. QED
    BY <1>1, <1>2, AppendUp
<1>. QED
  BY <1>3

\* Nothing is left that is not in the set.
LEMMA OnlyNone ==
  ASSUME NEW A, NEW s \in Seq(A), NEW S, A \cap S = {}
  PROVE  Only(s, S) = <<>>
BY OnlyTyped, SeqOfNothing

-----------------------------------------------------------------------------
(***************************************************************************)
(* What the filters and the states do to batches.                          *)
(***************************************************************************)
IsFilter(f) ==
  /\ f.kind \in Kinds /\ f.drops \subseteq Features
  /\ f.keeps_empty \in BOOLEAN /\ f.merges \in BOOLEAN
  /\ f.metering \in Nat /\ f.grouped \in BOOLEAN
  /\ f.kind = "collection" => f.drops = {}

\* So are the filters of a graph, and the one that is appended to it.
LEMMA FiltersAreFilters ==
  ASSUME NEW f \in Filters \cup {Writer}
  PROVE  IsFilter(f)
<1>1. CASE f \in Filters
  BY <1>1, FiltersAssumption DEF IsFilter
<1>2. CASE f = Writer
  <2>1. /\ f.kind = "feature" /\ f.drops = {} /\ f.keeps_empty = TRUE
        /\ f.merges = FALSE /\ f.metering = 0 /\ f.grouped = FALSE
    BY <1>2 DEF Writer
  <2>2. f.kind \in Kinds
    BY <2>1 DEF Kinds
  <2>3. f.keeps_empty \in BOOLEAN /\ f.merges \in BOOLEAN /\ f.grouped \in BOOLEAN
    BY <2>1, Zenon
  <2>4. f.drops \subseteq Features /\ f.metering \in Nat
    BY <2>1
  <2>. QED
    BY <2>1, <2>2, <2>3, <2>4 DEF IsFilter
<1>. QED
  BY <1>1, <1>2

\* What a traversal begins with
Batch == Seq(Items)

\* Elements of one type of data
ItemsOf(d) == {e \in Items : e.data = d}

\* A feature is an element.
LEMMA SinglesTyped == Singles \in Seq(Seq(ItemsOf("feature")))
<1>1. NumFeatures \in Nat
  BY FeaturesAssumption
<1>2. ASSUME NEW f \in 1..NumFeatures
      PROVE  <<Source(f)>> \in Seq(ItemsOf("feature"))
  <2>1. Source(f).of \in Seq(Features) /\ Source(f).data = "feature"
    <3>1. <<>> \in Seq(Features) /\ <<f>> \in Seq(Features)
      BY DEF Features
    <3>2. CASE f \in Shapeless
      BY <3>1, <3>2 DEF Source
    <3>3. CASE f \notin Shapeless
      BY <3>1, <3>3 DEF Source
    <3>. QED
      BY <3>2, <3>3
  <2>2. Source(f) \in ItemsOf("feature")
    BY <2>1 DEF Source, Items, ItemsOf
  <2>. QED
    BY <2>2
<1>3. Singles \in [1..NumFeatures -> Seq(ItemsOf("feature"))]
  BY <1>2 DEF Singles
<1>. QED
  BY <1>1, <1>3, SeqDef

\* push() keeps elements of the types that it takes.
LEMMA PushedTyped ==
  ASSUME NEW f, NEW A, NEW b \in Seq(A)
  PROVE  /\ Pushed(f, b) \in Seq({e \in A : e.data \in Accepts(f.kind)})
         /\ Pushed(f, b) \in Seq(A)
         /\ Range(Pushed(f, b)) \subseteq Range(b)
         /\ Len(Pushed(f, b)) <= Len(b)
<1> DEFINE K == {e \in Range(b) : /\ e.data \in Accepts(f.kind)
                                  /\ e.data = "feature" => e.of # <<>>}
           T == {e \in A : e.data \in Accepts(f.kind)}
<1>1. Pushed(f, b) = Only(b, K)
  BY DEF Pushed
<1>2. Range(b) \subseteq A
  BY QueueRange
<1>3. A \cap K \subseteq T /\ T \subseteq A
  BY <1>2
<1> HIDE DEF K, T
<1>4. /\ Only(b, K) \in Seq(A \cap K)
      /\ Range(Only(b, K)) = Range(b) \cap K /\ Len(Only(b, K)) <= Len(b)
  BY OnlyTyped, OnlyElements
<1>5. Only(b, K) \in Seq(T) /\ Only(b, K) \in Seq(A)
  BY <1>3, <1>4, SeqMonotonic
<1>. QED
  BY <1>1, <1>4, <1>5 DEF T

LEMMA PushedEmpty == ASSUME NEW f PROVE Pushed(f, <<>>) = <<>>
BY OnlyEmpty DEF Pushed

\* No push() is called for a type that it does not take.
LEMMA PushedNone ==
  ASSUME NEW f, NEW A, NEW b \in Seq(A),
         \A e \in A : e.data \notin Accepts(f.kind)
  PROVE  Pushed(f, b) = <<>>
<1>1. {e \in A : e.data \in Accepts(f.kind)} = {}
  OBVIOUS
<1>. QED
  BY <1>1, PushedTyped, SeqOfNothing

\* process() gives elements of the type of the filter, no more than it got.
LEMMA ProcessedTyped ==
  ASSUME NEW f, IsFilter(f), f.kind # "collection", NEW b \in Batch
  PROVE  /\ Processed(f, b) \in Seq(ItemsOf(f.kind))
         /\ Len(Processed(f, b)) <= Len(b)
<1> DEFINE shed == [i \in DOMAIN b |->
                      [data |-> f.kind,
                       of |-> Only(b[i].of, Features \ f.drops)]]
           K == {e \in Range(shed) : f.keeps_empty \/ e.of # <<>>}
           kept == Only(shed, K)
           T == ItemsOf(f.kind)
<1>1. f.kind \in {"feature", "fragment", "node"}
  BY DEF IsFilter, Kinds
<1>2. /\ Len(b) \in Nat /\ DOMAIN b = 1..Len(b)
      /\ \A i \in 1..Len(b) : b[i] \in Items
  BY DEF Batch
<1>3. ASSUME NEW i \in 1..Len(b)
      PROVE  [data |-> f.kind, of |-> Only(b[i].of, Features \ f.drops)] \in T
  <2>1. b[i].of \in Seq(Features)
    BY <1>2 DEF Items
  <2>2. Only(b[i].of, Features \ f.drops) \in Seq(Features)
    BY <2>1, OnlyIsSeq
  <2>. QED
    BY <1>1, <2>2 DEF Items, ItemsOf
<1>4. shed \in Seq(T) /\ Len(shed) = Len(b)
  <2>1. shed \in [1..Len(b) -> T]
    BY <1>2, <1>3
  <2> HIDE DEF shed, T
  <2>. QED
    BY <1>2, <2>1, FunctionIsSeq
<1> HIDE DEF shed, K
<1>5. kept \in Seq(T) /\ Len(kept) <= Len(b) /\ Len(kept) \in Nat
  BY <1>4, OnlyIsSeq, OnlyElements
<1> HIDE DEF kept
<1>6. Processed(f, b) = IF f.merges /\ kept # <<>>
                        THEN <<[data |-> f.kind, of |-> Content(kept)]>>
                        ELSE kept
  BY DEF Processed, kept, K, shed
<1>7. ASSUME kept # <<>>
      PROVE  /\ <<[data |-> f.kind, of |-> Content(kept)]>> \in Seq(T)
             /\ Len(<<[data |-> f.kind, of |-> Content(kept)]>>) <= Len(b)
  <2>1. [i \in DOMAIN kept |-> kept[i].of] \in [1..Len(kept) -> Seq(Features)]
    <3>1. DOMAIN kept = 1..Len(kept) /\ \A i \in 1..Len(kept) : kept[i] \in T
      BY <1>5
    <3>2. \A i \in 1..Len(kept) : kept[i].of \in Seq(Features)
      BY <3>1 DEF Items, ItemsOf
    <3>. QED
      BY <3>1, <3>2
  <2>2. [i \in DOMAIN kept |-> kept[i].of] \in Seq(Seq(Features))
    BY <1>5, <2>1, SeqDef
  <2>3. Content(kept) \in Seq(Features)
    BY <2>2, FlattenIsSeq DEF Content
  <2>4. [data |-> f.kind, of |-> Content(kept)] \in T
    BY <1>1, <2>3 DEF Items, ItemsOf
  <2>5. Len(kept) # 0
    BY <1>5, <1>7
  <2>6. Len(<<[data |-> f.kind, of |-> Content(kept)]>>) = 1
    OBVIOUS
  <2>7. Len(<<[data |-> f.kind, of |-> Content(kept)]>>) <= Len(b)
    BY <1>2, <1>5, <2>5, <2>6
  <2>. QED
    BY <2>4, <2>7
<1>. QED
  BY <1>5, <1>6, <1>7

LEMMA ItemsOfAreItems ==
  ASSUME NEW d
  PROVE  /\ ItemsOf(d) \subseteq Items
         /\ \A b \in Seq(ItemsOf(d)) : b \in Batch
BY SeqMonotonic DEF ItemsOf, Batch

LEMMA ProcessedEmpty ==
  ASSUME NEW f, IsFilter(f), f.kind # "collection"
  PROVE  Processed(f, <<>>) = <<>>
<1>1. <<>> \in Batch /\ Len(<<>>) = 0
  BY DEF Batch
<1>2. /\ Processed(f, <<>>) \in Seq(ItemsOf(f.kind))
      /\ Len(Processed(f, <<>>)) <= 0
  BY <1>1, ProcessedTyped
<1>. QED
  BY <1>2, EmptyIffNoLength

\* The WriteFeaturesFilter passes features on.
LEMMA WriterPasses ==
  ASSUME NEW b \in Seq(ItemsOf("feature"))
  PROVE  Processed(Writer, b) = b
<1> DEFINE shed == [i \in DOMAIN b |->
                      [data |-> "feature",
                       of |-> Only(b[i].of, Features \ {})]]
<1>1. \A i \in DOMAIN b : /\ b[i] = [data |-> "feature", of |-> b[i].of]
                          /\ b[i].of \in Seq(Features)
  BY DEF ItemsOf, Items
<1>2. \A i \in DOMAIN b : Only(b[i].of, Features \ {}) = b[i].of
  BY <1>1, OnlyAll
<1>3. shed = b
  <2>1. \A i \in DOMAIN b : shed[i] = b[i]
    BY <1>1, <1>2
  <2>. QED
    BY <2>1
<1>4. Only(b, {e \in Range(b) : TRUE \/ e.of # <<>>}) = b
  <2>1. /\ b \in Seq(Range(b))
        /\ Range(b) \subseteq {e \in Range(b) : TRUE \/ e.of # <<>>}
    BY SeqOfRange
  <2>. QED
    BY <2>1, OnlyAll
<1> HIDE DEF shed
<1>5. Processed(Writer, b) = Only(shed, {e \in Range(shed) : TRUE \/ e.of # <<>>})
  BY DEF Processed, Writer, shed
<1>. QED
  BY <1>3, <1>4, <1>5

\* meterData() makes batches that are no longer than the metering.
LEMMA ChunksTyped ==
  ASSUME NEW B, NEW s \in Seq(B), NEW m \in Nat
  PROVE  Chunks(s, m) \in Seq({b \in Seq(B) : m > 0 => Len(b) <= m})
<1> DEFINE T == {b \in Seq(B) : m > 0 => Len(b) <= m}
           N == Len(s)
           n == (N + m - 1) \div m
           hi(i) == Min({i * m, N})
           lo(i) == 1 + (i - 1) * m
<1>1. N \in Nat /\ \A i \in 1..N : s[i] \in B
  OBVIOUS
<1>2. CASE m = 0
  <2>1. s \in T
    BY <1>2
  <2>2. <<s>> \in Seq(T)
    BY <2>1
  <2>. QED
    BY <1>2, <2>2 DEF Chunks
<1>3. CASE m # 0
  <2> HIDE DEF N
  <2>1. N + m - 1 \in Nat /\ m \in Nat \ {0}
    BY <1>1, <1>3
  <2>2. n \in Nat
    BY <2>1, FromRowAndColumn
  <2> HIDE DEF n
  <2>3. ASSUME NEW i \in 1..n
        PROVE  SubSeq(s, lo(i), hi(i)) \in T
    <3>1. i \in Nat /\ i >= 1
      BY <2>2
    <3>2. i * m \in Nat /\ (i - 1) * m \in Nat /\ i * m = (i - 1) * m + m
      BY <2>1, <3>1, SMTT(30)
    <3>3. hi(i) \in Int /\ hi(i) <= i * m /\ hi(i) <= N
      BY <1>1, <3>2, MinOfPair
    <3>4. lo(i) \in Int /\ lo(i) >= 1 /\ lo(i) + m = i * m + 1
      BY <2>1, <3>2
    <3> DEFINE h == hi(i)
               l == lo(i)
    <3> HIDE DEF h, l
    <3>5. /\ h \in Int /\ l \in Int /\ l >= 1 /\ h <= N /\ h - l + 1 <= m
      BY <2>1, <3>2, <3>3, <3>4 DEF h, l
    <3>6. \A j \in l..h : s[j] \in B
      BY <1>1, <3>5
    <3>7. /\ SubSeq(s, l, h) \in Seq(B)
          /\ Len(SubSeq(s, l, h)) = IF l <= h THEN h - l + 1 ELSE 0
      BY <3>5, <3>6, SubSeqProperties
    <3>8. Len(SubSeq(s, l, h)) <= m
      BY <2>1, <3>5, <3>7
    <3>. QED
      BY <3>7, <3>8 DEF h, l
  <2>4. Chunks(s, m) = [i \in 1..n |-> SubSeq(s, lo(i), hi(i))]
    BY <1>3 DEF Chunks, n, N
  <2> HIDE DEF T
  <2>5. [i \in 1..n |-> SubSeq(s, lo(i), hi(i))] \in [1..n -> T]
    BY <2>3
  <2>6. Chunks(s, m) \in Seq(T)
    BY <2>2, <2>4, <2>5, FunctionIsSeq
  <2>. QED
    BY <2>6 DEF T
<1>. QED
  BY <1>2, <1>3

\* A batch that a collection may meter out
Meterable(f, b) ==
  /\ f.metering > 0 => Len(b) <= f.metering
  /\ \A e1, e2 \in Range(b) : GroupName(f, e1) = GroupName(f, e2)

\* meterGroups() makes batches of one group each.
LEMMA MeteredTyped ==
  ASSUME NEW f, IsFilter(f), NEW A, NEW items \in Seq(A)
  PROVE  Metered(f, items) \in Seq({b \in Seq(A) : Meterable(f, b)})
<1> DEFINE T == {b \in Seq(A) : Meterable(f, b)}
           groups == Groups(f, items)
           chunks == [i \in DOMAIN groups |->
                        Chunks(InGroup(f, items, groups[i]), f.metering)]
<1>1. groups \in Seq(0..NumGroups)
  <2>1. NumGroups \in Nat
    BY FeaturesAssumption
  <2> DEFINE num == [n \in 1..(NumGroups + 1) |-> n - 1]
  <2>2. num \in [1..(NumGroups + 1) -> 0..NumGroups]
    BY <2>1
  <2>3. NumGroups + 1 \in Nat
    BY <2>1
  <2> HIDE DEF num
  <2>4. num \in Seq(0..NumGroups)
    BY <2>2, <2>3, FunctionIsSeq
  <2>. QED
    BY <2>4, OnlyIsSeq DEF Groups, num
<1>2. ASSUME NEW g
      PROVE  Chunks(InGroup(f, items, g), f.metering) \in Seq(T)
  <2> DEFINE s == InGroup(f, items, g)
             M == {e \in Range(items) : GroupName(f, e) = g}
             B == A \cap M
             C == {b \in Seq(B) : f.metering > 0 => Len(b) <= f.metering}
  <2>1. s \in Seq(B)
    BY OnlyTyped DEF InGroup
  <2>2. f.metering \in Nat
    BY DEF IsFilter
  <2> HIDE DEF s, M
  <2>3. Chunks(s, f.metering) \in Seq(C)
    BY <2>1, <2>2, ChunksTyped
  <2>4. ASSUME NEW b \in C PROVE b \in T
    <3>1. b \in Seq(A)
      BY <2>4, SeqMonotonic
    <3>2. Range(b) \subseteq M
      BY <2>4, QueueRange
    <3>3. \A e1, e2 \in Range(b) : GroupName(f, e1) = GroupName(f, e2)
      BY <3>2 DEF M
    <3>. QED
      BY <2>4, <3>1, <3>3 DEF Meterable
  <2> HIDE DEF C, T
  <2>5. Chunks(s, f.metering) \in Seq(T)
    BY <2>3, <2>4, SeqMonotonic
  <2>. QED
    BY <2>5 DEF s
<1> HIDE DEF T, groups
<1>3. Len(groups) \in Nat /\ DOMAIN groups = 1..Len(groups)
  BY <1>1
<1>4. chunks \in [1..Len(groups) -> Seq(T)]
  BY <1>2, <1>3
<1> HIDE DEF chunks
<1>5. chunks \in Seq(Seq(T))
  BY <1>3, <1>4, FunctionIsSeq
<1>6. FlattenSeq(chunks) \in Seq(T)
  BY <1>5, FlattenIsSeq
<1>7. Metered(f, items) = FlattenSeq(chunks)
  BY DEF Metered, chunks, groups
<1>. QED
  BY <1>6, <1>7 DEF T

-----------------------------------------------------------------------------
(***************************************************************************)
(* Sequences of batches.                                                   *)
(***************************************************************************)
\* The batches that a filter's state is given, after one more
LEMMA ArrivingDef ==
  ASSUME NEW f, NEW A, NEW given \in Seq(Seq(A))
  PROVE  /\ [i \in DOMAIN given |-> Pushed(f, given[i])] \in Seq(Seq(A))
         /\ Arriving(f, given)
              = Only([i \in DOMAIN given |-> Pushed(f, given[i])],
                     Seq(A) \ {<<>>})
         /\ Arriving(f, given) \in Seq(Seq(A))
<1> DEFINE pushed == [i \in DOMAIN given |-> Pushed(f, given[i])]
<1>1. Len(given) \in Nat /\ DOMAIN given = 1..Len(given)
  OBVIOUS
<1>2. \A i \in 1..Len(given) : given[i] \in Seq(A)
  OBVIOUS
<1>3. \A i \in 1..Len(given) : Pushed(f, given[i]) \in Seq(A)
  BY <1>2, PushedTyped
<1>4. pushed \in [1..Len(given) -> Seq(A)]
  BY <1>1, <1>3
<1> HIDE DEF pushed
<1>5. pushed \in Seq(Seq(A))
  BY <1>1, <1>4, FunctionIsSeq
<1>6. Arriving(f, given) = Only(pushed, Range(pushed) \ {<<>>})
  BY DEF Arriving, pushed
<1> DEFINE R == Range(pushed)
<1>7. pushed \in Seq(R) /\ R \subseteq Seq(A)
  BY <1>5, SeqOfRange, QueueRange
<1> HIDE DEF R
<1>8. R \cap (R \ {<<>>}) = R \cap (Seq(A) \ {<<>>})
  BY <1>7
<1>9. Only(pushed, R \ {<<>>}) = Only(pushed, Seq(A) \ {<<>>})
  BY <1>7, <1>8, OnlyAgree
<1>10. Only(pushed, R \ {<<>>}) \in Seq(Seq(A))
  BY <1>5, OnlyIsSeq
<1>. QED
  BY <1>5, <1>6, <1>9, <1>10 DEF R, pushed

\* Nothing is given.
LEMMA ArrivingEmpty == ASSUME NEW f PROVE Arriving(f, <<>>) = <<>>
<1>1. <<>> \in Seq(Seq({}))
  OBVIOUS
<1>2. [i \in DOMAIN <<>> |-> Pushed(f, <<>>[i])] = <<>>
  OBVIOUS
<1>3. Arriving(f, <<>>) = Only([i \in DOMAIN <<>> |-> Pushed(f, <<>>[i])],
                               Seq({}) \ {<<>>})
  BY <1>1, ArrivingDef
<1>4. Arriving(f, <<>>) = Only(<<>>, Seq({}) \ {<<>>})
  BY <1>2, <1>3
<1>. QED
  BY <1>4, OnlyEmpty

\* No batch arrives if none has anything that is pushed.
LEMMA ArrivingNone ==
  ASSUME NEW f, NEW A, NEW given \in Seq(Seq(A)),
         \A e \in A : e.data \notin Accepts(f.kind)
  PROVE  Arriving(f, given) = <<>>
<1> DEFINE pushed == [i \in DOMAIN given |-> Pushed(f, given[i])]
<1>1. Len(given) \in Nat /\ DOMAIN given = 1..Len(given)
  OBVIOUS
<1>2. \A i \in 1..Len(given) : given[i] \in Seq(A)
  OBVIOUS
<1>3. \A i \in 1..Len(given) : Pushed(f, given[i]) \in {<<>>}
  BY <1>2, PushedNone
<1>4. pushed \in [1..Len(given) -> {<<>>}]
  BY <1>1, <1>3
<1>5. Arriving(f, given) = Only(pushed, Seq(A) \ {<<>>})
  BY ArrivingDef
<1> HIDE DEF pushed
<1>6. pushed \in Seq({<<>>})
  BY <1>1, <1>4, FunctionIsSeq
<1>7. {<<>>} \cap (Seq(A) \ {<<>>}) = {}
  OBVIOUS
<1>. QED
  BY <1>5, <1>6, <1>7, OnlyNone

\* The image of a longer sequence is longer.
LEMMA ImageOfAppend ==
  ASSUME NEW S, NEW s \in Seq(S), NEW b \in S, NEW V, NEW h \in [S -> V]
  PROVE  /\ [i \in DOMAIN s |-> h[s[i]]] \in Seq(V)
         /\ [i \in DOMAIN Append(s, b) |-> h[Append(s, b)[i]]]
              = Append([i \in DOMAIN s |-> h[s[i]]], h[b])
<1> DEFINE t == Append(s, b)
           u == [i \in DOMAIN s |-> h[s[i]]]
           w == [i \in DOMAIN t |-> h[t[i]]]
<1>1. /\ Len(s) \in Nat /\ DOMAIN s = 1..Len(s) /\ DOMAIN t = 1..(Len(s) + 1)
      /\ \A i \in 1..Len(s) : s[i] \in S /\ t[i] = s[i]
      /\ t[Len(s) + 1] = b
  OBVIOUS
<1> DEFINE n == Len(s)
<1> HIDE DEF t, n
<1>2. u \in [1..n -> V] /\ w \in [1..(n + 1) -> V] /\ n \in Nat /\ n + 1 \in Nat
  <2>1. \A i \in 1..(n + 1) : t[i] \in S
    BY <1>1 DEF n
  <2>. QED
    BY <1>1, <2>1 DEF n
<1>3. /\ u \in Seq(V) /\ Len(u) = n /\ w \in Seq(V) /\ Len(w) = n + 1
  <2> HIDE DEF u, w
  <2>. QED
    BY <1>2, FunctionIsSeq
<1>4. /\ \A i \in 1..n : w[i] = u[i]
      /\ w[n + 1] = h[b]
  BY <1>1 DEF n
<1> HIDE DEF u, w
<1>5. h[b] \in V
  OBVIOUS
<1>6. Append(u, h[b]) \in Seq(V) /\ Len(Append(u, h[b])) = n + 1
  BY <1>3, <1>5
<1>7. \A i \in 1..(n + 1) : w[i] = Append(u, h[b])[i]
  BY <1>2, <1>3, <1>4, <1>5
<1>8. w = Append(u, h[b])
  BY <1>3, <1>6, <1>7, SeqEqual
<1>. QED
  BY <1>3, <1>8 DEF u, w, t

\* One more batch
LEMMA ArrivingAppend ==
  ASSUME NEW f, NEW A, NEW given \in Seq(Seq(A)), NEW b \in Seq(A)
  PROVE  Arriving(f, Append(given, b))
           = IF Pushed(f, b) = <<>> THEN Arriving(f, given)
             ELSE Append(Arriving(f, given), Pushed(f, b))
<1> DEFINE S == Seq(A)
           h == [x \in S |-> Pushed(f, x)]
           g == Append(given, b)
           u == [i \in DOMAIN given |-> h[given[i]]]
           w == [i \in DOMAIN g |-> h[g[i]]]
<1>1. h \in [S -> S] /\ \A x \in S : h[x] = Pushed(f, x)
  BY PushedTyped
<1>2. g \in Seq(S) /\ \A i \in DOMAIN given : given[i] \in S
  OBVIOUS
<1>3. \A i \in DOMAIN g : g[i] \in S
  BY <1>2
<1> HIDE DEF h, g
<1>4. u = [i \in DOMAIN given |-> Pushed(f, given[i])]
  BY <1>1, <1>2
<1>5. w = [i \in DOMAIN g |-> Pushed(f, g[i])]
  BY <1>1, <1>3
<1>6. Arriving(f, given) = Only(u, S \ {<<>>})
  <2>1. Arriving(f, given)
          = Only([i \in DOMAIN given |-> Pushed(f, given[i])], Seq(A) \ {<<>>})
    BY ArrivingDef
  <2>. QED
    BY <1>4, <2>1
<1>7. Arriving(f, g) = Only(w, S \ {<<>>})
  <2>1. g \in Seq(Seq(A))
    BY <1>2
  <2>2. Arriving(f, g)
          = Only([i \in DOMAIN g |-> Pushed(f, g[i])], Seq(A) \ {<<>>})
    BY <2>1, ArrivingDef
  <2>. QED
    BY <1>5, <2>2
<1>8. u \in Seq(S) /\ w = Append(u, h[b])
  <2> HIDE DEF S
  <2>1. given \in Seq(S) /\ b \in S
    BY DEF S
  <2>2. /\ [i \in DOMAIN given |-> h[given[i]]] \in Seq(S)
        /\ [i \in DOMAIN Append(given, b) |-> h[Append(given, b)[i]]]
              = Append([i \in DOMAIN given |-> h[given[i]]], h[b])
    BY <1>1, <2>1, ImageOfAppend, SMTT(30)
  <2>. QED
    BY <2>2 DEF g
<1> HIDE DEF u, w
<1>9. h[b] = Pushed(f, b) /\ h[b] \in S
  BY <1>1
<1>10. Only(w, S \ {<<>>}) = IF h[b] \in S \ {<<>>}
                             THEN Append(Only(u, S \ {<<>>}), h[b])
                             ELSE Only(u, S \ {<<>>})
  BY <1>8, <1>9, OnlyAppend
<1>. QED
  BY <1>6, <1>7, <1>9, <1>10 DEF g

\* What a filter makes has its type of data, and what a collection gives has
\* the type of what it is given.
LEMMA ResultsTyped ==
  ASSUME NEW f, IsFilter(f), NEW d, NEW arrived \in Seq(Seq(ItemsOf(d)))
  PROVE  Results(f, arrived)
           \in Seq(Seq(ItemsOf(IF f.kind = "collection" THEN d ELSE f.kind)))
<1>1. CASE f.kind # "collection"
  <2> DEFINE S == Seq(ItemsOf(f.kind))
             r == [i \in DOMAIN arrived |-> Processed(f, arrived[i])]
  <2>1. Len(arrived) \in Nat /\ DOMAIN arrived = 1..Len(arrived)
    OBVIOUS
  <2>2. \A i \in 1..Len(arrived) : arrived[i] \in Batch
    BY ItemsOfAreItems
  <2>3. \A i \in 1..Len(arrived) : Processed(f, arrived[i]) \in S
    BY <1>1, <2>2, ProcessedTyped
  <2> HIDE DEF S
  <2>4. r \in [1..Len(arrived) -> S]
    BY <2>1, <2>3
  <2> HIDE DEF r
  <2>5. r \in Seq(S)
    BY <2>1, <2>4, FunctionIsSeq
  <2>6. Results(f, arrived) = r
    BY <1>1 DEF Results, r
  <2>. QED
    BY <1>1, <2>5, <2>6 DEF S
<1>2. CASE f.kind = "collection"
  <2> DEFINE A == ItemsOf(d)
             collected == FlattenSeq(arrived)
  <2>1. collected \in Seq(A)
    BY FlattenIsSeq
  <2>2. Metered(f, collected) \in Seq({b \in Seq(A) : Meterable(f, b)})
    BY <2>1, MeteredTyped
  <2>3. Metered(f, collected) \in Seq(Seq(A))
    BY <2>2, SeqMonotonic
  <2>4. <<>> \in Seq(Seq(A))
    OBVIOUS
  <2>5. Results(f, arrived) = IF collected = <<>> THEN <<>> ELSE Metered(f, collected)
    BY <1>2 DEF Results
  <2> HIDE DEF collected
  <2>6. Results(f, arrived) \in Seq(Seq(A))
    BY <2>3, <2>4, <2>5
  <2>. QED
    BY <1>2, <2>6
<1>. QED
  BY <1>1, <1>2

LEMMA ResultsEmpty == ASSUME NEW f PROVE Results(f, <<>>) = <<>>
BY FlattenEmpty DEF Results

\* One more batch
LEMMA ResultsAppend ==
  ASSUME NEW f, IsFilter(f), f.kind # "collection",
         NEW arrived \in Seq(Batch), NEW b \in Batch
  PROVE  /\ Results(f, arrived) \in Seq(Batch)
         /\ Results(f, Append(arrived, b))
              = Append(Results(f, arrived), Processed(f, b))
<1> DEFINE h == [x \in Batch |-> Processed(f, x)]
           g == Append(arrived, b)
<1>1. \A x \in Batch : Processed(f, x) \in Batch
  BY ProcessedTyped, ItemsOfAreItems
<1>2. h \in [Batch -> Batch] /\ \A x \in Batch : h[x] = Processed(f, x)
  BY <1>1
<1>3. /\ \A i \in DOMAIN arrived : arrived[i] \in Batch
      /\ g \in Seq(Batch)
  OBVIOUS
<1>4. \A i \in DOMAIN g : g[i] \in Batch
  BY <1>3
<1> HIDE DEF h, g
<1>5. /\ [i \in DOMAIN arrived |-> h[arrived[i]]] \in Seq(Batch)
      /\ [i \in DOMAIN g |-> h[g[i]]]
           = Append([i \in DOMAIN arrived |-> h[arrived[i]]], h[b])
  BY <1>2, ImageOfAppend DEF g
<1>6. /\ Results(f, arrived) = [i \in DOMAIN arrived |-> h[arrived[i]]]
      /\ Results(f, g) = [i \in DOMAIN g |-> h[g[i]]]
  <2>1. /\ Results(f, arrived)
             = [i \in DOMAIN arrived |-> Processed(f, arrived[i])]
        /\ Results(f, g) = [i \in DOMAIN g |-> Processed(f, g[i])]
    BY DEF Results
  <2>2. [i \in DOMAIN arrived |-> Processed(f, arrived[i])]
          = [i \in DOMAIN arrived |-> h[arrived[i]]]
    BY <1>2, <1>3
  <2>3. [i \in DOMAIN g |-> Processed(f, g[i])] = [i \in DOMAIN g |-> h[g[i]]]
    BY <1>2, <1>4
  <2>. QED
    BY <2>1, <2>2, <2>3
<1>. QED
  BY <1>2, <1>5, <1>6 DEF g

-----------------------------------------------------------------------------
(***************************************************************************)
(* The chain, state by state.                                              *)
(***************************************************************************)
Chain == Seq(Filters \cup {Writer})

LEMMA StatesAreFilters ==
  ASSUME NEW c \in Chain, NEW k \in 1..Len(c)
  PROVE  IsFilter(c[k])
<1>1. c[k] \in Filters \cup {Writer}
  BY DEF Chain
<1>. QED
  BY <1>1, FiltersAreFilters

\* Sequences of batches that are all of one type of data
OneType == {given \in Seq(Batch) : \E d : given \in Seq(Seq(ItemsOf(d)))}

LEMMA OneTypeDef ==
  ASSUME NEW d, NEW given \in Seq(Seq(ItemsOf(d)))
  PROVE  given \in OneType
<1>1. Seq(ItemsOf(d)) \subseteq Batch
  BY ItemsOfAreItems
<1>2. given \in Seq(Batch)
  BY <1>1, SeqMonotonic
<1>. QED
  BY <1>2 DEF OneType

LEMMA NothingIsOneType == <<>> \in OneType
<1>1. <<>> \in Seq(Seq(ItemsOf("feature")))
  OBVIOUS
<1>. QED
  BY <1>1, OneTypeDef

LEMMA SinglesOneType == Singles \in OneType
BY SinglesTyped, OneTypeDef

LEMMA ResultsOneType ==
  ASSUME NEW f, IsFilter(f), NEW arrived \in OneType
  PROVE  Results(f, arrived) \in OneType
<1>1. PICK d : arrived \in Seq(Seq(ItemsOf(d)))
  BY DEF OneType
<1>2. PICK e : Results(f, arrived) \in Seq(Seq(ItemsOf(e)))
  <2>1. Results(f, arrived)
          \in Seq(Seq(ItemsOf(IF f.kind = "collection" THEN d ELSE f.kind)))
    BY <1>1, ResultsTyped
  <2>. QED
    BY <2>1
<1>. QED
  BY <1>2, OneTypeDef

LEMMA ArrivingOneType ==
  ASSUME NEW f, NEW given \in OneType
  PROVE  Arriving(f, given) \in OneType
<1>1. PICK d : given \in Seq(Seq(ItemsOf(d)))
  BY DEF OneType
<1>2. Arriving(f, given) \in Seq(Seq(ItemsOf(d)))
  BY <1>1, ArrivingDef
<1>. QED
  BY <1>2, OneTypeDef

\* The recursion of BatchesInto is well founded.
LEMMA BatchesIntoDef ==
  ASSUME NEW c \in Chain
  PROVE  \A k \in 1..Len(c) :
           /\ BatchesInto(c)[k] =
                Arriving(c[k], IF k = 1 THEN Singles
                               ELSE Results(c[k - 1], BatchesInto(c)[k - 1]))
           /\ BatchesInto(c)[k] \in OneType
<1> DEFINE N == Len(c)
           V == OneType
           Step(k, v) == Arriving(c[k], IF k = 1 THEN Singles
                                        ELSE Results(c[k - 1], v))
           Is(g) == g = [k \in 1..N |-> Step(k, g[k - 1])]
           H == [x \in (1..N) \X V |-> Step(x[1], x[2])]
<1>1. N \in Nat
  BY DEF Chain
<1>2. ASSUME NEW k \in 1..N, NEW v \in V
      PROVE  Step(k, v) \in V
  <2>1. CASE k = 1
    BY <2>1, SinglesOneType, ArrivingOneType
  <2>2. CASE k # 1
    <3>1. k - 1 \in 1..Len(c)
      BY <1>1, <2>2
    <3>2. Results(c[k - 1], v) \in V
      BY <3>1, StatesAreFilters, ResultsOneType
    <3>. QED
      BY <2>2, <3>2, ArrivingOneType
  <2>. QED
    BY <2>1, <2>2
<1> HIDE DEF V, Step, N
<1>3. /\ H \in [(1..N) \X V -> V]
      /\ \A k \in 1..N, v \in V : H[<<k, v>>] = Step(k, v)
  BY <1>2
<1>4. <<>> \in V
  BY NothingIsOneType DEF V
<1> HIDE DEF H
<1>5. PICK f : Computes(N, V, <<>>, H, f)
  BY <1>1, <1>3, <1>4, LoopComputes
<1>6. /\ f \in [0..N -> V]
      /\ \A k \in 1..N : f[k] = H[<<k, f[k - 1]>>]
  BY <1>5 DEF Computes
<1> DEFINE g == [k \in 1..N |-> f[k]]
<1>7. ASSUME NEW k \in 1..N PROVE g[k] = Step(k, g[k - 1])
  <2>1. f[k] = Step(k, f[k - 1])
    <3>1. f[k - 1] \in V
      BY <1>1, <1>6
    <3>. QED
      BY <1>3, <1>6, <3>1
  <2>2. CASE k = 1
    <3>1. Step(1, f[1 - 1]) = Step(1, g[1 - 1])
      BY DEF Step
    <3>. QED
      BY <2>1, <2>2, <3>1
  <2>3. CASE k # 1
    <3>1. k - 1 \in 1..N
      BY <1>1, <2>3
    <3>2. g[k - 1] = f[k - 1] /\ g[k] = f[k]
      BY <3>1
    <3>. QED
      BY <2>1, <3>2
  <2>. QED
    BY <2>2, <2>3
<1>8. Is(g)
  <2>1. g = [k \in 1..N |-> g[k]]
    OBVIOUS
  <2>. QED
    BY <1>7, <2>1
<1>9. BatchesInto(c) = CHOOSE h : Is(h)
  BY DEF BatchesInto, Step, N
<1>10. Is(BatchesInto(c))
  <2> HIDE DEF Is
  <2>. QED
    BY <1>8, <1>9
<1> DEFINE B == BatchesInto(c)
<1> HIDE DEF B
<1>11. \A k \in 1..N : B[k] = Step(k, B[k - 1])
  <2>1. B = [k \in 1..N |-> Step(k, B[k - 1])]
    BY <1>10 DEF B
  <2>. QED
    BY <2>1
<1>12. \A k \in 1..N : B[k] \in V
  <2> DEFINE P == {n \in 0..N : n = 0 \/ B[n] \in V}
  <2>1. 0 \in P
    BY <1>1
  <2>2. ASSUME NEW n \in 1..N, n - 1 \in P PROVE n \in P
    <3>1. CASE n = 1
      <4>1. Step(1, B[1 - 1]) = Step(1, <<>>)
        BY DEF Step
      <4>. QED
        BY <1>1, <1>2, <1>4, <1>11, <3>1, <4>1
    <3>2. CASE n # 1
      <4>1. B[n - 1] \in V
        BY <1>1, <2>2, <3>2
      <4>. QED
        BY <1>1, <1>2, <1>11, <4>1
    <3>. QED
      BY <3>1, <3>2
  <2>3. 0..N \subseteq P
    <3> HIDE DEF P
    <3>. QED
      BY <1>1, <2>1, <2>2, CountUp
  <2>4. \A n \in 1..N : n \in 0..N /\ n # 0
    BY <1>1
  <2>. QED
    BY <2>3, <2>4
<1>. QED
  BY <1>11, <1>12 DEF B, V, Step, N

-----------------------------------------------------------------------------
(***************************************************************************)
(* What collections, or the cursor, give to the states after them.         *)
(***************************************************************************)
\* The batches that a collection, or the cursor, gives to the states after it
Given(c, l) == IF l = 0 THEN Singles ELSE Results(c[l], BatchesInto(c)[l])

\* They are of one type.
LEMMA GivenOneType ==
  ASSUME NEW c \in Chain, NEW l \in 0..Len(c)
  PROVE  Given(c, l) \in OneType
<1>1. Len(c) \in Nat
  BY DEF Chain
<1>2. CASE l = 0
  BY <1>2, SinglesOneType DEF Given
<1>3. CASE l # 0
  <2>1. l \in 1..Len(c)
    BY <1>1, <1>3
  <2>2. Results(c[l], BatchesInto(c)[l]) \in OneType
    BY <2>1, BatchesIntoDef, StatesAreFilters, ResultsOneType
  <2>. QED
    BY <1>3, <2>2 DEF Given
<1>. QED
  BY <1>2, <1>3

(***************************************************************************)
(* What has arrived at each state once state l has given these batches to  *)
(* the next one: a collection gives nothing on before it is signalled.     *)
(***************************************************************************)
Arrived(c, l, given) ==
  LET stage[k \in 0..Len(c)] ==
        IF k <= l THEN <<>>
        ELSE Arriving(c[k], IF k = l + 1 THEN given
                            ELSE IF c[k - 1].kind = "collection" THEN <<>>
                            ELSE Results(c[k - 1], stage[k - 1]))
  IN  stage

\* What is given to a state, and arrives, are batches.
LEMMA TypesOfBatches ==
  /\ <<>> \in Seq(Batch) /\ OneType \subseteq Seq(Batch)
  /\ \A f : \A g \in Seq(Batch) : Arriving(f, g) \in Seq(Batch)
  /\ \A f : IsFilter(f) /\ f.kind # "collection" =>
       \A g \in Seq(Batch) : Results(f, g) \in Seq(Batch)
<1>1. <<>> \in Seq(Batch) /\ OneType \subseteq Seq(Batch)
  BY DEF OneType
<1>2. ASSUME NEW f, NEW g \in Seq(Batch) PROVE Arriving(f, g) \in Seq(Batch)
  BY ArrivingDef DEF Batch
<1>3. ASSUME NEW f, IsFilter(f), f.kind # "collection", NEW g \in Seq(Batch)
      PROVE  Results(f, g) \in Seq(Batch)
  <2>1. <<>> \in Batch
    BY DEF Batch
  <2>. QED
    BY <1>3, <2>1, ResultsAppend
<1>. QED
  BY <1>1, <1>2, <1>3

\* The recursion of Arrived is well founded.
LEMMA ArrivedDef ==
  ASSUME NEW c \in Chain, NEW l \in Nat, NEW given \in Seq(Batch)
  PROVE  \A k \in 0..Len(c) :
           /\ Arrived(c, l, given)[k] =
                IF k <= l THEN <<>>
                ELSE Arriving(c[k],
                              IF k = l + 1 THEN given
                              ELSE IF c[k - 1].kind = "collection" THEN <<>>
                              ELSE Results(c[k - 1],
                                           Arrived(c, l, given)[k - 1]))
           /\ Arrived(c, l, given)[k] \in Seq(Batch)
<1> DEFINE N == Len(c)
           V == Seq(Batch)
           Step(k, v) ==
             IF k <= l THEN <<>>
             ELSE Arriving(c[k], IF k = l + 1 THEN given
                                 ELSE IF c[k - 1].kind = "collection" THEN <<>>
                                 ELSE Results(c[k - 1], v))
           Is(g) == g = [k \in 0..N |-> Step(k, g[k - 1])]
           H == [x \in (1..N) \X V |-> Step(x[1], x[2])]
<1>1. N \in Nat
  BY DEF Chain
<1>2. ASSUME NEW k \in 1..N, NEW v \in V
      PROVE  Step(k, v) \in V
  <2>1. CASE k <= l
    BY <2>1, TypesOfBatches
  <2>2. CASE k = l + 1
    <3>1. ~(k <= l)
      BY <2>2
    <3>2. Step(k, v) = Arriving(c[k], given)
      BY <2>2, <3>1
    <3>. QED
      BY <3>2, TypesOfBatches
  <2>3. CASE ~(k <= l) /\ k # l + 1
    <3>1. k - 1 \in 1..Len(c)
      BY <1>1, <2>3
    <3>2. IsFilter(c[k - 1])
      BY <3>1, StatesAreFilters
    <3>3. CASE c[k - 1].kind = "collection"
      <4>1. Step(k, v) = Arriving(c[k], <<>>)
        BY <2>3, <3>3
      <4>. QED
        BY <4>1, TypesOfBatches
    <3>4. CASE c[k - 1].kind # "collection"
      <4>1. Step(k, v) = Arriving(c[k], Results(c[k - 1], v))
        BY <2>3, <3>4
      <4>2. Results(c[k - 1], v) \in V
        BY <3>2, <3>4, TypesOfBatches
      <4>. QED
        BY <4>1, <4>2, TypesOfBatches
    <3>. QED
      BY <3>3, <3>4
  <2>. QED
    BY <2>1, <2>2, <2>3
<1>3. <<>> \in V /\ \A v : Step(0, v) = <<>>
  BY TypesOfBatches
<1> HIDE DEF V, Step, N
<1>4. /\ H \in [(1..N) \X V -> V]
      /\ \A k \in 1..N, v \in V : H[<<k, v>>] = Step(k, v)
  BY <1>2
<1> HIDE DEF H
<1>5. PICK f : Computes(N, V, <<>>, H, f)
  BY <1>1, <1>3, <1>4, LoopComputes
<1>6. /\ f \in [0..N -> V] /\ f[0] = <<>>
      /\ \A k \in 1..N : f[k] = H[<<k, f[k - 1]>>]
  BY <1>5 DEF Computes
<1>7. ASSUME NEW k \in 0..N PROVE f[k] = Step(k, f[k - 1])
  <2>1. CASE k = 0
    BY <1>3, <1>6, <2>1
  <2>2. CASE k # 0
    <3>1. k \in 1..N /\ f[k - 1] \in V
      BY <1>1, <1>6, <2>2
    <3>. QED
      BY <1>4, <1>6, <3>1
  <2>. QED
    BY <2>1, <2>2
<1>8. Is(f)
  <2>1. f = [k \in 0..N |-> f[k]]
    BY <1>6
  <2>. QED
    BY <1>7, <2>1
<1>9. Arrived(c, l, given) = CHOOSE h : Is(h)
  BY DEF Arrived, Step, N
<1>10. Is(Arrived(c, l, given))
  <2> HIDE DEF Is
  <2>. QED
    BY <1>8, <1>9
<1> DEFINE B == Arrived(c, l, given)
<1> HIDE DEF B
<1>11. \A k \in 0..N : B[k] = Step(k, B[k - 1])
  <2>1. B = [k \in 0..N |-> Step(k, B[k - 1])]
    BY <1>10 DEF B
  <2>. QED
    BY <2>1
<1>12. 0..N \subseteq {n \in 0..N : B[n] \in V}
  <2> DEFINE P == {n \in 0..N : B[n] \in V}
  <2>1. 0 \in P
    BY <1>1, <1>3, <1>11
  <2>2. ASSUME NEW n \in 1..N, n - 1 \in P PROVE n \in P
    BY <1>1, <1>2, <1>11, <2>2
  <2> HIDE DEF P
  <2>3. 0..N \subseteq P
    BY <1>1, <2>1, <2>2, CountUp
  <2>. QED
    BY <2>3 DEF P
<1>13. \A k \in 0..N : B[k] = Step(k, B[k - 1]) /\ B[k] \in V
  BY <1>11, <1>12
<1>. QED
  BY <1>13 DEF B, V, Step, N

-----------------------------------------------------------------------------
(***************************************************************************)
(* What arrives, state by state.                                           *)
(***************************************************************************)
\* The next state gets what a state makes of what arrived there.
LEMMA ArrivedSteps ==
  ASSUME NEW c \in Chain, NEW l \in Nat, NEW given \in Seq(Batch)
  PROVE  LET s == Arrived(c, l, given)
         IN  /\ l < Len(c) => s[l + 1] = Arriving(c[l + 1], given)
             /\ \A k \in (l + 1)..(Len(c) - 1) :
                  s[k + 1] = IF c[k].kind = "collection" THEN <<>>
                             ELSE Arriving(c[k + 1], Results(c[k], s[k]))
             /\ \A k \in 0..Len(c) : s[k] \in Seq(Batch)
<1> DEFINE s == Arrived(c, l, given)
           N == Len(c)
<1>1. /\ N \in Nat
      /\ \A k \in 0..N :
           s[k] = IF k <= l THEN <<>>
                  ELSE Arriving(c[k],
                                IF k = l + 1 THEN given
                                ELSE IF c[k - 1].kind = "collection" THEN <<>>
                                ELSE Results(c[k - 1], s[k - 1]))
      /\ \A k \in 0..N : s[k] \in Seq(Batch)
  BY ArrivedDef DEF Chain
<1> HIDE DEF s, N
<1>2. l < N => s[l + 1] = Arriving(c[l + 1], given)
  <2>1. ASSUME l < N PROVE l + 1 \in 0..N /\ ~(l + 1 <= l)
    BY <1>1, <2>1
  <2>. QED
    BY <1>1, <2>1
<1>3. ASSUME NEW k \in (l + 1)..(N - 1)
      PROVE  s[k + 1] = IF c[k].kind = "collection" THEN <<>>
                        ELSE Arriving(c[k + 1], Results(c[k], s[k]))
  <2>1. k + 1 \in 0..N /\ ~(k + 1 <= l) /\ k + 1 # l + 1 /\ (k + 1) - 1 = k
    BY <1>1
  <2>2. s[k + 1] = Arriving(c[k + 1], IF c[k].kind = "collection" THEN <<>>
                                      ELSE Results(c[k], s[k]))
    BY <1>1, <2>1
  <2>. QED
    BY <2>2, ArrivingEmpty
<1>. QED
  BY <1>1, <1>2, <1>3 DEF s, N

\* As far as the next collection, these are the batches of the chain.
LEMMA ArrivedAll ==
  ASSUME NEW c \in Chain, NEW l \in 0..Len(c), NEW m \in (l + 1)..Len(c),
         \A j \in (l + 1)..(m - 1) : c[j].kind # "collection"
  PROVE  Arrived(c, l, Given(c, l))[m] = BatchesInto(c)[m]
<1> DEFINE s == Arrived(c, l, Given(c, l))
           b == BatchesInto(c)
           N == Len(c)
           P == {k \in (l + 1)..m : s[k] = b[k]}
<1>1. /\ N \in Nat
      /\ Given(c, l) \in Seq(Batch)
  BY GivenOneType DEF Chain, OneType
<1>2. /\ l < N => s[l + 1] = Arriving(c[l + 1], Given(c, l))
      /\ \A k \in (l + 1)..(N - 1) :
           s[k + 1] = IF c[k].kind = "collection" THEN <<>>
                      ELSE Arriving(c[k + 1], Results(c[k], s[k]))
  BY <1>1, ArrivedSteps
<1>3. \A k \in 1..N : b[k] = Arriving(c[k], IF k = 1 THEN Singles
                                            ELSE Results(c[k - 1], b[k - 1]))
  BY BatchesIntoDef
<1> HIDE DEF s, b, N
<1>4. l + 1 \in 1..N /\ l \in Nat /\ m \in Nat /\ (l + 1) - 1 = l
  BY <1>1 DEF N
<1>5. s[l + 1] = b[l + 1]
  <2>1. b[l + 1] = Arriving(c[l + 1], IF l = 0 THEN Singles ELSE Results(c[l], b[l]))
    BY <1>3, <1>4
  <2>. QED
    BY <1>1, <1>2, <1>4, <2>1 DEF Given, b
<1>6. ASSUME NEW k \in ((l + 1) + 1)..m, k - 1 \in P PROVE k \in P
  <2>1. /\ k - 1 \in (l + 1)..(N - 1) /\ (k - 1) + 1 = k /\ k \in 1..N /\ k # 1
        /\ k - 1 \in (l + 1)..(m - 1) /\ k \in (l + 1)..m
    BY <1>1, <1>4 DEF N
  <2>2. s[k - 1] = b[k - 1]
    BY <1>6
  <2>3. s[k] = Arriving(c[k], Results(c[k - 1], s[k - 1]))
    <3>1. c[k - 1].kind # "collection"
      BY <2>1
    <3>. QED
      BY <1>2, <2>1, <3>1
  <2>4. s[k] = b[k]
    BY <1>3, <2>1, <2>2, <2>3
  <2>. QED
    BY <2>1, <2>4
<1>7. (l + 1)..m \subseteq P
  <2>1. l + 1 <= m => l + 1 \in P
    BY <1>4, <1>5
  <2>2. l + 1 \in Nat
    BY <1>4
  <2> HIDE DEF P
  <2>. QED
    BY <1>4, <1>6, <2>1, <2>2, CountFrom
<1>. QED
  BY <1>4, <1>7 DEF s, b

\* Nothing gets past a state where nothing new arrives, or a collection.
LEMMA ArrivedSame ==
  ASSUME NEW c \in Chain, NEW l \in Nat,
         NEW g \in Seq(Batch), NEW h \in Seq(Batch), NEW m \in (l + 1)..Len(c),
         c[m].kind # "collection" =>
           Arrived(c, l, g)[m] = Arrived(c, l, h)[m]
  PROVE  \A k \in (m + 1)..Len(c) : Arrived(c, l, g)[k] = Arrived(c, l, h)[k]
<1> DEFINE s == Arrived(c, l, g)
           t == Arrived(c, l, h)
           N == Len(c)
           P == {k \in m..N : k = m \/ s[k] = t[k]}
<1>1. N \in Nat
  BY DEF Chain
<1>2. /\ \A k \in (l + 1)..(N - 1) :
           s[k + 1] = IF c[k].kind = "collection" THEN <<>>
                      ELSE Arriving(c[k + 1], Results(c[k], s[k]))
      /\ \A k \in (l + 1)..(N - 1) :
           t[k + 1] = IF c[k].kind = "collection" THEN <<>>
                      ELSE Arriving(c[k + 1], Results(c[k], t[k]))
  BY ArrivedSteps
<1> HIDE DEF s, t, N
<1>3. ASSUME NEW k \in (m + 1)..N, k - 1 \in P PROVE k \in P
  <2>1. k - 1 \in (l + 1)..(N - 1) /\ (k - 1) + 1 = k /\ k \in m..N
    BY <1>1
  <2>2. c[k - 1].kind # "collection" => s[k - 1] = t[k - 1]
    BY <1>3 DEF s, t
  <2>3. s[k] = t[k]
    BY <1>2, <2>1, <2>2
  <2>. QED
    BY <2>1, <2>3
<1>4. m..N \subseteq P
  <2>1. m \in Nat /\ m \in P
    BY <1>1 DEF N
  <2> HIDE DEF P
  <2>. QED
    BY <1>1, <1>3, <2>1, CountFrom
<1>5. \A k \in (m + 1)..N : k \in m..N /\ k # m
  BY <1>1
<1>. QED
  BY <1>4, <1>5 DEF s, t, N

\* Nothing gets past a state where nothing has arrived.
LEMMA ArrivedNone ==
  ASSUME NEW c \in Chain, NEW l \in Nat, NEW g \in Seq(Batch),
         NEW m \in (l + 1)..Len(c), Arrived(c, l, g)[m] = <<>>
  PROVE  \A k \in m..Len(c) : Arrived(c, l, g)[k] = <<>>
<1> DEFINE s == Arrived(c, l, g)
           N == Len(c)
           P == {k \in m..N : s[k] = <<>>}
<1>1. N \in Nat
  BY DEF Chain
<1>2. \A k \in (l + 1)..(N - 1) :
        s[k + 1] = IF c[k].kind = "collection" THEN <<>>
                   ELSE Arriving(c[k + 1], Results(c[k], s[k]))
  BY ArrivedSteps
<1> HIDE DEF s, N
<1>3. ASSUME NEW k \in (m + 1)..N, k - 1 \in P PROVE k \in P
  <2>1. k - 1 \in (l + 1)..(N - 1) /\ (k - 1) + 1 = k /\ k \in m..N
    BY <1>1
  <2>2. s[k - 1] = <<>>
    BY <1>3
  <2>3. s[k] = <<>>
    BY <1>2, <2>1, <2>2, ResultsEmpty, ArrivingEmpty
  <2>. QED
    BY <2>1, <2>3
<1>4. m..N \subseteq P
  <2>1. m \in Nat /\ m \in P
    BY <1>1 DEF N, s
  <2> HIDE DEF P
  <2>. QED
    BY <1>1, <1>3, <2>1, CountFrom
<1>. QED
  BY <1>4 DEF s, N

\* Nothing gets past a collection.
LEMMA ArrivedBlocked ==
  ASSUME NEW c \in Chain, NEW l \in Nat, NEW g \in Seq(Batch),
         NEW m \in (l + 1)..Len(c), c[m].kind = "collection"
  PROVE  \A k \in (m + 1)..Len(c) : Arrived(c, l, g)[k] = <<>>
<1>1. Len(c) \in Nat
  BY DEF Chain
<1>2. CASE m < Len(c)
  <2>1. m \in (l + 1)..(Len(c) - 1) /\ m + 1 \in (l + 1)..Len(c)
    BY <1>1, <1>2
  <2>2. Arrived(c, l, g)[m + 1] = <<>>
    BY <2>1, ArrivedSteps
  <2>. QED
    BY <2>1, <2>2, ArrivedNone
<1>3. CASE ~(m < Len(c))
  BY <1>1, <1>3
<1>. QED
  BY <1>2, <1>3

\* Nothing arrives if nothing is given that the next state takes.
LEMMA ArrivedNothing ==
  ASSUME NEW c \in Chain, NEW l \in Nat, NEW g \in Seq(Batch),
         l < Len(c) => Arriving(c[l + 1], g) = <<>>
  PROVE  \A k \in (l + 1)..Len(c) : Arrived(c, l, g)[k] = <<>>
<1>1. Len(c) \in Nat
  BY DEF Chain
<1>2. CASE l < Len(c)
  <2>1. l + 1 \in (l + 1)..Len(c)
    BY <1>1, <1>2
  <2>2. Arrived(c, l, g)[l + 1] = <<>>
    BY <1>2, ArrivedSteps
  <2>. QED
    BY <2>1, <2>2, ArrivedNone
<1>3. CASE ~(l < Len(c))
  BY <1>1, <1>3
<1>. QED
  BY <1>2, <1>3

\* A batch is added if there is anything in it.
Plus(s, b) == IF b = <<>> THEN s ELSE Append(s, b)

\* Batches without elements do not count when all are taken together.
LEMMA FlattenPlus ==
  ASSUME NEW s \in Seq(Batch), NEW b \in Batch
  PROVE  FlattenSeq(Plus(s, b)) = FlattenSeq(s) \o b
<1>1. s \in Seq(Seq(Items)) /\ b \in Seq(Items)
  BY DEF Batch
<1>2. FlattenSeq(s) \in Seq(Items)
  BY <1>1, FlattenIsSeq
<1>3. CASE b = <<>>
  <2>1. FlattenSeq(s) \o <<>> = FlattenSeq(s)
    BY <1>2
  <2>. QED
    BY <1>3, <2>1 DEF Plus
<1>4. CASE b # <<>>
  BY <1>1, <1>4, FlattenAppend DEF Plus
<1>. QED
  BY <1>3, <1>4

\* The first n batches have been given.
After(c, l, n) == Arrived(c, l, SubSeq(Given(c, l), 1, n))

\* These are batches, too.
LEMMA AfterTyped ==
  ASSUME NEW c \in Chain, NEW l \in 0..Len(c),
         NEW n \in 0..Len(Given(c, l))
  PROVE  /\ Given(c, l) \in Seq(Batch) /\ Len(Given(c, l)) \in Nat
         /\ SubSeq(Given(c, l), 1, n) \in Seq(Batch)
         /\ \A k \in 0..Len(c) : After(c, l, n)[k] \in Seq(Batch)
<1>1. Given(c, l) \in Seq(Batch)
  BY GivenOneType DEF OneType
<1> DEFINE G == Given(c, l)
<1> HIDE DEF G
<1>2. Len(G) \in Nat /\ SubSeq(G, 1, n) \in Seq(Batch)
  BY <1>1 DEF G
<1>3. l \in Nat
  BY DEF Chain
<1>4. \A k \in 0..Len(c) : After(c, l, n)[k] \in Seq(Batch)
  BY <1>2, <1>3, ArrivedDef DEF After, G
<1>. QED
  BY <1>1, <1>2, <1>4 DEF G

\* Before any batch, nothing has arrived.
LEMMA AfterNone ==
  ASSUME NEW c \in Chain, NEW l \in 0..Len(c)
  PROVE  \A k \in (l + 1)..Len(c) : After(c, l, 0)[k] = <<>>
<1>1. SubSeq(Given(c, l), 1, 0) = <<>>
  BY SubSeqEmpty
<1>2. <<>> \in Seq(Batch) /\ l \in Nat
  BY DEF Chain
<1>3. \A k \in (l + 1)..Len(c) : Arrived(c, l, <<>>)[k] = <<>>
  BY <1>2, ArrivingEmpty, ArrivedNothing
<1>. QED
  BY <1>1, <1>3 DEF After

\* After the last, all has.
LEMMA AfterAll ==
  ASSUME NEW c \in Chain, NEW l \in 0..Len(c)
  PROVE  After(c, l, Len(Given(c, l))) = Arrived(c, l, Given(c, l))
<1>1. Given(c, l) \in Seq(Batch)
  BY GivenOneType DEF OneType
<1>. QED
  BY <1>1, SubSeqFull DEF After

\* One more batch goes from state to state.
LEMMA AfterMore ==
  ASSUME NEW c \in Chain, NEW l \in 0..(Len(c) - 1),
         NEW n \in 1..Len(Given(c, l))
  PROVE  LET s == After(c, l, n - 1)
             t == After(c, l, n)
             b == Given(c, l)[n]
         IN  /\ b \in Batch
             /\ t[l + 1] = Plus(s[l + 1], Pushed(c[l + 1], b))
             /\ \A k \in (l + 1)..(Len(c) - 1), x \in Batch :
                  c[k].kind # "collection" /\ t[k] = Plus(s[k], x) =>
                    t[k + 1] = Plus(s[k + 1],
                                    Pushed(c[k + 1], Processed(c[k], x)))
             /\ \A k \in (l + 1)..Len(c) :
                  c[k].kind = "collection" \/ t[k] = s[k] =>
                    \A j \in (k + 1)..Len(c) : t[j] = s[j]
<1> DEFINE s == After(c, l, n - 1)
           t == After(c, l, n)
           G == Given(c, l)
           g == SubSeq(G, 1, n - 1)
           h == SubSeq(G, 1, n)
           b == G[n]
           N == Len(c)
<1>1. l \in 0..N /\ N \in Nat /\ l < N
  BY DEF Chain
<1>2. G \in Seq(Batch)
  BY <1>1, GivenOneType DEF OneType
<1>3. b \in Batch
  BY <1>2, ElementOfSeq
<1> HIDE DEF G
<1>4. g \in Seq(Batch) /\ h \in Seq(Batch) /\ h = Append(g, b)
  <2>1. Len(G) \in Nat /\ n \in 1..Len(G) /\ n \in Nat
    BY <1>2 DEF G
  <2>2. g \in Seq(Batch) /\ h \in Seq(Batch)
    BY <1>2, <2>1
  <2>3. 1 \in 1..Len(G) /\ n \in 1..Len(G)
    BY <2>1
  <2>4. h = g \o <<b>>
    BY <1>2, <2>3, SubSeqRecursiveSecond
  <2>5. g \o <<b>> = Append(g, b)
    <3> HIDE DEF g, b
    <3>. QED
      BY <1>3, <2>2
  <2>. QED
    BY <2>2, <2>4, <2>5
<1>5. s = Arrived(c, l, g) /\ t = Arrived(c, l, h)
  BY DEF After, G
<1> HIDE DEF s, t, g, h, b, N
<1>6. /\ s[l + 1] = Arriving(c[l + 1], g)
      /\ \A k \in (l + 1)..(N - 1) :
           s[k + 1] = IF c[k].kind = "collection" THEN <<>>
                      ELSE Arriving(c[k + 1], Results(c[k], s[k]))
      /\ \A k \in 0..N : s[k] \in Seq(Batch)
  BY <1>1, <1>4, <1>5, ArrivedSteps DEF N
<1>7. /\ t[l + 1] = Arriving(c[l + 1], h)
      /\ \A k \in (l + 1)..(N - 1) :
           t[k + 1] = IF c[k].kind = "collection" THEN <<>>
                      ELSE Arriving(c[k + 1], Results(c[k], t[k]))
      /\ \A k \in 0..N : t[k] \in Seq(Batch)
  <2> DEFINE u == Arrived(c, l, h)
  <2>1. h \in Seq(Batch) /\ l \in Nat
    BY <1>1, <1>4
  <2>2. /\ l < Len(c) => u[l + 1] = Arriving(c[l + 1], h)
        /\ \A k \in (l + 1)..(Len(c) - 1) :
             u[k + 1] = IF c[k].kind = "collection" THEN <<>>
                        ELSE Arriving(c[k + 1], Results(c[k], u[k]))
        /\ \A k \in 0..Len(c) : u[k] \in Seq(Batch)
    BY <2>1, ArrivedSteps
  <2> HIDE DEF u
  <2>3. t = u
    BY <1>5 DEF u
  <2>. QED
    BY <1>1, <2>2, <2>3 DEF N
<1>8. \A f : \A u \in Seq(Batch), x \in Batch :
        Arriving(f, Append(u, x)) = Plus(Arriving(f, u), Pushed(f, x))
  BY ArrivingAppend DEF Batch, Plus
<1>9. t[l + 1] = Plus(s[l + 1], Pushed(c[l + 1], b))
  BY <1>3, <1>4, <1>6, <1>7, <1>8
<1>10. ASSUME NEW k \in (l + 1)..(N - 1), NEW x \in Batch,
              c[k].kind # "collection", t[k] = Plus(s[k], x)
       PROVE  t[k + 1] = Plus(s[k + 1], Pushed(c[k + 1], Processed(c[k], x)))
  <2>1. k \in 1..Len(c) /\ k \in 0..N
    BY <1>1 DEF N
  <2>2. IsFilter(c[k])
    BY <2>1, StatesAreFilters
  <2>3. /\ t[k + 1] = Arriving(c[k + 1], Results(c[k], t[k]))
        /\ s[k + 1] = Arriving(c[k + 1], Results(c[k], s[k]))
    BY <1>6, <1>7, <1>10
  <2>4. CASE x = <<>>
    <3>1. t[k] = s[k]
      BY <1>10, <2>4 DEF Plus
    <3>2. Pushed(c[k + 1], Processed(c[k], x)) = <<>>
      BY <1>10, <2>2, <2>4, ProcessedEmpty, PushedEmpty
    <3>. QED
      BY <2>3, <3>1, <3>2 DEF Plus
  <2>5. CASE x # <<>>
    <3>1. t[k] = Append(s[k], x) /\ s[k] \in Seq(Batch)
      BY <1>6, <1>10, <2>1, <2>5 DEF Plus
    <3>2. /\ Results(c[k], s[k]) \in Seq(Batch)
          /\ Results(c[k], t[k]) = Append(Results(c[k], s[k]), Processed(c[k], x))
      BY <1>10, <2>2, <3>1, ResultsAppend
    <3>3. Processed(c[k], x) \in Batch
      BY <1>10, <2>2, ProcessedTyped, ItemsOfAreItems
    <3>. QED
      BY <1>8, <2>3, <3>2, <3>3
  <2>. QED
    BY <2>4, <2>5
<1>11. ASSUME NEW k \in (l + 1)..N, c[k].kind = "collection" \/ t[k] = s[k]
       PROVE  \A j \in (k + 1)..N : t[j] = s[j]
  <2>1. l \in Nat /\ k \in (l + 1)..Len(c)
    BY <1>1 DEF N
  <2>2. c[k].kind # "collection" =>
          Arrived(c, l, h)[k] = Arrived(c, l, g)[k]
    BY <1>5, <1>11
  <2>. QED
    BY <1>4, <1>5, <2>1, <2>2, ArrivedSame DEF N
<1>. QED
  BY <1>3, <1>9, <1>10, <1>11 DEF s, t, b, N, G

\* The result is read off the last NodeFilterState.
LEMMA OutputStateDef ==
  ASSUME chain \in Chain
  PROVE  /\ OutputState \in 0..Length
         /\ OutputState # 0 => Kind(OutputState) = "node"
         /\ \A k \in 1..Length : Kind(k) = "node" =>
              OutputState # 0 /\ k <= OutputState
<1> DEFINE T == {k \in 1..Length : Kind(k) = "node"}
<1>1. Length \in Nat
  BY DEF Chain, Length
<1>2. OutputState = IF T = {} THEN 0 ELSE Max(T)
  BY DEF OutputState
<1>3. CASE T = {}
  BY <1>1, <1>2, <1>3
<1>4. CASE T # {}
  <2>1. T \subseteq 1..Length
    OBVIOUS
  <2> HIDE DEF T
  <2>2. Max(T) \in T /\ \A k \in T : k <= Max(T)
    BY <1>1, <1>4, <2>1, GreatestElement
  <2>3. Max(T) \in 1..Length /\ Kind(Max(T)) = "node"
    BY <2>2 DEF T
  <2>4. \A k \in 1..Length : Kind(k) = "node" => k <= Max(T)
    BY <2>2 DEF T
  <2>. QED
    BY <1>1, <1>2, <1>4, <2>3, <2>4
<1>. QED
  BY <1>3, <1>4

-----------------------------------------------------------------------------
(***************************************************************************)
(* Where the calls are, and which states there are.                        *)
(***************************************************************************)
Feeding == {"metering", "traversing", "returning"}

\* The calls of the graph have returned.
Ended == {"finishing", "done", "crashed", "refused"}

\* computeFeatureStore() refuses a chain with anything but feature states,
\* computeNodes() reads nothing for one that begins with a node state, and a
\* traversal does not go past a collection.
ControlInv ==
  /\ chain \in Chain
  /\ mode = "store" => Length > 0 /\ chain[Length] = Writer
  /\ mode = "store" /\ pc # "refused" => \A k \in 1..Length : Kind(k) = "feature"
  /\ pc \notin Ended => Length > 0 /\ (mode = "nodes" => Kind(1) # "node")
  /\ pc = "reading" => level = 0
  /\ pc \in Feeding => /\ level < Length
                       /\ level > 0 => Kind(level) = "collection"
  /\ pc = "metering" => level > 0
  /\ pc \in {"traversing", "returning"} =>
       /\ start = level + 1 /\ at \in start..Length
       /\ \A k \in start..(at - 1) : Kind(k) # "collection"
  /\ pc = "checkpoint" => level \in 1..Length
  /\ pc = "unwinding" => level = Length + 1

LEMMA ChainBasics ==
  ASSUME chain \in Chain
  PROVE  /\ Length \in Nat
         /\ \A k \in 1..Length : /\ chain[k] \in Filters \cup {Writer}
                                 /\ IsFilter(chain[k])
<1>1. Length \in Nat /\ \A k \in 1..Length : chain[k] \in Filters \cup {Writer}
  BY DEF Chain, Length
<1>. QED
  BY <1>1, StatesAreFilters DEF Length

\* The graph is not started yet.
LEMMA InitTyped == Init => TypeOK /\ ControlInv
<1> SUFFICES ASSUME Init PROVE TypeOK /\ ControlInv
  OBVIOUS
<1>1. PICK m \in Modes, c \in Graphs :
        /\ mode = m
        /\ chain = IF m = "store" THEN Append(c, Writer) ELSE c
        /\ pc = FirstPosition(m, c)
        /\ cursor = 0 /\ level = 0 /\ start = 0 /\ at = 0
        /\ in = [k \in 1..Len(chain) |-> <<>>]
        /\ out_nodes = [k \in 1..Len(chain) |-> <<>>]
        /\ batches = <<>> /\ output = <<>> /\ arrivals = 0
  BY DEF Init
<1>2. PICK n \in 0..MaxFilters : c \in [1..n -> Filters]
  BY DEF Graphs
<1>3. n \in Nat /\ MaxFilters \in Nat /\ NumFeatures \in Nat /\ Modes \subseteq {"nodes", "store"}
  BY <1>2, FeaturesAssumption
<1>4. c \in Seq(Filters) /\ Len(c) = n /\ DOMAIN c = 1..n
  BY <1>2, <1>3, FunctionIsSeq
<1> DEFINE F == Filters \cup {Writer}
<1>5. c \in Seq(F) /\ Writer \in F
  BY <1>4, SeqMonotonic
<1> HIDE DEF F
<1>6. /\ Append(c, Writer) \in Seq(F) /\ Len(Append(c, Writer)) = n + 1
      /\ Append(c, Writer)[n + 1] = Writer
      /\ \A k \in 1..n : Append(c, Writer)[k] = c[k]
  BY <1>4, <1>5
<1>7. chain \in Chain /\ Length \in 0..(MaxFilters + 1) /\ Length \in Nat
  <2>1. CASE m = "store"
    BY <1>1, <1>2, <1>3, <1>6, <2>1 DEF Chain, Length, F
  <2>2. CASE m # "store"
    BY <1>1, <1>2, <1>3, <1>4, <1>5, <2>2 DEF Chain, Length, F
  <2>. QED
    BY <2>1, <2>2
<1>8. pc \in {"finishing", "refused", "reading"}
  BY <1>1 DEF FirstPosition
<1>9. TypeOK
  <2>1. in \in [1..Length -> Seq(Items)] /\ out_nodes \in [1..Length -> Seq(Items)]
    <3>1. <<>> \in Seq(Items)
      OBVIOUS
    <3>. QED
      BY <1>1, <3>1 DEF Length
  <2>2. output \in Seq(Items) /\ batches \in Seq(Seq(Items))
    BY <1>1
  <2>3. pc \in Positions
    BY <1>8 DEF Positions
  <2>4. \A k \in 1..Length : chain[k] \in Filters \cup {Writer}
    BY <1>7, ChainBasics
  <2>5. /\ mode \in Modes /\ cursor \in 0..NumFeatures /\ arrivals \in 0..2
        /\ level \in 0..(Length + 1) /\ start \in 0..Length /\ at \in start..Length
    BY <1>1, <1>3, <1>7
  <2>. QED
    BY <1>7, <2>1, <2>2, <2>3, <2>4, <2>5 DEF TypeOK
<1>10. mode = "store" => Length > 0 /\ chain[Length] = Writer
  BY <1>1, <1>3, <1>6 DEF Length
<1>11. mode = "store" /\ pc # "refused" => \A k \in 1..Length : Kind(k) = "feature"
  <2> SUFFICES ASSUME mode = "store", pc # "refused", NEW k \in 1..Length
               PROVE  Kind(k) = "feature"
    OBVIOUS
  <2>1. \A j \in DOMAIN c : c[j].kind = "feature"
    BY <1>1 DEF FirstPosition
  <2>2. Length = n + 1
    BY <1>1, <1>6 DEF Length
  <2>3. CASE k = n + 1
    BY <1>1, <1>6, <2>3 DEF Kind, Writer
  <2>4. CASE k # n + 1
    <3>1. k \in 1..n
      BY <1>3, <2>2, <2>4
    <3>. QED
      BY <1>1, <1>4, <1>6, <2>1, <3>1 DEF Kind
  <2>. QED
    BY <2>3, <2>4
<1>12. pc \notin Ended => Length > 0 /\ (mode = "nodes" => Kind(1) # "node")
  <2> SUFFICES ASSUME pc \notin Ended
               PROVE  Length > 0 /\ (mode = "nodes" => Kind(1) # "node")
    OBVIOUS
  <2>1. pc = "reading" /\ ~(m = "nodes" /\ (c = <<>> \/ c[1].kind = "node"))
    BY <1>1, <1>8 DEF Ended, FirstPosition
  <2>2. CASE m = "store"
    BY <1>1, <1>10, <2>2
  <2>3. CASE m # "store"
    <3>1. m = "nodes" /\ chain = c /\ c # <<>> /\ c[1].kind # "node"
      BY <1>1, <1>3, <2>1, <2>3
    <3>2. Len(c) > 0
      BY <1>3, <1>4, <3>1
    <3>. QED
      BY <3>1, <3>2 DEF Length, Kind
  <2>. QED
    BY <2>2, <2>3
<1>13. ControlInv
  BY <1>1, <1>7, <1>8, <1>10, <1>11, <1>12 DEF ControlInv, Feeding
<1>. QED
  BY <1>9, <1>13

\* A feature is a batch.
LEMMA SourceTyped ==
  ASSUME NEW n \in 1..NumFeatures
  PROVE  /\ <<Source(n)>> \in Batch /\ Singles[n] = <<Source(n)>>
         /\ Len(Singles) = NumFeatures /\ Len(<<Source(n)>>) = 1
<1>1. Singles[n] = <<Source(n)>>
  BY DEF Singles
<1>2. NumFeatures \in Nat
  BY FeaturesAssumption
<1>3. Singles \in Seq(Batch)
  BY SinglesOneType DEF OneType
<1>4. Singles \in [1..NumFeatures -> Batch]
  <2>1. DOMAIN Singles = 1..NumFeatures
    BY DEF Singles
  <2>2. DOMAIN Singles = 1..Len(Singles) /\ Singles \in [1..Len(Singles) -> Batch]
    BY <1>3, LenProperties
  <2>. QED
    BY <2>1, <2>2
<1>5. Len(Singles) = NumFeatures
  BY <1>2, <1>4, FunctionIsSeq
<1>6. Singles[n] \in Batch
  BY <1>4
<1>. QED
  BY <1>1, <1>5, <1>6

\* What push() adds
LEMMA FedTyped ==
  ASSUME TypeOK, NEW k \in 1..Length, NEW items \in Batch
  PROVE  /\ Pushed(chain[k], items) \in Seq(Items)
         /\ [in EXCEPT ![k] = @ \o Pushed(chain[k], items)]
              \in [1..Length -> Seq(Items)]
<1>1. Pushed(chain[k], items) \in Seq(Items)
  BY PushedTyped DEF Batch
<1>2. in \in [1..Length -> Seq(Items)]
  BY DEF TypeOK
<1>3. in[k] \o Pushed(chain[k], items) \in Seq(Items)
  BY <1>1, <1>2
<1>. QED
  BY <1>1, <1>2, <1>3

\* What is passed on to the next state
LEMMA PassedOnTyped ==
  ASSUME TypeOK, ControlInv, NEW out \in Batch, PassOn(out),
         pc = "traversing", UNCHANGED <<chain, start, level>>
  PROVE  /\ in' \in [1..Length -> Seq(Items)]
         /\ pc' \in {"traversing", "returning"}
         /\ at' \in start..Length
         /\ pc' = "traversing" => at' = at + 1
         /\ pc' = "returning" => at' = at
         /\ Kind(at) # "collection" =>
              \A k \in start..(at' - 1) : Kind(k) # "collection"
<1>1. in \in [1..Length -> Seq(Items)] /\ at \in start..Length /\ Length \in Nat
      /\ start = level + 1 /\ level \in Nat
      /\ \A k \in start..(at - 1) : Kind(k) # "collection"
  BY ChainBasics DEF TypeOK, ControlInv
<1>2. CASE at < Length /\ out # <<>>
  <2>1. /\ in' = [in EXCEPT ![at + 1] = @ \o Pushed(chain[at + 1], out)]
        /\ at' = at + 1 /\ pc' = pc
    BY <1>2 DEF PassOn
  <2>2. at + 1 \in 1..Length /\ at + 1 \in start..Length
    BY <1>1, <1>2
  <2>3. Kind(at) # "collection" =>
          \A k \in start..((at + 1) - 1) : Kind(k) # "collection"
    BY <1>1
  <2>4. in' \in [1..Length -> Seq(Items)]
    BY <2>1, <2>2, FedTyped
  <2>. QED
    BY <2>1, <2>2, <2>3, <2>4
<1>3. CASE ~(at < Length /\ out # <<>>)
  BY <1>1, <1>3 DEF PassOn
<1>. QED
  BY <1>2, <1>3

\* What the state that is traversed makes of its input
LEMMA MadeTyped ==
  ASSUME TypeOK, ControlInv, pc = "traversing", Kind(at) # "collection"
  PROVE  /\ at \in 1..Length /\ in[at] \in Batch
         /\ Processed(chain[at], in[at]) \in Batch
         /\ Len(Processed(chain[at], in[at])) <= Len(in[at])
<1>1. at \in 1..Length
  BY ChainBasics DEF TypeOK, ControlInv
<1>2. in[at] \in Batch
  BY <1>1 DEF TypeOK, Batch
<1>3. IsFilter(chain[at]) /\ chain[at].kind # "collection"
  BY <1>1, ChainBasics DEF ControlInv, Kind
<1>. QED
  BY <1>1, <1>2, <1>3, ProcessedTyped, ItemsOfAreItems

\* Every step keeps the types, and the calls in their places.
LEMMA NextTyped ==
  ASSUME TypeOK, ControlInv, [Next]_vars
  PROVE  TypeOK' /\ ControlInv'
<1>1. /\ mode \in Modes /\ Length \in Nat /\ Length \in 0..(MaxFilters + 1)
      /\ pc \in Positions /\ cursor \in 0..NumFeatures /\ NumFeatures \in Nat
      /\ arrivals \in 0..2 /\ level \in 0..(Length + 1) /\ level \in Nat
      /\ start \in 0..Length /\ at \in start..Length
      /\ in \in [1..Length -> Seq(Items)]
      /\ out_nodes \in [1..Length -> Seq(Items)]
      /\ output \in Seq(Items) /\ batches \in Seq(Seq(Items))
      /\ chain \in Chain
      /\ \A k \in 1..Length : chain[k] \in Filters \cup {Writer}
  BY ChainBasics, FeaturesAssumption DEF TypeOK, ControlInv
<1>2. CASE ReadFeature
  <2>1. /\ pc = "reading" /\ cursor < NumFeatures /\ cursor' = cursor + 1
        /\ in' = [in EXCEPT ![1] = @ \o Pushed(chain[1], <<Source(cursor + 1)>>)]
        /\ start' = 1 /\ at' = 1 /\ pc' = "traversing"
        /\ UNCHANGED <<mode, chain, level, out_nodes, batches, output, arrivals>>
    BY <1>2 DEF ReadFeature, Feed
  <2>2. Length > 0 /\ level = 0 /\ 1 \in 1..Length
    BY <1>1, <2>1 DEF ControlInv, Ended
  <2>3. cursor + 1 \in 1..NumFeatures
    BY <1>1, <2>1
  <2>4. in' \in [1..Length -> Seq(Items)]
    BY <2>1, <2>2, <2>3, SourceTyped, FedTyped
  <2>5. TypeOK'
    BY <1>1, <2>1, <2>2, <2>3, <2>4 DEF TypeOK, Length, Positions
  <2>6. ControlInv'
    BY <1>1, <2>1, <2>2 DEF ControlInv, Ended, Feeding, Length, Kind
  <2>. QED
    BY <2>5, <2>6
<1>3. CASE EndOfCursor
  <2>1. TypeOK'
    <3>1. Length > 0
      BY <1>3 DEF EndOfCursor, ControlInv, Ended
    <3>. QED
      BY <1>1, <1>3, <3>1 DEF EndOfCursor, TypeOK, Length, Positions
  <2>2. ControlInv'
    BY <1>1, <1>3 DEF EndOfCursor, ControlInv, Ended, Feeding, Length, Kind
  <2>. QED
    BY <2>1, <2>2
<1>4. CASE TraverseFilter
  <2> DEFINE out == Processed(chain[at], in[at])
  <2>1. /\ pc = "traversing" /\ Kind(at) \in {"feature", "fragment"}
        /\ PassOn(out)
        /\ output' = IF mode = "store" /\ at = Length
                     THEN output \o out ELSE output
        /\ UNCHANGED <<mode, chain, cursor, level, start, out_nodes, batches,
                       arrivals>>
    BY <1>4 DEF TraverseFilter
  <2>2. out \in Batch /\ at \in 1..Length
    BY <2>1, MadeTyped
  <2> HIDE DEF out
  <2>3. /\ in' \in [1..Length -> Seq(Items)]
        /\ pc' \in {"traversing", "returning"} /\ at' \in start..Length
        /\ pc' = "traversing" => at' = at + 1
        /\ pc' = "returning" => at' = at
        /\ \A k \in start..(at' - 1) : Kind(k) # "collection"
    BY <2>1, <2>2, PassedOnTyped
  <2>4. output' \in Seq(Items)
    BY <1>1, <2>1, <2>2 DEF Batch
  <2>5. TypeOK'
    BY <1>1, <2>1, <2>3, <2>4 DEF TypeOK, Length, Positions
  <2>6. ControlInv'
    <3>1. start' = level' + 1 /\ at' \in start'..Length'
          /\ \A k \in start'..(at' - 1) : Kind(k)' # "collection"
      BY <2>1, <2>3 DEF ControlInv, Length, Kind
    <3>. QED
      BY <1>1, <2>1, <2>3, <3>1 DEF ControlInv, Ended, Feeding, Length, Kind
  <2>. QED
    BY <2>5, <2>6
<1>5. CASE TraverseNodes
  <2> DEFINE out == IF in[at] # <<>> THEN Processed(chain[at], in[at])
                                     ELSE out_nodes[at]
  <2>1. /\ pc = "traversing" /\ Kind(at) = "node"
        /\ PassOn(out)
        /\ out_nodes' = [out_nodes EXCEPT ![at] =
                           IF at < Length THEN <<>> ELSE out]
        /\ arrivals' = IF at = OutputState THEN Min({arrivals + 1, 2})
                                           ELSE arrivals
        /\ UNCHANGED <<mode, chain, cursor, level, start, batches, output>>
    BY <1>5 DEF TraverseNodes
  <2>2. out \in Batch /\ at \in 1..Length
    <3>1. at \in 1..Length /\ Processed(chain[at], in[at]) \in Batch
      BY <2>1, MadeTyped
    <3>2. out_nodes[at] \in Batch
      BY <1>1, <3>1 DEF Batch
    <3>. QED
      BY <3>1, <3>2
  <2> HIDE DEF out
  <2>3. /\ in' \in [1..Length -> Seq(Items)]
        /\ pc' \in {"traversing", "returning"} /\ at' \in start..Length
        /\ pc' = "traversing" => at' = at + 1
        /\ pc' = "returning" => at' = at
        /\ \A k \in start..(at' - 1) : Kind(k) # "collection"
    BY <2>1, <2>2, PassedOnTyped
  <2>4. out_nodes' \in [1..Length -> Seq(Items)]
    <3>1. <<>> \in Seq(Items) /\ out \in Seq(Items)
      BY <2>2 DEF Batch
    <3>. QED
      BY <1>1, <2>1, <3>1
  <2>5. arrivals' \in 0..2
    <3>1. arrivals + 1 \in Int /\ 2 \in Int
      BY <1>1
    <3>2. Min({arrivals + 1, 2}) = IF arrivals + 1 <= 2 THEN arrivals + 1 ELSE 2
      BY <3>1, MinOfPair
    <3>. QED
      BY <1>1, <2>1, <3>2
  <2>6. TypeOK'
    BY <1>1, <2>1, <2>3, <2>4, <2>5 DEF TypeOK, Length, Positions
  <2>7. ControlInv'
    <3>1. start' = level' + 1 /\ at' \in start'..Length'
          /\ \A k \in start'..(at' - 1) : Kind(k)' # "collection"
      BY <2>1, <2>3 DEF ControlInv, Length, Kind
    <3>. QED
      BY <1>1, <2>1, <2>3, <3>1 DEF ControlInv, Ended, Feeding, Length, Kind
  <2>. QED
    BY <2>6, <2>7
<1>6. CASE TraverseCollection
  <2>1. TypeOK'
    BY <1>1, <1>6 DEF TraverseCollection, TypeOK, Length, Positions
  <2>2. ControlInv'
    BY <1>1, <1>6 DEF TraverseCollection, ControlInv, Ended, Feeding, Length, Kind
  <2>. QED
    BY <2>1, <2>2
<1>7. CASE Return
  <2>1. /\ pc = "returning" /\ in' = Cleared
        /\ pc' = IF level = 0 THEN "reading" ELSE "metering"
        /\ UNCHANGED <<mode, chain, cursor, level, start, at, out_nodes, batches,
                       output, arrivals>>
    BY <1>7 DEF Return
  <2>2. in' \in [1..Length -> Seq(Items)]
    <3>1. <<>> \in Seq(Items)
      OBVIOUS
    <3>. QED
      BY <1>1, <2>1, <3>1 DEF Cleared
  <2>3. TypeOK'
    BY <1>1, <2>1, <2>2 DEF TypeOK, Length, Positions
  <2>4. ControlInv'
    BY <1>1, <2>1 DEF ControlInv, Ended, Feeding, Length, Kind
  <2>. QED
    BY <2>3, <2>4
<1>8. CASE Checkpoint
  <2>1. /\ pc = "checkpoint"
        /\ UNCHANGED <<mode, chain, cursor, start, at, in, out_nodes, output,
                       arrivals>>
    BY <1>8 DEF Checkpoint
  <2>2. level \in 1..Length
    BY <1>1, <2>1 DEF ControlInv
  <2>3. CASE CanMeter(level)
    <3>1. /\ batches' = Metered(chain[level], in[level])
          /\ pc' = "metering" /\ level' = level
      BY <1>8, <2>3 DEF Checkpoint
    <3>2. Kind(level) = "collection" /\ level < Length
      BY <2>3 DEF CanMeter
    <3>3. batches' \in Seq(Seq(Items))
      <4>1. IsFilter(chain[level]) /\ in[level] \in Seq(Items)
        BY <1>1, <2>2, ChainBasics
      <4>2. Metered(chain[level], in[level])
              \in Seq({b \in Seq(Items) : Meterable(chain[level], b)})
        BY <4>1, MeteredTyped
      <4>. QED
        BY <3>1, <4>2, SeqMonotonic
    <3>4. TypeOK'
      BY <1>1, <2>1, <3>1, <3>3 DEF TypeOK, Length, Positions
    <3>5. ControlInv'
      BY <1>1, <2>1, <2>2, <3>1, <3>2 DEF ControlInv, Ended, Feeding, Length, Kind
    <3>. QED
      BY <3>4, <3>5
  <2>4. CASE ~CanMeter(level)
    <3>1. /\ pc' = IF level < Length THEN pc ELSE "unwinding"
          /\ level' = level + 1 /\ batches' = batches
      BY <1>8, <2>4 DEF Checkpoint
    <3>2. TypeOK'
      BY <1>1, <2>1, <2>2, <3>1 DEF TypeOK, Length, Positions
    <3>3. ControlInv'
      BY <1>1, <2>1, <2>2, <3>1 DEF ControlInv, Ended, Feeding, Length, Kind
    <3>. QED
      BY <3>2, <3>3
  <2>. QED
    BY <2>3, <2>4
<1>9. CASE MeterBatch
  <2>1. /\ pc = "metering" /\ batches # <<>>
        /\ in' = [in EXCEPT ![level + 1] =
                    @ \o Pushed(chain[level + 1], Head(batches))]
        /\ start' = level + 1 /\ at' = level + 1 /\ pc' = "traversing"
        /\ batches' = Tail(batches)
        /\ UNCHANGED <<mode, chain, cursor, level, out_nodes, output, arrivals>>
    BY <1>9 DEF MeterBatch, Feed
  <2>2. level + 1 \in 1..Length /\ level < Length
    BY <1>1, <2>1 DEF ControlInv, Feeding
  <2>3. Head(batches) \in Batch /\ batches' \in Seq(Seq(Items))
    BY <1>1, <2>1, HeadTailProperties DEF Batch
  <2>4. in' \in [1..Length -> Seq(Items)]
    BY <2>1, <2>2, <2>3, FedTyped
  <2>5. TypeOK'
    BY <1>1, <2>1, <2>2, <2>3, <2>4 DEF TypeOK, Length, Positions
  <2>6. ControlInv'
    BY <1>1, <2>1, <2>2 DEF ControlInv, Ended, Feeding, Length, Kind
  <2>. QED
    BY <2>5, <2>6
<1>10. CASE MeteringEnds
  <2>1. level < Length
    BY <1>10 DEF MeteringEnds, ControlInv, Feeding
  <2>2. TypeOK'
    BY <1>1, <1>10, <2>1 DEF MeteringEnds, TypeOK, Length, Positions
  <2>3. ControlInv'
    BY <1>1, <1>10, <2>1 DEF MeteringEnds, ControlInv, Ended, Feeding, Length, Kind
  <2>. QED
    BY <2>2, <2>3
<1>11. CASE Unwind
  <2>1. in' \in [1..Length -> Seq(Items)]
    <3>1. <<>> \in Seq(Items)
      OBVIOUS
    <3>. QED
      BY <1>1, <1>11, <3>1 DEF Unwind
  <2>2. TypeOK'
    BY <1>1, <1>11, <2>1 DEF Unwind, TypeOK, Length, Positions
  <2>3. ControlInv'
    BY <1>1, <1>11 DEF Unwind, ControlInv, Ended, Feeding, Length, Kind
  <2>. QED
    BY <2>2, <2>3
<1>12. CASE Finish
  <2>1. /\ pc = "finishing" /\ pc' \in {"done", "crashed"}
        /\ UNCHANGED <<mode, chain, cursor, level, start, at, in, out_nodes,
                       batches, arrivals>>
    BY <1>12 DEF Finish
  <2>2. output' \in Seq(Items)
    <3>1. CASE mode = "nodes" /\ OutputState # 0
      <4>1. OutputState \in 1..Length
        BY <1>1, <3>1, OutputStateDef
      <4>2. output' = out_nodes[OutputState]
        BY <1>12, <3>1 DEF Finish
      <4>. QED
        BY <1>1, <4>1, <4>2
    <3>2. CASE ~(mode = "nodes" /\ OutputState # 0)
      BY <1>1, <1>12, <3>2 DEF Finish
    <3>. QED
      BY <3>1, <3>2
  <2>3. TypeOK'
    BY <1>1, <2>1, <2>2 DEF TypeOK, Length, Positions
  <2>4. ControlInv'
    BY <1>1, <2>1 DEF ControlInv, Ended, Feeding, Length, Kind
  <2>. QED
    BY <2>3, <2>4
<1>13. CASE UNCHANGED vars
  BY <1>1, <1>13 DEF vars, TypeOK, ControlInv, Length, Kind
<1>. QED
  BY <1>2, <1>3, <1>4, <1>5, <1>6, <1>7, <1>8, <1>9, <1>10, <1>11, <1>12, <1>13
     DEF Next

-----------------------------------------------------------------------------
(***************************************************************************)
(* What is in the states, and what the batches are.                        *)
(***************************************************************************)
\* Between the traversals, only collections have input.
TidyInv ==
  \A k \in 1..Length :
    \/ Kind(k) = "collection" \/ in[k] = <<>>
    \/ pc \in {"traversing", "returning"} /\ k \in start..at

\* A state has taken what it takes.
TakenBy(kind) == {e \in Items : e.data \in Accepts(kind)}

TakenInv == \A k \in 1..Length : in[k] \in Seq(TakenBy(Kind(k)))

\* Only the last NodeFilterState keeps the nodes it made.
NodesInv == \A k \in 1..(Length - 1) : out_nodes[k] = <<>>

\* The batches are of one group, and as long as the metering allows.
ApartInv ==
  /\ pc \in Feeding /\ level > 0 =>
       batches \in Seq({b \in Batch : Meterable(chain[level], b)})
  /\ pc = "traversing" /\ Kind(at) # "collection" =>
       /\ level = 0 => Len(in[at]) <= 1
       /\ level > 0 /\ at = start => Meterable(chain[level], in[at])

\* All that a state may hold as input
InputInv == TidyInv /\ TakenInv /\ NodesInv /\ ApartInv

\* A batch that is pushed is no longer, nor of more groups.
LEMMA PushedMeterable ==
  ASSUME NEW f, IsFilter(f), NEW g, NEW b \in Batch, Meterable(f, b)
  PROVE  Meterable(f, Pushed(g, b))
<1>1. /\ Range(Pushed(g, b)) \subseteq Range(b) /\ Len(Pushed(g, b)) <= Len(b)
      /\ Pushed(g, b) \in Seq(Items)
  BY PushedTyped DEF Batch
<1>2. Len(b) \in Nat /\ Len(Pushed(g, b)) \in Nat /\ f.metering \in Nat
  BY <1>1 DEF Batch, IsFilter
<1>. QED
  BY <1>1, <1>2 DEF Meterable

\* A state that is fed
LEMMA FedState ==
  ASSUME TypeOK, NEW k \in 1..Length, NEW items \in Batch,
         in' = [in EXCEPT ![k] = @ \o Pushed(chain[k], items)]
  PROVE  /\ \A j \in 1..Length : j # k => in'[j] = in[j]
         /\ in'[k] = in[k] \o Pushed(chain[k], items)
         /\ in[k] = <<>> => in'[k] = Pushed(chain[k], items)
         /\ TakenInv => in'[k] \in Seq(TakenBy(Kind(k)))
<1>1. Pushed(chain[k], items) \in Seq(Items)
  BY PushedTyped DEF Batch
<1>2. in \in [1..Length -> Seq(Items)]
  BY DEF TypeOK
<1>3. /\ \A j \in 1..Length : j # k => in'[j] = in[j]
      /\ in'[k] = in[k] \o Pushed(chain[k], items)
  BY <1>2
<1>4. <<>> \o Pushed(chain[k], items) = Pushed(chain[k], items)
  BY <1>1, ConcatEmptySeq
<1>5. ASSUME TakenInv
      PROVE  in'[k] \in Seq(TakenBy(Kind(k)))
  <2> DEFINE T == TakenBy(Kind(k))
  <2>1. Pushed(chain[k], items) \in Seq(T)
    BY PushedTyped DEF Batch, Kind, TakenBy
  <2>2. in[k] \in Seq(T)
    BY <1>5 DEF TakenInv
  <2> HIDE DEF T
  <2>3. in[k] \o Pushed(chain[k], items) \in Seq(T)
    BY <2>1, <2>2
  <2>. QED
    BY <1>3, <2>3 DEF T
<1>. QED
  BY <1>3, <1>4, <1>5

\* Nothing is in the states at first.
LEMMA InitInput == Init => InputInv
<1> SUFFICES ASSUME Init PROVE InputInv
  OBVIOUS
<1>1. /\ pc \in {"finishing", "refused", "reading"}
      /\ in = [k \in 1..Length |-> <<>>]
  BY DEF Init, FirstPosition, Length
<1>2. TakenInv
  <2>1. ASSUME NEW k \in 1..Length
        PROVE  in[k] \in Seq(TakenBy(Kind(k)))
    <3>1. in[k] = <<>>
      BY <1>1
    <3>2. <<>> \in Seq(TakenBy(Kind(k)))
      OBVIOUS
    <3>. QED
      BY <3>1, <3>2
  <2>. QED
    BY <2>1 DEF TakenInv
<1>3. NodesInv
  BY DEF Init, NodesInv, Length
<1>. QED
  BY <1>1, <1>2, <1>3 DEF InputInv, TidyInv, ApartInv, Feeding

\* The state that is fed first
LEMMA FeedInput ==
  ASSUME TypeOK, ControlInv, InputInv, NEW k \in 1..Length,
         NEW items \in Batch, Feed(k, items), pc \notin {"traversing", "returning"},
         UNCHANGED <<mode, chain, out_nodes>>
  PROVE  /\ TidyInv' /\ NodesInv' /\ TakenInv'
         /\ Kind(k) # "collection" => in'[k] = Pushed(chain[k], items)
<1>1. /\ in' = [in EXCEPT ![k] = @ \o Pushed(chain[k], items)]
      /\ start' = k /\ at' = k /\ pc' = "traversing"
  BY DEF Feed
<1>2. /\ \A j \in 1..Length : j # k => in'[j] = in[j]
      /\ in[k] = <<>> => in'[k] = Pushed(chain[k], items)
      /\ in'[k] \in Seq(TakenBy(Kind(k)))
  BY <1>1, FedState DEF InputInv
<1>3. \A j \in 1..Length : Kind(j) = "collection" \/ in[j] = <<>>
  BY DEF InputInv, TidyInv
<1>4. Length' = Length /\ \A j \in 1..Length : Kind(j)' = Kind(j)
  BY DEF Length, Kind
<1>5. TidyInv'
  <2>1. Length \in Nat /\ k \in k..k
    BY ChainBasics DEF ControlInv
  <2>. QED
    BY <1>1, <1>2, <1>3, <1>4, <2>1 DEF TidyInv
<1>6. TakenInv'
  BY <1>2, <1>4 DEF TakenInv, InputInv
<1>7. NodesInv'
  BY <1>4 DEF NodesInv, InputInv
<1>. QED
  BY <1>2, <1>3, <1>5, <1>6, <1>7

\* The state that the results are passed on to
LEMMA PassOnInput ==
  ASSUME TypeOK, ControlInv, InputInv, NEW out \in Batch, PassOn(out),
         pc = "traversing", Kind(at) # "collection",
         UNCHANGED <<mode, chain, level, start, batches>>,
         at < Length /\ level = 0 => Len(out) <= 1, NodesInv'
  PROVE  InputInv'
<1>1. /\ in \in [1..Length -> Seq(Items)] /\ Length \in Nat
      /\ start = level + 1 /\ level \in Nat /\ at \in start..Length
      /\ at \in 1..Length
  BY MadeTyped, ChainBasics DEF TypeOK, ControlInv
<1>2. Length' = Length /\ \A j \in 1..Length : Kind(j)' = Kind(j)
  BY DEF Length, Kind
<1>3. \A k \in 1..Length : \/ Kind(k) = "collection" \/ in[k] = <<>>
                           \/ k \in start..at
  BY DEF InputInv, TidyInv
<1>4. CASE at < Length /\ out # <<>>
  <2>1. /\ in' = [in EXCEPT ![at + 1] = @ \o Pushed(chain[at + 1], out)]
        /\ at' = at + 1 /\ pc' = pc
    BY <1>4 DEF PassOn
  <2>2. at + 1 \in 1..Length /\ at + 1 \in start..Length /\ at + 1 \notin start..at
        /\ at + 1 # start
    BY <1>1, <1>4
  <2>3. /\ \A j \in 1..Length : j # at + 1 => in'[j] = in[j]
        /\ in[at + 1] = <<>> => in'[at + 1] = Pushed(chain[at + 1], out)
        /\ in'[at + 1] \in Seq(TakenBy(Kind(at + 1)))
    BY <2>1, <2>2, FedState DEF InputInv
  <2>4. TakenInv'
    BY <1>2, <2>3 DEF TakenInv, InputInv
  <2>5. TidyInv'
    <3>1. at + 1 \in start..(at + 1) /\ \A k \in start..at : k \in start..(at + 1)
      BY <1>1
    <3>. QED
      BY <1>2, <1>3, <2>1, <2>3, <3>1 DEF TidyInv
  <2>6. ApartInv'
    <3>1. ASSUME level = 0, Kind(at + 1) # "collection"
          PROVE  Len(in'[at + 1]) <= 1
      <4>1. in'[at + 1] = Pushed(chain[at + 1], out)
        BY <1>3, <2>2, <2>3, <3>1
      <4>2. Len(Pushed(chain[at + 1], out)) <= Len(out)
            /\ Pushed(chain[at + 1], out) \in Batch
        BY PushedTyped DEF Batch
      <4>3. Len(out) \in Nat /\ Len(Pushed(chain[at + 1], out)) \in Nat
        BY <4>2 DEF Batch
      <4>. QED
        BY <1>4, <3>1, <4>1, <4>2, <4>3
    <3>2. pc \in Feeding /\ pc' \in Feeding
      BY <2>1 DEF Feeding
    <3>3. /\ level' = level /\ start' = start /\ batches' = batches
          /\ at' = at + 1 /\ Kind(at)' = Kind(at + 1) /\ chain' = chain
      BY <2>1 DEF Kind
    <3>4. level > 0 =>
            batches \in Seq({b \in Batch : Meterable(chain[level], b)})
      BY <3>2 DEF InputInv, ApartInv
    <3>. QED
      BY <2>2, <3>1, <3>3, <3>4 DEF ApartInv
  <2>. QED
    BY <2>4, <2>5, <2>6 DEF InputInv
<1>5. CASE ~(at < Length /\ out # <<>>)
  <2>1. pc' = "returning" /\ in' = in /\ at' = at
    BY <1>5 DEF PassOn
  <2>2. TidyInv' /\ TakenInv'
    BY <1>2, <1>3, <2>1 DEF TidyInv, TakenInv, InputInv
  <2>3. ApartInv'
    BY <2>1 DEF ApartInv, InputInv, Feeding
  <2>. QED
    BY <2>2, <2>3 DEF InputInv
<1>. QED
  BY <1>4, <1>5

\* Every step keeps the inputs apart.
LEMMA NextInput ==
  ASSUME TypeOK, ControlInv, InputInv, [Next]_vars
  PROVE  InputInv'
<1>1. /\ Length \in Nat /\ cursor \in 0..NumFeatures /\ NumFeatures \in Nat
      /\ level \in 0..(Length + 1) /\ level \in Nat
      /\ in \in [1..Length -> Seq(Items)]
      /\ out_nodes \in [1..Length -> Seq(Items)]
      /\ batches \in Seq(Seq(Items))
  BY ChainBasics, FeaturesAssumption DEF TypeOK, ControlInv
<1>2. CASE ReadFeature
  <2>1. /\ pc = "reading" /\ cursor < NumFeatures
        /\ Feed(1, <<Source(cursor + 1)>>)
        /\ UNCHANGED <<mode, chain, level, out_nodes, batches>>
    BY <1>2 DEF ReadFeature
  <2>2. Length > 0 /\ level = 0 /\ 1 \in 1..Length
    BY <1>1, <2>1 DEF ControlInv, Ended
  <2>3. /\ cursor + 1 \in 1..NumFeatures
        /\ <<Source(cursor + 1)>> \in Batch /\ Len(<<Source(cursor + 1)>>) = 1
    BY <1>1, <2>1, SourceTyped
  <2>4. /\ TidyInv' /\ TakenInv' /\ NodesInv'
        /\ Kind(1) # "collection" =>
             in'[1] = Pushed(chain[1], <<Source(cursor + 1)>>)
    BY <2>1, <2>2, <2>3, FeedInput
  <2>5. Len(Pushed(chain[1], <<Source(cursor + 1)>>)) <= 1
    BY <2>3, PushedTyped DEF Batch
  <2>6. ApartInv'
    <3>1. level' = 0 /\ at' = 1 /\ Kind(at)' = Kind(1)
      BY <2>1, <2>2 DEF Feed, Kind
    <3>. QED
      BY <2>4, <2>5, <3>1 DEF ApartInv
  <2>. QED
    BY <2>4, <2>6 DEF InputInv
<1>3. CASE EndOfCursor
  BY <1>3 DEF EndOfCursor, InputInv, TidyInv, TakenInv, NodesInv, ApartInv, Feeding, Length, Kind
<1>4. CASE TraverseFilter
  <2> DEFINE out == Processed(chain[at], in[at])
  <2>1. /\ pc = "traversing" /\ Kind(at) # "collection"
        /\ PassOn(out)
        /\ UNCHANGED <<mode, chain, level, start, out_nodes, batches>>
    BY <1>4 DEF TraverseFilter
  <2>2. out \in Batch /\ Len(out) <= Len(in[at]) /\ in[at] \in Batch
    BY <2>1, MadeTyped
  <2>3. level = 0 => Len(in[at]) <= 1
    BY <2>1 DEF InputInv, ApartInv
  <2> HIDE DEF out
  <2>4. Len(out) \in Nat /\ Len(in[at]) \in Nat
    BY <2>2 DEF Batch
  <2>5. NodesInv'
    BY <2>1 DEF NodesInv, InputInv, Length
  <2>. QED
    BY <2>1, <2>2, <2>3, <2>4, <2>5, PassOnInput
<1>5. CASE TraverseNodes
  <2> DEFINE out == IF in[at] # <<>> THEN Processed(chain[at], in[at])
                                     ELSE out_nodes[at]
  <2>1. /\ pc = "traversing" /\ Kind(at) # "collection"
        /\ PassOn(out)
        /\ UNCHANGED <<mode, chain, level, start, batches>>
    BY <1>5 DEF TraverseNodes
  <2>2. /\ at \in 1..Length /\ in[at] \in Batch
        /\ Processed(chain[at], in[at]) \in Batch
        /\ Len(Processed(chain[at], in[at])) <= Len(in[at])
        /\ out_nodes[at] \in Batch
    BY <1>1, <2>1, MadeTyped DEF Batch
  <2>3. out \in Batch
    BY <2>2
  <2>4. at < Length /\ level = 0 => Len(out) <= 1
    <3>1. level = 0 => Len(in[at]) <= 1
      BY <2>1 DEF InputInv, ApartInv
    <3>2. at < Length => out_nodes[at] = <<>>
      BY <1>1, <2>2 DEF InputInv, NodesInv
    <3>3. /\ Len(in[at]) \in Nat /\ Len(Processed(chain[at], in[at])) \in Nat
          /\ Len(<<>>) = 0
      BY <2>2 DEF Batch
    <3>. QED
      BY <2>2, <3>1, <3>2, <3>3
  <2> HIDE DEF out
  <2>5. NodesInv'
    <3>1. /\ out_nodes' = [out_nodes EXCEPT ![at] =
                             IF at < Length THEN <<>> ELSE out]
          /\ Length' = Length
      BY <1>5 DEF TraverseNodes, Length, out
    <3>2. ASSUME NEW k \in 1..(Length - 1) PROVE out_nodes'[k] = <<>>
      <4>1. out_nodes[k] = <<>> /\ k \in 1..Length /\ k < Length
        BY <1>1 DEF InputInv, NodesInv
      <4>. QED
        BY <1>1, <2>2, <3>1, <4>1
    <3>. QED
      BY <3>1, <3>2 DEF NodesInv
  <2>. QED
    BY <2>1, <2>3, <2>4, <2>5, PassOnInput
<1>6. CASE TraverseCollection
  BY <1>6 DEF TraverseCollection, InputInv, TidyInv, TakenInv, NodesInv, ApartInv, Feeding, Length, Kind
<1>7. CASE Return
  <2>1. /\ pc = "returning" /\ in' = Cleared
        /\ pc' = IF level = 0 THEN "reading" ELSE "metering"
        /\ UNCHANGED <<mode, chain, cursor, level, start, at, out_nodes, batches>>
    BY <1>7 DEF Return
  <2>2. \A k \in 1..Length : in'[k] = IF k \in start..at /\ Kind(k) # "collection"
                                      THEN <<>> ELSE in[k]
    BY <2>1 DEF Cleared
  <2>3. Length' = Length /\ \A j \in 1..Length : Kind(j)' = Kind(j)
    BY <2>1 DEF Length, Kind
  <2>4. TidyInv'
    BY <2>2, <2>3 DEF TidyInv, InputInv
  <2>5. TakenInv'
    <3>1. ASSUME NEW k \in 1..Length
          PROVE  in'[k] \in Seq(TakenBy(Kind(k)))
      <4> DEFINE T == TakenBy(Kind(k))
      <4>1. in[k] \in Seq(T) /\ <<>> \in Seq(T)
        BY DEF TakenInv, InputInv
      <4> HIDE DEF T
      <4>2. in'[k] \in Seq(T)
        BY <2>2, <4>1
      <4>. QED
        BY <4>2 DEF T
    <3>. QED
      BY <2>3, <3>1 DEF TakenInv
  <2>6. ApartInv'
    BY <2>1 DEF ApartInv, InputInv, Feeding
  <2>7. NodesInv'
    BY <2>1, <2>3 DEF NodesInv, InputInv
  <2>. QED
    BY <2>4, <2>5, <2>6, <2>7 DEF InputInv
<1>8. CASE Checkpoint
  <2>1. /\ pc = "checkpoint"
        /\ UNCHANGED <<mode, chain, cursor, start, at, in, out_nodes>>
    BY <1>8 DEF Checkpoint
  <2>2. level \in 1..Length
    BY <1>1, <2>1 DEF ControlInv
  <2>3. TidyInv' /\ TakenInv' /\ NodesInv'
    BY <2>1 DEF TidyInv, TakenInv, NodesInv, InputInv, Length, Kind
  <2>4. CASE CanMeter(level)
    <3>1. /\ batches' = Metered(chain[level], in[level])
          /\ pc' = "metering" /\ level' = level
      BY <1>8, <2>4 DEF Checkpoint
    <3>2. IsFilter(chain[level]) /\ in[level] \in Seq(Items)
      BY <1>1, <2>2, ChainBasics DEF ControlInv
    <3>3. Metered(chain[level], in[level])
            \in Seq({b \in Batch : Meterable(chain[level], b)})
      BY <3>2, MeteredTyped DEF Batch
    <3>4. ApartInv'
      BY <2>1, <3>1, <3>3 DEF ApartInv
    <3>. QED
      BY <2>3, <3>4 DEF InputInv
  <2>5. CASE ~CanMeter(level)
    <3>1. pc' \in {"checkpoint", "unwinding"}
      BY <1>8, <2>1, <2>5 DEF Checkpoint
    <3>2. ApartInv'
      BY <3>1 DEF ApartInv, Feeding
    <3>. QED
      BY <2>3, <3>2 DEF InputInv
  <2>. QED
    BY <2>4, <2>5
<1>9. CASE MeterBatch
  <2>1. /\ pc = "metering" /\ batches # <<>>
        /\ Feed(level + 1, Head(batches))
        /\ batches' = Tail(batches)
        /\ UNCHANGED <<mode, chain, level, out_nodes>>
    BY <1>9 DEF MeterBatch
  <2>2. level + 1 \in 1..Length /\ level \in 1..Length
    BY <1>1, <2>1 DEF ControlInv, Feeding
  <2> DEFINE T == {b \in Batch : Meterable(chain[level], b)}
  <2>3. batches \in Seq(T)
    BY <1>1, <2>1 DEF InputInv, ApartInv, Feeding, ControlInv
  <2>4. Head(batches) \in T /\ Tail(batches) \in Seq(T)
    <3> HIDE DEF T
    <3>. QED
      BY <2>1, <2>3, HeadTailProperties
  <2>5. Head(batches) \in Batch /\ Meterable(chain[level], Head(batches))
    BY <2>4
  <2>6. /\ TidyInv' /\ TakenInv' /\ NodesInv'
        /\ Kind(level + 1) # "collection" =>
             in'[level + 1] = Pushed(chain[level + 1], Head(batches))
    BY <2>1, <2>2, <2>5, FeedInput
  <2>7. Meterable(chain[level], Pushed(chain[level + 1], Head(batches)))
    <3>1. IsFilter(chain[level])
      BY <2>2, ChainBasics DEF ControlInv
    <3>. QED
      BY <2>5, <3>1, PushedMeterable
  <2>8. ApartInv'
    <3>1. /\ pc' = "traversing" /\ at' = level + 1 /\ start' = level + 1
          /\ level' = level /\ chain' = chain /\ batches' \in Seq(T)
          /\ Kind(at)' = Kind(level + 1) /\ level # 0
      BY <2>1, <2>2, <2>4 DEF Feed, Kind
    <3>. QED
      BY <2>6, <2>7, <3>1 DEF ApartInv
  <2>. QED
    BY <2>6, <2>8 DEF InputInv
<1>10. CASE MeteringEnds
  BY <1>10 DEF MeteringEnds, InputInv, TidyInv, TakenInv, NodesInv, ApartInv, Feeding, Length, Kind
<1>11. CASE Unwind
  <2>1. /\ pc = "unwinding" /\ pc' = "finishing"
        /\ UNCHANGED <<mode, chain, out_nodes>>
        /\ \A k \in 1..Length :
             in'[k] = IF Kind(k) = "collection" THEN <<>> ELSE in[k]
    BY <1>11 DEF Unwind
  <2>2. Length' = Length /\ \A j \in 1..Length : Kind(j)' = Kind(j)
    BY <2>1 DEF Length, Kind
  <2>3. TidyInv'
    BY <2>1, <2>2 DEF TidyInv, InputInv
  <2>4. TakenInv'
    <3>1. ASSUME NEW k \in 1..Length
          PROVE  in'[k] \in Seq(TakenBy(Kind(k)))
      <4> DEFINE T == TakenBy(Kind(k))
      <4>1. in[k] \in Seq(T) /\ <<>> \in Seq(T)
        BY DEF TakenInv, InputInv
      <4> HIDE DEF T
      <4>2. in'[k] \in Seq(T)
        BY <2>1, <4>1
      <4>. QED
        BY <4>2 DEF T
    <3>. QED
      BY <2>2, <3>1 DEF TakenInv
  <2>5. ApartInv'
    BY <2>1 DEF ApartInv, Feeding
  <2>6. NodesInv'
    BY <2>1, <2>2 DEF NodesInv, InputInv
  <2>. QED
    BY <2>3, <2>4, <2>5, <2>6 DEF InputInv
<1>12. CASE Finish
  BY <1>12 DEF Finish, InputInv, TidyInv, TakenInv, NodesInv, ApartInv, Feeding, Length, Kind
<1>13. CASE UNCHANGED vars
  BY <1>13 DEF vars, InputInv, TidyInv, TakenInv, NodesInv, ApartInv, Length, Kind
<1>. QED
  BY <1>2, <1>3, <1>4, <1>5, <1>6, <1>7, <1>8, <1>9, <1>10, <1>11, <1>12, <1>13
     DEF Next

-----------------------------------------------------------------------------
(***************************************************************************)
(* What the states hold, against what has arrived at them.                 *)
(***************************************************************************)
\* The collections from here on hold all that has arrived at them.
Collected(c, i, s, first) ==
  \A k \in first..Len(c) :
    c[k].kind = "collection" => i[k] = FlattenSeq(s[k])

\* So does the last state, in its way; a state that was traversed a times
\* was given a batch no more often.
Delivered(m, c, o, nodes, a, s) ==
  LET n == Len(c)
  IN  /\ m = "store" => o = FlattenSeq(s[n])
      /\ c[n].kind = "node" =>
           /\ nodes[n] = IF s[n] = <<>> THEN <<>> ELSE Processed(c[n], Last(s[n]))
           /\ a < 2 => Len(s[n]) <= a

\* Batches given so far, by the cursor or the collection
Fed == IF level = 0 THEN cursor ELSE Len(Given(chain, level)) - Len(batches)

\* What the collection has still to meter out is the end of what it gives.
StreamInv ==
  pc \in Feeding /\ level > 0 =>
    /\ Fed \in 0..Len(Given(chain, level))
    /\ batches = SubSeq(Given(chain, level), Fed + 1, Len(Given(chain, level)))

\* Between the batches, what was given has arrived wherever it can.
WaitingInv ==
  pc \in {"reading", "metering"} =>
    LET s == After(chain, level, Fed)
    IN  /\ Collected(chain, in, s, level + 1)
        /\ Delivered(mode, chain, output, out_nodes, arrivals, s)

\* The batch that is on its way is in one state, and in none after it.
TraversingInv ==
  pc = "traversing" =>
    LET s == After(chain, level, Fed - 1)
        t == After(chain, level, Fed)
    IN  /\ Fed >= 1
        /\ Collected(chain, in, s, at + 1)
        /\ IF Kind(at) = "collection" THEN in[at] = FlattenSeq(t[at])
                                      ELSE t[at] = Plus(s[at], in[at])
        /\ Delivered(mode, chain, output, out_nodes, arrivals, s)

\* It has arrived.
ReturningInv ==
  pc = "returning" =>
    LET t == After(chain, level, Fed)
    IN  /\ Collected(chain, in, t, level + 1)
        /\ Delivered(mode, chain, output, out_nodes, arrivals, t)

\* No other collection comes between this one, or the cursor, and the state.
Feeder(c, l, k) ==
  /\ l = 0 \/ c[l].kind = "collection"
  /\ \A j \in (l + 1)..(k - 1) : c[j].kind # "collection"

\* The checkpoint has come past everything that was given.
CheckpointInv ==
  pc \in {"checkpoint", "unwinding"} =>
    \E l \in 0..(level - 1) :
      LET s == Arrived(chain, l, Given(chain, l))
      IN  /\ Feeder(chain, l, level)
          /\ Collected(chain, in, s, level)
          /\ Delivered(mode, chain, output, out_nodes, arrivals, s)

\* The result is there to be read off.
FinishingInv ==
  pc = "finishing" /\ Length > 0 =>
    /\ mode = "store" => output = Meaning(mode, chain)
    /\ mode = "nodes" /\ Kind(Length) = "node" =>
         out_nodes[Length] = Meaning(mode, chain)

\* The last state was given a batch no more often than it was traversed.
OnceInv ==
  pc \in {"finishing", "done"} /\ Length > 0 /\ mode = "nodes"
    /\ Kind(1) # "node" /\ Kind(Length) = "node" /\ arrivals < 2 =>
      Len(BatchesInto(chain)[Length]) <= arrivals

\* What the states hold is what the chain means, so far.
DataInv ==
  /\ StreamInv /\ WaitingInv /\ TraversingInv /\ ReturningInv
  /\ CheckpointInv /\ FinishingInv /\ OnceInv /\ ComputesMeaning

\* While batches are given, this one is among them.
LEMMA FedInGiven ==
  ASSUME TypeOK, ControlInv, StreamInv, pc \in Feeding \cup {"reading"}
  PROVE  /\ level \in 0..(Len(chain) - 1) /\ level \in 0..Len(chain)
         /\ level \in Nat /\ Len(chain) \in Nat \ {0}
         /\ Len(Given(chain, level)) \in Nat
         /\ Fed \in 0..Len(Given(chain, level))
         /\ Given(chain, level) \in Seq(Batch)
<1>1. /\ level \in 0..(Length + 1) /\ Length \in Nat /\ chain \in Chain
      /\ cursor \in 0..NumFeatures /\ NumFeatures \in Nat
  BY ChainBasics, FeaturesAssumption DEF TypeOK, ControlInv
<1>2. level < Length
  BY <1>1 DEF ControlInv, Ended, Feeding
<1>3. level \in 0..(Length - 1) /\ level \in 0..Length /\ Length \in Nat \ {0}
  BY <1>1, <1>2
<1>4. Given(chain, level) \in OneType
  BY <1>1, <1>3, GivenOneType DEF Length
<1>5. Given(chain, level) \in Seq(Batch)
  BY <1>4 DEF OneType
<1>6. Fed \in 0..Len(Given(chain, level))
  <2>1. CASE level = 0
    <3>1. Len(Singles) = NumFeatures
      <4>1. Singles \in Seq(Batch) /\ DOMAIN Singles = 1..NumFeatures
        BY SinglesOneType DEF OneType, Singles
      <4>2. Singles \in [1..NumFeatures -> Batch]
        BY <4>1, LenProperties
      <4>. QED
        BY <1>1, <4>2, FunctionIsSeq
    <3>. QED
      BY <1>1, <2>1, <3>1 DEF Fed, Given
  <2>2. CASE level # 0
    <3>1. level > 0 /\ pc \in Feeding
      BY <1>1, <2>2 DEF ControlInv
    <3>. QED
      BY <3>1 DEF StreamInv
  <2>. QED
    BY <2>1, <2>2
<1>. QED
  BY <1>1, <1>3, <1>5, <1>6 DEF Length

\* A batch is fed to the first state.
LEMMA FeedData ==
  ASSUME TypeOK, ControlInv, InputInv, StreamInv, WaitingInv,
         pc \in {"reading", "metering"},
         Fed < Len(Given(chain, level)),
         Feed(level + 1, Given(chain, level)[Fed + 1]),
         Fed' = Fed + 1,
         UNCHANGED <<mode, chain, level, output, out_nodes, arrivals>>
  PROVE  TraversingInv'
<1> DEFINE l == level
           n == Fed + 1
           G == Given(chain, l)
           b == G[n]
           s == After(chain, l, Fed)
           t == After(chain, l, n)
           k == l + 1
<1>1. /\ l \in 0..(Len(chain) - 1) /\ l \in 0..Len(chain) /\ l \in Nat
      /\ Len(chain) \in Nat \ {0} /\ Fed \in 0..Len(G) /\ Len(G) \in Nat
      /\ chain \in Chain
  BY FedInGiven DEF Feeding, ControlInv
<1>2. n \in 1..Len(G) /\ n - 1 = Fed
  BY <1>1
<1>3. /\ b \in Batch
      /\ t[k] = Plus(s[k], Pushed(chain[k], b))
      /\ chain[k].kind = "collection" \/ t[k] = s[k] =>
           \A j \in (k + 1)..Len(chain) : t[j] = s[j]
  <2>1. k \in k..Len(chain)
    BY <1>1
  <2>. QED
    BY <1>1, <1>2, <2>1, AfterMore
<1>4. s[k] \in Seq(Batch)
  <2>1. k \in 0..Len(chain)
    BY <1>1
  <2>. QED
    BY <1>1, <2>1, AfterTyped
<1>5. /\ Collected(chain, in, s, k)
      /\ Delivered(mode, chain, output, out_nodes, arrivals, s)
  BY DEF WaitingInv
<1>6. /\ in' = [in EXCEPT ![k] = @ \o Pushed(chain[k], b)]
      /\ start' = k /\ at' = k /\ pc' = "traversing"
  BY DEF Feed
<1>7. k \in 1..Length
  BY <1>1 DEF Length
<1> HIDE DEF k, b, s, t, G, n
<1>8. /\ \A j \in 1..Length : j # k => in'[j] = in[j]
      /\ in'[k] = in[k] \o Pushed(chain[k], b)
      /\ in[k] = <<>> => in'[k] = Pushed(chain[k], b)
  BY <1>3, <1>6, <1>7, FedState
<1>9. Pushed(chain[k], b) \in Batch
  BY <1>3, PushedTyped DEF Batch
<1>10. IF Kind(k) = "collection" THEN in'[k] = FlattenSeq(t[k])
                                 ELSE t[k] = Plus(s[k], in'[k])
  <2>1. CASE Kind(k) = "collection"
    <3>1. in[k] = FlattenSeq(s[k])
      <4>1. k \in k..Len(chain)
        BY <1>1 DEF k
      <4>. QED
        BY <1>5, <2>1, <4>1 DEF Collected, Kind
    <3>. QED
      BY <1>3, <1>4, <1>8, <1>9, <2>1, <3>1, FlattenPlus
  <2>2. CASE Kind(k) # "collection"
    <3>1. in[k] = <<>>
      BY <1>7, <2>2 DEF InputInv, TidyInv
    <3>. QED
      BY <1>3, <1>8, <2>2, <3>1
  <2>. QED
    BY <2>1, <2>2
<1>11. Collected(chain, in', s, k + 1)
  <2>1. ASSUME NEW j \in (k + 1)..Len(chain), chain[j].kind = "collection"
        PROVE  in'[j] = FlattenSeq(s[j])
    <3>1. j \in k..Len(chain) /\ j \in 1..Length /\ j # k
      BY <1>1, <1>7 DEF Length
    <3>. QED
      BY <1>5, <1>8, <2>1, <3>1 DEF Collected
  <2>. QED
    BY <2>1 DEF Collected
<1>12. /\ After(chain, level, Fed - 1)' = s /\ After(chain, level, Fed)' = t
       /\ Kind(at)' = Kind(k) /\ Fed' >= 1
  <2>1. Fed' = n /\ Fed' - 1 = Fed /\ chain' = chain /\ level' = level
    BY <1>1, <1>2 DEF n
  <2>2. Kind(at)' = Kind(k)
    BY <1>6 DEF Kind
  <2>3. n >= 1
    BY <1>1 DEF n
  <2>. QED
    BY <2>1, <2>2, <2>3 DEF s, t
<1>. QED
  BY <1>5, <1>6, <1>10, <1>11, <1>12 DEF TraversingInv

-----------------------------------------------------------------------------
(***************************************************************************)
(* Each step, on the data.                                                 *)
(***************************************************************************)
\* Where a batch is, what has arrived before it and with it
LEMMA InFlight ==
  ASSUME TypeOK, ControlInv, StreamInv, TraversingInv, pc = "traversing"
  PROVE  LET s == After(chain, level, Fed - 1)
             t == After(chain, level, Fed)
         IN  /\ level \in Nat /\ Len(chain) \in Nat \ {0}
             /\ level \in 0..(Len(chain) - 1)
             /\ at \in (level + 1)..Len(chain) /\ start = level + 1
             /\ at \in 1..Length /\ Length = Len(chain)
             /\ \A k \in start..(at - 1) : chain[k].kind # "collection"
             /\ \A k \in 0..Len(chain) : s[k] \in Seq(Batch) /\ t[k] \in Seq(Batch)
             /\ \A k \in (level + 1)..(Len(chain) - 1), x \in Batch :
                  chain[k].kind # "collection" /\ t[k] = Plus(s[k], x) =>
                    t[k + 1] = Plus(s[k + 1],
                                    Pushed(chain[k + 1], Processed(chain[k], x)))
             /\ \A k \in (level + 1)..Len(chain) :
                  chain[k].kind = "collection" \/ t[k] = s[k] =>
                    \A j \in (k + 1)..Len(chain) : t[j] = s[j]
<1>1. /\ level \in 0..(Len(chain) - 1) /\ level \in 0..Len(chain)
      /\ level \in Nat /\ Len(chain) \in Nat \ {0}
      /\ Fed \in 0..Len(Given(chain, level)) /\ Len(Given(chain, level)) \in Nat
      /\ chain \in Chain
  BY FedInGiven DEF Feeding, ControlInv
<1>2. Fed \in 1..Len(Given(chain, level)) /\ Fed - 1 \in 0..Len(Given(chain, level))
  BY <1>1 DEF TraversingInv
<1>3. /\ at \in (level + 1)..Len(chain) /\ start = level + 1
      /\ at \in 1..Length /\ Length = Len(chain)
      /\ \A k \in start..(at - 1) : chain[k].kind # "collection"
  BY <1>1 DEF ControlInv, Length, Kind
<1> DEFINE s == After(chain, level, Fed - 1)
           t == After(chain, level, Fed)
<1>4. \A k \in 0..Len(chain) : s[k] \in Seq(Batch)
  BY <1>1, <1>2, AfterTyped
<1>5. \A k \in 0..Len(chain) : t[k] \in Seq(Batch)
  BY <1>1, AfterTyped
<1>6. /\ \A k \in (level + 1)..(Len(chain) - 1), x \in Batch :
           chain[k].kind # "collection" /\ t[k] = Plus(s[k], x) =>
             t[k + 1] = Plus(s[k + 1],
                             Pushed(chain[k + 1], Processed(chain[k], x)))
      /\ \A k \in (level + 1)..Len(chain) :
           chain[k].kind = "collection" \/ t[k] = s[k] =>
             \A j \in (k + 1)..Len(chain) : t[j] = s[j]
  BY <1>1, <1>2, AfterMore
<1>. QED
  BY <1>1, <1>3, <1>4, <1>5, <1>6

\* The results are passed on, or there are none.
LEMMA PassOnData ==
  ASSUME TypeOK, ControlInv, InputInv, StreamInv, TraversingInv,
         pc = "traversing", Kind(at) # "collection",
         NEW out \in Batch, PassOn(out),
         at < Length => out = Processed(chain[at], in[at]),
         UNCHANGED <<chain, level, start, Fed>>
  PROVE  LET s == After(chain, level, Fed - 1)
             t == After(chain, level, Fed)
         IN  /\ t[at] = Plus(s[at], in[at])
             /\ pc' = "traversing" =>
                  /\ at < Length
                  /\ Collected(chain, in', s, at' + 1)
                  /\ IF Kind(at)' = "collection" THEN in'[at'] = FlattenSeq(t[at'])
                     ELSE t[at'] = Plus(s[at'], in'[at'])
             /\ pc' = "returning" =>
                  /\ Collected(chain, in', t, level + 1)
                  /\ at < Length => t[Length] = s[Length]
<1> DEFINE s == After(chain, level, Fed - 1)
           t == After(chain, level, Fed)
           l == level
           N == Len(chain)
<1>1. /\ l \in Nat /\ N \in Nat \ {0} /\ at \in (l + 1)..N /\ start = l + 1
      /\ at \in 1..Length /\ Length = N
      /\ \A k \in start..(at - 1) : chain[k].kind # "collection"
      /\ \A k \in 0..N : s[k] \in Seq(Batch) /\ t[k] \in Seq(Batch)
  BY InFlight
<1>2. /\ \A k \in (l + 1)..(N - 1), x \in Batch :
           chain[k].kind # "collection" /\ t[k] = Plus(s[k], x) =>
             t[k + 1] = Plus(s[k + 1],
                             Pushed(chain[k + 1], Processed(chain[k], x)))
      /\ \A k \in (l + 1)..N :
           chain[k].kind = "collection" \/ t[k] = s[k] =>
             \A j \in (k + 1)..N : t[j] = s[j]
  BY InFlight
<1>3. /\ Collected(chain, in, s, at + 1)
      /\ t[at] = Plus(s[at], in[at])
  BY DEF TraversingInv
<1>4. in[at] \in Batch
  BY MadeTyped
<1> HIDE DEF s, t, l, N
<1>5. CASE at < Length /\ out # <<>>
  <2> DEFINE k == at + 1
             x == Pushed(chain[k], out)
  <2>1. /\ in' = [in EXCEPT ![k] = @ \o x]
        /\ at' = k /\ pc' = "traversing"
    BY <1>5 DEF PassOn
  <2>2. k \in 1..Length /\ k \in 0..N /\ at \in (l + 1)..(N - 1) /\ k \notin start..at
        /\ k \in (at + 1)..N
    BY <1>1, <1>5
  <2>3. x \in Batch
    BY PushedTyped DEF Batch
  <2>4. t[k] = Plus(s[k], x)
    BY <1>2, <1>3, <1>4, <1>5, <2>2 DEF Kind
  <2>5. /\ \A j \in 1..Length : j # k => in'[j] = in[j]
        /\ in'[k] = in[k] \o x
        /\ in[k] = <<>> => in'[k] = x
    BY <2>1, <2>2, FedState
  <2> HIDE DEF x, k
  <2>6. Kind(at)' = Kind(k)
    BY <2>1 DEF Kind
  <2>7. IF Kind(k) = "collection" THEN in'[k] = FlattenSeq(t[k])
                                  ELSE t[k] = Plus(s[k], in'[k])
    <3>1. CASE Kind(k) = "collection"
      <4>1. in[k] = FlattenSeq(s[k])
        BY <1>3, <2>2, <3>1 DEF Collected, Kind, N
      <4>2. s[k] \in Seq(Batch)
        BY <1>1, <2>2
      <4>. QED
        BY <2>3, <2>4, <2>5, <3>1, <4>1, <4>2, FlattenPlus
    <3>2. CASE Kind(k) # "collection"
      <4>1. in[k] = <<>>
        BY <2>2, <3>2 DEF InputInv, TidyInv
      <4>. QED
        BY <2>4, <2>5, <3>2, <4>1
    <3>. QED
      BY <3>1, <3>2
  <2>8. Collected(chain, in', s, k + 1)
    <3>1. ASSUME NEW j \in (k + 1)..Len(chain), chain[j].kind = "collection"
          PROVE  in'[j] = FlattenSeq(s[j])
      <4>1. j \in (at + 1)..Len(chain) /\ j \in 1..Length /\ j # k
        BY <1>1 DEF k, N
      <4>. QED
        BY <1>3, <2>5, <3>1, <4>1 DEF Collected
    <3>. QED
      BY <3>1 DEF Collected
  <2>. QED
    BY <1>3, <1>5, <2>1, <2>6, <2>7, <2>8 DEF s, t
<1>6. CASE ~(at < Length /\ out # <<>>)
  <2>1. pc' = "returning" /\ in' = in /\ at' = at
    BY <1>6 DEF PassOn
  <2>2. \A j \in (at + 1)..N : t[j] = s[j]
    <3>1. CASE at < Length
      <4> DEFINE k == at + 1
      <4>1. k \in (l + 1)..N /\ at \in (l + 1)..(N - 1)
        BY <1>1, <3>1
      <4>2. t[k] = Plus(s[k], Pushed(chain[k], Processed(chain[at], in[at])))
        BY <1>2, <1>3, <1>4, <4>1 DEF Kind
      <4>3. Processed(chain[at], in[at]) = <<>>
        BY <1>6, <3>1
      <4>4. t[k] = s[k]
        BY <4>2, <4>3, PushedEmpty DEF Plus
      <4>5. \A j \in (k + 1)..N : t[j] = s[j]
        BY <1>2, <4>1, <4>4
      <4>6. \A j \in (at + 1)..N : j = k \/ j \in (k + 1)..N
        BY <1>1
      <4>. QED
        BY <4>4, <4>5, <4>6
    <3>2. CASE ~(at < Length)
      BY <1>1, <3>2
    <3>. QED
      BY <3>1, <3>2
  <2>3. Collected(chain, in, t, l + 1)
    <3>1. ASSUME NEW j \in (l + 1)..Len(chain), chain[j].kind = "collection"
          PROVE  in[j] = FlattenSeq(t[j])
      <4>1. j \notin start..(at - 1) /\ j # at
        BY <1>1, <3>1 DEF Kind
      <4>2. j \in (at + 1)..Len(chain) /\ j \in (at + 1)..N
        BY <1>1, <4>1 DEF N
      <4>. QED
        BY <1>3, <2>2, <3>1, <4>2 DEF Collected
    <3>. QED
      BY <3>1 DEF Collected
  <2>4. at < Length => t[Length] = s[Length]
    BY <1>1, <2>2
  <2>. QED
    BY <1>3, <2>1, <2>3, <2>4 DEF s, t, l
<1>. QED
  BY <1>5, <1>6

\* A collection holds the batch up.
LEMMA HeldUp ==
  ASSUME TypeOK, ControlInv, StreamInv, TraversingInv,
         pc = "traversing", Kind(at) = "collection"
  PROVE  LET t == After(chain, level, Fed)
         IN  /\ Collected(chain, in, t, level + 1)
             /\ Delivered(mode, chain, output, out_nodes, arrivals, t)
<1> DEFINE s == After(chain, level, Fed - 1)
           t == After(chain, level, Fed)
           l == level
           N == Len(chain)
<1>1. /\ l \in Nat /\ N \in Nat \ {0} /\ at \in (l + 1)..N /\ start = l + 1
      /\ at \in 1..Length /\ Length = N
      /\ \A k \in start..(at - 1) : chain[k].kind # "collection"
      /\ \A k \in (l + 1)..N :
           chain[k].kind = "collection" \/ t[k] = s[k] =>
             \A j \in (k + 1)..N : t[j] = s[j]
  BY InFlight
<1>2. /\ Collected(chain, in, s, at + 1)
      /\ in[at] = FlattenSeq(t[at])
      /\ Delivered(mode, chain, output, out_nodes, arrivals, s)
  BY DEF TraversingInv
<1> HIDE DEF s, t, l, N
<1>3. \A j \in (at + 1)..N : t[j] = s[j]
  BY <1>1 DEF Kind
<1>4. Collected(chain, in, t, l + 1)
  <2>1. ASSUME NEW j \in (l + 1)..Len(chain), chain[j].kind = "collection"
        PROVE  in[j] = FlattenSeq(t[j])
    <3>1. CASE j = at
      BY <1>2, <3>1
    <3>2. CASE j # at
      <4>1. j \notin start..(at - 1)
        BY <1>1, <2>1
      <4>2. j \in (at + 1)..Len(chain) /\ j \in (at + 1)..N
        BY <1>1, <3>2, <4>1 DEF N
      <4>. QED
        BY <1>2, <1>3, <2>1, <4>2 DEF Collected
    <3>. QED
      BY <3>1, <3>2
  <2>. QED
    BY <2>1 DEF Collected
<1>5. Delivered(mode, chain, output, out_nodes, arrivals, t)
  <2>1. CASE at = N
    <3>1. chain[N].kind = "collection" /\ mode # "store"
      BY <1>1, <2>1 DEF ControlInv, Kind
    <3>. QED
      BY <3>1 DEF Delivered, N
  <2>2. CASE at # N
    <3>1. N \in (at + 1)..N
      BY <1>1, <2>2
    <3>2. t[N] = s[N]
      BY <1>3, <3>1
    <3>. QED
      BY <1>2, <3>2 DEF Delivered, N
  <2>. QED
    BY <2>1, <2>2
<1>. QED
  BY <1>4, <1>5 DEF t, l

\* A collection is passed over if it has nothing that the next state takes.
LEMMA NothingToMeter ==
  ASSUME TypeOK, ControlInv, pc = "checkpoint", Kind(level) = "collection",
         NEW l \in 0..(level - 1), Feeder(chain, l, level),
         Collected(chain, in, Arrived(chain, l, Given(chain, l)), level)
  PROVE  /\ ~CanMeter(level) /\ level < Length =>
              Arriving(chain[level + 1], Given(chain, level)) = <<>>
         /\ CanMeter(level) =>
              Given(chain, level) = Metered(chain[level], in[level])
<1> DEFINE c == chain
           L == level
           b == BatchesInto(c)[L]
<1>1. /\ Length \in Nat /\ Length = Len(c) /\ c \in Chain /\ L \in 1..Len(c)
      /\ l \in 0..Len(c) /\ L \in (l + 1)..Len(c)
  BY ChainBasics DEF ControlInv, Length
<1>2. Arrived(c, l, Given(c, l))[L] = b
  <2>1. \A j \in (l + 1)..(L - 1) : c[j].kind # "collection"
    BY DEF Feeder
  <2>. QED
    BY <1>1, <2>1, ArrivedAll
<1>3. in[L] = FlattenSeq(b)
  <2>1. L \in L..Len(c)
    BY <1>1
  <2>. QED
    BY <1>2, <2>1 DEF Collected, Kind
<1>4. PICK d : b \in Seq(Seq(ItemsOf(d)))
  BY <1>1, BatchesIntoDef DEF OneType
<1>5. in[L] \in Seq(ItemsOf(d))
  BY <1>3, <1>4, FlattenIsSeq
<1>6. Given(c, L) = IF in[L] = <<>> THEN <<>> ELSE Metered(c[L], in[L])
  <2>1. L # 0
    BY <1>1
  <2>. QED
    BY <1>3, <2>1 DEF Given, Results, Kind
<1> HIDE DEF c, L, b
<1>7. ASSUME ~CanMeter(level), level < Length
      PROVE  Arriving(chain[level + 1], Given(chain, level)) = <<>>
  <2>1. CASE in[level] = <<>>
    BY <1>6, <2>1, ArrivingEmpty DEF c, L
  <2>2. CASE in[level] # <<>>
    <3>1. in[level][1].data \notin Accepts(Kind(level + 1))
      BY <1>7, <2>2 DEF CanMeter
    <3>2. in[level][1].data = d
      <4>1. in[level] \in Seq(ItemsOf(d)) /\ Len(in[level]) > 0
        BY <1>5, <2>2 DEF L
      <4>2. in[level][1] \in ItemsOf(d)
        BY <4>1
      <4>. QED
        BY <4>2 DEF ItemsOf
    <3>3. \A e \in ItemsOf(d) : e.data \notin Accepts(chain[level + 1].kind)
      BY <3>1, <3>2 DEF ItemsOf, Kind
    <3>4. Given(chain, level) \in Seq(Seq(ItemsOf(d)))
      <4>1. IsFilter(c[L])
        BY <1>1, StatesAreFilters
      <4>2. Metered(c[L], in[L])
              \in Seq({x \in Seq(ItemsOf(d)) : Meterable(c[L], x)})
        BY <1>5, <4>1, MeteredTyped
      <4>3. Metered(c[L], in[L]) \in Seq(Seq(ItemsOf(d)))
        BY <4>2, SeqMonotonic
      <4>. QED
        BY <1>6, <2>2, <4>3 DEF c, L
    <3>. QED
      BY <3>3, <3>4, ArrivingNone
  <2>. QED
    BY <2>1, <2>2
<1>8. CanMeter(level) => Given(chain, level) = Metered(chain[level], in[level])
  BY <1>6 DEF CanMeter, c, L
<1>. QED
  BY <1>7, <1>8

\* The checkpoint comes to a collection with whatever has arrived past it.
LEMMA PastCollection ==
  ASSUME TypeOK, ControlInv, pc = "checkpoint", Kind(level) = "collection",
         NEW l \in 0..(level - 1),
         Collected(chain, in, Arrived(chain, l, Given(chain, l)), level),
         Delivered(mode, chain, output, out_nodes, arrivals,
                   Arrived(chain, l, Given(chain, l))),
         NEW s, \A k \in (level + 1)..Len(chain) : s[k] = <<>>
  PROVE  /\ Collected(chain, in, s, level + 1)
         /\ Delivered(mode, chain, output, out_nodes, arrivals, s)
<1> DEFINE t == Arrived(chain, l, Given(chain, l))
           N == Len(chain)
<1>1. /\ Length \in Nat /\ Length = N /\ chain \in Chain /\ level \in 1..N
      /\ l \in 0..N /\ l \in Nat /\ level \in (l + 1)..N
  BY ChainBasics DEF ControlInv, Length
<1>2. Given(chain, l) \in Seq(Batch)
  BY <1>1, GivenOneType DEF OneType
<1>3. \A k \in (level + 1)..N : t[k] = <<>>
  BY <1>1, <1>2, ArrivedBlocked DEF Kind
<1> HIDE DEF t, N
<1>4. \A k \in (level + 1)..N : t[k] = s[k]
  BY <1>3 DEF N
<1>5. Collected(chain, in, s, level + 1)
  <2>1. ASSUME NEW k \in (level + 1)..Len(chain), chain[k].kind = "collection"
        PROVE  in[k] = FlattenSeq(s[k])
    <3>1. k \in level..Len(chain)
      BY <1>1 DEF N
    <3>2. in[k] = FlattenSeq(t[k])
      BY <2>1, <3>1 DEF Collected, t
    <3>. QED
      BY <1>4, <3>2 DEF N
  <2>. QED
    BY <2>1 DEF Collected
<1>6. Delivered(mode, chain, output, out_nodes, arrivals, s)
  <2>1. CASE level = N
    <3>1. chain[N].kind = "collection" /\ mode # "store"
      BY <1>1, <2>1 DEF ControlInv, Kind
    <3>. QED
      BY <3>1 DEF Delivered, N
  <2>2. CASE level # N
    <3>1. N \in (level + 1)..N
      BY <1>1, <2>2
    <3>2. t[N] = s[N]
      BY <1>4, <3>1
    <3>. QED
      BY <3>2 DEF Delivered, N, t
  <2>. QED
    BY <2>1, <2>2
<1>. QED
  BY <1>5, <1>6

\* The checkpoint comes to a state.
LEMMA CheckpointData ==
  ASSUME TypeOK, ControlInv, CheckpointInv, Checkpoint
  PROVE  StreamInv' /\ WaitingInv' /\ CheckpointInv'
<1>1. /\ pc = "checkpoint"
      /\ UNCHANGED <<mode, chain, cursor, start, at, in, out_nodes, output, arrivals>>
  BY DEF Checkpoint
<1>2. /\ Length \in Nat /\ Length = Len(chain) /\ chain \in Chain
      /\ level \in 1..Length
  BY <1>1, ChainBasics DEF ControlInv, Length
<1>3. PICK l \in 0..(level - 1) :
        LET s == Arrived(chain, l, Given(chain, l))
        IN  /\ Feeder(chain, l, level)
            /\ Collected(chain, in, s, level)
            /\ Delivered(mode, chain, output, out_nodes, arrivals, s)
  BY <1>1 DEF CheckpointInv
<1>4. CASE CanMeter(level)
  <2>1. /\ batches' = Metered(chain[level], in[level])
        /\ pc' = "metering" /\ level' = level
    BY <1>4 DEF Checkpoint
  <2>2. Kind(level) = "collection" /\ level < Length
    BY <1>4 DEF CanMeter
  <2>3. batches' = Given(chain, level)
    BY <1>1, <1>3, <1>4, <2>1, <2>2, NothingToMeter
  <2>4. Given(chain, level) \in Seq(Batch) /\ Len(Given(chain, level)) \in Nat
    BY <1>2, AfterTyped, GivenOneType DEF OneType
  <2>5. Fed' = 0
    BY <1>2, <2>1, <2>3, <2>4, <1>1 DEF Fed
  <2>6. StreamInv'
    <3>1. Given(chain, level) = SubSeq(Given(chain, level), 1, Len(Given(chain, level)))
      BY <2>4, SubSeqFull
    <3>. QED
      BY <1>1, <2>1, <2>3, <2>4, <2>5, <3>1 DEF StreamInv
  <2>7. WaitingInv'
    <3>1. \A k \in (level + 1)..Len(chain) : After(chain, level, 0)[k] = <<>>
      BY <1>2, AfterNone
    <3>2. /\ Collected(chain, in, After(chain, level, 0), level + 1)
          /\ Delivered(mode, chain, output, out_nodes, arrivals, After(chain, level, 0))
      BY <1>1, <1>3, <2>2, <3>1, PastCollection
    <3>. QED
      BY <1>1, <2>1, <2>5, <3>2 DEF WaitingInv
  <2>8. CheckpointInv'
    BY <2>1 DEF CheckpointInv
  <2>. QED
    BY <2>6, <2>7, <2>8
<1>5. CASE ~CanMeter(level)
  <2>1. /\ pc' = IF level < Length THEN pc ELSE "unwinding"
        /\ level' = level + 1
    BY <1>5 DEF Checkpoint
  <2>2. pc' \in {"checkpoint", "unwinding"}
    BY <1>1, <2>1
  <2>3. StreamInv' /\ WaitingInv'
    BY <2>2 DEF StreamInv, WaitingInv, Feeding
  <2>4. CASE Kind(level) = "collection"
    <3> DEFINE s == Arrived(chain, level, Given(chain, level))
    <3>1. /\ Given(chain, level) \in Seq(Batch) /\ level \in Nat
          /\ level \in 0..(level' - 1)
      BY <1>2, <2>1, GivenOneType DEF OneType
    <3>2. level < Length => Arriving(chain[level + 1], Given(chain, level)) = <<>>
      BY <1>1, <1>3, <1>5, <2>4, NothingToMeter
    <3>3. \A k \in (level + 1)..Len(chain) : s[k] = <<>>
      BY <1>2, <3>1, <3>2, ArrivedNothing
    <3> HIDE DEF s
    <3>4. /\ Collected(chain, in, s, level + 1)
          /\ Delivered(mode, chain, output, out_nodes, arrivals, s)
      BY <1>1, <1>3, <2>4, <3>3, PastCollection
    <3>5. Feeder(chain, level, level + 1)
      BY <1>2, <2>4 DEF Feeder, Kind
    <3>. QED
      BY <1>1, <2>1, <2>3, <3>1, <3>4, <3>5 DEF CheckpointInv, s
  <2>5. CASE Kind(level) # "collection"
    <3> DEFINE s == Arrived(chain, l, Given(chain, l))
    <3>1. l \in 0..(level' - 1)
      BY <1>2, <2>1
    <3>2. Feeder(chain, l, level + 1)
      <4>1. \A j \in (l + 1)..((level + 1) - 1) : j = level \/ j \in (l + 1)..(level - 1)
        BY <1>2
      <4>. QED
        BY <1>3, <2>5, <4>1 DEF Feeder, Kind
    <3>3. Collected(chain, in, s, level + 1)
      <4>1. \A k \in (level + 1)..Len(chain) : k \in level..Len(chain)
        BY <1>2
      <4>. QED
        BY <1>3, <4>1 DEF Collected
    <3>. QED
      BY <1>1, <1>3, <2>1, <2>3, <3>1, <3>2, <3>3 DEF CheckpointInv
  <2>. QED
    BY <2>4, <2>5
<1>. QED
  BY <1>4, <1>5

\* All collections are empty again, and the result is in the last state.
LEMMA UnwindData ==
  ASSUME TypeOK, ControlInv, CheckpointInv, Unwind
  PROVE  FinishingInv' /\ OnceInv'
<1>1. /\ pc = "unwinding" /\ pc' = "finishing"
      /\ UNCHANGED <<mode, chain, out_nodes, output, arrivals>>
  BY DEF Unwind
<1>2. /\ Length \in Nat /\ Length = Len(chain) /\ chain \in Chain
      /\ level = Length + 1 /\ Length > 0
      /\ mode = "nodes" => Kind(1) # "node"
      /\ mode \in {"nodes", "store"}
  BY <1>1, ChainBasics, FeaturesAssumption DEF TypeOK, ControlInv, Length, Ended
<1>3. PICK l \in 0..(level - 1) :
        LET s == Arrived(chain, l, Given(chain, l))
        IN  /\ Feeder(chain, l, level)
            /\ Collected(chain, in, s, level)
            /\ Delivered(mode, chain, output, out_nodes, arrivals, s)
  BY <1>1 DEF CheckpointInv
<1> DEFINE N == Len(chain)
           s == Arrived(chain, l, Given(chain, l))
           b == BatchesInto(chain)[N]
<1>4. l \in 0..N
  BY <1>2
<1>5. CASE l = N
  <2>1. Kind(N) = "collection"
    BY <1>2, <1>3, <1>5 DEF Feeder, Kind
  <2>2. mode # "store" /\ Kind(Length) # "node"
    BY <1>1, <1>2, <2>1 DEF ControlInv
  <2>3. mode' # "store" /\ Kind(Length)' # "node"
    BY <1>1, <2>2 DEF Kind, Length
  <2>. QED
    BY <2>3 DEF FinishingInv, OnceInv
<1>6. CASE l # N
  <2>1. s[N] = b
    <3>1. N \in (l + 1)..N /\ \A j \in (l + 1)..(N - 1) : j \in (l + 1)..(level - 1)
      BY <1>2, <1>4, <1>6
    <3>2. \A j \in (l + 1)..(N - 1) : chain[j].kind # "collection"
      BY <1>3, <3>1 DEF Feeder
    <3>. QED
      BY <1>2, <1>4, <3>1, <3>2, ArrivedAll
  <2>2. /\ mode = "store" => output = FlattenSeq(b)
        /\ Kind(N) = "node" =>
             out_nodes[N] = IF b = <<>> THEN <<>> ELSE Processed(chain[N], Last(b))
        /\ Kind(N) = "node" /\ arrivals < 2 => Len(b) <= arrivals
    BY <1>3, <2>1 DEF Delivered, Kind
  <2>3. Last(chain) = chain[N]
    BY DEF Last
  <2>4. mode = "store" => Meaning(mode, chain) = FlattenSeq(b)
    BY DEF Meaning
  <2>5. mode = "nodes" /\ Kind(N) = "node" =>
          Meaning(mode, chain) = IF b = <<>> THEN <<>>
                                 ELSE Processed(chain[N], Last(b))
    BY <1>2, <2>3 DEF Meaning, Kind
  <2> HIDE DEF b, s
  <2>6. /\ mode = "store" => output = Meaning(mode, chain)
        /\ mode = "nodes" /\ Kind(Length) = "node" =>
             out_nodes[Length] = Meaning(mode, chain)
    BY <1>2, <2>2, <2>4, <2>5
  <2>7. OnceInv'
    BY <1>1, <1>2, <2>2 DEF OnceInv, Length, Kind, b
  <2>. QED
    BY <1>1, <2>6, <2>7 DEF FinishingInv, Length, Kind
<1>. QED
  BY <1>5, <1>6

\* Nothing has arrived, and nothing is there.
LEMMA InitData == Init => DataInv
<1> SUFFICES ASSUME Init PROVE DataInv
  OBVIOUS
<1>1. PICK m \in Modes, c \in Graphs :
        /\ mode = m
        /\ chain = IF m = "store" THEN Append(c, Writer) ELSE c
        /\ pc = FirstPosition(m, c)
        /\ cursor = 0 /\ level = 0
        /\ in = [k \in 1..Len(chain) |-> <<>>]
        /\ out_nodes = [k \in 1..Len(chain) |-> <<>>]
        /\ output = <<>> /\ arrivals = 0
  BY DEF Init
<1>2. pc \in {"finishing", "refused", "reading"}
  BY <1>1 DEF FirstPosition
<1>3. TypeOK /\ ControlInv
  BY InitTyped
<1>4. /\ Length \in Nat /\ Length = Len(chain) /\ chain \in Chain
  BY <1>3, ChainBasics DEF ControlInv, Length
<1>5. StreamInv /\ TraversingInv /\ ReturningInv /\ CheckpointInv /\ ComputesMeaning
  BY <1>2 DEF StreamInv, TraversingInv, ReturningInv, CheckpointInv,
              ComputesMeaning, Feeding
<1>6. WaitingInv
  <2> SUFFICES ASSUME pc = "reading" PROVE WaitingInv
    BY <1>2 DEF WaitingInv
  <2> DEFINE s == After(chain, 0, 0)
  <2>1. Fed = 0 /\ level = 0 /\ 0 \in 0..Len(chain) /\ Length > 0
    BY <1>1, <1>3, <1>4 DEF Fed, ControlInv, Ended
  <2>2. \A k \in (0 + 1)..Len(chain) : s[k] = <<>>
    BY <1>4, <2>1, AfterNone
  <2>3. \A k \in 1..Len(chain) : s[k] = <<>> /\ in[k] = <<>> /\ out_nodes[k] = <<>>
    BY <1>1, <2>2
  <2> HIDE DEF s
  <2>4. Collected(chain, in, s, 0 + 1)
    BY <2>3, FlattenEmpty DEF Collected
  <2>5. Delivered(mode, chain, output, out_nodes, arrivals, s)
    <3>1. Len(chain) \in 1..Len(chain)
      BY <1>4, <2>1
    <3>2. Len(<<>>) <= 0
      OBVIOUS
    <3>. QED
      BY <1>1, <2>3, <3>1, <3>2, FlattenEmpty DEF Delivered
  <2>. QED
    BY <2>1, <2>4, <2>5 DEF WaitingInv, s
<1>7. FinishingInv
  <2> SUFFICES ASSUME pc = "finishing", Length > 0 PROVE FinishingInv
    BY DEF FinishingInv
  <2>1. m = "nodes" /\ (c = <<>> \/ c[1].kind = "node") /\ chain = c
    BY <1>1 DEF FirstPosition
  <2>2. c[1].kind = "node"
    BY <1>4, <2>1
  <2>3. Meaning(mode, chain) = <<>>
    BY <1>1, <2>1, <2>2 DEF Meaning
  <2>4. out_nodes[Length] = <<>>
    <3>1. Length \in 1..Len(chain)
      BY <1>4
    <3>. QED
      BY <1>1, <3>1
  <2>. QED
    BY <1>1, <2>1, <2>3, <2>4 DEF FinishingInv
<1>8. OnceInv
  <2> SUFFICES ASSUME pc = "finishing", Length > 0 PROVE Kind(1) = "node"
    BY <1>2 DEF OnceInv
  <2>1. (c = <<>> \/ c[1].kind = "node") /\ chain = c
    BY <1>1 DEF FirstPosition
  <2>. QED
    BY <1>4, <2>1 DEF Kind
<1>. QED
  BY <1>5, <1>6, <1>7, <1>8 DEF DataInv

\* What is done is what is meant.
LEMMA FinishData ==
  ASSUME TypeOK, ControlInv, InputInv, FinishingInv, OnceInv, Finish
  PROVE  ComputesMeaning' /\ OnceInv'
<1>1. /\ pc = "finishing" /\ UNCHANGED <<mode, chain, out_nodes, arrivals>>
      /\ chain \in Chain /\ Length \in Nat /\ Length = Len(chain)
      /\ mode \in {"nodes", "store"}
  BY ChainBasics, FeaturesAssumption DEF Finish, ControlInv, TypeOK, Length
<1>5. OnceInv'
  BY <1>1 DEF OnceInv, Length, Kind
<1>2. CASE mode = "store"
  <2>1. Length > 0 /\ output' = output /\ pc' = "done"
    BY <1>2 DEF Finish, ControlInv
  <2>. QED
    BY <1>5, <1>1, <1>2, <2>1 DEF FinishingInv, ComputesMeaning
<1>3. CASE mode = "nodes" /\ OutputState = 0
  <2>1. pc' = "crashed"
    BY <1>3 DEF Finish
  <2>. QED
    BY <1>5, <2>1 DEF ComputesMeaning
<1>4. CASE mode = "nodes" /\ OutputState # 0
  <2>1. /\ OutputState \in 1..Length /\ Kind(OutputState) = "node"
        /\ Kind(Length) = "node" => Length <= OutputState
    <3>1. OutputState \in 1..Length
      BY <1>1, <1>4, OutputStateDef
    <3>2. Length \in 1..Length
      BY <1>1, <3>1
    <3>. QED
      BY <1>1, <1>4, <3>1, <3>2, OutputStateDef
  <2>2. output' = out_nodes[OutputState]
    BY <1>4 DEF Finish
  <2>3. CASE OutputState = Length
    BY <1>5, <1>1, <1>4, <2>1, <2>2, <2>3 DEF FinishingInv, ComputesMeaning
  <2>4. CASE OutputState # Length
    <3>1. OutputState \in 1..(Length - 1)
      BY <1>1, <2>1, <2>4
    <3>2. output' = <<>>
      BY <2>2, <3>1 DEF InputInv, NodesInv
    <3>3. Kind(Length) # "node"
      BY <1>1, <2>1, <3>1
    <3>4. Last(chain).kind # "node"
      BY <1>1, <3>3 DEF Last, Kind
    <3>5. Meaning(mode, chain) = <<>>
      BY <1>4, <3>4 DEF Meaning
    <3>. QED
      BY <1>5, <1>1, <3>2, <3>5 DEF ComputesMeaning
  <2>. QED
    BY <2>3, <2>4
<1>. QED
  BY <1>5, <1>1, <1>2, <1>3, <1>4

\* The state that is traversed makes something of its input.
LEMMA TraverseData ==
  ASSUME TypeOK, ControlInv, InputInv, StreamInv, TraversingInv,
         TraverseFilter \/ TraverseNodes
  PROVE  StreamInv' /\ TraversingInv' /\ ReturningInv'
<1> DEFINE s == After(chain, level, Fed - 1)
           t == After(chain, level, Fed)
           N == Len(chain)
           made == Processed(chain[at], in[at])
           out == IF Kind(at) = "node" /\ in[at] = <<>> THEN out_nodes[at] ELSE made
<1>1. /\ pc = "traversing" /\ Kind(at) \in {"feature", "fragment", "node"}
      /\ PassOn(out)
      /\ output' = IF Kind(at) # "node" /\ mode = "store" /\ at = Length
                   THEN output \o made ELSE output
      /\ Kind(at) # "node" => out_nodes' = out_nodes
      /\ Kind(at) = "node" =>
           out_nodes' = [out_nodes EXCEPT ![at] =
                           IF at < Length THEN <<>> ELSE out]
      /\ arrivals' = IF Kind(at) = "node" /\ at = OutputState
                     THEN Min({arrivals + 1, 2}) ELSE arrivals
      /\ UNCHANGED <<mode, chain, cursor, level, start, batches>>
  <2>1. CASE TraverseFilter
    BY <2>1 DEF TraverseFilter
  <2>2. CASE TraverseNodes
    BY <2>2 DEF TraverseNodes
  <2>. QED
    BY <2>1, <2>2
<1>2. /\ level \in Nat /\ N \in Nat \ {0} /\ at \in (level + 1)..N
      /\ at \in 1..Length /\ Length = N
      /\ \A k \in 0..N : s[k] \in Seq(Batch) /\ t[k] \in Seq(Batch)
  BY <1>1, InFlight
<1>3. made \in Batch /\ in[at] \in Batch /\ out_nodes[at] \in Batch
  BY <1>1, <1>2, MadeTyped DEF TypeOK, Batch
<1>4. IsFilter(chain[at])
  BY <1>2, ChainBasics DEF ControlInv
<1>5. at < Length => out = made
  <2>1. CASE Kind(at) = "node" /\ in[at] = <<>>
    <3>1. at < Length => out_nodes[at] = <<>>
      BY <1>2 DEF InputInv, NodesInv
    <3>2. made = <<>>
      BY <1>4, <2>1, ProcessedEmpty DEF Kind
    <3>. QED
      BY <2>1, <3>1, <3>2
  <2>2. CASE ~(Kind(at) = "node" /\ in[at] = <<>>)
    BY <2>2
  <2>. QED
    BY <2>1, <2>2
<1>6. out \in Batch
  BY <1>3
<1>7. Fed' = Fed
  BY <1>1 DEF Fed
<1> HIDE DEF out
<1>8. /\ t[at] = Plus(s[at], in[at])
      /\ pc' = "traversing" =>
           /\ at < Length
           /\ Collected(chain, in', s, at' + 1)
           /\ IF Kind(at)' = "collection" THEN in'[at'] = FlattenSeq(t[at'])
              ELSE t[at'] = Plus(s[at'], in'[at'])
      /\ pc' = "returning" =>
           /\ Collected(chain, in', t, level + 1)
           /\ at < Length => t[Length] = s[Length]
  BY <1>1, <1>5, <1>6, <1>7, PassOnData
<1>9. pc' \in {"traversing", "returning"}
  BY <1>1 DEF PassOn
<1>10. Delivered(mode, chain, output, out_nodes, arrivals, s) /\ Fed >= 1
  BY <1>1 DEF TraversingInv
<1> HIDE DEF s, t, made, N
<1> DEFINE a == arrivals
           once == Min({a + 1, 2})
<1>17. /\ a \in 0..2 /\ once = IF a = 0 THEN 1 ELSE 2
       /\ Kind(Length) = "node" => OutputState = Length
  <2>1. a \in 0..2
    BY DEF TypeOK
  <2>2. once = IF a = 0 THEN 1 ELSE 2
    <3> DEFINE w == IF a = 0 THEN 1 ELSE 2
    <3>1. w \in {a + 1, 2} /\ \A y \in {a + 1, 2} : w <= y
      BY <2>1
    <3>2. \A y \in {a + 1, 2} : (\A z \in {a + 1, 2} : y <= z) => y = w
      BY <2>1
    <3> HIDE DEF w
    <3>3. once = w
      BY <3>1, <3>2 DEF Min
    <3>. QED
      BY <3>3 DEF w
  <2>3. ASSUME Kind(Length) = "node" PROVE OutputState = Length
    <3>1. Length \in 1..Length /\ Length \in Nat
      BY <1>2
    <3>2. Length <= OutputState /\ OutputState \in 0..Length
      BY <2>3, <3>1, OutputStateDef DEF ControlInv
    <3>. QED
      BY <3>1, <3>2
  <2>. QED
    BY <2>1, <2>2, <2>3
<1> HIDE DEF a, once
<1>11. ASSUME at < Length
       PROVE  Delivered(mode, chain, output', out_nodes', arrivals', s)
  <2>1. output' = output
    BY <1>1, <1>2, <1>11
  <2>2. out_nodes'[N] = out_nodes[N]
    <3>1. DOMAIN out_nodes = 1..Length
      BY DEF TypeOK
    <3>2. N \in 1..Length /\ N # at
      BY <1>2, <1>11
    <3>3. CASE Kind(at) = "node"
      BY <1>1, <3>1, <3>2, <3>3
    <3>4. CASE Kind(at) # "node"
      BY <1>1, <3>4
    <3>. QED
      BY <3>3, <3>4
  <2>3. chain[N].kind = "node" => arrivals' = arrivals
    <3>1. at # Length
      BY <1>2, <1>11
    <3>. QED
      BY <1>1, <1>2, <1>17, <3>1 DEF Kind
  <2>. QED
    BY <1>10, <2>1, <2>2, <2>3 DEF Delivered, N
<1>12. ASSUME ~(at < Length)
       PROVE  Delivered(mode, chain, output', out_nodes', arrivals', t)
  <2>1. at = N /\ s[N] \in Seq(Batch) /\ at = Length
    BY <1>2, <1>12
  <2>2. ASSUME mode = "store"
        PROVE  output' = FlattenSeq(t[N])
    <3>1. chain[N] = Writer /\ Kind(at) # "node"
      BY <1>1, <1>2, <2>1, <2>2 DEF ControlInv
    <3>2. in[at] \in Seq(ItemsOf("feature"))
      <4>1. in[at] \in Seq(TakenBy("feature"))
        BY <1>2, <2>1, <3>1 DEF InputInv, TakenInv, Kind, Writer
      <4>2. TakenBy("feature") = ItemsOf("feature")
        BY DEF TakenBy, ItemsOf, Accepts
      <4>. QED
        BY <4>1, <4>2
    <3>3. made = in[at]
      BY <2>1, <3>1, <3>2, WriterPasses DEF made
    <3>4. output = FlattenSeq(s[N])
      BY <1>10, <2>2 DEF Delivered, N
    <3>5. FlattenSeq(t[N]) = FlattenSeq(s[N]) \o in[at]
      <4>1. t[N] = Plus(s[N], in[at])
        BY <1>8, <2>1
      <4>2. s[N] \in Seq(Batch) /\ in[at] \in Batch
        BY <1>3, <2>1
      <4>. QED
        BY ONLY <4>1, <4>2, FlattenPlus
    <3>. QED
      BY <1>1, <2>1, <2>2, <3>1, <3>3, <3>4, <3>5
  <2>3. ASSUME Kind(at) = "node"
        PROVE  out_nodes'[N] = IF t[N] = <<>> THEN <<>>
                               ELSE Processed(chain[N], Last(t[N]))
    <3>1. out_nodes'[N] = out
      <4>1. DOMAIN out_nodes = 1..Length
        BY DEF TypeOK
      <4>. QED
        BY <1>1, <1>2, <1>12, <2>1, <2>3, <4>1
    <3>2. CASE in[at] = <<>>
      <4>1. t[N] = s[N]
        BY <1>8, <2>1, <3>2 DEF Plus
      <4>2. out = out_nodes[N]
        BY <2>1, <2>3, <3>2 DEF out
      <4>3. out_nodes[N] = IF s[N] = <<>> THEN <<>>
                           ELSE Processed(chain[N], Last(s[N]))
        BY <1>10, <2>1, <2>3 DEF Delivered, Kind, N
      <4>. QED
        BY <3>1, <4>1, <4>2, <4>3
    <3>3. CASE in[at] # <<>>
      <4>1. t[N] = Append(s[N], in[at])
        BY <1>8, <2>1, <3>3 DEF Plus
      <4>2. Last(t[N]) = in[at] /\ t[N] # <<>>
        <5>1. s[N] \in Seq(Batch) /\ in[at] \in Batch
          BY <1>3, <2>1
        <5>2. /\ Last(Append(s[N], in[at])) = in[at]
              /\ Append(s[N], in[at]) # <<>>
          BY <5>1, LastOfAppend
        <5>. QED
          BY <4>1, <5>2
      <4>3. out = Processed(chain[N], in[at])
        BY <2>1, <3>3 DEF out, made
      <4>. QED
        BY <3>1, <4>2, <4>3
    <3>. QED
      BY <3>2, <3>3
  <2>4. ASSUME Kind(at) = "node", arrivals' < 2
        PROVE  Len(t[N]) <= arrivals'
    <3>1. arrivals' = once
      BY <1>1, <1>17, <2>1, <2>4 DEF a, once
    <3>2. arrivals' = 1 /\ a = 0
      BY <1>17, <2>4, <3>1
    <3>3. Len(s[N]) <= 0
      BY <1>10, <2>1, <2>4, <3>2 DEF Delivered, Kind, N, a
    <3>4. t[N] = s[N] \/ t[N] = Append(s[N], in[at])
      BY <1>8, <2>1 DEF Plus
    <3>5. Len(Append(s[N], in[at])) = Len(s[N]) + 1 /\ Len(s[N]) \in Nat
      BY <1>3, <2>1
    <3> DEFINE u == Len(s[N])
               v == Len(t[N])
    <3>6. u \in Nat /\ u <= 0 /\ (v = u \/ v = u + 1)
      BY <3>3, <3>4, <3>5
    <3> HIDE DEF u, v
    <3>7. v <= 1
      BY <3>6
    <3>. QED
      BY <3>2, <3>7 DEF v
  <2>. QED
    BY <2>1, <2>2, <2>3, <2>4 DEF Delivered, N, Kind
<1>13. StreamInv'
  <2>1. pc \in Feeding
    BY <1>1 DEF Feeding
  <2>. QED
    BY <1>1, <1>7, <2>1 DEF StreamInv
<1>14. /\ After(chain, level, Fed - 1)' = s /\ After(chain, level, Fed)' = t
       /\ chain' = chain /\ mode' = mode /\ level' = level /\ Fed' = Fed
  BY <1>1, <1>7 DEF s, t
<1>15. TraversingInv'
  <2> SUFFICES ASSUME pc' = "traversing" PROVE TraversingInv'
    BY DEF TraversingInv
  <2>. QED
    BY <1>8, <1>10, <1>11, <1>14 DEF TraversingInv
<1>16. ReturningInv'
  <2> SUFFICES ASSUME pc' = "returning" PROVE ReturningInv'
    BY DEF ReturningInv
  <2>1. Delivered(mode, chain, output', out_nodes', arrivals', t)
    <3>1. CASE at < Length
      <4>1. t[N] = s[N]
        BY <1>2, <1>8, <3>1
      <4>. QED
        BY <1>11, <3>1, <4>1 DEF Delivered, N
    <3>2. CASE ~(at < Length)
      BY <1>12, <3>2
    <3>. QED
      BY <3>1, <3>2
  <2>. QED
    BY <1>8, <1>14, <2>1 DEF ReturningInv
<1>. QED
  BY <1>13, <1>15, <1>16

\* Every step keeps what the states hold.
LEMMA NextData ==
  ASSUME TypeOK, ControlInv, InputInv, DataInv, [Next]_vars
  PROVE  DataInv'
<1>1. /\ StreamInv /\ WaitingInv /\ TraversingInv /\ ReturningInv
      /\ CheckpointInv /\ FinishingInv /\ OnceInv /\ ComputesMeaning
  BY DEF DataInv
<1>2. /\ Length \in Nat /\ Length = Len(chain) /\ chain \in Chain
      /\ level \in 0..(Length + 1) /\ batches \in Seq(Batch)
      /\ cursor \in 0..NumFeatures /\ NumFeatures \in Nat
  BY ChainBasics, FeaturesAssumption DEF TypeOK, ControlInv, Length, Batch
<1> DEFINE Elsewhere(p) ==
             /\ p \notin Feeding => StreamInv'
             /\ p \notin {"reading", "metering"} => WaitingInv'
             /\ p # "traversing" => TraversingInv'
             /\ p # "returning" => ReturningInv'
             /\ p \notin {"checkpoint", "unwinding"} => CheckpointInv'
             /\ p # "finishing" => FinishingInv'
             /\ p \notin {"finishing", "done"} => OnceInv'
             /\ p # "done" => ComputesMeaning'
<1>3. Elsewhere(pc')
  BY DEF StreamInv, WaitingInv, TraversingInv, ReturningInv, CheckpointInv,
         FinishingInv, OnceInv, ComputesMeaning
<1>4. CASE ReadFeature
  <2>1. /\ pc = "reading" /\ cursor < NumFeatures /\ pc' = "traversing"
        /\ Feed(1, <<Source(cursor + 1)>>) /\ cursor' = cursor + 1
        /\ UNCHANGED <<mode, chain, level, output, out_nodes, batches, arrivals>>
    BY <1>4 DEF ReadFeature, Feed
  <2>2. level = 0 /\ Fed = cursor /\ Fed' = Fed + 1
    BY <2>1 DEF ControlInv, Fed
  <2>3. cursor + 1 \in 1..NumFeatures
    BY <1>2, <2>1
  <2>4. /\ Given(chain, level)[Fed + 1] = <<Source(cursor + 1)>>
        /\ Len(Given(chain, level)) = NumFeatures /\ level + 1 = 1
    <3>1. Given(chain, level) = Singles
      BY <2>2 DEF Given
    <3>2. Singles[cursor + 1] = <<Source(cursor + 1)>>
      BY <2>3 DEF Singles
    <3>3. Len(Singles) = NumFeatures
      <4>1. Singles \in Seq(Batch) /\ DOMAIN Singles = 1..NumFeatures
        BY SinglesOneType DEF OneType, Singles
      <4>2. Singles \in [1..NumFeatures -> Batch]
        BY <4>1, LenProperties
      <4>. QED
        BY <1>2, <4>2, FunctionIsSeq
    <3>4. level + 1 = 1
      BY <2>2
    <3>5. Singles[Fed + 1] = <<Source(cursor + 1)>>
      BY <2>2, <3>2
    <3>. QED
      BY <3>1, <3>3, <3>4, <3>5
  <2>5. TraversingInv'
    BY <1>1, <2>1, <2>2, <2>4, FeedData
  <2>6. StreamInv'
    BY <2>1, <2>2 DEF StreamInv
  <2>. QED
    BY <1>3, <2>1, <2>5, <2>6 DEF DataInv, Feeding
<1>5. CASE EndOfCursor
  <2>1. /\ pc = "reading" /\ cursor = NumFeatures
        /\ pc' = "checkpoint" /\ level' = 1
        /\ UNCHANGED <<mode, chain, in, out_nodes, output, arrivals>>
    BY <1>5 DEF EndOfCursor
  <2>2. level = 0 /\ Fed = NumFeatures /\ Length > 0
    BY <2>1 DEF ControlInv, Fed, Ended
  <2>3. After(chain, 0, Fed) = Arrived(chain, 0, Given(chain, 0))
    <3>1. Len(Given(chain, 0)) = NumFeatures
      <4>1. Singles \in Seq(Batch) /\ DOMAIN Singles = 1..NumFeatures
        BY SinglesOneType DEF OneType, Singles
      <4>2. Singles \in [1..NumFeatures -> Batch]
        BY <4>1, LenProperties
      <4>. QED
        BY <1>2, <4>2, FunctionIsSeq DEF Given
    <3>2. 0 \in 0..Len(chain)
      BY <1>2
    <3>. QED
      BY <1>2, <2>2, <3>1, <3>2, AfterAll
  <2>4. CheckpointInv'
    <3> DEFINE s == Arrived(chain, 0, Given(chain, 0))
    <3>1. /\ Collected(chain, in, s, 1)
          /\ Delivered(mode, chain, output, out_nodes, arrivals, s)
      BY <1>1, <2>1, <2>2, <2>3 DEF WaitingInv
    <3>2. Feeder(chain, 0, 1) /\ 0 \in 0..(1 - 1)
      BY DEF Feeder
    <3>. QED
      BY <2>1, <3>1, <3>2 DEF CheckpointInv
  <2>. QED
    BY <1>3, <2>1, <2>4 DEF DataInv, Feeding
<1>6. CASE TraverseFilter \/ TraverseNodes
  <2>1. StreamInv' /\ TraversingInv' /\ ReturningInv'
    BY <1>1, <1>6, TraverseData
  <2>2. pc' \in {"traversing", "returning"}
    BY <1>6 DEF TraverseFilter, TraverseNodes, PassOn
  <2>. QED
    BY <1>3, <2>1, <2>2 DEF DataInv, Feeding
<1>7. CASE TraverseCollection
  <2>1. /\ pc = "traversing" /\ Kind(at) = "collection" /\ pc' = "returning"
        /\ UNCHANGED <<mode, chain, cursor, level, start, at, in, out_nodes,
                       batches, output, arrivals>>
    BY <1>7 DEF TraverseCollection
  <2>2. Fed' = Fed
    BY <2>1 DEF Fed
  <2>3. ReturningInv'
    <3>1. /\ Collected(chain, in, After(chain, level, Fed), level + 1)
          /\ Delivered(mode, chain, output, out_nodes, arrivals, After(chain, level, Fed))
      BY <1>1, <2>1, HeldUp
    <3>. QED
      BY <2>1, <2>2, <3>1 DEF ReturningInv
  <2>4. StreamInv'
    BY <1>1, <2>1, <2>2 DEF StreamInv, Feeding
  <2>. QED
    BY <1>3, <2>1, <2>3, <2>4 DEF DataInv, Feeding
<1>8. CASE Return
  <2>1. /\ pc = "returning" /\ in' = Cleared
        /\ pc' = IF level = 0 THEN "reading" ELSE "metering"
        /\ UNCHANGED <<mode, chain, cursor, level, out_nodes, batches, output, arrivals>>
    BY <1>8 DEF Return
  <2>2. Fed' = Fed
    BY <2>1 DEF Fed
  <2>3. StreamInv'
    BY <1>1, <2>1, <2>2 DEF StreamInv, Feeding
  <2>4. WaitingInv'
    <3> DEFINE t == After(chain, level, Fed)
    <3>1. /\ Collected(chain, in, t, level + 1)
          /\ Delivered(mode, chain, output, out_nodes, arrivals, t)
      BY <1>1, <2>1 DEF ReturningInv
    <3> HIDE DEF t
    <3>2. Collected(chain, in', t, level + 1)
      <4>1. ASSUME NEW k \in (level + 1)..Len(chain), chain[k].kind = "collection"
            PROVE  in'[k] = FlattenSeq(t[k])
        <5>1. k \in 1..Length
          BY <1>2
        <5>2. in'[k] = in[k]
          BY <2>1, <4>1, <5>1 DEF Cleared, Kind
        <5>. QED
          BY <3>1, <4>1, <5>2 DEF Collected
      <4>. QED
        BY <4>1 DEF Collected
    <3>. QED
      BY <2>1, <2>2, <3>1, <3>2 DEF WaitingInv, t
  <2>5. pc' \in {"reading", "metering"}
    BY <2>1
  <2>. QED
    BY <1>3, <2>3, <2>4, <2>5 DEF DataInv
<1>9. CASE Checkpoint
  <2>1. StreamInv' /\ WaitingInv' /\ CheckpointInv'
    BY <1>1, <1>9, CheckpointData
  <2>2. pc' \in {"metering", "checkpoint", "unwinding"}
    BY <1>9 DEF Checkpoint
  <2>. QED
    BY <1>3, <2>1, <2>2 DEF DataInv
<1>10. CASE MeterBatch
  <2> DEFINE G == Given(chain, level)
  <2>1. /\ pc = "metering" /\ batches # <<>> /\ pc' = "traversing"
        /\ Feed(level + 1, Head(batches)) /\ batches' = Tail(batches)
        /\ UNCHANGED <<mode, chain, cursor, level, out_nodes, output, arrivals>>
    BY <1>10 DEF MeterBatch, Feed
  <2>2. level > 0 /\ level # 0
    BY <1>2, <2>1 DEF ControlInv
  <2>3. /\ Fed \in 0..Len(G) /\ batches = SubSeq(G, Fed + 1, Len(G))
        /\ Fed = Len(G) - Len(batches)
    BY <1>1, <2>1, <2>2 DEF StreamInv, Feeding, Fed
  <2>4. G \in Seq(Batch) /\ Len(G) \in Nat
    BY <1>1, <2>1, FedInGiven DEF Feeding
  <2>5. Len(batches) \in Nat \ {0}
    BY <1>2, <2>1
  <2> HIDE DEF G
  <2>6. Fed + 1 \in 1..Len(G) /\ Len(G) \in (Fed + 1)..Len(G) /\ Fed < Len(G)
    BY <2>3, <2>4, <2>5
  <2>7. Head(batches) = G[Fed + 1] /\ Tail(batches) = SubSeq(G, (Fed + 1) + 1, Len(G))
    BY <2>3, <2>4, <2>6, HeadTailOfSubSeq
  <2>8. Fed' = Fed + 1
    <3>1. Len(Tail(batches)) = Len(batches) - 1
      BY <1>2, <2>1, HeadTailProperties
    <3>2. Fed' = Len(G) - Len(Tail(batches))
      BY <2>1, <2>2 DEF Fed, G
    <3> DEFINE a == Len(batches)
               b == Len(Tail(batches))
               n == Len(G)
               f == Fed
    <3>3. a \in Nat /\ b = a - 1 /\ n \in Nat /\ f = n - a /\ Fed' = n - b
      BY <2>3, <2>4, <2>5, <3>1, <3>2
    <3> HIDE DEF a, b, n, f
    <3>4. Fed' = f + 1
      BY <3>3
    <3>. QED
      BY <3>4 DEF f
  <2>9. TraversingInv'
    BY <1>1, <2>1, <2>6, <2>7, <2>8, FeedData DEF G
  <2>10. StreamInv'
    <3>1. Fed' \in 0..Len(G) /\ batches' = SubSeq(G, Fed' + 1, Len(G))
      BY <2>1, <2>4, <2>6, <2>7, <2>8
    <3>2. G' = G
      BY <2>1 DEF G
    <3>. QED
      BY <3>1, <3>2 DEF StreamInv, G
  <2>. QED
    BY <1>3, <2>1, <2>9, <2>10 DEF DataInv, Feeding
<1>11. CASE MeteringEnds
  <2> DEFINE G == Given(chain, level)
             s == Arrived(chain, level, Given(chain, level))
  <2>1. /\ pc = "metering" /\ batches = <<>> /\ pc' = "checkpoint"
        /\ level' = level + 1
        /\ UNCHANGED <<mode, chain, in, out_nodes, output, arrivals>>
    BY <1>11 DEF MeteringEnds
  <2>2. level > 0 /\ level # 0 /\ level < Length /\ Kind(level) = "collection"
    BY <1>2, <2>1 DEF ControlInv, Feeding
  <2>3. level \in 0..Len(chain) /\ level \in 0..(level' - 1)
    BY <1>2, <2>1, <2>2
  <2>4. Len(G) \in Nat
    BY <1>1, <2>1, FedInGiven DEF Feeding
  <2>5. Fed = Len(G)
    BY <2>1, <2>2, <2>4 DEF Fed
  <2>6. After(chain, level, Fed) = s
    BY <1>2, <2>3, <2>5, AfterAll
  <2>7. /\ Collected(chain, in, s, level + 1)
        /\ Delivered(mode, chain, output, out_nodes, arrivals, s)
    BY <1>1, <2>1, <2>6 DEF WaitingInv
  <2>8. Feeder(chain, level, level + 1)
    BY <1>2, <2>2 DEF Feeder, Kind
  <2>9. CheckpointInv'
    BY <2>1, <2>3, <2>7, <2>8 DEF CheckpointInv
  <2>. QED
    BY <1>3, <2>1, <2>9 DEF DataInv, Feeding
<1>12. CASE Unwind
  <2>1. FinishingInv' /\ OnceInv' /\ pc' = "finishing"
    BY <1>1, <1>12, UnwindData DEF Unwind
  <2>. QED
    BY <1>3, <2>1 DEF DataInv, Feeding
<1>13. CASE Finish
  <2>1. ComputesMeaning' /\ OnceInv' /\ pc' \in {"done", "crashed"}
    BY <1>1, <1>13, FinishData DEF Finish
  <2>. QED
    BY <1>3, <2>1 DEF DataInv, Feeding
<1>14. CASE UNCHANGED vars
  <2>1. /\ UNCHANGED <<mode, chain, pc, cursor, level, start, at, in, out_nodes,
                       batches, output, arrivals>>
    BY <1>14 DEF vars
  <2>2. Fed' = Fed
    BY <2>1 DEF Fed
  <2>3. StreamInv' /\ WaitingInv' /\ TraversingInv' /\ ReturningInv'
    BY <1>1, <2>1, <2>2 DEF StreamInv, WaitingInv, TraversingInv, ReturningInv, Kind
  <2>4. CheckpointInv' /\ FinishingInv' /\ OnceInv' /\ ComputesMeaning'
    BY <1>1, <2>1
       DEF CheckpointInv, FinishingInv, OnceInv, ComputesMeaning, Length, Kind
  <2>. QED
    BY <2>3, <2>4 DEF DataInv
<1>. QED
  BY <1>4, <1>5, <1>6, <1>7, <1>8, <1>9, <1>10, <1>11, <1>12, <1>13, <1>14
     DEF Next

-----------------------------------------------------------------------------
(***************************************************************************)
(* The source features that batches are made of.                           *)
(***************************************************************************)
LEMMA ContentEmpty == Content(<<>>) = <<>>
<1>1. [i \in DOMAIN <<>> |-> <<>>[i].of] = <<>>
  OBVIOUS
<1>. QED
  BY <1>1, FlattenEmpty DEF Content

\* One more element
LEMMA ContentAppend ==
  ASSUME NEW b \in Batch, NEW e \in Items
  PROVE  /\ Content(b) \in Seq(Features)
         /\ Content(Append(b, e)) = Content(b) \o e.of
<1> DEFINE V == Seq(Features)
           h == [x \in Items |-> x.of]
           g == Append(b, e)
           u == [i \in DOMAIN b |-> h[b[i]]]
<1>1. h \in [Items -> V] /\ \A x \in Items : h[x] = x.of
  BY DEF Items
<1>2. /\ b \in Seq(Items) /\ g \in Seq(Items)
      /\ \A i \in DOMAIN b : b[i] \in Items
      /\ \A i \in DOMAIN g : g[i] \in Items
  BY DEF Batch
<1> HIDE DEF h, V, g
<1>3. /\ u \in Seq(V)
      /\ [i \in DOMAIN g |-> h[g[i]]] = Append(u, h[e])
  BY <1>1, <1>2, ImageOfAppend DEF g
<1>4. [i \in DOMAIN b |-> b[i].of] = u
  BY <1>1, <1>2
<1>5. [i \in DOMAIN g |-> g[i].of] = [i \in DOMAIN g |-> h[g[i]]]
  BY <1>1, <1>2
<1> HIDE DEF u
<1>6. e.of \in V /\ h[e] = e.of
  BY <1>1 DEF V, Items
<1>7. Content(b) = FlattenSeq(u) /\ Content(g) = FlattenSeq(Append(u, e.of))
  BY <1>3, <1>4, <1>5, <1>6 DEF Content
<1>8. FlattenSeq(u) \in Seq(Features) /\ FlattenSeq(Append(u, e.of)) = FlattenSeq(u) \o e.of
  BY <1>3, <1>6, FlattenIsSeq, FlattenAppend DEF V
<1>. QED
  BY <1>7, <1>8 DEF g

LEMMA ContentTyped ==
  ASSUME NEW b \in Batch
  PROVE  Content(b) \in Seq(Features)
<1>1. [data |-> "feature", of |-> <<>>] \in Items
  BY DEF Items
<1>. QED
  BY <1>1, ContentAppend

\* A single element
LEMMA ContentOne ==
  ASSUME NEW e \in Items
  PROVE  Content(<<e>>) = e.of
<1>1. <<>> \in Batch /\ Append(<<>>, e) = <<e>> /\ e.of \in Seq(Features)
  BY DEF Batch, Items
<1>2. Content(Append(<<>>, e)) = Content(<<>>) \o e.of
  BY <1>1, ContentAppend
<1>. QED
  BY <1>1, <1>2, ContentEmpty

\* Two batches
LEMMA ContentConcat ==
  ASSUME NEW a \in Batch, NEW b \in Batch
  PROVE  a \o b \in Batch /\ Content(a \o b) = Content(a) \o Content(b)
<1> DEFINE P == {x \in Batch : Content(a \o x) = Content(a) \o Content(x)}
<1>1. <<>> \in P
  <2>1. <<>> \in Batch /\ a \o <<>> = a
    BY DEF Batch
  <2>2. Content(a) \o <<>> = Content(a)
    BY ContentTyped
  <2>. QED
    BY <2>1, <2>2, ContentEmpty
<1>2. ASSUME NEW x \in Seq(Items), NEW e \in Items, x \in P
      PROVE  Append(x, e) \in P
  <2>1. /\ Append(x, e) \in Batch /\ x \in Batch /\ a \o x \in Batch
        /\ a \o Append(x, e) = Append(a \o x, e)
    BY DEF Batch
  <2>2. Content(Append(a \o x, e)) = Content(a \o x) \o e.of
    BY <2>1, ContentAppend
  <2>3. Content(Append(x, e)) = Content(x) \o e.of
    BY <2>1, ContentAppend
  <2>4. /\ Content(a) \in Seq(Features) /\ Content(x) \in Seq(Features)
        /\ e.of \in Seq(Features)
    BY <2>1, ContentTyped DEF Items
  <2>5. (Content(a) \o Content(x)) \o e.of = Content(a) \o (Content(x) \o e.of)
    <3>1. \A u, v, w \in Seq(Features) : (u \o v) \o w = u \o (v \o w)
      BY ConcatAssociative
    <3>. QED
      BY <2>4, <3>1
  <2>6. Content(a \o x) = Content(a) \o Content(x)
    BY <1>2
  <2>. QED
    BY <2>1, <2>2, <2>3, <2>5, <2>6
<1>3. Seq(Items) \subseteq P
  <2> HIDE DEF P
  <2>. QED
    BY <1>1, <1>2, AppendUp
<1>4. b \in P /\ a \o b \in Batch
  BY <1>3 DEF Batch
<1>. QED
  BY <1>4

\* What is left of two sequences is left of each.
LEMMA OnlyConcat ==
  ASSUME NEW A, NEW s \in Seq(A), NEW t \in Seq(A), NEW S
  PROVE  Only(s \o t, S) = Only(s, S) \o Only(t, S)
<1> DEFINE P == {x \in Seq(A) : Only(s \o x, S) = Only(s, S) \o Only(x, S)}
<1>1. <<>> \in P
  <2>1. <<>> \in Seq(A) /\ s \o <<>> = s
    OBVIOUS
  <2>2. Only(s, S) \o <<>> = Only(s, S)
    BY OnlyIsSeq
  <2>. QED
    BY <2>1, <2>2, OnlyEmpty
<1>2. ASSUME NEW x \in Seq(A), NEW a \in A, x \in P
      PROVE  Append(x, a) \in P
  <2> DEFINE o == Only(s, S)
             p == Only(x, S)
  <2>1. /\ Append(x, a) \in Seq(A) /\ s \o x \in Seq(A)
        /\ s \o Append(x, a) = Append(s \o x, a)
    OBVIOUS
  <2>2. Only(Append(s \o x, a), S) = IF a \in S THEN Append(Only(s \o x, S), a)
                                                ELSE Only(s \o x, S)
    BY <2>1, OnlyAppend
  <2>3. Only(Append(x, a), S) = IF a \in S THEN Append(p, a) ELSE p
    BY <2>1, OnlyAppend
  <2>4. o \in Seq(A) /\ p \in Seq(A)
    BY OnlyIsSeq
  <2>5. Only(s \o x, S) = o \o p
    BY <1>2
  <2> HIDE DEF o, p
  <2>6. o \o Append(p, a) = Append(o \o p, a)
    BY <2>4
  <2>7. Only(s \o Append(x, a), S) = o \o Only(Append(x, a), S)
    BY <2>1, <2>2, <2>3, <2>5, <2>6
  <2>. QED
    BY <2>1, <2>7 DEF o
<1>3. Seq(A) \subseteq P
  <2> HIDE DEF P
  <2>. QED
    BY <1>1, <1>2, AppendUp
<1>. QED
  BY <1>3

\* It is no loss to leave out what is hollow.
LEMMA ContentOfOnly ==
  ASSUME NEW A, A \subseteq Items, NEW b \in Seq(A), NEW S,
         \A e \in A \ S : e.of = <<>>
  PROVE  Content(Only(b, S)) = Content(b)
<1> DEFINE P == {x \in Seq(A) : Content(Only(x, S)) = Content(x)}
<1>1. <<>> \in P
  <2>1. <<>> \in Seq(A)
    OBVIOUS
  <2>. QED
    BY <2>1, OnlyEmpty
<1>2. ASSUME NEW x \in Seq(A), NEW a \in A, x \in P
      PROVE  Append(x, a) \in P
  <2> DEFINE o == Only(x, S)
  <2>1. Append(x, a) \in Seq(A) /\ x \in Batch /\ o \in Batch /\ a \in Items
    <3>1. Seq(A) \subseteq Batch
      BY SeqMonotonic DEF Batch
    <3>. QED
      BY <3>1, OnlyIsSeq
  <2>2. Only(Append(x, a), S) = IF a \in S THEN Append(o, a) ELSE o
    BY OnlyAppend
  <2>3. Content(o) = Content(x)
    BY <1>2
  <2> HIDE DEF o
  <2>4. /\ Content(Append(x, a)) = Content(x) \o a.of
        /\ Content(Append(o, a)) = Content(o) \o a.of
        /\ Content(x) \in Seq(Features)
    BY <2>1, ContentAppend
  <2>5. Content(Only(Append(x, a), S)) = Content(Append(x, a))
    <3>1. CASE a \in S
      BY <2>2, <2>3, <2>4, <3>1
    <3>2. CASE a \notin S
      <4>1. a.of = <<>>
        BY <3>2
      <4>2. Content(x) \o <<>> = Content(x)
        BY <2>4
      <4>. QED
        BY <2>2, <2>3, <2>4, <3>2, <4>1, <4>2
    <3>. QED
      BY <3>1, <3>2
  <2>. QED
    BY <2>1, <2>5
<1>3. Seq(A) \subseteq P
  <2> HIDE DEF P
  <2>. QED
    BY <1>1, <1>2, AppendUp
<1>. QED
  BY <1>3

\* push() loses nothing of the types that it takes, but what is hollow.
LEMMA PushedWhole ==
  ASSUME NEW f, NEW d \in Accepts(f.kind), NEW b \in Seq(ItemsOf(d))
  PROVE  Content(Pushed(f, b)) = Content(b)
<1> DEFINE R == Range(b)
           S == {e \in R : /\ e.data \in Accepts(f.kind)
                           /\ e.data = "feature" => e.of # <<>>}
<1>1. b \in Seq(R) /\ R \subseteq ItemsOf(d)
  BY SeqOfRange, QueueRange
<1>2. R \subseteq Items
  BY <1>1 DEF ItemsOf
<1>3. \A e \in R \ S : e.of = <<>>
  BY <1>1 DEF ItemsOf
<1>4. Pushed(f, b) = Only(b, S)
  BY DEF Pushed
<1> HIDE DEF R, S
<1>. QED
  BY <1>1, <1>2, <1>3, <1>4, ContentOfOnly

\* process() leaves out what the filter drops, and no more: not when it merges
\* a batch, nor when it leaves out what is empty.
LEMMA ProcessedWhole ==
  ASSUME NEW f, IsFilter(f), f.kind # "collection", NEW b \in Batch
  PROVE  Content(Processed(f, b)) = Only(Content(b), Features \ f.drops)
<1> DEFINE K == Features \ f.drops
           T == ItemsOf(f.kind)
           h == [x \in Items |-> [data |-> f.kind, of |-> Only(x.of, K)]]
           Shed(x) == [i \in DOMAIN x |-> h[x[i]]]
           shed == Shed(b)
           S == {e \in Range(shed) : f.keeps_empty \/ e.of # <<>>}
           kept == Only(shed, S)
<1>1. f.kind \in {"feature", "fragment", "node"}
  BY DEF IsFilter, Kinds
<1>2. /\ h \in [Items -> T]
      /\ \A x \in Items : /\ x.of \in Seq(Features)
                          /\ h[x].of = Only(x.of, K)
                          /\ h[x] = [data |-> f.kind, of |-> Only(x.of, K)]
  <2>1. ASSUME NEW x \in Items
        PROVE  x.of \in Seq(Features) /\ [data |-> f.kind, of |-> Only(x.of, K)] \in T
    <3>1. x.of \in Seq(Features)
      BY DEF Items
    <3>2. Only(x.of, K) \in Seq(Features)
      BY <3>1, OnlyIsSeq
    <3>. QED
      BY <1>1, <3>1, <3>2 DEF Items, ItemsOf
  <2>. QED
    BY <2>1
<1>3. T \subseteq Items /\ Seq(T) \subseteq Batch
  BY ItemsOfAreItems
<1> HIDE DEF h, T
<1> DEFINE P == {x \in Batch : Shed(x) \in Seq(T) /\ Content(Shed(x)) = Only(Content(x), K)}
<1>4. <<>> \in P
  <2>1. <<>> \in Batch /\ <<>> \in Seq(T) /\ Shed(<<>>) = <<>>
    BY DEF Batch
  <2> HIDE DEF Shed
  <2>. QED
    BY <2>1, OnlyEmpty, ContentEmpty
<1>5. ASSUME NEW x \in Seq(Items), NEW e \in Items, x \in P
      PROVE  Append(x, e) \in P
  <2>1. x \in Batch /\ Append(x, e) \in Batch
    BY DEF Batch
  <2>2. Shed(x) \in Seq(T) /\ Shed(Append(x, e)) = Append(Shed(x), h[e])
    <3>1. h \in [Items -> T]
      BY <1>2
    <3>. QED
      BY <3>1, ImageOfAppend
  <2>3. Content(Shed(x)) = Only(Content(x), K)
    BY <1>5
  <2> HIDE DEF Shed
  <2>4. h[e] \in T /\ h[e] \in Items /\ Shed(x) \in Batch /\ h[e].of = Only(e.of, K)
    BY <1>2, <1>3, <2>2
  <2>5. Content(Append(Shed(x), h[e])) = Only(Content(x), K) \o Only(e.of, K)
    BY <2>3, <2>4, ContentAppend
  <2>6. Content(Append(x, e)) = Content(x) \o e.of
    BY <2>1, ContentAppend
  <2>7. Only(Content(x) \o e.of, K) = Only(Content(x), K) \o Only(e.of, K)
    <3>1. Content(x) \in Seq(Features) /\ e.of \in Seq(Features)
      BY <1>2, <2>1, ContentTyped
    <3> HIDE DEF K
    <3>. QED
      BY <3>1, OnlyConcat
  <2>8. Append(Shed(x), h[e]) \in Seq(T)
    BY <2>2, <2>4
  <2>. QED
    BY <2>1, <2>2, <2>5, <2>6, <2>7, <2>8
<1>6. Seq(Items) \subseteq P
  <2> HIDE DEF P
  <2>. QED
    BY <1>4, <1>5, AppendUp
<1>7. shed \in Seq(T) /\ Content(shed) = Only(Content(b), K)
  <2>1. b \in P
    BY <1>6 DEF Batch
  <2>. QED
    BY <2>1
<1>8. shed = [i \in DOMAIN b |-> [data |-> f.kind, of |-> Only(b[i].of, K)]]
  <2>1. \A i \in DOMAIN b : b[i] \in Items
    BY DEF Batch
  <2>2. \A i \in DOMAIN b :
          h[b[i]] = [data |-> f.kind, of |-> Only(b[i].of, K)]
    BY <1>2, <2>1
  <2> HIDE DEF K
  <2>. QED
    BY <2>2
<1> HIDE DEF shed
<1>9. Content(kept) = Content(shed) /\ kept \in Seq(T)
  <2> DEFINE R == Range(shed)
  <2>1. shed \in Seq(R) /\ R \subseteq T
    BY <1>7, SeqOfRange, QueueRange
  <2>2. R \subseteq Items /\ \A e \in R \ S : e.of = <<>>
    BY <1>3, <2>1
  <2> HIDE DEF R, S
  <2>. QED
    BY <1>7, <2>1, <2>2, ContentOfOnly, OnlyIsSeq
<1>10. Processed(f, b) = IF f.merges /\ kept # <<>>
                         THEN <<[data |-> f.kind, of |-> Content(kept)]>>
                         ELSE kept
  BY <1>8 DEF Processed
<1> HIDE DEF kept
<1>11. Content(<<[data |-> f.kind, of |-> Content(kept)]>>) = Content(kept)
  <2>1. Content(kept) \in Seq(Features)
    BY <1>3, <1>9, ContentTyped
  <2>2. [data |-> f.kind, of |-> Content(kept)] \in Items
    BY <1>1, <2>1 DEF Items
  <2>. QED
    BY <2>2, ContentOne
<1>. QED
  BY <1>7, <1>9, <1>10, <1>11

\* A single sequence
LEMMA FlattenOne ==
  ASSUME NEW A, NEW s \in Seq(A)
  PROVE  FlattenSeq(<<s>>) = s
<1>1. <<>> \in Seq(Seq(A)) /\ Append(<<>>, s) = <<s>> /\ <<>> \o s = s
  OBVIOUS
<1>2. FlattenSeq(Append(<<>>, s)) = FlattenSeq(<<>>) \o s
  BY <1>1, FlattenAppend
<1>. QED
  BY <1>1, <1>2, FlattenEmpty

\* Two sequences of sequences
LEMMA FlattenConcat ==
  ASSUME NEW A, NEW u \in Seq(Seq(A)), NEW v \in Seq(Seq(A))
  PROVE  FlattenSeq(u \o v) = FlattenSeq(u) \o FlattenSeq(v)
<1> DEFINE B == Seq(A)
           P == {x \in Seq(B) : FlattenSeq(u \o x) = FlattenSeq(u) \o FlattenSeq(x)}
<1>1. <<>> \in P
  <2>1. <<>> \in Seq(B) /\ u \o <<>> = u
    OBVIOUS
  <2>2. FlattenSeq(u) \o <<>> = FlattenSeq(u)
    BY FlattenIsSeq
  <2>. QED
    BY <2>1, <2>2, FlattenEmpty
<1>2. ASSUME NEW x \in Seq(B), NEW s \in B, x \in P
      PROVE  Append(x, s) \in P
  <2>1. /\ Append(x, s) \in Seq(B) /\ u \o x \in Seq(B)
        /\ u \o Append(x, s) = Append(u \o x, s)
    OBVIOUS
  <2>2. FlattenSeq(Append(u \o x, s)) = FlattenSeq(u \o x) \o s
    BY <2>1, FlattenAppend
  <2>3. FlattenSeq(Append(x, s)) = FlattenSeq(x) \o s
    BY FlattenAppend
  <2>4. FlattenSeq(u) \in Seq(A) /\ FlattenSeq(x) \in Seq(A) /\ s \in Seq(A)
    BY FlattenIsSeq
  <2>5. (FlattenSeq(u) \o FlattenSeq(x)) \o s = FlattenSeq(u) \o (FlattenSeq(x) \o s)
    BY <2>4, ConcatAssociative
  <2>6. FlattenSeq(u \o x) = FlattenSeq(u) \o FlattenSeq(x)
    BY <1>2
  <2>. QED
    BY <2>1, <2>2, <2>3, <2>5, <2>6
<1>3. Seq(B) \subseteq P
  <2> HIDE DEF P, B
  <2>. QED
    BY <1>1, <1>2, AppendUp
<1>. QED
  BY <1>3

\* Nothing but what is hollow is lost on the way to a state that takes the type.
LEMMA ArrivingWhole ==
  ASSUME NEW f, NEW d \in Accepts(f.kind), NEW given \in Seq(Seq(ItemsOf(d)))
  PROVE  Content(FlattenSeq(Arriving(f, given))) = Content(FlattenSeq(given))
<1> DEFINE A == ItemsOf(d)
           B == Seq(A)
           P == {x \in Seq(B) : Content(FlattenSeq(Arriving(f, x)))
                                  = Content(FlattenSeq(x))}
<1>0. \A x \in Seq(A) : x \in Batch
  BY ItemsOfAreItems
<1>1. <<>> \in P
  <2>1. <<>> \in Seq(B)
    OBVIOUS
  <2>. QED
    BY <2>1, ArrivingEmpty
<1>2. ASSUME NEW x \in Seq(B), NEW b \in B, x \in P
      PROVE  Append(x, b) \in P
  <2> DEFINE y == Arriving(f, x)
             p == Pushed(f, b)
  <2>1. Append(x, b) \in Seq(B) /\ y \in Seq(B) /\ p \in B
    <3>1. x \in Seq(Seq(A)) /\ b \in Seq(A) /\ Append(x, b) \in Seq(B)
      OBVIOUS
    <3> HIDE DEF A
    <3>2. Arriving(f, x) \in Seq(Seq(A)) /\ Pushed(f, b) \in Seq(A)
      BY <3>1, ArrivingDef, PushedTyped
    <3>. QED
      BY <3>1, <3>2
  <2>2. Arriving(f, Append(x, b)) = IF p = <<>> THEN y ELSE Append(y, p)
    BY ArrivingAppend
  <2>3. Content(p) = Content(b)
    BY PushedWhole
  <2>4. Content(FlattenSeq(y)) = Content(FlattenSeq(x))
    BY <1>2
  <2> HIDE DEF y, p
  <2>5. /\ FlattenSeq(Append(y, p)) = FlattenSeq(y) \o p
        /\ FlattenSeq(Append(x, b)) = FlattenSeq(x) \o b
        /\ FlattenSeq(y) \in Seq(A) /\ FlattenSeq(x) \in Seq(A)
    BY <2>1, FlattenAppend, FlattenIsSeq
  <2>6. /\ FlattenSeq(y) \in Batch /\ FlattenSeq(x) \in Batch
        /\ p \in Batch /\ b \in Batch
    BY <1>0, <2>1, <2>5
  <2>7. /\ Content(FlattenSeq(y) \o p) = Content(FlattenSeq(y)) \o Content(p)
        /\ Content(FlattenSeq(x) \o b) = Content(FlattenSeq(x)) \o Content(b)
    BY <2>6, ContentConcat
  <2>8. CASE p = <<>>
    <3>1. Content(b) = <<>>
      BY <2>3, <2>8, ContentEmpty
    <3>2. Content(FlattenSeq(x)) \o <<>> = Content(FlattenSeq(x))
      BY <2>6, ContentTyped
    <3>. QED
      BY <2>1, <2>2, <2>4, <2>5, <2>7, <2>8, <3>1, <3>2
  <2>9. CASE p # <<>>
    BY <2>1, <2>2, <2>3, <2>4, <2>5, <2>7, <2>9
  <2>. QED
    BY <2>8, <2>9
<1>3. Seq(B) \subseteq P
  <2> HIDE DEF P, B
  <2>. QED
    BY <1>1, <1>2, AppendUp
<1>. QED
  BY <1>3

\* A filter leaves out what it drops, whatever the batches.
LEMMA ResultsWhole ==
  ASSUME NEW f, IsFilter(f), f.kind # "collection", NEW arrived \in Seq(Batch)
  PROVE  Content(FlattenSeq(Results(f, arrived)))
           = Only(Content(FlattenSeq(arrived)), Features \ f.drops)
<1> DEFINE K == Features \ f.drops
           P == {x \in Seq(Batch) : Content(FlattenSeq(Results(f, x)))
                                      = Only(Content(FlattenSeq(x)), K)}
<1>1. <<>> \in P
  <2>1. <<>> \in Seq(Batch)
    OBVIOUS
  <2>. QED
    BY <2>1, ResultsEmpty, FlattenEmpty, ContentEmpty, OnlyEmpty
<1>2. ASSUME NEW x \in Seq(Batch), NEW b \in Batch, x \in P
      PROVE  Append(x, b) \in P
  <2> DEFINE y == Results(f, x)
             p == Processed(f, b)
  <2>1. /\ Append(x, b) \in Seq(Batch) /\ y \in Seq(Batch)
        /\ Results(f, Append(x, b)) = Append(y, p)
    BY ResultsAppend
  <2>2. p \in Batch /\ Content(p) = Only(Content(b), K)
    BY ProcessedTyped, ProcessedWhole, ItemsOfAreItems
  <2>3. Content(FlattenSeq(y)) = Only(Content(FlattenSeq(x)), K)
    BY <1>2
  <2> HIDE DEF y, p
  <2>4. Batch = Seq(Items)
    BY DEF Batch
  <2>5. /\ FlattenSeq(Append(y, p)) = FlattenSeq(y) \o p
        /\ FlattenSeq(Append(x, b)) = FlattenSeq(x) \o b
        /\ FlattenSeq(y) \in Batch /\ FlattenSeq(x) \in Batch
    BY <2>1, <2>2, <2>4, FlattenAppend, FlattenIsSeq
  <2>6. /\ Content(FlattenSeq(y) \o p) = Content(FlattenSeq(y)) \o Content(p)
        /\ Content(FlattenSeq(x) \o b) = Content(FlattenSeq(x)) \o Content(b)
    BY <2>2, <2>5, ContentConcat
  <2>7. Content(FlattenSeq(x)) \in Seq(Features) /\ Content(b) \in Seq(Features)
    BY <2>5, ContentTyped
  <2> HIDE DEF K
  <2>8. Only(Content(FlattenSeq(x)) \o Content(b), K)
          = Only(Content(FlattenSeq(x)), K) \o Only(Content(b), K)
    BY <2>7, OnlyConcat
  <2>. QED
    BY <2>1, <2>2, <2>3, <2>5, <2>6, <2>8
<1>3. Seq(Batch) \subseteq P
  <2> HIDE DEF P
  <2>. QED
    BY <1>1, <1>2, AppendUp
<1>. QED
  BY <1>3

-----------------------------------------------------------------------------
(***************************************************************************)
(* Features are there once, and stay so.                                   *)
(***************************************************************************)
\* One after the other
LEMMA InjectiveConcat ==
  ASSUME NEW A, NEW s \in Seq(A), NEW t \in Seq(A)
  PROVE  IsInjective(s \o t) <=> /\ IsInjective(s) /\ IsInjective(t)
                                 /\ Range(s) \cap Range(t) = {}
<1> DEFINE u == s \o t
           m == Len(s)
           n == Len(t)
<1>1. /\ m \in Nat /\ n \in Nat /\ Len(u) = m + n /\ DOMAIN s = 1..m
      /\ DOMAIN t = 1..n /\ DOMAIN u = 1..(m + n)
      /\ \A i \in 1..m : u[i] = s[i]
      /\ \A i \in 1..n : u[m + i] = t[i]
  BY ConcatProperties
<1> HIDE DEF u, m, n
<1>2. ASSUME IsInjective(u)
      PROVE  IsInjective(s) /\ IsInjective(t) /\ Range(s) \cap Range(t) = {}
  <2>1. \A i \in 1..m : i \in 1..(m + n)
    BY <1>1
  <2>2. \A i \in 1..n : m + i \in 1..(m + n)
    BY <1>1
  <2>3. IsInjective(s)
    BY <1>1, <1>2, <2>1 DEF IsInjective
  <2>4. IsInjective(t)
    <3>1. ASSUME NEW i \in 1..n, NEW j \in 1..n, t[i] = t[j] PROVE i = j
      <4>1. m + i = m + j
        BY <1>1, <1>2, <2>2, <3>1 DEF IsInjective
      <4>. QED
        BY <1>1, <4>1
    <3>. QED
      BY <1>1, <3>1 DEF IsInjective
  <2>5. ASSUME NEW i \in 1..m, NEW j \in 1..n PROVE s[i] # t[j]
    <3>1. i # m + j
      BY <1>1
    <3>. QED
      BY <1>1, <1>2, <2>1, <2>2, <3>1 DEF IsInjective
  <2>6. Range(s) \cap Range(t) = {}
    BY <1>1, <2>5 DEF Range
  <2>. QED
    BY <2>3, <2>4, <2>6
<1>3. ASSUME IsInjective(s), IsInjective(t), Range(s) \cap Range(t) = {}
      PROVE  IsInjective(u)
  <2>1. \A i \in 1..(m + n) : i \in 1..m \/ (i - m \in 1..n /\ m + (i - m) = i)
    BY <1>1
  <2>2. \A i \in 1..m, j \in 1..n : s[i] # t[j]
    BY <1>1, <1>3 DEF Range
  <2>3. ASSUME NEW i \in 1..(m + n), NEW j \in 1..(m + n), u[i] = u[j] PROVE i = j
    <3>1. CASE i \in 1..m /\ j \in 1..m
      BY <1>1, <1>3, <2>3, <3>1 DEF IsInjective
    <3>2. CASE i \in 1..m /\ j - m \in 1..n /\ m + (j - m) = j
      <4>1. u[j] = t[j - m]
        BY <1>1, <3>2
      <4>. QED
        BY <1>1, <2>2, <2>3, <3>2, <4>1
    <3>3. CASE j \in 1..m /\ i - m \in 1..n /\ m + (i - m) = i
      <4>1. u[i] = t[i - m]
        BY <1>1, <3>3
      <4>. QED
        BY <1>1, <2>2, <2>3, <3>3, <4>1
    <3>4. CASE /\ i - m \in 1..n /\ m + (i - m) = i
               /\ j - m \in 1..n /\ m + (j - m) = j
      <4>1. u[i] = t[i - m] /\ u[j] = t[j - m]
        BY <1>1, <3>4
      <4>2. i - m = j - m
        BY <1>1, <1>3, <2>3, <3>4, <4>1 DEF IsInjective
      <4>. QED
        BY <3>4, <4>2
    <3>. QED
      BY <2>1, <3>1, <3>2, <3>3, <3>4
  <2>. QED
    BY <1>1, <2>3 DEF IsInjective
<1>. QED
  BY <1>2, <1>3 DEF u

\* One more
LEMMA InjectiveAppend ==
  ASSUME NEW A, NEW s \in Seq(A), NEW a \in A
  PROVE  IsInjective(Append(s, a)) <=> IsInjective(s) /\ a \notin Range(s)
<1>1. /\ Append(s, a) = s \o <<a>> /\ <<a>> \in Seq(A)
      /\ Range(<<a>>) = {a} /\ IsInjective(<<a>>)
  BY AppendIsConcat DEF Range, IsInjective
<1>2. IsInjective(s \o <<a>>) <=> /\ IsInjective(s) /\ IsInjective(<<a>>)
                                  /\ Range(s) \cap Range(<<a>>) = {}
  BY <1>1, InjectiveConcat
<1>. QED
  BY <1>1, <1>2

\* What is left has no more duplicates than there were.
LEMMA OnlyInjective ==
  ASSUME NEW A, NEW s \in Seq(A), NEW S, IsInjective(s)
  PROVE  IsInjective(Only(s, S))
<1> DEFINE P == {x \in Seq(A) : IsInjective(x) => IsInjective(Only(x, S))}
<1>1. <<>> \in P
  <2>1. <<>> \in Seq(A)
    OBVIOUS
  <2>. QED
    BY <2>1, OnlyEmpty
<1>2. ASSUME NEW x \in Seq(A), NEW a \in A, x \in P PROVE Append(x, a) \in P
  <2> DEFINE o == Only(x, S)
  <2>1. Append(x, a) \in Seq(A) /\ o \in Seq(A) /\ Range(o) = Range(x) \cap S
    BY OnlyIsSeq, OnlyElements
  <2>2. Only(Append(x, a), S) = IF a \in S THEN Append(o, a) ELSE o
    BY OnlyAppend
  <2>3. IsInjective(Append(x, a)) <=> IsInjective(x) /\ a \notin Range(x)
    BY InjectiveAppend
  <2>4. IsInjective(x) => IsInjective(o)
    BY <1>2
  <2> HIDE DEF o
  <2>5. IsInjective(Append(o, a)) <=> IsInjective(o) /\ a \notin Range(o)
    BY <2>1, InjectiveAppend
  <2>6. IsInjective(Append(x, a)) => IsInjective(Only(Append(x, a), S))
    BY <2>1, <2>2, <2>3, <2>4, <2>5
  <2>. QED
    BY <2>1, <2>6
<1>3. Seq(A) \subseteq P
  <2> HIDE DEF P
  <2>. QED
    BY <1>1, <1>2, AppendUp
<1>. QED
  BY <1>3

\* Elements of two kinds, apart
LEMMA ContentSplit ==
  ASSUME NEW b \in Batch, NEW S, NEW T, S \cap T = {}
  PROVE  /\ Range(Content(Only(b, S \cup T)))
              = Range(Content(Only(b, S))) \cup Range(Content(Only(b, T)))
         /\ Range(Content(Only(b, S))) \subseteq Range(Content(b))
         /\ Range(Content(Only(b, T))) \subseteq Range(Content(b))
         /\ IsInjective(Content(b)) =>
              /\ IsInjective(Content(Only(b, S)))
              /\ IsInjective(Content(Only(b, T)))
              /\ Range(Content(Only(b, S))) \cap Range(Content(Only(b, T))) = {}
<1> DEFINE Apart(x, s, t, u) ==
             /\ Range(u) = Range(s) \cup Range(t)
             /\ Range(s) \subseteq Range(x)
             /\ Range(t) \subseteq Range(x)
             /\ IsInjective(x) => /\ IsInjective(s) /\ IsInjective(t)
                                  /\ Range(s) \cap Range(t) = {}
           P == {x \in Batch : Apart(Content(x), Content(Only(x, S)),
                                     Content(Only(x, T)), Content(Only(x, S \cup T)))}
<1>1. <<>> \in P
  <2>1. <<>> \in Batch
    BY DEF Batch
  <2>2. Apart(<<>>, <<>>, <<>>, <<>>)
    BY EmptyQueue
  <2> HIDE DEF Apart
  <2>. QED
    BY <2>1, <2>2, OnlyEmpty, ContentEmpty
<1>2. ASSUME NEW x \in Seq(Items), NEW e \in Items, x \in P
      PROVE  Append(x, e) \in P
  <2> DEFINE o(R) == Only(x, R)
  <2>1. x \in Batch /\ Append(x, e) \in Batch /\ e.of \in Seq(Features)
    BY DEF Batch, Items
  <2>2. ASSUME NEW R
        PROVE  /\ o(R) \in Batch
               /\ Content(Only(Append(x, e), R))
                    = IF e \in R THEN Content(o(R)) \o e.of ELSE Content(o(R))
    <3>1. Only(Append(x, e), R) = IF e \in R THEN Append(o(R), e) ELSE o(R)
      BY OnlyAppend
    <3>2. o(R) \in Batch
      BY OnlyIsSeq DEF Batch
    <3> HIDE DEF o
    <3>3. Content(Append(o(R), e)) = Content(o(R)) \o e.of
      BY <3>2, ContentAppend
    <3>. QED
      BY <3>1, <3>2, <3>3
  <2> DEFINE w == e.of
             y == Content(x)
             s == Content(o(S))
             t == Content(o(T))
             u == Content(o(S \cup T))
  <2>3. /\ y \in Seq(Features) /\ w \in Seq(Features)
        /\ s \in Seq(Features) /\ t \in Seq(Features) /\ u \in Seq(Features)
    <3>1. o(S) \in Batch /\ o(T) \in Batch /\ o(S \cup T) \in Batch
      BY <2>2
    <3> HIDE DEF o
    <3>. QED
      BY <2>1, <3>1, ContentTyped
  <2>4. Apart(y, s, t, u)
    BY <1>2
  <2>5. /\ Content(Append(x, e)) = y \o w
        /\ Content(Only(Append(x, e), S)) = IF e \in S THEN s \o w ELSE s
        /\ Content(Only(Append(x, e), T)) = IF e \in T THEN t \o w ELSE t
        /\ Content(Only(Append(x, e), S \cup T))
             = IF e \in S \cup T THEN u \o w ELSE u
    BY <2>1, <2>2, ContentAppend
  <2> HIDE DEF w, y, s, t, u
  <2>6. ASSUME NEW z \in Seq(Features)
        PROVE  /\ Range(z \o w) = Range(z) \cup Range(w)
               /\ IsInjective(z \o w) <=> /\ IsInjective(z) /\ IsInjective(w)
                                          /\ Range(z) \cap Range(w) = {}
    BY <2>3, RangeConcatenation, InjectiveConcat
  <2>7. CASE e \in S
    <3>1. e \notin T
      BY <2>7
    <3>2. Apart(y \o w, s \o w, t, u \o w)
      BY <2>3, <2>4, <2>6
    <3> HIDE DEF Apart
    <3>. QED
      BY <2>1, <2>5, <2>7, <3>1, <3>2
  <2>8. CASE e \in T
    <3>1. e \notin S
      BY <2>8
    <3>2. Apart(y \o w, s, t \o w, u \o w)
      BY <2>3, <2>4, <2>6
    <3> HIDE DEF Apart
    <3>. QED
      BY <2>1, <2>5, <2>8, <3>1, <3>2
  <2>9. CASE e \notin S /\ e \notin T
    <3>1. Apart(y \o w, s, t, u)
      BY <2>3, <2>4, <2>6
    <3> HIDE DEF Apart
    <3>. QED
      BY <2>1, <2>5, <2>9, <3>1
  <2>. QED
    BY <2>7, <2>8, <2>9
<1>3. Seq(Items) \subseteq P
  <2> HIDE DEF P
  <2>. QED
    BY <1>1, <1>2, AppendUp
<1>4. b \in P
  BY <1>3 DEF Batch
<1>. QED
  BY <1>4

\* meterData() makes chunks of all of its data.
LEMMA ChunksWhole ==
  ASSUME NEW B, NEW s \in Seq(B), NEW m \in Nat
  PROVE  /\ Chunks(s, m) \in Seq(Seq(B))
         /\ FlattenSeq(Chunks(s, m)) = s
<1> DEFINE C == Chunks(s, m)
           N == Len(s)
           n == (N + m - 1) \div m
           hi(i) == Min({i * m, N})
           lo(i) == 1 + (i - 1) * m
<1>1. N \in Nat /\ s \in Seq(B)
  OBVIOUS
<1>2. C \in Seq(Seq(B))
  <2>1. C \in Seq({b \in Seq(B) : m > 0 => Len(b) <= m})
    BY ChunksTyped
  <2>. QED
    BY <2>1, SeqMonotonic
<1>3. CASE m = 0
  <2>1. C = <<s>>
    BY <1>3 DEF Chunks
  <2> HIDE DEF C
  <2>. QED
    BY <1>2, <2>1, FlattenOne DEF C
<1>4. CASE m # 0
  <2> HIDE DEF N
  <2>1. N + m - 1 \in Nat /\ m \in Nat \ {0}
    BY <1>1, <1>4
  <2>2. /\ n \in Nat /\ n * m <= N + m - 1 /\ N <= n * m
    <3> DEFINE r == (N + m - 1) % m
               v == n * m
    <3>1. /\ N + m - 1 = v + r /\ n \in Nat /\ r \in 0..(m - 1)
      BY <2>1, FromRowAndColumn
    <3>2. v \in Int
      BY <2>1, <3>1
    <3> HIDE DEF n, r, v
    <3>3. v <= N + m - 1 /\ N <= v
      BY <1>1, <2>1, <3>1, <3>2
    <3>. QED
      BY <3>1, <3>3 DEF v
  <2>3. C = [i \in 1..n |-> SubSeq(s, lo(i), hi(i))]
    BY <1>4 DEF Chunks, N
  <2>4. Len(C) = n /\ \A i \in 1..n : C[i] = SubSeq(s, lo(i), hi(i))
    <3>1. DOMAIN C = 1..n /\ \A i \in 1..n : C[i] = SubSeq(s, lo(i), hi(i))
      BY <2>3
    <3> HIDE DEF C, n, lo, hi
    <3>. QED
      BY <1>2, <2>2, <3>1, LenProperties
  <2> HIDE DEF C, n
  <2>5. ASSUME NEW i \in 1..n
        PROVE  /\ (i - 1) * m \in 0..N /\ hi(i - 1) = (i - 1) * m
               /\ lo(i) = (i - 1) * m + 1
               /\ hi(i) \in ((i - 1) * m)..N
    <3>1. i \in Nat /\ i >= 1 /\ i <= n /\ i - 1 \in Nat
      BY <2>2
    <3>2. /\ (i - 1) * m \in Nat /\ i * m = (i - 1) * m + m
          /\ i * m <= n * m /\ n * m \in Nat
      BY <2>1, <2>2, <3>1, SMTT(30)
    <3> DEFINE u == (i - 1) * m
               v == i * m
               w == n * m
    <3> HIDE DEF u, v, w
    <3>3. u \in Nat /\ v = u + m /\ v <= w /\ w <= N + m - 1 /\ w \in Nat
      BY <2>2, <3>2 DEF u, v, w
    <3>4. u \in 0..N /\ u <= N /\ u <= v /\ v \in Nat
      BY <1>1, <2>1, <3>3
    <3>5. Min({u, N}) = u
      BY <1>1, <3>4, MinOfPair
    <3>6. Min({v, N}) \in u..N
      BY <1>1, <3>4, MinOfPair
    <3>7. lo(i) = u + 1
      BY <3>4 DEF u
    <3>. QED
      BY <3>4, <3>5, <3>6, <3>7 DEF u, v
  <2> DEFINE P == {k \in 0..n : FlattenSeq(SubSeq(C, 1, k)) = SubSeq(s, 1, hi(k))}
  <2>6. 0 \in P
    <3>1. hi(0) = 0
      BY <1>1, <2>1, MinOfPair
    <3>2. SubSeq(C, 1, 0) = <<>> /\ SubSeq(s, 1, 0) = <<>>
      BY <1>2
    <3>3. 0 \in 0..n
      BY <2>2
    <3> HIDE DEF hi
    <3>. QED
      BY <3>1, <3>2, <3>3, FlattenEmpty
  <2>7. ASSUME NEW k \in 1..n, k - 1 \in P PROVE k \in P
    <3> DEFINE p == SubSeq(C, 1, k - 1)
               h == hi(k - 1)
               j == hi(k)
    <3>1. SubSeq(C, 1, k) = Append(p, C[k]) /\ p \in Seq(Seq(B)) /\ C[k] \in Seq(B)
      BY <1>2, <2>2, <2>4
    <3>2. FlattenSeq(p) = SubSeq(s, 1, h)
      BY <2>7
    <3>3. /\ h \in 0..N /\ j \in h..N /\ C[k] = SubSeq(s, h + 1, j)
      BY <2>4, <2>5
    <3> HIDE DEF h, j, p, hi
    <3>4. FlattenSeq(SubSeq(C, 1, k)) = SubSeq(s, 1, h) \o SubSeq(s, h + 1, j)
      BY <3>1, <3>2, <3>3, FlattenAppend
    <3>5. SubSeq(s, 1, h) \o SubSeq(s, h + 1, j) = SubSeq(s, 1, j)
      <4>1. 1 \in 1..(N + 1) /\ h \in (1 - 1)..N
        BY <1>1, <3>3
      <4>. QED
        BY <1>1, <3>3, <4>1, ConcatAdjacentSubSeq DEF N
    <3>6. k \in 0..n
      BY <2>2
    <3>. QED
      BY <3>4, <3>5, <3>6 DEF j
  <2>8. 0..n \subseteq P
    <3> HIDE DEF P
    <3>. QED
      BY <2>2, <2>6, <2>7, CountUp
  <2>9. FlattenSeq(SubSeq(C, 1, n)) = SubSeq(s, 1, hi(n))
    <3>1. n \in 0..n
      BY <2>2
    <3>. QED
      BY <2>8, <3>1
  <2>10. hi(n) = N
    <3> DEFINE w == n * m
    <3>1. w \in Int /\ N <= w
      BY <2>1, <2>2
    <3> HIDE DEF w
    <3>2. Min({w, N}) = N
      BY <1>1, <3>1, MinOfPair
    <3>. QED
      BY <3>2 DEF w
  <2>11. SubSeq(C, 1, n) = C /\ SubSeq(s, 1, N) = s
    BY <1>1, <1>2, <2>4, SubSeqFull DEF N
  <2> HIDE DEF hi
  <2>12. FlattenSeq(C) = s
    BY <2>9, <2>10, <2>11
  <2>. QED
    BY <1>2, <2>12 DEF C
<1>. QED
  BY <1>3, <1>4

-----------------------------------------------------------------------------
(***************************************************************************)
(* Metering leaves nothing out, and gives nothing twice.                   *)
(***************************************************************************)
Batches == Seq(Batch)

\* All that h makes of a sequence, in one
Concat(h, s) == FlattenSeq([i \in DOMAIN s |-> h[s[i]]])

LEMMA ConcatOfAppend ==
  ASSUME NEW G, NEW h \in [G -> Batches], NEW s \in Seq(G), NEW a \in G
  PROVE  Concat(h, Append(s, a)) = Concat(h, s) \o h[a]
<1> DEFINE u == [i \in DOMAIN s |-> h[s[i]]]
           t == Append(s, a)
<1>1. /\ u \in Seq(Batches)
      /\ [i \in DOMAIN t |-> h[t[i]]] = Append(u, h[a])
  BY ImageOfAppend
<1>2. Concat(h, t) = FlattenSeq(Append(u, h[a])) /\ Concat(h, s) = FlattenSeq(u)
  BY <1>1 DEF Concat
<1> HIDE DEF u, t
<1>3. h[a] \in Batches
  OBVIOUS
<1>. QED
  BY <1>1, <1>2, <1>3, FlattenAppend DEF t, Batches

\* The groups come one by one, each once.
LEMMA GroupsOnce ==
  ASSUME NEW f, IsFilter(f), NEW A, A \subseteq Items, NEW items \in Seq(A)
  PROVE  /\ Groups(f, items) \in Seq(0..NumGroups)
         /\ IsInjective(Groups(f, items))
         /\ Range(Groups(f, items)) = {GroupName(f, e) : e \in Range(items)}
<1> DEFINE num == [n \in 1..(NumGroups + 1) |-> n - 1]
           names == {GroupName(f, e) : e \in Range(items)}
<1>1. NumGroups \in Nat /\ NumGroups + 1 \in Nat
  BY FeaturesAssumption
<1>2. num \in [1..(NumGroups + 1) -> 0..NumGroups]
  BY <1>1
<1>3. \A i \in 1..(NumGroups + 1) : num[i] = i - 1
  OBVIOUS
<1> HIDE DEF num
<1>4. /\ num \in Seq(0..NumGroups) /\ DOMAIN num = 1..(NumGroups + 1)
  BY <1>1, <1>2, FunctionIsSeq
<1>5. IsInjective(num)
  BY <1>1, <1>3, <1>4 DEF IsInjective
<1>6. Range(num) = 0..NumGroups
  <2>1. \A a \in 0..NumGroups : a + 1 \in 1..(NumGroups + 1) /\ num[a + 1] = a
    BY <1>1, <1>3
  <2>2. \A i \in 1..(NumGroups + 1) : num[i] \in 0..NumGroups
    BY <1>2
  <2>. QED
    BY <1>4, <2>1, <2>2 DEF Range
<1>7. names \subseteq 0..NumGroups
  <2>1. ASSUME NEW e \in Range(items) PROVE GroupName(f, e) \in 0..NumGroups
    <3>1. e.of \in Seq(Features)
      BY QueueRange DEF Items
    <3>2. CASE e.of # <<>>
      <4>1. e.of[1] \in Features
        BY <3>1, <3>2
      <4>2. GroupOf[e.of[1]] \in 1..NumGroups
        BY <4>1, FeaturesAssumption
      <4>. QED
        BY <1>1, <4>2 DEF GroupName
    <3>3. CASE e.of = <<>>
      BY <1>1, <3>3 DEF GroupName
    <3>. QED
      BY <3>2, <3>3
  <2>. QED
    BY <2>1
<1> HIDE DEF names
<1>8. Groups(f, items) = Only(num, names)
  BY DEF Groups, num, names
<1>9. /\ Only(num, names) \in Seq(0..NumGroups) /\ IsInjective(Only(num, names))
      /\ Range(Only(num, names)) = Range(num) \cap names
  BY <1>4, <1>5, OnlyIsSeq, OnlyInjective, OnlyElements
<1>10. Range(num) \cap names = names
  BY <1>6, <1>7
<1>. QED
  BY <1>8, <1>9, <1>10 DEF names

\* meterGroups() gives all of its data, each element once, and in its order if
\* there are no groups.
LEMMA MeteredWhole ==
  ASSUME NEW f, IsFilter(f), NEW A, A \subseteq Items, NEW items \in Seq(A),
         items # <<>>
  PROVE  /\ FlattenSeq(Metered(f, items)) \in Batch
         /\ Range(Content(FlattenSeq(Metered(f, items)))) = Range(Content(items))
         /\ IsInjective(Content(items)) =>
              IsInjective(Content(FlattenSeq(Metered(f, items))))
         /\ ~f.grouped => FlattenSeq(Metered(f, items)) = items
<1> DEFINE R == Range(items)
           G == 0..NumGroups
           Of(a) == {e \in R : GroupName(f, e) = a}
           U(g) == {e \in R : GroupName(f, e) \in Range(g)}
           h == [a \in G |-> Chunks(InGroup(f, items, a), f.metering)]
           M(g) == Concat(h, g)
           groups == Groups(f, items)
           x == Content(items)
<1>1. /\ items \in Seq(R) /\ items \in Batch /\ R \subseteq Items
      /\ f.metering \in Nat
  <2>1. items \in Seq(R) /\ R \subseteq A
    BY SeqOfRange, QueueRange
  <2>2. items \in Batch
    BY SeqMonotonic DEF Batch
  <2>. QED
    BY <2>1, <2>2 DEF IsFilter
<1>2. /\ groups \in Seq(G) /\ IsInjective(groups)
      /\ Range(groups) = {GroupName(f, e) : e \in R}
  BY GroupsOnce
<1>3. \A a : InGroup(f, items, a) = Only(items, Of(a))
  BY DEF InGroup
<1>4. ASSUME NEW a \in G
      PROVE  /\ Only(items, Of(a)) \in Batch
             /\ h[a] = Chunks(Only(items, Of(a)), f.metering)
             /\ h[a] \in Seq(Batch)
             /\ FlattenSeq(h[a]) = Only(items, Of(a))
  <2>1. Only(items, Of(a)) \in Batch
    BY <1>1, OnlyIsSeq DEF Batch
  <2>2. h[a] = Chunks(Only(items, Of(a)), f.metering)
    BY <1>3
  <2> DEFINE o == Only(items, Of(a))
             m == f.metering
  <2> HIDE DEF h, Of, o, m
  <2>3. o \in Seq(Items) /\ m \in Nat
    BY <1>1, <2>1 DEF Batch, o, m
  <2>4. Chunks(o, m) \in Seq(Seq(Items)) /\ FlattenSeq(Chunks(o, m)) = o
    BY <2>3, ChunksWhole
  <2>5. h[a] = Chunks(o, m)
    BY <2>2 DEF o, m
  <2>6. h[a] \in Seq(Batch) /\ FlattenSeq(h[a]) = o
    BY <2>4, <2>5 DEF Batch
  <2>. QED
    BY <2>1, <2>2, <2>6 DEF o
<1>5. Metered(f, items) = M(groups)
  <2>1. \A i \in DOMAIN groups : groups[i] \in G
    <3> HIDE DEF groups, G
    <3>. QED
      BY <1>2
  <2>2. \A i \in DOMAIN groups :
          h[groups[i]] = Chunks(InGroup(f, items, groups[i]), f.metering)
    BY <2>1
  <2> HIDE DEF h
  <2>. QED
    BY <2>2 DEF Metered, Concat
<1>6. h \in [G -> Batches]
  BY <1>4 DEF Batches
<1> HIDE DEF h, G, R, Of
<1>7. M(<<>>) = <<>>
  <2>1. [i \in DOMAIN <<>> |-> h[<<>>[i]]] = <<>>
    OBVIOUS
  <2>. QED
    BY <2>1, FlattenEmpty DEF Concat
<1>8. ASSUME NEW g \in Seq(G), NEW a \in G, M(g) \in Seq(Batch)
      PROVE  /\ M(Append(g, a)) \in Seq(Batch)
             /\ FlattenSeq(M(Append(g, a))) = FlattenSeq(M(g)) \o Only(items, Of(a))
  <2> DEFINE t == Append(g, a)
  <2>3. M(t) = M(g) \o h[a]
    BY <1>6, ConcatOfAppend
  <2> HIDE DEF M, t
  <2>4. M(g) \o h[a] \in Seq(Batch)
    BY <1>4, <1>8
  <2>5. FlattenSeq(M(g) \o h[a]) = FlattenSeq(M(g)) \o FlattenSeq(h[a])
    BY <1>4, <1>8, FlattenConcat DEF Batch
  <2>. QED
    BY <1>4, <2>3, <2>4, <2>5 DEF t
<1> HIDE DEF M
<1> DEFINE y(g) == Content(FlattenSeq(M(g)))
           Good(g) == /\ M(g) \in Seq(Batch)
                      /\ IsInjective(g) =>
                           /\ Range(y(g)) = Range(Content(Only(items, U(g))))
                           /\ IsInjective(x) => IsInjective(y(g))
           P == {g \in Seq(G) : Good(g)}
<1>9. \A g : M(g) \in Seq(Batch) => FlattenSeq(M(g)) \in Batch
  BY FlattenIsSeq DEF Batch
<1>10. <<>> \in P
  <2>1. <<>> \in Seq(G) /\ <<>> \in Seq(Batch)
    OBVIOUS
  <2>2. y(<<>>) = <<>>
    BY <1>7, FlattenEmpty, ContentEmpty
  <2>3. Content(Only(items, U(<<>>))) = <<>>
    <3>1. R \cap U(<<>>) = {}
      BY EmptyQueue
    <3> HIDE DEF U
    <3>2. Only(items, U(<<>>)) = <<>>
      BY <1>1, <3>1, OnlyNone
    <3>. QED
      BY <3>2, ContentEmpty
  <2>4. Good(<<>>)
    <3> HIDE DEF y, U
    <3>. QED
      BY <1>7, <2>1, <2>2, <2>3, EmptyQueue
  <2> HIDE DEF Good
  <2>. QED
    BY <2>1, <2>4
<1>11. ASSUME NEW g \in Seq(G), NEW a \in G, g \in P PROVE Append(g, a) \in P
  <2> DEFINE t == Append(g, a)
             o == Only(items, Of(a))
             w == Content(o)
             s == FlattenSeq(M(g))
  <2>1. Good(g) /\ M(g) \in Seq(Batch) /\ t \in Seq(G)
    BY <1>11
  <2>2. M(t) \in Seq(Batch) /\ FlattenSeq(M(t)) = s \o o
    BY <1>8, <2>1
  <2>3. o \in Batch /\ s \in Batch
    BY <1>4, <1>9, <2>1
  <2> HIDE DEF o, s
  <2>4. y(t) = Content(s) \o w
    BY <2>2, <2>3, ContentConcat
  <2>5. Content(s) \in Seq(Features) /\ w \in Seq(Features)
    BY <2>3, ContentTyped
  <2> DEFINE v == Content(s)
  <2>6. /\ Range(v \o w) = Range(v) \cup Range(w)
        /\ IsInjective(v \o w) <=> /\ IsInjective(v) /\ IsInjective(w)
                                   /\ Range(v) \cap Range(w) = {}
    <3> HIDE DEF v, w
    <3>. QED
      BY <2>5, RangeConcatenation, InjectiveConcat DEF v
  <2>7. ASSUME IsInjective(t)
        PROVE  /\ Range(y(t)) = Range(Content(Only(items, U(t))))
               /\ IsInjective(x) => IsInjective(y(t))
    <3>1. IsInjective(g) /\ a \notin Range(g) /\ Range(t) = Range(g) \cup {a}
      BY <2>7, InjectiveAppend, AppendToQueue
    <3>2. U(t) = U(g) \cup Of(a) /\ U(g) \cap Of(a) = {}
      BY <3>1 DEF Of
    <3>3. /\ Range(v) = Range(Content(Only(items, U(g))))
          /\ IsInjective(x) => IsInjective(v)
      BY <2>1, <3>1 DEF s
    <3> HIDE DEF U, t
    <3>4. /\ Range(Content(Only(items, U(g) \cup Of(a))))
               = Range(Content(Only(items, U(g)))) \cup Range(w)
          /\ IsInjective(x) =>
               /\ IsInjective(w)
               /\ Range(Content(Only(items, U(g)))) \cap Range(w) = {}
      BY <1>1, <3>2, ContentSplit DEF o
    <3> HIDE DEF x, v, w
    <3>. QED
      BY <2>4, <2>6, <3>2, <3>3, <3>4 DEF v
  <2>8. Good(t)
    BY <2>2, <2>7
  <2> HIDE DEF Good
  <2>. QED
    BY <2>1, <2>8
<1>12. groups \in P
  <2>1. Seq(G) \subseteq P
    <3> HIDE DEF P
    <3>. QED
      BY <1>10, <1>11, AppendUp
  <2>. QED
    BY <1>2, <2>1
<1>13. /\ M(groups) \in Seq(Batch)
       /\ Range(y(groups)) = Range(Content(Only(items, U(groups))))
       /\ IsInjective(x) => IsInjective(y(groups))
  BY <1>2, <1>12
<1>14. Only(items, U(groups)) = items
  <2>1. R \subseteq U(groups)
    BY <1>2
  <2> HIDE DEF U, groups
  <2>. QED
    BY <1>1, <2>1, OnlyAll
<1>15. ASSUME ~f.grouped PROVE FlattenSeq(M(groups)) = items
  <2>1. \A e : GroupName(f, e) = 0
    BY <1>15 DEF GroupName
  <2>2. R # {}
    <3>1. DOMAIN items = 1..Len(items) /\ Len(items) \in Nat \ {0}
      BY <1>1
    <3>2. items[1] \in R
      BY <3>1 DEF R, Range
    <3>. QED
      BY <3>2
  <2>3. Range(groups) = {0}
    BY <1>2, <2>1, <2>2
  <2> HIDE DEF groups
  <2>4. Len(groups) = 1 /\ groups[1] = 0
    <3>1. DOMAIN groups = 1..Len(groups) /\ Len(groups) \in Nat
      BY <1>2
    <3>2. \A i \in 1..Len(groups) : groups[i] = 0
      BY <2>3, <3>1 DEF Range
    <3>3. \A i, j \in 1..Len(groups) : i = j
      BY <1>2, <3>1, <3>2 DEF IsInjective
    <3>4. Len(groups) # 0
      BY <2>3, <3>1 DEF Range
    <3>5. 1 \in 1..Len(groups) /\ Len(groups) \in 1..Len(groups)
      BY <3>1, <3>4
    <3>. QED
      BY <3>2, <3>3, <3>5
  <2>5. 0 \in G
    BY FeaturesAssumption DEF G
  <2>6. groups = Append(<<>>, 0) /\ <<>> \in Seq(G) /\ <<>> \in Seq(Batch)
    BY <1>2, <2>4, <2>5
  <2>7. FlattenSeq(M(groups)) = <<>> \o Only(items, Of(0))
    <3>1. FlattenSeq(M(Append(<<>>, 0))) = FlattenSeq(M(<<>>)) \o Only(items, Of(0))
      BY <1>7, <1>8, <2>5, <2>6
    <3>. QED
      BY <1>7, <2>6, <3>1, FlattenEmpty
  <2>8. Only(items, Of(0)) = items
    <3>1. R \subseteq Of(0)
      BY <2>1 DEF Of
    <3>. QED
      BY <1>1, <3>1, OnlyAll
  <2>9. <<>> \o items = items
    BY <1>1
  <2>. QED
    BY <2>7, <2>8, <2>9
<1>. QED
  BY <1>5, <1>9, <1>13, <1>14, <1>15

-----------------------------------------------------------------------------
(***************************************************************************)
(* Features are in the order of the cursor.                                *)
(***************************************************************************)
\* In the order of the cursor
Sorted(s) == \A i, j \in DOMAIN s : i < j => s[i] < s[j]

\* One more
LEMMA SortedAppend ==
  ASSUME NEW s \in Seq(Features), NEW a \in Features
  PROVE  Sorted(Append(s, a)) <=> Sorted(s) /\ \A e \in Range(s) : e < a
<1> DEFINE u == Append(s, a)
           n == Len(s)
<1>1. /\ n \in Nat /\ DOMAIN s = 1..n /\ DOMAIN u = 1..(n + 1)
      /\ \A i \in 1..n : u[i] = s[i]
      /\ u[n + 1] = a
  OBVIOUS
<1>2. \A i \in 1..n : i \in 1..(n + 1) /\ i < n + 1
  BY <1>1
<1> HIDE DEF u, n
<1>3. ASSUME Sorted(u) PROVE Sorted(s) /\ \A e \in Range(s) : e < a
  <2>1. Sorted(s)
    BY <1>1, <1>2, <1>3 DEF Sorted
  <2>2. \A i \in 1..n : s[i] < a
    <3>1. n + 1 \in 1..(n + 1)
      BY <1>1
    <3>. QED
      BY <1>1, <1>2, <1>3, <3>1 DEF Sorted
  <2>. QED
    BY <1>1, <2>1, <2>2 DEF Range
<1>4. ASSUME Sorted(s), \A e \in Range(s) : e < a PROVE Sorted(u)
  <2>1. ASSUME NEW i \in 1..(n + 1), NEW j \in 1..(n + 1), i < j
        PROVE  u[i] < u[j]
    <3>1. i \in 1..n
      BY <1>1, <2>1
    <3>2. CASE j = n + 1
      BY <1>1, <1>4, <3>1, <3>2 DEF Range
    <3>3. CASE j # n + 1
      <4>1. j \in 1..n
        BY <1>1, <3>3
      <4>. QED
        BY <1>1, <1>4, <2>1, <3>1, <4>1 DEF Sorted
    <3>. QED
      BY <3>2, <3>3
  <2>. QED
    BY <1>1, <2>1 DEF Sorted
<1>. QED
  BY <1>3, <1>4 DEF u

\* What is left is in the same order.
LEMMA OnlySorted ==
  ASSUME NEW s \in Seq(Features), NEW S, Sorted(s)
  PROVE  Sorted(Only(s, S))
<1> DEFINE P == {x \in Seq(Features) : Sorted(x) => Sorted(Only(x, S))}
<1>1. <<>> \in P
  <2>1. <<>> \in Seq(Features)
    OBVIOUS
  <2>. QED
    BY <2>1, OnlyEmpty
<1>2. ASSUME NEW x \in Seq(Features), NEW a \in Features, x \in P
      PROVE  Append(x, a) \in P
  <2> DEFINE o == Only(x, S)
  <2>1. /\ Append(x, a) \in Seq(Features)
        /\ o \in Seq(Features) /\ Range(o) = Range(x) \cap S
    BY OnlyIsSeq, OnlyElements
  <2>2. Only(Append(x, a), S) = IF a \in S THEN Append(o, a) ELSE o
    BY OnlyAppend
  <2>3. Sorted(Append(x, a)) <=> Sorted(x) /\ \A e \in Range(x) : e < a
    BY SortedAppend
  <2>4. Sorted(x) => Sorted(o)
    BY <1>2
  <2> HIDE DEF o
  <2>5. Sorted(Append(o, a)) <=> Sorted(o) /\ \A e \in Range(o) : e < a
    BY <2>1, SortedAppend
  <2>6. Sorted(Append(x, a)) => Sorted(Only(Append(x, a), S))
    BY <2>1, <2>2, <2>3, <2>4, <2>5
  <2>. QED
    BY <2>1, <2>6
<1>3. Seq(Features) \subseteq P
  <2> HIDE DEF P
  <2>. QED
    BY <1>1, <1>2, AppendUp
<1>. QED
  BY <1>3

\* A sequence holds these features, each once, perhaps in their order.
Holds(s, S, ordered) ==
  /\ s \in Seq(Features)
  /\ Range(s) = S
  /\ IsInjective(s)
  /\ ordered => Sorted(s)

\* Left out or not, they are.
LEMMA OnlyHolds ==
  ASSUME NEW s, NEW S, NEW ordered, Holds(s, S, ordered), NEW T
  PROVE  Holds(Only(s, T), S \cap T, ordered)
<1>1. /\ s \in Seq(Features) /\ Range(s) = S /\ IsInjective(s)
      /\ ordered => Sorted(s)
  BY DEF Holds
<1>2. /\ Only(s, T) \in Seq(Features) /\ Range(Only(s, T)) = S \cap T
      /\ IsInjective(Only(s, T))
  BY <1>1, OnlyIsSeq, OnlyElements, OnlyInjective
<1>3. ordered => Sorted(Only(s, T))
  BY <1>1, OnlySorted
<1>. QED
  BY <1>2, <1>3 DEF Holds

\* The cursor gives the features that have shape data.
LEMMA SinglesWhole ==
  Holds(Content(FlattenSeq(Singles)), Features \ Shapeless, TRUE)
<1> DEFINE UpTo(n) == [f \in 1..n |-> <<Source(f)>>]
           y(n) == Content(FlattenSeq(UpTo(n)))
           Good(n) == Holds(y(n), (1..n) \ Shapeless, TRUE)
           P == {n \in 0..NumFeatures : Good(n)}
<1>1. NumFeatures \in Nat
  BY FeaturesAssumption
<1>2. ASSUME NEW n \in 1..NumFeatures
      PROVE  /\ <<Source(n)>> \in Batch /\ Source(n) \in Items
             /\ Source(n).of = IF n \in Shapeless THEN <<>> ELSE <<n>>
             /\ n \in Features
  <2>1. Source(n).of = IF n \in Shapeless THEN <<>> ELSE <<n>>
    BY DEF Source
  <2>2. n \in Features /\ <<>> \in Seq(Features) /\ <<n>> \in Seq(Features)
    BY DEF Features
  <2>3. Source(n).of \in Seq(Features)
    BY <2>1, <2>2
  <2>4. Source(n) \in Items
    BY <2>3 DEF Source, Items
  <2>. QED
    BY <2>1, <2>2, <2>4 DEF Batch
<1>3. ASSUME NEW n \in 0..NumFeatures
      PROVE  /\ UpTo(n) \in Seq(Batch) /\ Len(UpTo(n)) = n
             /\ \A i \in 1..n : UpTo(n)[i] = <<Source(i)>>
  <2>1. n \in Nat /\ \A i \in 1..n : i \in 1..NumFeatures
    BY <1>1
  <2>2. UpTo(n) \in [1..n -> Batch]
    BY <1>2, <2>1
  <2>3. \A i \in 1..n : UpTo(n)[i] = <<Source(i)>>
    OBVIOUS
  <2> HIDE DEF UpTo
  <2>. QED
    BY <2>1, <2>2, <2>3, FunctionIsSeq
<1>4. UpTo(0) = <<>>
  OBVIOUS
<1>5. Singles = UpTo(NumFeatures)
  BY DEF Singles
<1> HIDE DEF UpTo
<1>6. 0 \in P
  <2>1. y(0) = <<>>
    BY <1>4, FlattenEmpty, ContentEmpty
  <2>2. Sorted(<<>>) /\ <<>> \in Seq(Features)
    BY DEF Sorted
  <2>3. (1..0) \ Shapeless = {}
    OBVIOUS
  <2> HIDE DEF y
  <2>4. Good(0)
    BY <2>1, <2>2, <2>3, EmptyQueue DEF Holds
  <2> HIDE DEF Good
  <2>. QED
    BY <1>1, <2>4
<1>7. ASSUME NEW n \in 1..NumFeatures, n - 1 \in P PROVE n \in P
  <2> DEFINE u == UpTo(n - 1)
             b == <<Source(n)>>
             x == y(n - 1)
             S == (1..(n - 1)) \ Shapeless
  <2>1. n \in 0..NumFeatures /\ n - 1 \in 0..NumFeatures
    BY <1>1
  <2>2. UpTo(n) = Append(u, b)
    <3> DEFINE w == UpTo(n)
    <3>1. /\ w \in Seq(Batch) /\ Len(w) = n /\ \A i \in 1..n : w[i] = <<Source(i)>>
          /\ u \in Seq(Batch) /\ Len(u) = n - 1
          /\ \A i \in 1..(n - 1) : u[i] = <<Source(i)>>
      BY <1>3, <2>1
    <3>2. b \in Batch
      BY <1>2
    <3> HIDE DEF w, u, b
    <3>3. /\ Append(u, b) \in Seq(Batch) /\ Len(Append(u, b)) = n
          /\ \A i \in 1..n : Append(u, b)[i] = IF i = n THEN b ELSE u[i]
      BY <2>1, <3>1, <3>2
    <3>4. \A i \in 1..n : w[i] = Append(u, b)[i]
      <4>1. \A i \in 1..n : i = n \/ i \in 1..(n - 1)
        BY <2>1
      <4>. QED
        BY <3>1, <3>3, <4>1 DEF b
    <3>5. w = Append(u, b)
      BY <3>1, <3>3, <3>4, SeqEqual
    <3>. QED
      BY <3>5 DEF w
  <2>3. u \in Seq(Batch) /\ b \in Batch
    BY <1>2, <1>3, <2>1
  <2>4. Holds(x, S, TRUE)
    BY <1>7
  <2>5. Content(b) = IF n \in Shapeless THEN <<>> ELSE <<n>>
    BY <1>2, ContentOne
  <2> HIDE DEF u, b
  <2>6. y(n) = x \o Content(b)
    <3>1. FlattenSeq(Append(u, b)) = FlattenSeq(u) \o b /\ FlattenSeq(u) \in Batch
      BY <2>3, FlattenAppend, FlattenIsSeq DEF Batch
    <3>2. Content(FlattenSeq(u) \o b) = Content(FlattenSeq(u)) \o Content(b)
      BY <2>3, <3>1, ContentConcat
    <3>. QED
      BY <2>2, <3>1, <3>2 DEF u
  <2> DEFINE T == (1..n) \ Shapeless
             z == y(n)
  <2> HIDE DEF x
  <2>7. /\ x \in Seq(Features) /\ Range(x) = S /\ IsInjective(x) /\ Sorted(x)
    BY <2>4 DEF Holds
  <2>8. CASE n \in Shapeless
    <3>1. z = x
      BY <2>5, <2>6, <2>7, <2>8
    <3>2. S = T
      BY <2>1, <2>8
    <3> HIDE DEF z, T, S
    <3>. QED
      BY <2>1, <2>4, <3>1, <3>2 DEF z, T
  <2>9. CASE n \notin Shapeless
    <3>1. z = Append(x, n) /\ n \in Features
      BY <1>2, <2>5, <2>6, <2>7, <2>9, AppendIsConcat
    <3>2. S \cup {n} = T /\ n \notin S /\ \A e \in S : e < n
      BY <2>1, <2>9
    <3> HIDE DEF z, T, S
    <3>3. /\ Append(x, n) \in Seq(Features) /\ Range(Append(x, n)) = T
          /\ IsInjective(Append(x, n))
      BY <2>7, <3>1, <3>2, AppendToQueue
    <3>4. Sorted(Append(x, n))
      BY <2>7, <3>1, <3>2, SortedAppend
    <3>5. Holds(z, T, TRUE)
      BY <3>1, <3>3, <3>4 DEF Holds
    <3>. QED
      BY <2>1, <3>5 DEF z, T
  <2>. QED
    BY <2>8, <2>9
<1>8. 0..NumFeatures \subseteq P
  <2> HIDE DEF P
  <2>. QED
    BY <1>1, <1>6, <1>7, CountUp
<1>9. Good(NumFeatures)
  <2>1. NumFeatures \in 0..NumFeatures
    BY <1>1
  <2>. QED
    BY <1>8, <2>1
<1>. QED
  BY <1>5, <1>9 DEF Features

-----------------------------------------------------------------------------
(***************************************************************************)
(* What the states give, one after the other, when each takes what it is   *)
(* given.                                                                  *)
(***************************************************************************)
\* The type of data that comes out of state k
TypeOut(k, d) ==
  \/ d = "feature" /\ \A j \in 1..k : Kind(j) = "collection"
  \/ \E j \in 1..k : /\ Kind(j) # "collection" /\ d = Kind(j)
                     /\ \A i \in (j + 1)..k : Kind(i) = "collection"

\* The next state takes it.
LEMMA TypeFits ==
  ASSUME chain \in Chain, Fits, NEW k \in 1..Length, NEW d, TypeOut(k - 1, d)
  PROVE  d \in Accepts(Kind(k))
<1>1. Length \in Nat /\ Length = Len(chain)
  BY ChainBasics DEF Length
<1>2. \A x : "feature" \in Accepts(x)
  BY DEF Accepts
<1>3. CASE d = "feature"
  BY <1>2, <1>3
<1>4. CASE \E j \in 1..(k - 1) : /\ Kind(j) # "collection" /\ d = Kind(j)
                                 /\ \A i \in (j + 1)..(k - 1) : Kind(i) = "collection"
  <2>1. PICK j \in 1..(k - 1) :
          /\ Kind(j) # "collection" /\ d = Kind(j)
          /\ \A i \in (j + 1)..(k - 1) : Kind(i) = "collection"
    BY <1>4
  <2> DEFINE p == k - 1
  <2>2. p \in 1..(Length - 1) /\ p + 1 = k /\ p \in 1..Length /\ p \in Nat
    BY <1>1, <2>1
  <2>3. /\ Kind(p) = "fragment" => Kind(k) # "feature"
        /\ Kind(p) = "node" => Kind(k) \in {"node", "collection"}
        /\ Kind(p) = "collection" =>
             LET before == {i \in 1..p : Kind(i) # "collection"}
             IN  IF before = {} THEN TRUE
                 ELSE Kind(Max(before)) \in Accepts(Kind(k))
    <3>1. CASE Kind(p) = "fragment"
      BY <2>2, <3>1 DEF Fits
    <3>2. CASE Kind(p) = "node"
      BY <2>2, <3>2 DEF Fits
    <3>3. CASE Kind(p) = "collection"
      BY <2>2, <3>3 DEF Fits
    <3>. QED
      BY <3>1, <3>2, <3>3
  <2>4. /\ Kind(k) \in {"feature", "fragment", "node", "collection"}
        /\ Kind(p) \in {"feature", "fragment", "node", "collection"}
    BY <1>1, <2>2, StatesAreFilters DEF IsFilter, Kinds, Kind
  <2>5. CASE Kind(p) = "collection"
    <3> DEFINE before == {i \in 1..p : Kind(i) # "collection"}
    <3>1. j \in before
      BY <2>1
    <3>2. /\ before \subseteq 1..p /\ before # {}
          /\ Kind(Max(before)) \in Accepts(Kind(k))
      BY <2>3, <2>5, <3>1
    <3>3. Max(before) \in before /\ \A i \in before : i <= Max(before)
      <4> HIDE DEF before, p
      <4>. QED
        BY <2>2, <3>2, GreatestElement
    <3>4. \A i \in before : i <= j
      BY <2>1, <2>2
    <3>5. Max(before) = j
      <4>1. \A i \in before : i \in Nat
        OBVIOUS
      <4>2. Max(before) \in before /\ j \in before
        BY <3>1, <3>3
      <4>3. Max(before) <= j /\ j <= Max(before)
        BY <3>3, <3>4, <4>2
      <4> HIDE DEF before
      <4>4. \A u, v \in Nat : u <= v /\ v <= u => u = v
        OBVIOUS
      <4>. QED
        BY <4>1, <4>2, <4>3, <4>4
    <3> HIDE DEF before
    <3>. QED
      BY <2>1, <3>2, <3>5
  <2>6. CASE Kind(p) # "collection"
    <3>1. j = p
      BY <2>1, <2>2, <2>6
    <3>. QED
      BY <2>1, <2>3, <2>4, <2>6, <3>1 DEF Accepts
  <2>. QED
    BY <2>5, <2>6
<1>. QED
  BY <1>3, <1>4 DEF TypeOut

\* What the filters up to state k leave
LeftOf(k) == (Features \ Shapeless) \ UNION {chain[j].drops : j \in 1..k}

\* What state k gives is all of that, of the type that comes out of it.
GivesWhole(k) ==
  \E d : /\ TypeOut(k, d)
         /\ Given(chain, k) \in Seq(Seq(ItemsOf(d)))
         /\ Holds(Content(FlattenSeq(Given(chain, k))), LeftOf(k),
                  \A j \in 1..k : ~chain[j].grouped)

\* State by state
LEMMA GivesNext ==
  ASSUME chain \in Chain, Fits, NEW k \in 1..Length, GivesWhole(k - 1)
  PROVE  GivesWhole(k)
<1> DEFINE f == chain[k]
           g == Given(chain, k - 1)
           b == BatchesInto(chain)[k]
           x == Content(FlattenSeq(b))
           r == Results(f, b)
           before == \A j \in 1..(k - 1) : ~chain[j].grouped
           now == \A j \in 1..k : ~chain[j].grouped
<1>1. /\ Length \in Nat /\ Length = Len(chain) /\ IsFilter(f)
      /\ k \in Nat /\ k # 0 /\ k - 1 \in 0..Length
  BY ChainBasics, StatesAreFilters DEF Length
<1>2. PICK d : /\ TypeOut(k - 1, d)
               /\ g \in Seq(Seq(ItemsOf(d)))
               /\ Holds(Content(FlattenSeq(g)), LeftOf(k - 1), before)
  BY DEF GivesWhole
<1>3. d \in Accepts(f.kind)
  BY <1>2, TypeFits DEF Kind
<1>4. b = Arriving(f, g)
  <2>1. b = Arriving(f, IF k = 1 THEN Singles ELSE Results(chain[k - 1], BatchesInto(chain)[k - 1]))
    BY <1>1, BatchesIntoDef
  <2>2. g = IF k = 1 THEN Singles ELSE Results(chain[k - 1], BatchesInto(chain)[k - 1])
    BY <1>1 DEF Given
  <2>. QED
    BY <2>1, <2>2
<1>5. Given(chain, k) = r
  BY <1>1 DEF Given
<1> HIDE DEF f, g, b
<1>6. b \in Seq(Seq(ItemsOf(d))) /\ x = Content(FlattenSeq(g))
  BY <1>2, <1>3, <1>4, ArrivingDef, ArrivingWhole
<1>7. Holds(x, LeftOf(k - 1), before)
  BY <1>2, <1>6
<1>8. LeftOf(k) = LeftOf(k - 1) \cap (Features \ f.drops)
  <2>1. \A j \in 1..k : j = k \/ j \in 1..(k - 1)
    BY <1>1
  <2>2. k \in 1..k /\ \A j \in 1..(k - 1) : j \in 1..k
    BY <1>1
  <2>3. ASSUME NEW e
        PROVE  (\E j \in 1..k : e \in chain[j].drops)
                 <=> (\E j \in 1..(k - 1) : e \in chain[j].drops) \/ e \in f.drops
    BY <2>1, <2>2 DEF f
  <2>4. ASSUME NEW n, NEW e
        PROVE  e \in LeftOf(n)
                 <=> /\ e \in Features \ Shapeless
                     /\ ~\E j \in 1..n : e \in chain[j].drops
    BY DEF LeftOf
  <2>5. ASSUME NEW e
        PROVE  e \in LeftOf(k) <=> e \in LeftOf(k - 1) \cap (Features \ f.drops)
    BY <2>3, <2>4
  <2>. QED
    BY <2>5
<1>9. now => before /\ ~f.grouped
  <2>1. k \in 1..k /\ \A j \in 1..(k - 1) : j \in 1..k
    BY <1>1
  <2>. QED
    BY <2>1 DEF f
<1>10. /\ b \in Seq(Batch) /\ FlattenSeq(b) \in Seq(ItemsOf(d))
       /\ FlattenSeq(b) \in Batch /\ ItemsOf(d) \subseteq Items
  BY <1>6, OneTypeDef, FlattenIsSeq, ItemsOfAreItems DEF OneType
<1>11. r \in Seq(Seq(ItemsOf(IF f.kind = "collection" THEN d ELSE f.kind)))
  BY <1>1, <1>6, ResultsTyped
<1> HIDE DEF x, r, before, now
<1>12. CASE f.kind # "collection"
  <2>1. Content(FlattenSeq(r)) = Only(x, Features \ f.drops)
    BY <1>1, <1>10, <1>12, ResultsWhole DEF r, x
  <2>2. Holds(Content(FlattenSeq(r)), LeftOf(k), before)
    BY <1>7, <1>8, <2>1, OnlyHolds
  <2>3. Holds(Content(FlattenSeq(r)), LeftOf(k), now)
    BY <1>9, <2>2 DEF Holds
  <2>4. TypeOut(k, f.kind)
    <3>1. k \in 1..k /\ \A i \in (k + 1)..k : FALSE
      BY <1>1
    <3>. QED
      BY <1>12, <3>1 DEF TypeOut, Kind, f
  <2>5. r \in Seq(Seq(ItemsOf(f.kind)))
    BY <1>11, <1>12
  <2>. QED
    BY <1>5, <2>3, <2>4, <2>5 DEF GivesWhole, now
<1>13. CASE f.kind = "collection"
  <2> DEFINE s == FlattenSeq(b)
  <2>1. r = IF s = <<>> THEN <<>> ELSE Metered(f, s)
    BY <1>13 DEF Results, r
  <2>2. x = Content(s)
    BY DEF x
  <2>3. LeftOf(k) = LeftOf(k - 1)
    <3>1. f.drops = {}
      BY <1>1, <1>13 DEF IsFilter
    <3>. QED
      BY <1>8, <3>1 DEF LeftOf
  <2>4. TypeOut(k, d)
    <3>1. \A j \in 1..k : j = k \/ j \in 1..(k - 1)
      BY <1>1
    <3>2. \A j \in 1..(k - 1) : \A i \in (j + 1)..k :
            i = k \/ i \in (j + 1)..(k - 1)
      BY <1>1
    <3>3. \A j \in 1..(k - 1) : j \in 1..k
      BY <1>1
    <3>4. Kind(k) = "collection"
      BY <1>13 DEF Kind, f
    <3>. QED
      BY <1>2, <3>1, <3>2, <3>3, <3>4 DEF TypeOut
  <2>5. r \in Seq(Seq(ItemsOf(d)))
    BY <1>11, <1>13
  <2> HIDE DEF s
  <2>6. Holds(Content(FlattenSeq(r)), LeftOf(k), now)
    <3>1. CASE s = <<>>
      <4>1. Content(FlattenSeq(r)) = x
        BY <2>1, <2>2, <3>1, FlattenEmpty
      <4>. QED
        BY <1>7, <1>9, <2>3, <4>1 DEF Holds
    <3>2. CASE s # <<>>
      <4> DEFINE y == Content(FlattenSeq(r))
      <4>1. /\ FlattenSeq(r) \in Batch
            /\ Range(y) = Range(x)
            /\ IsInjective(x) => IsInjective(y)
            /\ ~f.grouped => y = x
        <5>1. s \in Seq(ItemsOf(d)) /\ ItemsOf(d) \subseteq Items /\ r = Metered(f, s)
          BY <1>10, <2>1, <3>2 DEF s
        <5>2. /\ FlattenSeq(Metered(f, s)) \in Batch
              /\ Range(Content(FlattenSeq(Metered(f, s)))) = Range(Content(s))
              /\ IsInjective(Content(s)) =>
                   IsInjective(Content(FlattenSeq(Metered(f, s))))
              /\ ~f.grouped => FlattenSeq(Metered(f, s)) = s
          BY <1>1, <3>2, <5>1, MeteredWhole
        <5>. QED
          BY <2>2, <5>1, <5>2
      <4>2. y \in Seq(Features)
        BY <4>1, ContentTyped
      <4> HIDE DEF y
      <4>3. Holds(y, LeftOf(k), now)
        BY <1>7, <1>9, <2>3, <4>1, <4>2 DEF Holds
      <4>. QED
        BY <4>3 DEF y
    <3>. QED
      BY <3>1, <3>2
  <2>. QED
    BY <1>5, <2>4, <2>5, <2>6 DEF GivesWhole, now
<1>. QED
  BY <1>12, <1>13

LEMMA GivesAll ==
  ASSUME chain \in Chain, Fits
  PROVE  GivesWhole(Length)
<1>1. Length \in Nat
  BY ChainBasics DEF Length
<1>2. GivesWhole(0)
  <2>1. TypeOut(0, "feature")
    BY DEF TypeOut
  <2>2. Given(chain, 0) = Singles
    BY DEF Given
  <2>3. LeftOf(0) = Features \ Shapeless
    BY DEF LeftOf
  <2>4. Holds(Content(FlattenSeq(Singles)), LeftOf(0),
              \A j \in 1..0 : ~chain[j].grouped)
    BY <2>3, SinglesWhole DEF Holds
  <2>. QED
    BY <2>1, <2>2, <2>4, SinglesTyped DEF GivesWhole
<1> DEFINE P == {k \in 0..Length : GivesWhole(k)}
<1>3. 0 \in P
  BY <1>1, <1>2
<1>4. ASSUME NEW k \in 1..Length, k - 1 \in P PROVE k \in P
  <2>1. GivesWhole(k)
    BY <1>4, GivesNext
  <2>. QED
    BY <1>1, <2>1
<1>5. 0..Length \subseteq P
  <2> HIDE DEF P
  <2>. QED
    BY <1>1, <1>3, <1>4, CountUp
<1>. QED
  BY <1>1, <1>5

\* What the last state gives is what the chain means, if it was given a batch
\* once.
LEMMA MeaningGiven ==
  ASSUME chain \in Chain, Length > 0, mode \in {"store", "nodes"},
         mode = "store" => chain[Length] = Writer,
         mode = "nodes" => /\ Kind(1) # "node" /\ Kind(Length) = "node"
                           /\ Len(BatchesInto(chain)[Length]) <= 1
  PROVE  Content(Meaning(mode, chain)) = Content(FlattenSeq(Given(chain, Length)))
<1> DEFINE N == Length
           b == BatchesInto(chain)[N]
           f == chain[N]
<1>1. /\ N \in Nat /\ N = Len(chain) /\ N \in 1..Len(chain) /\ N # 0
      /\ IsFilter(f) /\ Last(chain) = f /\ Kind(1) = chain[1].kind
      /\ Kind(N) = f.kind
  BY ChainBasics, StatesAreFilters DEF Length, Last, Kind
<1>2. b \in Seq(Batch)
  BY <1>1, BatchesIntoDef DEF OneType
<1>3. Given(chain, N) = Results(f, b)
  BY <1>1 DEF Given
<1>4. Meaning(mode, chain)
        = IF mode = "store" THEN FlattenSeq(b)
          ELSE IF chain[1].kind = "node" \/ f.kind # "node" \/ b = <<>>
          THEN <<>> ELSE Processed(f, Last(b))
  BY <1>1 DEF Meaning
<1> HIDE DEF b, f, N
<1>5. CASE mode = "store"
  <2>1. f.kind # "collection" /\ f.drops = {}
    BY <1>5 DEF f, N, Writer
  <2>2. Content(FlattenSeq(Results(f, b)))
          = Only(Content(FlattenSeq(b)), Features \ f.drops)
    BY <1>1, <1>2, <2>1, ResultsWhole
  <2>3. FlattenSeq(b) \in Batch
    BY <1>2, FlattenIsSeq DEF Batch
  <2>4. Content(FlattenSeq(b)) \in Seq(Features)
    BY <2>3, ContentTyped
  <2>5. Only(Content(FlattenSeq(b)), Features) = Content(FlattenSeq(b))
    BY <2>4, OnlyAll
  <2>6. Features \ f.drops = Features
    BY <2>1
  <2>. QED
    BY <1>3, <1>4, <1>5, <2>2, <2>5, <2>6 DEF N
<1>6. CASE mode = "nodes"
  <2>1. f.kind = "node" /\ chain[1].kind # "node" /\ Len(b) <= 1
    BY <1>1, <1>6 DEF N, b
  <2>2. CASE b = <<>>
    <3>1. Given(chain, N) = <<>>
      BY <1>3, <2>2, ResultsEmpty, <2>1
    <3>. QED
      BY <1>4, <1>6, <2>2, <3>1, FlattenEmpty DEF N
  <2>3. CASE b # <<>>
    <3> DEFINE x == b[1]
    <3>1. x \in Batch /\ b = <<x>> /\ Last(b) = x
      <4>1. Len(b) = 1
        BY <1>2, <2>1, <2>3
      <4>. QED
        BY <1>2, <4>1 DEF Last
    <3> HIDE DEF x
    <3>2. Processed(f, x) \in Seq(ItemsOf(f.kind))
      BY <1>1, <2>1, <3>1, ProcessedTyped DEF Batch
    <3>3. Results(f, b) = <<Processed(f, x)>>
      BY <2>1, <3>1 DEF Results
    <3>4. FlattenSeq(Results(f, b)) = Processed(f, x)
      BY <3>2, <3>3, FlattenOne
    <3>5. Meaning(mode, chain) = Processed(f, x)
      BY <1>4, <1>6, <2>1, <2>3, <3>1
    <3>. QED
      BY <1>3, <3>4, <3>5 DEF N
  <2>. QED
    BY <2>2, <2>3
<1>. QED
  BY <1>5, <1>6

-----------------------------------------------------------------------------
(***************************************************************************)
(* The theorems.                                                           *)
(***************************************************************************)
\* The inductive invariant
GraphInv == TypeOK /\ ControlInv /\ InputInv /\ DataInv

\* It holds in every state.
LEMMA GraphInvariant == Spec => []GraphInv
<1>1. Init => GraphInv
  BY InitTyped, InitInput, InitData DEF GraphInv
<1>2. GraphInv /\ [Next]_vars => GraphInv'
  BY NextTyped, NextInput, NextData DEF GraphInv
<1>. QED
  BY <1>1, <1>2, PTL DEF Spec

\* TypeOK: every variable of the graph keeps its type, whatever the chain:
\* `level' and `at' stay in the chain and the states hold sequences of elements.
THEOREM TypeCorrect == Spec => []TypeOK
<1>1. GraphInv => TypeOK
  BY DEF GraphInv
<1>. QED
  BY <1>1, GraphInvariant, PTL

\* BatchesKeptApart: a filter's process() gets one element at a time from
\* FilterGraph's loop, and from CollectionFilterState::meterData() no more than
\* the metering, all of one group, since every traverse() clears in_* after it.
THEOREM BatchesApart == Spec => []BatchesKeptApart
<1>1. GraphInv => BatchesKeptApart
  <2> SUFFICES ASSUME GraphInv, pc = "traversing", Kind(at) # "collection"
               PROVE  /\ level = 0 => Len(in[at]) <= 1
                      /\ level > 0 /\ at = start =>
                           Meterable(chain[level], in[at])
    BY DEF BatchesKeptApart, Meterable
  <2>. QED
    BY DEF GraphInv, InputInv, ApartInv
<1>. QED
  BY <1>1, GraphInvariant, PTL

\* ComputesMeaning: computeNodes() and computeFeatureStore(), depth first and
\* with what FilterStates keep between the calls, give what the chain means,
\* state by state, for any filters, groups, metering and number of features.
THEOREM MeaningComputed == Spec => []ComputesMeaning
<1>1. GraphInv => ComputesMeaning
  BY DEF GraphInv, DataInv
<1>. QED
  BY <1>1, GraphInvariant, PTL

\* computeNodes() does not come to its end without a NodeFilterState.
HasResult == pc = "done" /\ mode = "nodes" => OutputState # 0

LEMMA DoneHasResult == Spec => []HasResult
<1>1. Init => HasResult
  BY DEF Init, FirstPosition, HasResult
<1>2. HasResult /\ [Next]_vars => HasResult'
  <2> SUFFICES ASSUME HasResult, [Next]_vars PROVE HasResult'
    OBVIOUS
  <2>1. ASSUME UNCHANGED <<mode, chain>>, pc' # "done" \/ pc' = pc
        PROVE  HasResult'
    BY <2>1 DEF HasResult, OutputState, Length, Kind
  <2>2. CASE ReadFeature \/ EndOfCursor
    BY <2>1, <2>2 DEF ReadFeature, EndOfCursor, Feed
  <2>3. CASE TraverseFilter \/ TraverseNodes \/ TraverseCollection \/ Return
    BY <2>1, <2>3 DEF TraverseFilter, TraverseNodes, TraverseCollection, Return,
                      PassOn
  <2>4. CASE Checkpoint \/ MeterBatch \/ MeteringEnds \/ Unwind
    BY <2>1, <2>4 DEF Checkpoint, MeterBatch, MeteringEnds, Unwind, Feed
  <2>5. CASE Finish
    <3>1. /\ UNCHANGED <<mode, chain>>
          /\ IF mode = "nodes" /\ OutputState = 0 THEN pc' = "crashed"
                                                 ELSE pc' = "done"
      BY <2>5 DEF Finish
    <3>. QED
      BY <3>1 DEF HasResult, OutputState, Length, Kind
  <2>6. CASE UNCHANGED vars
    BY <2>1, <2>6 DEF vars
  <2>. QED
    BY <2>2, <2>3, <2>4, <2>5, <2>6 DEF Next
<1>. QED
  BY <1>1, <1>2, PTL DEF Spec

\* OutputIsWhole: whatever the filters, the groups and the metering, computeNodes()
\* and computeFeatureStore() lose no feature, and give none twice, if each state
\* takes what it is given and the last NodeFilterState is traversed once.
THEOREM OutputWhole == Spec => []OutputIsWhole
<1>1. GraphInv /\ HasResult => OutputIsWhole
  <2> SUFFICES ASSUME GraphInv, HasResult, pc = "done", Fits,
                      mode = "store" \/ arrivals <= 1
               PROVE  /\ Range(Content(output)) = Survivors
                      /\ IsInjective(Content(output))
                      /\ (\A k \in 1..Length : ~chain[k].grouped)
                           => Sorted(Content(output))
    BY DEF OutputIsWhole, Sorted
  <2>1. /\ TypeOK /\ ControlInv /\ OnceInv /\ ComputesMeaning
        /\ chain \in Chain /\ Length \in Nat
        /\ mode \in {"store", "nodes"} /\ arrivals \in 0..2
    BY ChainBasics, FeaturesAssumption
       DEF GraphInv, DataInv, TypeOK, ControlInv, Length
  <2>2. /\ Length > 0
        /\ mode = "store" => chain[Length] = Writer
        /\ mode = "nodes" => Kind(1) # "node" /\ Kind(Length) = "node"
    <3>1. CASE mode = "store"
      BY <2>1, <3>1 DEF ControlInv
    <3>2. CASE mode = "nodes"
      <4>1. OutputState = Length /\ Kind(1) # "node"
        BY <3>2 DEF Fits
      <4>2. OutputState # 0
        BY <3>2 DEF HasResult
      <4>. QED
        BY <2>1, <3>2, <4>1, <4>2, OutputStateDef
    <3>. QED
      BY <2>1, <3>1, <3>2
  <2>3. mode = "nodes" => Len(BatchesInto(chain)[Length]) <= 1
    <3> SUFFICES ASSUME mode = "nodes"
                 PROVE  Len(BatchesInto(chain)[Length]) <= 1
      OBVIOUS
    <3>1. arrivals \in 0..1
      BY <2>1
    <3>2. Len(BatchesInto(chain)[Length]) <= arrivals
      BY <2>1, <2>2, <3>1 DEF OnceInv
    <3>3. BatchesInto(chain)[Length] \in Seq(Batch)
      <4>1. Length \in 1..Len(chain)
        BY <2>1, <2>2 DEF Length
      <4>. QED
        BY <2>1, <4>1, BatchesIntoDef DEF OneType
    <3> DEFINE n == Len(BatchesInto(chain)[Length])
    <3>4. n \in Nat
      BY <3>3
    <3> HIDE DEF n
    <3>5. n <= 1
      BY <3>1, <3>2, <3>4 DEF n
    <3>. QED
      BY <3>5 DEF n
  <2>4. Content(output) = Content(FlattenSeq(Given(chain, Length)))
    BY <2>1, <2>2, <2>3, MeaningGiven DEF ComputesMeaning
  <2>5. Holds(Content(output), LeftOf(Length),
              \A k \in 1..Length : ~chain[k].grouped)
    BY <2>1, <2>4, GivesAll DEF GivesWhole
  <2>6. LeftOf(Length) = Survivors
    BY DEF LeftOf, Survivors
  <2>. QED
    BY <2>5, <2>6 DEF Holds
<1>. QED
  BY <1>1, GraphInvariant, DoneHasResult, PTL
=============================================================================
