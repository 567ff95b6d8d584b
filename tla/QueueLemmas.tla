---------------------------- MODULE QueueLemmas ----------------------------
(***************************************************************************)
(* What Append, Head and Tail do to the set of the elements of a queue,    *)
(* and to its freedom from duplicates: the other proof modules cite these  *)
(* lemmas for the std::queues of the code.  And, for its loops, induction  *)
(* and a little arithmetic.                                                *)
(***************************************************************************)
EXTENDS Integers, Sequences, SequencesExt, TLAPS, WellFoundedInduction,
        SequenceTheorems

\* The empty queue has no element.
LEMMA EmptyQueue == Range(<<>>) = {} /\ IsInjective(<<>>)
BY DEF Range, IsInjective

\* push() adds one element, and no duplicate if it was not there.
LEMMA AppendToQueue ==
  ASSUME NEW S, NEW s \in Seq(S), NEW k \in S
  PROVE  /\ Append(s, k) \in Seq(S)
         /\ Range(Append(s, k)) = Range(s) \cup {k}
         /\ IsInjective(s) /\ k \notin Range(s) => IsInjective(Append(s, k))
<1>1. Append(s, k) \in Seq(S)
  OBVIOUS
<1>2. /\ Len(Append(s, k)) = Len(s) + 1
      /\ \A i \in 1..Len(s) : Append(s, k)[i] = s[i]
      /\ Append(s, k)[Len(s) + 1] = k
  OBVIOUS
<1>3. DOMAIN s = 1..Len(s) /\ DOMAIN Append(s, k) = 1..(Len(s) + 1)
  OBVIOUS
<1>4. Range(Append(s, k)) = Range(s) \cup {k}
  BY <1>2, <1>3 DEF Range
<1>5. IsInjective(s) /\ k \notin Range(s) => IsInjective(Append(s, k))
  BY <1>2, <1>3 DEF Range, IsInjective
<1>. QED
  BY <1>1, <1>4, <1>5

\* pop() takes out front(), and only that, from a queue with no duplicates.
LEMMA TakeFromQueue ==
  ASSUME NEW S, NEW s \in Seq(S), s # <<>>
  PROVE  /\ Head(s) \in S /\ Tail(s) \in Seq(S)
         /\ Range(s) = {Head(s)} \cup Range(Tail(s))
         /\ IsInjective(s) => /\ Head(s) \notin Range(Tail(s))
                              /\ IsInjective(Tail(s))
<1>1. Head(s) \in S /\ Tail(s) \in Seq(S)
  OBVIOUS
<1>2. /\ Len(s) \in Nat \ {0}
      /\ Head(s) = s[1]
      /\ Len(Tail(s)) = Len(s) - 1
      /\ \A i \in 1..(Len(s) - 1) : Tail(s)[i] = s[i + 1]
  OBVIOUS
<1>3. DOMAIN s = 1..Len(s) /\ DOMAIN Tail(s) = 1..(Len(s) - 1)
  BY <1>1, <1>2
<1>4. \A i \in 1..Len(s) : i = 1 \/ (i - 1 \in 1..(Len(s) - 1) /\ s[i] = Tail(s)[i - 1])
  BY <1>2
<1>5. Range(s) = {Head(s)} \cup Range(Tail(s))
  <2>1. ASSUME NEW x \in Range(s) PROVE x \in {Head(s)} \cup Range(Tail(s))
    <3>1. PICK i \in 1..Len(s) : x = s[i]
      BY <1>3 DEF Range
    <3>2. CASE i = 1
      BY <1>2, <3>1, <3>2
    <3>3. CASE i - 1 \in 1..(Len(s) - 1) /\ s[i] = Tail(s)[i - 1]
      BY <1>3, <3>1, <3>3 DEF Range
    <3>. QED
      BY <1>4, <3>2, <3>3
  <2>2. ASSUME NEW x \in {Head(s)} \cup Range(Tail(s)) PROVE x \in Range(s)
    BY <1>2, <1>3 DEF Range
  <2>. QED
    BY <2>1, <2>2
<1>6. IsInjective(s) => Head(s) \notin Range(Tail(s)) /\ IsInjective(Tail(s))
  BY <1>2, <1>3 DEF Range, IsInjective
<1>. QED
  BY <1>1, <1>5, <1>6

\* The elements of a queue of S are in S.
LEMMA QueueRange ==
  ASSUME NEW S, NEW s \in Seq(S)
  PROVE  Range(s) \subseteq S
BY DEF Range

\* size() is 0 for the empty queue only.
LEMMA EmptyIffNoLength ==
  ASSUME NEW S, NEW s \in Seq(S)
  PROVE  Len(s) \in Nat /\ (Len(s) = 0 <=> s = <<>>)
OBVIOUS

-----------------------------------------------------------------------------
(***************************************************************************)
(* Induction over the natural numbers, for sets: the loops of the code are *)
(* recursive functions, and what they compute is proved up to each index.  *)
(***************************************************************************)
\* A set of natural numbers has a least element.
LEMMA LeastElement ==
  ASSUME NEW T, T \subseteq Nat, T # {}
  PROVE  \E m \in T : \A k \in T : m <= k
<1>1. IsWellFoundedOn(OpToRel(<, Nat), Nat)
  BY NatLessThanWellFounded
<1>2. \E x \in T : \A y \in T : ~(<<y, x>> \in OpToRel(<, Nat))
  BY <1>1, WFMin
<1>3. PICK x \in T : \A y \in T : ~(<<y, x>> \in OpToRel(<, Nat))
  BY <1>2
<1>4. \A y \in T : y < x => <<y, x>> \in OpToRel(<, Nat)
  BY DEF OpToRel
<1>5. \A y \in T : ~(y < x)
  BY <1>3, <1>4
<1>6. \A y \in T : x <= y
  BY <1>5
<1>. QED
  BY <1>6

\* Induction, for a set: what holds of 0 and goes on, holds up to the end.
LEMMA CountUp ==
  ASSUME NEW N \in Nat, NEW S, 0 \in S,
         \A n \in 1..N : n - 1 \in S => n \in S
  PROVE  0..N \subseteq S
<1> DEFINE T == (0..N) \ S
<1> SUFFICES ASSUME T # {} PROVE FALSE
  OBVIOUS
<1>1. T \subseteq Nat
  OBVIOUS
<1> HIDE DEF T
<1>2. PICK m \in T : \A k \in T : m <= k
  BY <1>1, LeastElement
<1>3. m \in 1..N /\ m - 1 \in 0..N /\ m - 1 \notin T
  BY <1>2 DEF T
<1>. QED
  BY <1>2, <1>3 DEF T

-----------------------------------------------------------------------------
(***************************************************************************)
(* A number made of a row and a column, as in the loops over a grid.       *)
(***************************************************************************)
\* The row and the column can be read off the number.
LEMMA RowAndColumn ==
  ASSUME NEW m \in Nat \ {0}, NEW a \in Nat, NEW b \in 0..(m - 1)
  PROVE  (a * m + b) \div m = a /\ (a * m + b) % m = b
BY SMTT(30)

\* They give the number back.
LEMMA FromRowAndColumn ==
  ASSUME NEW m \in Nat \ {0}, NEW n \in Nat
  PROVE  /\ n = (n \div m) * m + (n % m)
         /\ n % m \in 0..(m - 1) /\ n \div m \in Nat
BY SMTT(30)

\* There are as many rows as there should be.
LEMMA RowInGrid ==
  ASSUME NEW m \in Nat \ {0}, NEW c \in Nat, NEW n \in 0..(c * m - 1)
  PROVE  n \div m \in 0..(c - 1)
BY SMTT(30)

LEMMA NumberInGrid ==
  ASSUME NEW m \in Nat \ {0}, NEW c \in Nat,
         NEW a \in 0..(c - 1), NEW b \in 0..(m - 1)
  PROVE  a * m + b \in 0..(c * m - 1)
BY SMTT(30)

\* Induction over sequences, for a set.
LEMMA AppendUp ==
  ASSUME NEW A, NEW S, <<>> \in S,
         \A s \in Seq(A), a \in A : s \in S => Append(s, a) \in S
  PROVE  Seq(A) \subseteq S
<1> SUFFICES ASSUME NEW z \in Seq(A) PROVE z \in S
  OBVIOUS
<1> DEFINE N == Len(z)
           P == {n \in 0..N : \A s \in Seq(A) : Len(s) = n => s \in S}
<1>0. N \in Nat
  OBVIOUS
<1>1. 0 \in P
  <2>1. \A s \in Seq(A) : Len(s) = 0 => s = <<>>
    OBVIOUS
  <2>. QED
    BY <2>1
<1>2. ASSUME NEW n \in 1..N, n - 1 \in P PROVE n \in P
  <2>1. ASSUME NEW s \in Seq(A), Len(s) = n PROVE s \in S
    <3> DEFINE t == SubSeq(s, 1, n - 1)
    <3>1. t \in Seq(A) /\ Len(t) = n - 1 /\ s[n] \in A
      BY <2>1
    <3>2. t \in S
      BY <1>2, <3>1
    <3>3. s = Append(t, s[n])
      BY <2>1, <3>1
    <3>. QED
      BY <3>1, <3>2, <3>3
  <2>. QED
    BY <2>1
<1>3. 0..N \subseteq P
  <2> HIDE DEF P, N
  <2>. QED
    BY <1>0, <1>1, <1>2, CountUp
<1>. QED
  BY <1>0, <1>3

\* Induction, from any number on
LEMMA CountFrom ==
  ASSUME NEW a \in Nat, NEW b \in Nat, NEW S, a <= b => a \in S,
         \A n \in (a + 1)..b : n - 1 \in S => n \in S
  PROVE  a..b \subseteq S
<1>1. CASE a <= b
  <2> DEFINE N == b - a
             T == {n \in 0..N : a + n \in S}
  <2>1. N \in Nat
    BY <1>1
  <2>2. 0 \in T
    BY <1>1, <2>1
  <2>3. ASSUME NEW n \in 1..N, n - 1 \in T PROVE n \in T
    <3>1. a + n \in (a + 1)..b /\ (a + n) - 1 = a + (n - 1) /\ n \in 0..N
      BY <2>1
    <3>2. a + (n - 1) \in S
      BY <2>3
    <3>. QED
      BY <3>1, <3>2
  <2>4. 0..N \subseteq T
    <3> HIDE DEF T, N
    <3>. QED
      BY <2>1, <2>2, <2>3, CountUp
  <2>5. \A n \in a..b : n - a \in 0..N /\ a + (n - a) = n
    BY <2>1
  <2>. QED
    BY <2>4, <2>5
<1>2. CASE b < a
  BY <1>2
<1>. QED
  BY <1>1, <1>2

\* A set of numbers up to N has a greatest element.
LEMMA GreatestElement ==
  ASSUME NEW N \in Nat, NEW T, T \subseteq 1..N, T # {}
  PROVE  /\ Max(T) \in T /\ \A k \in T : k <= Max(T)
<1> DEFINE D == {d \in 0..N : N - d \in T}
<1>1. D \subseteq Nat
  OBVIOUS
<1>2. D # {}
  <2>1. PICK k \in T : TRUE
    OBVIOUS
  <2>2. k \in 1..N /\ N - k \in 0..N /\ N - (N - k) = k
    BY <2>1
  <2>3. N - k \in D
    BY <2>1, <2>2
  <2>. QED
    BY <2>3
<1>3. PICK d \in D : \A e \in D : d <= e
  <2> HIDE DEF D
  <2>. QED
    BY <1>1, <1>2, LeastElement
<1>4. d \in Nat /\ N - d \in T
  BY <1>3
<1>5. ASSUME NEW k \in T PROVE N - d >= k
  <2>1. k \in 1..N /\ N - k \in 0..N /\ N - (N - k) = k
    BY <1>5
  <2>2. N - k \in D
    BY <1>5, <2>1
  <2>. QED
    BY <1>3, <1>4, <2>1, <2>2
<1>6. Max(T) \in T /\ \A y \in T : Max(T) >= y
  BY <1>4, <1>5 DEF Max
<1>7. \A y \in T : y \in Int
  OBVIOUS
<1>. QED
  BY <1>6, <1>7

\* std::min()
LEMMA MinOfPair ==
  ASSUME NEW a \in Int, NEW b \in Int
  PROVE  Min({a, b}) = IF a <= b THEN a ELSE b
<1>1. \E x \in {a, b} : \A y \in {a, b} : x <= y
  OBVIOUS
<1>2. /\ Min({a, b}) \in {a, b} /\ \A y \in {a, b} : Min({a, b}) <= y
  BY <1>1 DEF Min
<1>. QED
  BY <1>2

\* An array of n elements is a sequence.
LEMMA FunctionIsSeq ==
  ASSUME NEW T, NEW n \in Nat, NEW f \in [1..n -> T]
  PROVE  f \in Seq(T) /\ Len(f) = n /\ DOMAIN f = 1..n
<1>1. f \in Seq(T)
  BY SeqDef
<1>2. DOMAIN f = 1..Len(f) /\ DOMAIN f = 1..n /\ Len(f) \in Nat
  BY <1>1
<1> DEFINE m == Len(f)
<1> HIDE DEF m
<1>3. 1..m = 1..n /\ m \in Nat
  BY <1>2 DEF m
<1>4. (m = 0 \/ m \in 1..n) /\ (n = 0 \/ n \in 1..m)
  <2>1. (m = 0 \/ m \in 1..m) /\ (n = 0 \/ n \in 1..n)
    BY <1>3
  <2>. QED
    BY <1>3, <2>1
<1>5. m = n
  BY <1>3, <1>4
<1>. QED
  BY <1>1, <1>2, <1>5 DEF m

\* A sequence is one of any set that has its elements.
LEMMA SeqOfElements ==
  ASSUME NEW A, NEW s \in Seq(A), NEW T, Range(s) \subseteq T
  PROVE  s \in Seq(T)
BY SeqOfRange, SeqMonotonic

\* The empty sequence is the only one without elements.
LEMMA SeqOfNothing ==
  ASSUME NEW s \in Seq({})
  PROVE  s = <<>>
OBVIOUS

\* back()
LEMMA LastOfAppend ==
  ASSUME NEW S, NEW s \in Seq(S), NEW x \in S
  PROVE  Last(Append(s, x)) = x /\ Append(s, x) # <<>>
BY DEF Last

\* A loop over 1..m that starts from base and goes on with H
Computes(m, V, base, H, f) ==
  /\ f \in [0..m -> V] /\ f[0] = base
  /\ \A n \in 1..m : f[n] = H[<<n, f[n - 1]>>]

LEMMA LoopComputes ==
  ASSUME NEW N \in Nat, NEW V, NEW base \in V, NEW H \in [(1..N) \X V -> V]
  PROVE  \E f : Computes(N, V, base, H, f)
<1> DEFINE P == {m \in 0..N : \E f : Computes(m, V, base, H, f)}
<1>1. 0 \in P
  <2> DEFINE f == [n \in 0..0 |-> base]
  <2>1. f \in [0..0 -> V] /\ f[0] = base
    OBVIOUS
  <2> HIDE DEF f
  <2>2. Computes(0, V, base, H, f)
    BY <2>1 DEF Computes
  <2>. QED
    BY <2>2
<1>2. ASSUME NEW m \in 1..N, m - 1 \in P PROVE m \in P
  <2>1. PICK f : Computes(m - 1, V, base, H, f)
    BY <1>2
  <2>2. /\ f \in [0..(m - 1) -> V] /\ f[0] = base
        /\ \A n \in 1..(m - 1) : f[n] = H[<<n, f[n - 1]>>]
    BY <2>1 DEF Computes
  <2> DEFINE last == H[<<m, f[m - 1]>>]
             g == [n \in 0..m |-> IF n = m THEN last ELSE f[n]]
  <2>3. f[m - 1] \in V /\ last \in V
    BY <2>2
  <2> HIDE DEF last
  <2>4. /\ g \in [0..m -> V] /\ g[m] = last
        /\ \A n \in 0..(m - 1) : g[n] = f[n]
    BY <2>2, <2>3
  <2> HIDE DEF g
  <2>5. ASSUME NEW n \in 1..m PROVE g[n] = H[<<n, g[n - 1]>>]
    <3>1. g[n - 1] = f[n - 1]
      BY <2>4
    <3>2. CASE n = m
      BY <2>4, <3>1, <3>2 DEF last
    <3>3. CASE n # m
      BY <2>2, <2>4, <3>1, <3>3
    <3>. QED
      BY <3>2, <3>3
  <2>6. g[0] = base
    BY <2>2, <2>4
  <2>7. Computes(m, V, base, H, g)
    BY <2>4, <2>5, <2>6 DEF Computes
  <2>. QED
    BY <2>7
<1>3. 0..N \subseteq P
  <2> HIDE DEF P
  <2>. QED
    BY <1>1, <1>2, CountUp
<1>. QED
  BY <1>3

\* It computes one thing only.
LEMMA LoopsAgree ==
  ASSUME NEW N \in Nat, NEW f, NEW g, f[0] = g[0],
         \A n \in 1..N : f[n - 1] = g[n - 1] => f[n] = g[n]
  PROVE  \A n \in 0..N : f[n] = g[n]
<1> DEFINE P == {n \in 0..N : f[n] = g[n]}
<1>1. 0 \in P
  OBVIOUS
<1>2. ASSUME NEW n \in 1..N, n - 1 \in P PROVE n \in P
  BY <1>2
<1>3. 0..N \subseteq P
  <2> HIDE DEF P
  <2>. QED
    BY <1>1, <1>2, CountUp
<1>. QED
  BY <1>3

-----------------------------------------------------------------------------
(***************************************************************************)
(* Concatenating a sequence of sequences.                                  *)
(***************************************************************************)
\* The function that FlattenSeq chooses
Flattens(ss, f) ==
  f = [i \in 1..Len(ss) |-> IF i = 1 THEN ss[i] ELSE f[i - 1] \o ss[i]]

\* There is one, which the recursion does not show by itself.
LEMMA FlattensExists ==
  ASSUME NEW A, NEW ss \in Seq(Seq(A))
  PROVE  \E f : Flattens(ss, f)
<1> DEFINE S == {t \in Seq(Seq(A)) : \E f : Flattens(t, f)}
<1>1. <<>> \in S
  <2> DEFINE f == [i \in 1..0 |-> <<>>]
  <2>1. Flattens(<<>>, f)
    BY DEF Flattens
  <2>. QED
    BY <2>1
<1>2. ASSUME NEW t \in Seq(Seq(A)), NEW a \in Seq(A), t \in S
      PROVE  Append(t, a) \in S
  <2> DEFINE u == Append(t, a)
             n == Len(t) + 1
  <2>1. PICK f : Flattens(t, f)
    BY <1>2
  <2>2. /\ Len(u) = n /\ n \in Nat \ {0} /\ u[n] = a /\ u \in Seq(Seq(A))
        /\ \A i \in 1..(n - 1) : u[i] = t[i]
    OBVIOUS
  <2> DEFINE last == IF n = 1 THEN a ELSE f[n - 1] \o a
             g == [i \in 1..n |-> IF i = n THEN last ELSE f[i]]
  <2>3. \A i \in 1..(n - 1) :
          f[i] = IF i = 1 THEN t[i] ELSE f[i - 1] \o t[i]
    <3>1. Len(t) = n - 1
      OBVIOUS
    <3> HIDE DEF n
    <3>. QED
      BY <2>1, <3>1 DEF Flattens
  <2> HIDE DEF n, u
  <2>4. /\ \A i \in 1..(n - 1) : g[i] = f[i]
        /\ g[n] = last
    BY <2>2
  <2>5. ASSUME NEW i \in 1..n
        PROVE  g[i] = IF i = 1 THEN u[i] ELSE g[i - 1] \o u[i]
    <3>1. CASE i = n
      <4>1. i # 1 => g[i - 1] = f[i - 1]
        BY <2>2, <2>4, <3>1
      <4>. QED
        BY <2>2, <2>4, <3>1, <4>1
    <3>2. CASE i # n
      <4>1. i \in 1..(n - 1) /\ (i # 1 => i - 1 \in 1..(n - 1))
        BY <2>2, <3>2
      <4>. QED
        BY <2>2, <2>3, <2>4, <4>1
    <3>. QED
      BY <3>1, <3>2
  <2>6. Flattens(u, g)
    BY <2>2, <2>5 DEF Flattens
  <2>. QED
    BY <2>2, <2>6 DEF u
<1>3. Seq(Seq(A)) \subseteq S
  <2> HIDE DEF S
  <2>. QED
    BY <1>1, <1>2, AppendUp
<1>. QED
  BY <1>3

\* FlattenSeq, by its recursion
LEMMA FlattenDef ==
  ASSUME NEW A, NEW ss \in Seq(Seq(A)), ss # <<>>
  PROVE  \E f : Flattens(ss, f) /\ FlattenSeq(ss) = f[Len(ss)]
<1>1. \E f : Flattens(ss, f)
  BY FlattensExists
<1>2. Flattens(ss, CHOOSE f : Flattens(ss, f))
  BY <1>1
<1>3. Len(ss) # 0
  OBVIOUS
<1>4. FlattenSeq(ss) = (CHOOSE f : Flattens(ss, f))[Len(ss)]
  BY <1>3 DEF FlattenSeq, Flattens
<1>. QED
  BY <1>2, <1>4

LEMMA FlattenEmpty == FlattenSeq(<<>>) = <<>>
BY DEF FlattenSeq

\* f gives the same on what two sequences have in common.
LEMMA FlattensAgree ==
  ASSUME NEW A, NEW ss \in Seq(Seq(A)), NEW s \in Seq(A), NEW f, NEW g,
         Flattens(Append(ss, s), f), Flattens(ss, g)
  PROVE  \A i \in 1..Len(ss) : f[i] = g[i] /\ g[i] \in Seq(A)
<1> DEFINE N == Len(ss)
           t == Append(ss, s)
           P == {n \in 0..N : n = 0 \/ (f[n] = g[n] /\ g[n] \in Seq(A))}
<1>1. /\ N \in Nat /\ Len(t) = N + 1
      /\ \A i \in 1..N : t[i] = ss[i] /\ ss[i] \in Seq(A)
  OBVIOUS
<1>2. /\ \A i \in 1..N : f[i] = IF i = 1 THEN t[i] ELSE f[i - 1] \o t[i]
      /\ \A i \in 1..N : g[i] = IF i = 1 THEN ss[i] ELSE g[i - 1] \o ss[i]
  <2>1. f = [i \in 1..(N + 1) |-> IF i = 1 THEN t[i] ELSE f[i - 1] \o t[i]]
    BY <1>1 DEF Flattens
  <2>2. g = [i \in 1..N |-> IF i = 1 THEN ss[i] ELSE g[i - 1] \o ss[i]]
    BY DEF Flattens
  <2>3. \A i \in 1..N : i \in 1..(N + 1)
    BY <1>1
  <2> HIDE DEF t, N
  <2>. QED
    BY <2>1, <2>2, <2>3
<1> HIDE DEF t, N
<1>3. 0 \in P
  BY <1>1
<1>4. ASSUME NEW n \in 1..N, n - 1 \in P PROVE n \in P
  <2>1. CASE n = 1
    BY <1>1, <1>2, <2>1
  <2>2. CASE n # 1
    <3>1. f[n - 1] = g[n - 1] /\ g[n - 1] \in Seq(A)
      BY <1>1, <1>4, <2>2
    <3>2. f[n] = g[n - 1] \o ss[n] /\ g[n] = g[n - 1] \o ss[n]
      BY <1>1, <1>2, <2>2, <3>1
    <3>3. ss[n] \in Seq(A)
      BY <1>1
    <3>4. g[n] \in Seq(A)
      BY <3>1, <3>2, <3>3
    <3>5. f[n] = g[n] /\ n \in 0..N
      BY <1>1, <3>1, <3>2
    <3>. QED
      BY <3>4, <3>5
  <2>. QED
    BY <2>1, <2>2
<1>5. 0..N \subseteq P
  <2> HIDE DEF P
  <2>. QED
    BY <1>1, <1>3, <1>4, CountUp
<1>6. \A i \in 1..N : i \in 0..N /\ i # 0
  BY <1>1
<1>. QED
  BY <1>5, <1>6 DEF N

\* The result is a sequence of the same elements.
LEMMA FlattenIsSeq ==
  ASSUME NEW A, NEW ss \in Seq(Seq(A))
  PROVE  FlattenSeq(ss) \in Seq(A)
<1>1. CASE ss = <<>>
  <2>1. <<>> \in Seq(A)
    OBVIOUS
  <2>. QED
    BY <1>1, <2>1, FlattenEmpty
<1>2. CASE ss # <<>>
  <2>1. PICK g : Flattens(ss, g) /\ FlattenSeq(ss) = g[Len(ss)]
    BY <1>2, FlattenDef
  <2>2. PICK s \in Seq(A) : Append(ss, s) \in Seq(Seq(A))
    <3>1. <<>> \in Seq(A) /\ Append(ss, <<>>) \in Seq(Seq(A))
      OBVIOUS
    <3>. QED
      BY <3>1
  <2>3. PICK f : Flattens(Append(ss, s), f)
    BY <2>2, FlattensExists
  <2>4. Len(ss) \in 1..Len(ss)
    BY <1>2
  <2>5. \A i \in 1..Len(ss) : g[i] \in Seq(A)
    BY <2>1, <2>3, FlattensAgree
  <2>. QED
    BY <2>1, <2>4, <2>5
<1>. QED
  BY <1>1, <1>2

\* One more sequence
LEMMA FlattenAppend ==
  ASSUME NEW A, NEW ss \in Seq(Seq(A)), NEW s \in Seq(A)
  PROVE  FlattenSeq(Append(ss, s)) = FlattenSeq(ss) \o s
<1> DEFINE t == Append(ss, s)
<1>1. /\ t \in Seq(Seq(A)) /\ t # <<>> /\ Len(t) = Len(ss) + 1
      /\ t[Len(ss) + 1] = s /\ Len(ss) \in Nat
  <2>1. t \in Seq(Seq(A)) /\ Len(t) = Len(ss) + 1 /\ Len(ss) \in Nat
    OBVIOUS
  <2>2. t[Len(ss) + 1] = s
    OBVIOUS
  <2>3. t # <<>>
    BY <2>1
  <2>. QED
    BY <2>1, <2>2, <2>3
<1>2. PICK f : Flattens(t, f) /\ FlattenSeq(t) = f[Len(ss) + 1]
  <2> HIDE DEF t
  <2>. QED
    BY <1>1, FlattenDef
<1>3. f[Len(ss) + 1] = IF Len(ss) + 1 = 1 THEN s ELSE f[Len(ss)] \o s
  <2>1. Len(ss) + 1 \in 1..(Len(ss) + 1) /\ (Len(ss) + 1) - 1 = Len(ss)
    BY <1>1
  <2> HIDE DEF t
  <2>2. f = [i \in 1..(Len(ss) + 1) |-> IF i = 1 THEN t[i] ELSE f[i - 1] \o t[i]]
    BY <1>1, <1>2 DEF Flattens
  <2>. QED
    BY <1>1, <2>1, <2>2
<1>4. CASE ss = <<>>
  <2>1. Len(ss) = 0 /\ <<>> \o s = s
    BY <1>4
  <2>. QED
    BY <1>2, <1>3, <1>4, <2>1, FlattenEmpty
<1>5. CASE ss # <<>>
  <2>1. Len(ss) \in 1..Len(ss) /\ Len(ss) + 1 # 1
    BY <1>5
  <2>2. PICK g : Flattens(ss, g) /\ FlattenSeq(ss) = g[Len(ss)]
    BY <1>5, FlattenDef
  <2>3. f[Len(ss)] = g[Len(ss)]
    BY <1>2, <2>1, <2>2, FlattensAgree
  <2>. QED
    BY <1>2, <1>3, <2>1, <2>2, <2>3
<1>. QED
  BY <1>4, <1>5
=============================================================================
