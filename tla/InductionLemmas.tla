-------------------------- MODULE InductionLemmas ---------------------------
(***************************************************************************)
(* Induction over the natural numbers, stated with sets instead of         *)
(* predicates: the set of the numbers for which a claim holds takes the    *)
(* place of the claim.  The loops of the code are recursive functions in   *)
(* the modules; these lemmas are how anything is proved about them, and    *)
(* about the folds and the concatenation of the community modules.         *)
(***************************************************************************)
EXTENDS Integers, SequencesExt, SequenceTheorems, WellFoundedInduction, FiniteSetTheorems,
        TLAPS

\* A set of natural numbers has a least element.
LEMMA LeastElement ==
  ASSUME NEW S \in SUBSET Nat, S # {}
  PROVE  \E m \in S : \A k \in S : m <= k
<1> DEFINE R == {p \in Nat \X Nat : p[1] < p[2]}
<1>1. IsWellFoundedOn(R, Nat)
  BY NatLessThanWellFounded, Zenon DEF OpToRel
<1>2. \E x \in S : \A y \in S : <<y, x>> \notin R
  <2> HIDE DEF R
  <2> QED
    BY <1>1, WFMin
<1>3. PICK x \in S : \A y \in S : <<y, x>> \notin R
  BY <1>2
<1>4. ASSUME NEW y \in S PROVE x <= y
  <2>1. <<y, x>> \in Nat \X Nat /\ <<y, x>>[1] = y /\ <<y, x>>[2] = x
    OBVIOUS
  <2>2. ~(y < x)
    BY <1>3, <2>1
  <2> QED
    BY <2>2
<1> QED
  BY <1>4

\* A set that contains 0 and the successors of its members contains Nat.
LEMMA SetInduction ==
  ASSUME NEW S, 0 \in S, \A n \in Nat : n \in S => n + 1 \in S
  PROVE  Nat \subseteq S
<1> SUFFICES ASSUME ~(Nat \subseteq S) PROVE FALSE
  OBVIOUS
<1>1. PICK m \in Nat \ S : \A k \in Nat \ S : m <= k
  BY LeastElement
<1>2. m - 1 \in Nat
  BY <1>1
<1>3. m - 1 \in S
  BY <1>1, <1>2
<1> QED
  BY <1>1, <1>2, <1>3

\* A set of integers with an upper bound has a greatest element.
LEMMA GreatestElement ==
  ASSUME NEW S \in SUBSET Int, S # {}, NEW b \in Int, \A k \in S : k <= b
  PROVE  \E m \in S : \A k \in S : m >= k
<1> DEFINE T == {n \in Nat : b - n \in S}
<1>1. T # {}
  <2>1. PICK k \in S : TRUE
    OBVIOUS
  <2>2. b - k \in Nat /\ b - (b - k) = k
    BY <2>1
  <2> QED
    BY <2>2
<1>2. PICK n \in T : \A k \in T : n <= k
  BY <1>1, LeastElement
<1>3. ASSUME NEW k \in S PROVE b - n >= k
  <2>1. b - k \in Nat /\ b - (b - k) = k
    OBVIOUS
  <2>2. b - k \in T
    BY <2>1
  <2>3. n <= b - k
    BY <1>2, <2>2
  <2> QED
    BY <2>3
<1>4. b - n \in S
  BY <1>2
<1> QED
  BY <1>3, <1>4

-----------------------------------------------------------------------------
\* Products keep the order, for the arrays of rows and pages.
LEMMA ScaledOrder ==
  ASSUME NEW a \in Int, NEW b \in Int, NEW w \in Nat, a <= b
  PROVE  a * w \in Int /\ b * w \in Int /\ a * w <= b * w
<1>1. b - a \in Nat /\ b = a + (b - a)
  OBVIOUS
<1>2. \A x, y \in Nat : x * y \in Nat
  OBVIOUS
<1>3. (b - a) * w \in Nat
  BY <1>1, <1>2
<1>4. (a + (b - a)) * w = a * w + (b - a) * w
  OBVIOUS
<1> QED
  BY <1>1, <1>3, <1>4

-----------------------------------------------------------------------------
(* Folds over a sequence.                                                  *)

LEMMA MaxOfPrefix ==
  ASSUME NEW m \in Nat, m > 0
  PROVE  1..m # {} /\ Max(1..m) = m /\ (1..m) \ {m} = 1..(m - 1)
<1>1. m \in 1..m /\ \A y \in 1..m : m >= y
  OBVIOUS
<1>2. \A x \in 1..m : (\A y \in 1..m : x >= y) => x = m
  BY <1>1
<1> QED
  BY <1>1, <1>2 DEF Max

\* The function a fold is evaluated with: the value for each set of places of the sequence.
IsFold(n, seq, base, step, g) ==
  g = [s \in SUBSET (1..n) |->
         IF s = {} THEN base ELSE step[g[s \ {Max(s)}], seq[Max(s)]]]

LEMMA GreatestOfPlaces ==
  ASSUME NEW n \in Nat, NEW s \in SUBSET (1..n), s # {}
  PROVE  Max(s) \in s /\ \A y \in s : Max(s) >= y
<1>1. \E m \in s : \A k \in s : m >= k
  <2>1. s \in SUBSET Int /\ n \in Int /\ \A k \in s : k <= n
    OBVIOUS
  <2> QED
    BY <2>1, GreatestElement, Zenon
<1> QED
  BY <1>1 DEF Max

LEMMA FoldExists ==
  ASSUME NEW T, NEW seq \in Seq(T), NEW S, NEW base \in S, NEW step \in [S \X T -> S]
  PROVE  \E g \in [SUBSET DOMAIN seq -> S] : IsFold(Len(seq), seq, base, step, g)
<1> DEFINE P == {n \in Nat : n <= Len(seq) =>
                   \E g \in [SUBSET (1..n) -> S] : IsFold(n, seq, base, step, g)}
<1>1. 0 \in P
  <2> DEFINE g == [s \in SUBSET (1..0) |-> base]
  <2>1. \A s \in SUBSET (1..0) : s = {}
    OBVIOUS
  <2>2. g = [s \in SUBSET (1..0) |->
               IF s = {} THEN base ELSE step[g[s \ {Max(s)}], seq[Max(s)]]]
    BY <2>1, Zenon
  <2>3. g \in [SUBSET (1..0) -> S]
    OBVIOUS
  <2> HIDE DEF g
  <2>4. IsFold(0, seq, base, step, g)
    BY <2>2 DEF IsFold
  <2> QED
    BY <2>3, <2>4
<1>2. ASSUME NEW n \in Nat, n \in P PROVE n + 1 \in P
  <2>a. n + 1 \in Nat
    OBVIOUS
  <2> SUFFICES ASSUME n + 1 <= Len(seq)
               PROVE  \E g \in [SUBSET (1..(n + 1)) -> S] : IsFold(n + 1, seq, base, step, g)
    BY <2>a, Zenon
  <2>0. Len(seq) \in Nat /\ n <= Len(seq)
    BY LenProperties
  <2>1. PICK g \in [SUBSET (1..n) -> S] : IsFold(n, seq, base, step, g)
    BY <1>2, <2>0
  <2> DEFINE h == [s \in SUBSET (1..(n + 1)) |->
                     IF n + 1 \in s THEN step[g[s \ {n + 1}], seq[n + 1]] ELSE g[s]]
  <2>2. seq[n + 1] \in T
    BY <2>0, ElementOfSeq
  <2>3. \A s \in SUBSET (1..(n + 1)) : s \ {n + 1} \in SUBSET (1..n)
    OBVIOUS
  <2>4. \A s \in SUBSET (1..(n + 1)) : n + 1 \notin s => s \in SUBSET (1..n)
    OBVIOUS
  <2>5. h \in [SUBSET (1..(n + 1)) -> S]
    BY <2>2, <2>3, <2>4
  <2>6. ASSUME NEW s \in SUBSET (1..n) PROVE h[s] = g[s] /\ n + 1 \notin s
    <3>1. n + 1 \notin s /\ s \in SUBSET (1..(n + 1))
      OBVIOUS
    <3> QED
      BY <3>1, Zenon
  <2>7. ASSUME NEW s \in SUBSET (1..n)
        PROVE  g[s] = IF s = {} THEN base ELSE step[g[s \ {Max(s)}], seq[Max(s)]]
    BY <2>1, Zenon DEF IsFold
  <2>8. ASSUME NEW s \in SUBSET (1..(n + 1))
        PROVE  h[s] = IF s = {} THEN base ELSE step[h[s \ {Max(s)}], seq[Max(s)]]
    <3>1. CASE n + 1 \in s
      <4>1. Max(s) = n + 1
        <5>1. \A x \in s : (\A y \in s : x >= y) => x = n + 1
          BY <3>1
        <5>2. \A y \in s : n + 1 >= y
          OBVIOUS
        <5> QED
          BY <3>1, <5>1, <5>2 DEF Max
      <4>2. h[s \ {n + 1}] = g[s \ {n + 1}]
        BY <2>3, <2>6
      <4>3. h[s] = step[g[s \ {n + 1}], seq[n + 1]]
        BY <3>1
      <4> HIDE DEF h
      <4> QED
        BY <3>1, <4>1, <4>2, <4>3
    <3>2. CASE n + 1 \notin s
      <4>1. s \in SUBSET (1..n)
        BY <2>4, <3>2
      <4>2. s # {} => s \ {Max(s)} \in SUBSET (1..n)
        BY <4>1
      <4>3. s # {} => h[s \ {Max(s)}] = g[s \ {Max(s)}]
        BY <4>2, <2>6
      <4>4. h[s] = g[s]
        BY <4>1, <2>6
      <4> HIDE DEF h
      <4> QED
        BY <4>1, <4>3, <4>4, <2>7
    <3> QED
      BY <3>1, <3>2
  <2> HIDE DEF h
  <2>9. IsFold(n + 1, seq, base, step, h)
    <3>1. h = [s \in SUBSET (1..(n + 1)) |-> h[s]]
      BY <2>5
    <3> QED
      BY <2>8, <3>1, Zenon DEF IsFold
  <2> QED
    BY <2>5, <2>9
<1>3. Len(seq) \in P
  <2> HIDE DEF P
  <2> QED
    BY <1>1, <1>2, SetInduction, LenProperties
<1>4. Len(seq) \in Nat /\ DOMAIN seq = 1..Len(seq) /\ Len(seq) <= Len(seq)
  BY LenProperties
<1> QED
  BY <1>3, <1>4

\* The stages of a fold, for any function that solves its equation.
FoldBy(seq, S, base, step, g) ==
  \A s \in SUBSET DOMAIN seq :
    IF s = {} THEN g[s] = base
    ELSE g[s \ {Max(s)}] \in S => g[s] = step[g[s \ {Max(s)}], seq[Max(s)]]

Staged(seq, S, base, step, last, h) ==
  /\ h \in [0..Len(seq) -> S] /\ h[0] = base /\ h[Len(seq)] = last
  /\ \A m \in 1..Len(seq) : h[m] = step[h[m - 1], seq[m]]

LEMMA FoldStages ==
  ASSUME NEW T, NEW seq \in Seq(T), NEW S, NEW base \in S, NEW step \in [S \X T -> S],
         NEW g, FoldBy(seq, S, base, step, g)
  PROVE  \E h : Staged(seq, S, base, step, g[DOMAIN seq], h)
<1> DEFINE n == Len(seq)
           h == [m \in 0..n |-> g[1..m]]
<1>1. n \in Nat /\ DOMAIN seq = 1..n
  BY LenProperties
<1> HIDE DEF n
<1>2. h[0] = base /\ h[n] = g[DOMAIN seq]
  <2>1. 1..0 = {} /\ {} \in SUBSET DOMAIN seq
    OBVIOUS
  <2>2. g[{}] = base
    BY <2>1 DEF FoldBy
  <2> QED
    BY <1>1, <2>1, <2>2
<1>3. ASSUME NEW m \in 1..n, h[m - 1] \in S
      PROVE  h[m] = step[h[m - 1], seq[m]]
  <2>1. 1..m # {} /\ Max(1..m) = m /\ (1..m) \ {m} = 1..(m - 1)
    BY MaxOfPrefix
  <2>2. 1..m \in SUBSET DOMAIN seq
    BY <1>1
  <2>3. h[m] = g[1..m] /\ h[m - 1] = g[1..(m - 1)]
    BY <1>1
  <2>4. g[1..(m - 1)] \in S => g[1..m] = step[g[1..(m - 1)], seq[m]]
    BY <2>1, <2>2, Zenon DEF FoldBy
  <2> QED
    BY <1>3, <2>3, <2>4, Zenon
<1>4. DOMAIN h = 0..n /\ h = [m \in 0..n |-> h[m]]
  OBVIOUS
<1> HIDE DEF h
<1> DEFINE P == {m \in Nat : m <= n => h[m] \in S}
<1>5. 0 \in P
  BY <1>1, <1>2
<1>6. ASSUME NEW m \in Nat, m \in P PROVE m + 1 \in P
  <2> SUFFICES ASSUME m + 1 <= n PROVE h[m + 1] \in S
    OBVIOUS
  <2>1. m + 1 \in 1..n /\ (m + 1) - 1 = m /\ h[m] \in S
    BY <1>1, <1>6
  <2>2. h[m + 1] = step[h[m], seq[m + 1]]
    BY <1>3, <2>1
  <2>3. seq[m + 1] \in T
    BY <2>1, ElementOfSeq DEF n
  <2> QED
    BY <2>1, <2>2, <2>3
<1>7. \A m \in 0..n : h[m] \in S
  <2> HIDE DEF P
  <2>1. Nat \subseteq P
    BY <1>5, <1>6, SetInduction
  <2> QED
    BY <1>1, <2>1 DEF P
<1>8. h \in [0..n -> S]
  BY <1>4, <1>7
<1>9. ASSUME NEW m \in 1..n PROVE h[m] = step[h[m - 1], seq[m]]
  <2>1. h[m - 1] \in S
    BY <1>1, <1>7
  <2> QED
    BY <1>3, <2>1
<1> QED
  BY <1>2, <1>8, <1>9, Zenon DEF n, Staged

-----------------------------------------------------------------------------
(* The concatenation of sequences.                                         *)

FlattenBody(seqs, g, i) == IF i = 1 THEN seqs[i] ELSE g[i - 1] \o seqs[i]
IsFlatten(seqs, g, p) == g = [i \in 1..p |-> FlattenBody(seqs, g, i)]

LEMMA FlattenExists ==
  ASSUME NEW seqs
  PROVE  \A p \in Nat : \E g : IsFlatten(seqs, g, p)
<1> DEFINE S == {p \in Nat : \E g : IsFlatten(seqs, g, p)}
<1>1. 0 \in S
  <2> DEFINE g == [i \in 1..0 |-> 0]
  <2>1. g = [i \in 1..0 |-> FlattenBody(seqs, g, i)]
    OBVIOUS
  <2>2. IsFlatten(seqs, g, 0)
    BY <2>1 DEF IsFlatten
  <2> HIDE DEF g
  <2> QED
    BY <2>2
<1>2. ASSUME NEW p \in Nat, p \in S PROVE p + 1 \in S
  <2>1. PICK g : IsFlatten(seqs, g, p)
    BY <1>2
  <2> DEFINE h == [i \in 1..(p + 1) |-> FlattenBody(seqs, g, i)]
  <2>2. ASSUME NEW i \in 1..p PROVE h[i] = g[i]
    <3>1. i \in 1..(p + 1)
      OBVIOUS
    <3> DEFINE f == [k \in 1..p |-> FlattenBody(seqs, g, k)]
    <3>2. f[i] = FlattenBody(seqs, g, i)
      OBVIOUS
    <3> HIDE DEF f
    <3>3. g = f
      BY <2>1, Zenon DEF f, IsFlatten
    <3> QED
      BY <3>1, <3>2, <3>3
  <2>3. ASSUME NEW i \in 1..(p + 1)
        PROVE  FlattenBody(seqs, g, i) = FlattenBody(seqs, h, i)
    <3>1. CASE i = 1
      BY <3>1 DEF FlattenBody
    <3>2. CASE i # 1
      <4>1. i - 1 \in 1..p
        BY <3>2
      <4>2. h[i - 1] = g[i - 1]
        BY <2>2, <4>1
      <4> HIDE DEF h
      <4> QED
        BY <4>2, Zenon DEF FlattenBody
    <3> QED
      BY <3>1, <3>2
  <2>4. h = [i \in 1..(p + 1) |-> FlattenBody(seqs, h, i)]
    BY <2>3
  <2>5. IsFlatten(seqs, h, p + 1)
    BY <2>4 DEF IsFlatten
  <2> HIDE DEF h
  <2> QED
    BY <2>5
<1>3. Nat \subseteq S
  <2> HIDE DEF S
  <2> QED
    BY <1>1, <1>2, SetInduction
<1> QED
  BY <1>3

\* The stages of the concatenation, from the empty sequence on.
LEMMA FlattenStages ==
  ASSUME NEW S, NEW seqs \in Seq(Seq(S))
  PROVE  \E h \in [0..Len(seqs) -> Seq(S)] :
           /\ h[0] = << >> /\ h[Len(seqs)] = FlattenSeq(seqs)
           /\ \A m \in 1..Len(seqs) : h[m] = h[m - 1] \o seqs[m]
<1> DEFINE n == Len(seqs)
           g == CHOOSE f : IsFlatten(seqs, f, n)
           h == [m \in 0..n |-> IF m = 0 THEN << >> ELSE g[m]]
           T == {m \in Nat : m <= n => h[m] \in Seq(S)}
<1>1. n \in Nat
  BY LenProperties
<1>2. IsFlatten(seqs, g, n)
  BY <1>1, FlattenExists
<1>3. n # 0 => FlattenSeq(seqs) = g[n]
  BY DEF FlattenSeq, IsFlatten, FlattenBody
<1>4. n = 0 => FlattenSeq(seqs) = << >>
  BY EmptySeq DEF FlattenSeq
<1> HIDE DEF g
<1>5. \A m \in 1..n : seqs[m] \in Seq(S)
  BY ElementOfSeq
<1>6. ASSUME NEW m \in 1..n PROVE g[m] = FlattenBody(seqs, g, m)
  <2> DEFINE f == [k \in 1..n |-> FlattenBody(seqs, g, k)]
  <2>1. f[m] = FlattenBody(seqs, g, m)
    OBVIOUS
  <2> HIDE DEF f
  <2>2. g = f
    BY <1>2, Zenon DEF f, IsFlatten
  <2> QED
    BY <2>1, <2>2
<1>7. /\ h[0] = << >> /\ DOMAIN h = 0..n
      /\ \A m \in 1..n : h[m] = g[m]
  BY <1>1
<1>8. h[n] = FlattenSeq(seqs)
  <2>1. n = 0 \/ n \in 1..n
    BY <1>1
  <2> QED
    BY <1>3, <1>4, <1>7, <2>1
<1> HIDE DEF h
<1>9. ASSUME NEW m \in 1..n PROVE h[m] = h[m - 1] \o seqs[m]
  <2>1. CASE m = 1
    <3>1. g[m] = seqs[m]
      BY <1>6, <2>1 DEF FlattenBody
    <3>2. << >> \o seqs[m] = seqs[m]
      BY <1>5, ConcatEmptySeq
    <3>3. m - 1 = 0 /\ h[m - 1] = << >> /\ h[m] = seqs[m]
      BY <1>7, <2>1, <3>1
    <3> QED
      BY <3>2, <3>3
  <2>2. CASE m # 1
    <3>1. m - 1 \in 1..n
      BY <1>1, <2>2
    <3>2. g[m] = g[m - 1] \o seqs[m]
      BY <1>6, <2>2, Zenon DEF FlattenBody
    <3> QED
      BY <1>7, <3>1, <3>2
  <2> QED
    BY <2>1, <2>2
<1>10. \A m \in 0..n : h[m] \in Seq(S)
  <2>1. 0 \in T
    BY <1>7, EmptySeq
  <2>2. ASSUME NEW m \in Nat, m \in T PROVE m + 1 \in T
    <3> SUFFICES ASSUME m + 1 <= n PROVE h[m + 1] \in Seq(S)
      OBVIOUS
    <3>1. m + 1 \in 1..n /\ m + 1 - 1 = m /\ h[m] \in Seq(S)
      BY <1>1, <2>2
    <3>2. h[m + 1] = h[m] \o seqs[m + 1]
      <4> DEFINE k == m + 1
      <4>1. k \in 1..n /\ k - 1 = m
        BY <3>1
      <4> HIDE DEF k
      <4>2. h[k] = h[k - 1] \o seqs[k]
        BY <1>9, <4>1, Zenon
      <4> QED
        BY <4>1, <4>2 DEF k
    <3>3. seqs[m + 1] \in Seq(S)
      BY <1>5, <3>1
    <3>4. h[m] \o seqs[m + 1] \in Seq(S)
      BY <3>1, <3>3, ConcatProperties
    <3> QED
      BY <3>2, <3>4
  <2>3. Nat \subseteq T
    <3> HIDE DEF T
    <3> QED
      BY <2>1, <2>2, SetInduction
  <2> QED
    BY <1>1, <2>3
<1>11. h \in [0..n -> Seq(S)]
  BY <1>10 DEF h
<1> QED
  BY <1>7, <1>8, <1>9, <1>11

LEMMA FlattenType ==
  ASSUME NEW S, NEW seqs \in Seq(Seq(S))
  PROVE  FlattenSeq(seqs) \in Seq(S)
<1>1. PICK h \in [0..Len(seqs) -> Seq(S)] : h[Len(seqs)] = FlattenSeq(seqs)
  BY FlattenStages
<1>2. Len(seqs) \in 0..Len(seqs)
  BY LenProperties
<1> QED
  BY <1>1, <1>2

-----------------------------------------------------------------------------
(* An increasing list has no more elements than its values leave room for. *)

LEMMA IncreasingFits ==
  ASSUME NEW n \in Nat, NEW m \in Nat, NEW f \in [1..m -> 0..(n - 1)],
         \A i, j \in 1..m : i < j => f[i] < f[j]
  PROVE  m <= n
<1>1. IsFiniteSet(1..m) /\ Cardinality(1..m) = m
  BY FS_Interval
<1>2. IsFiniteSet(0..(n - 1)) /\ Cardinality(0..(n - 1)) = n
  <2>1. 0 \in Int /\ n - 1 \in Int
    OBVIOUS
  <2>2. /\ IsFiniteSet(0..(n - 1))
        /\ Cardinality(0..(n - 1)) = IF 0 > n - 1 THEN 0 ELSE (n - 1) - 0 + 1
    BY <2>1, FS_Interval, Zenon
  <2> QED
    BY <2>2
<1>3. CASE m > n
  <2>1. \E i, j \in 1..m : i # j /\ f[i] = f[j]
    BY <1>1, <1>2, <1>3, FS_PigeonHole
  <2> QED
    BY <2>1
<1> QED
  BY <1>3
=============================================================================
