--------------------------- MODULE StorageProofs ----------------------------
(***************************************************************************)
(* Proofs about the persistent storage, for every layout of the memory,    *)
(* every set of animations and any number of power failures.               *)
(***************************************************************************)
EXTENDS Storage, InductionLemmas, SequenceTheorems

-----------------------------------------------------------------------------
(* Pages and words.                                                        *)

\* first word of page p
Base(p) == p * PageWords

LEMMA Layout ==
  ASSUME NEW p \in Nat
  PROVE  /\ Base(p) \in Nat /\ Base(p + 1) = Base(p) + PageWords
         /\ p = 0 => Base(p) = 0
         /\ p > 0 => Base(p) >= PageWords
         /\ \A q \in Nat : p < q => Base(p) + PageWords <= Base(q)
<1>1. PageWords \in Nat
  BY FlashAssumption
<1>2. Base(p) \in Nat
  <2>1. \A x, y \in Nat : x * y \in Nat
    OBVIOUS
  <2> QED
    BY <1>1, <2>1 DEF Base
<1>3. Base(p + 1) = Base(p) + PageWords
  BY <1>1 DEF Base
<1>4. p = 0 => Base(p) = 0
  BY <1>1 DEF Base
<1>5. ASSUME NEW q \in Nat, p < q PROVE Base(p) + PageWords <= Base(q)
  <2>1. Base(p + 1) <= Base(q)
    BY <1>1, <1>5, ScaledOrder DEF Base
  <2> QED
    BY <1>3, <2>1
<1>6. ASSUME p > 0 PROVE Base(p) >= PageWords
  <2>1. 1 * PageWords <= p * PageWords
    BY <1>1, <1>6, ScaledOrder
  <2> QED
    BY <1>1, <2>1 DEF Base
<1> QED
  BY <1>2, <1>3, <1>4, <1>5, <1>6

\* the page of a word
LEMMA PageBounds ==
  ASSUME NEW i \in Nat
  PROVE  /\ PageOf(i) \in Nat
         /\ Base(PageOf(i)) <= i /\ i < Base(PageOf(i)) + PageWords
<1>1. \A a \in Nat, b \in Nat \ {0} :
        a \div b \in Nat /\ (a \div b) * b <= a /\ a < (a \div b) * b + b
  OBVIOUS
<1> QED
  BY <1>1, FlashAssumption DEF PageOf, Base

LEMMA PageOfWord ==
  ASSUME NEW i \in Nat, NEW p \in Nat
  PROVE  /\ PageOf(i) = p <=> Base(p) <= i /\ i < Base(p) + PageWords
         /\ PageOf(i) < p <=> i < Base(p)
<1> DEFINE q == PageOf(i)
<1>1. q \in Nat /\ Base(q) <= i /\ i < Base(q) + PageWords
  BY PageBounds
<1> HIDE DEF q
<1>2. Base(q) \in Nat /\ Base(p) \in Nat /\ PageWords \in Nat \ {0}
  BY <1>1, Layout, FlashAssumption
<1>3. q < p => Base(q) + PageWords <= Base(p)
  BY <1>1, Layout
<1>4. p < q => Base(p) + PageWords <= Base(q)
  BY <1>1, Layout
<1>5. q = p \/ q < p \/ p < q
  BY <1>1
<1>6. PageOf(i) = p <=> Base(p) <= i /\ i < Base(p) + PageWords
  BY <1>1, <1>2, <1>3, <1>4, <1>5 DEF q
<1>7. PageOf(i) < p <=> i < Base(p)
  BY <1>1, <1>2, <1>3, <1>4, <1>5 DEF q
<1> QED
  BY <1>6, <1>7

LEMMA WordsOfPage ==
  ASSUME NEW p \in Nat, p < Pages, NEW w \in 0..(PageWords - 1)
  PROVE  Base(p) + w \in Words /\ PageOf(Base(p) + w) = p
<1>1. Base(p) \in Nat /\ Base(p) + PageWords <= Base(Pages)
  BY Layout, FlashAssumption
<1>2. Base(Pages) \in Nat /\ PageWords \in Nat
  BY Layout, FlashAssumption
<1>3. Base(p) + w \in Nat /\ Base(p) + w <= Base(Pages) - 1
  BY <1>1, <1>2
<1>4. PageOf(Base(p) + w) = p
  BY <1>1, <1>2, <1>3, PageOfWord
<1> QED
  BY <1>2, <1>3, <1>4 DEF Words, Base

-----------------------------------------------------------------------------
(* The stream is a sequence of words.                                      *)

LEMMA FlattenPlaces ==
  ASSUME NEW S, NEW seqs \in Seq(Seq(S))
  PROVE  \E off \in [0..Len(seqs) -> Nat] :
           /\ off[0] = 0
           /\ \A m \in 1..Len(seqs) :
                /\ off[m] = off[m - 1] + Len(seqs[m])
                /\ \A j \in 1..Len(seqs[m]) :
                     /\ off[m - 1] + j \in 1..Len(FlattenSeq(seqs))
                     /\ FlattenSeq(seqs)[off[m - 1] + j] = seqs[m][j]
<1> DEFINE n == Len(seqs)
<1>1. PICK h \in [0..n -> Seq(S)] :
        /\ h[0] = << >> /\ h[n] = FlattenSeq(seqs)
        /\ \A m \in 1..n : h[m] = h[m - 1] \o seqs[m]
  BY FlattenStages
<1>2. n \in Nat /\ \A m \in 1..n : seqs[m] \in Seq(S) /\ Len(seqs[m]) \in Nat
  BY LenProperties, ElementOfSeq
<1>3. \A m \in 0..n : h[m] \in Seq(S) /\ Len(h[m]) \in Nat
  BY <1>1, LenProperties
<1> HIDE DEF n
<1> DEFINE off == [m \in 0..n |-> Len(h[m])]
<1>4. off \in [0..n -> Nat] /\ (\A m \in 0..n : off[m] = Len(h[m])) /\ off[0] = 0
  <2>1. off \in [0..n -> Nat] /\ \A m \in 0..n : off[m] = Len(h[m])
    BY <1>3
  <2>2. 0 \in 0..n /\ Len(<< >>) = 0
    BY <1>2, EmptySeq
  <2> HIDE DEF off
  <2> QED
    BY <1>1, <2>1, <2>2
<1> HIDE DEF off
<1>5. ASSUME NEW m \in 1..n
      PROVE  /\ off[m] = off[m - 1] + Len(seqs[m])
             /\ \A x \in 1..off[m - 1] : h[m][x] = h[m - 1][x]
             /\ \A j \in 1..Len(seqs[m]) : h[m][off[m - 1] + j] = seqs[m][j]
  <2>1. m - 1 \in 0..n /\ m \in 0..n
    BY <1>2
  <2>2. /\ h[m - 1] \in Seq(S) /\ seqs[m] \in Seq(S) /\ h[m] = h[m - 1] \o seqs[m]
        /\ Len(h[m - 1]) \in Nat /\ Len(seqs[m]) \in Nat
        /\ off[m] = Len(h[m]) /\ off[m - 1] = Len(h[m - 1])
    BY <1>1, <1>2, <1>3, <1>4, <2>1
  <2> DEFINE p == h[m - 1]
             s == seqs[m]
             q == h[m]
  <2>4. p \in Seq(S) /\ s \in Seq(S) /\ q = p \o s /\ Len(p) \in Nat /\ Len(s) \in Nat
        /\ off[m] = Len(q) /\ off[m - 1] = Len(p)
    BY <2>2
  <2> HIDE DEF p, s, q
  <2>3. /\ Len(q) = Len(p) + Len(s)
        /\ \A x \in 1..(Len(p) + Len(s)) :
             q[x] = IF x <= Len(p) THEN p[x] ELSE s[x - Len(p)]
    BY <2>4, ConcatProperties
  <2>5. Len(p) \in Nat /\ Len(s) \in Nat /\ off[m - 1] = Len(p) /\ off[m] = Len(p) + Len(s)
    BY <2>3, <2>4
  <2>6. ASSUME NEW x \in 1..Len(p) PROVE q[x] = p[x]
    <3>1. x \in 1..(Len(p) + Len(s)) /\ x <= Len(p)
      BY <2>5
    <3> QED
      BY <2>3, <3>1
  <2>7. ASSUME NEW j \in 1..Len(s) PROVE q[Len(p) + j] = s[j]
    <3>1. Len(p) + j \in 1..(Len(p) + Len(s)) /\ ~(Len(p) + j <= Len(p)) /\ Len(p) + j - Len(p) = j
      BY <2>5
    <3> QED
      BY <2>3, <3>1
  <2> QED
    BY <2>5, <2>6, <2>7 DEF p, s, q
<1> DEFINE T == {k \in Nat : k <= n =>
                   \A m \in 1..k : \A j \in 1..Len(seqs[m]) :
                     /\ off[m - 1] + j \in 1..off[k]
                     /\ h[k][off[m - 1] + j] = seqs[m][j]}
<1>6. 0 \in T
  OBVIOUS
<1>7. ASSUME NEW k \in Nat, k \in T PROVE k + 1 \in T
  <2> SUFFICES ASSUME k + 1 <= n, NEW m \in 1..(k + 1), NEW j \in 1..Len(seqs[m])
               PROVE  /\ off[m - 1] + j \in 1..off[k + 1]
                      /\ h[k + 1][off[m - 1] + j] = seqs[m][j]
    OBVIOUS
  <2>1. k + 1 \in 1..n /\ k + 1 - 1 = k /\ m \in 1..n
    BY <1>2
  <2>2. off[k] \in Nat /\ off[m - 1] \in Nat /\ Len(seqs[k + 1]) \in Nat /\ Len(seqs[m]) \in Nat
    <3>1. k \in 0..n /\ m - 1 \in 0..n
      BY <1>2, <2>1
    <3> QED
      BY <1>2, <1>4, <2>1, <3>1
  <2>3. off[k + 1] = off[k] + Len(seqs[k + 1])
    BY <1>5, <2>1
  <2>4. CASE m = k + 1
    <3>1. h[k + 1][off[k] + j] = seqs[k + 1][j]
      BY <1>5, <2>1, <2>4
    <3>2. off[k] + j \in 1..off[k + 1]
      BY <2>2, <2>3, <2>4
    <3> QED
      BY <2>1, <2>4, <3>1, <3>2
  <2>5. CASE m # k + 1
    <3>1. m \in 1..k /\ k <= n
      BY <1>2, <2>1, <2>5
    <3>2. off[m - 1] + j \in 1..off[k] /\ h[k][off[m - 1] + j] = seqs[m][j]
      BY <1>7, <3>1
    <3>3. h[k + 1][off[m - 1] + j] = h[k][off[m - 1] + j]
      BY <1>5, <2>1, <3>2
    <3>4. off[m - 1] + j \in 1..off[k + 1]
      <4> DEFINE y == off[m - 1] + j
                 u == off[k]
                 v == Len(seqs[k + 1])
      <4>1. y \in 1..u /\ u \in Nat /\ v \in Nat /\ off[k + 1] = u + v
        BY <2>2, <2>3, <3>2
      <4> HIDE DEF y, u, v
      <4>2. y \in 1..(u + v)
        BY <4>1
      <4> QED
        BY <4>1, <4>2 DEF y
    <3> QED
      BY <3>2, <3>3, <3>4
  <2> QED
    BY <2>4, <2>5
<1>8. n \in T
  <2> HIDE DEF T
  <2>1. Nat \subseteq T
    BY <1>6, <1>7, SetInduction
  <2> QED
    BY <1>2, <2>1
<1>9. off[n] = Len(FlattenSeq(seqs))
  <2>1. n \in 0..n
    BY <1>2
  <2> QED
    BY <1>1, <1>4, <2>1
<1>10. \A m \in 1..n : \A j \in 1..Len(seqs[m]) :
         /\ off[m - 1] + j \in 1..Len(FlattenSeq(seqs))
         /\ FlattenSeq(seqs)[off[m - 1] + j] = seqs[m][j]
  <2>1. \A m \in 1..n : \A j \in 1..Len(seqs[m]) :
          off[m - 1] + j \in 1..off[n] /\ h[n][off[m - 1] + j] = seqs[m][j]
    <3>1. n <= n
      BY <1>2
    <3> QED
      BY <1>8, <3>1, Zenon
  <2> HIDE DEF T
  <2> QED
    BY <1>1, <1>9, <2>1
<1>11. \A m \in 1..n : off[m] = off[m - 1] + Len(seqs[m])
  BY <1>5
<1> QED
  BY <1>4, <1>10, <1>11 DEF n

\* what the memory can hold
Numbers == {"length", "task", "step", "rate"} \X (Nat \union Rates)
WordType == Numbers \union {ErasedWord, Unknown, Mixed}

\* a stream begins with its only word of this kind
IsLength(w) == w[1] = "length"

LEMMA OtherWords ==
  /\ ~IsLength(ErasedWord) /\ ~IsLength(Unknown) /\ ~IsLength(Mixed)
  /\ \A n : ~IsLength(<<"task", n>>) /\ ~IsLength(<<"step", n>>) /\ ~IsLength(<<"rate", n>>)
BY DEF IsLength, ErasedWord, Unknown, Mixed

LEMMA OneWord ==
  ASSUME NEW S, NEW x \in S
  PROVE  <<x>> \in Seq(S) /\ Len(<<x>>) = 1
OBVIOUS

LEMMA StreamType ==
  ASSUME NEW a \in Animations
  PROVE  /\ toStream(a) \in Seq(Numbers)
         /\ Len(toStream(a)) \in Nat \ {0}
         /\ \A k \in 1..Len(toStream(a)) : IsLength(toStream(a)[k]) => k = 1
<1> DEFINE Other == {w \in Numbers : ~IsLength(w)}
           block(k) == <<<<"task", Len(a[k])>>>> \o [j \in DOMAIN a[k] |-> <<"step", a[k][j]>>]
           blocks == [k \in DOMAIN a |-> block(k)]
           head == <<<<"length", Len(a)>>>>
<1>1. a \in Seq(Seq(Nat)) /\ Len(a) \in Nat /\ DOMAIN a = 1..Len(a)
  BY FlashAssumption, LenProperties
<1>2. ASSUME NEW k \in 1..Len(a) PROVE block(k) \in Seq(Other)
  <2>1. a[k] \in Seq(Nat) /\ Len(a[k]) \in Nat /\ DOMAIN a[k] = 1..Len(a[k])
    BY <1>1, ElementOfSeq, LenProperties
  <2>2. \A n \in Nat : <<"task", n>> \in Other /\ <<"step", n>> \in Other
    <3>1. ASSUME NEW n \in Nat PROVE <<"task", n>> \in Numbers /\ <<"step", n>> \in Numbers
      BY DEF Numbers
    <3> QED
      BY <3>1, OtherWords
  <2>3. \A j \in 1..Len(a[k]) : a[k][j] \in Nat
    BY <2>1, ElementOfSeq
  <2> HIDE DEF Other
  <2>4. [j \in 1..Len(a[k]) |-> <<"step", a[k][j]>>] \in Seq(Other)
    <3>1. [j \in 1..Len(a[k]) |-> <<"step", a[k][j]>>] \in [1..Len(a[k]) -> Other]
      BY <2>2, <2>3
    <3>2. \A n \in Nat : \A f \in [1..n -> Other] : f \in Seq(Other)
      OBVIOUS
    <3> QED
      BY <2>1, <3>1, <3>2
  <2>5. <<<<"task", Len(a[k])>>>> \in Seq(Other)
    BY <2>1, <2>2, OneWord
  <2> QED
    BY <2>1, <2>4, <2>5, ConcatProperties
<1>3. blocks \in Seq(Seq(Other))
  <2> HIDE DEF block, Other
  <2> QED
    BY <1>1, <1>2
<1>4. toStream(a) = head \o FlattenSeq(blocks)
  BY DEF toStream
<1> DEFINE rest == FlattenSeq(blocks)
<1>5. rest \in Seq(Other) /\ Len(rest) \in Nat
  <2> HIDE DEF blocks, Other
  <2> QED
    BY <1>3, FlattenType, LenProperties
<1> HIDE DEF rest
<1>6. rest \in Seq(Numbers)
  BY <1>5
<1>7. head \in Seq(Numbers) /\ Len(head) = 1
  <2>1. <<"length", Len(a)>> \in Numbers
    BY <1>1 DEF Numbers
  <2> QED
    BY <2>1, OneWord
<1> HIDE DEF head
<1>8. /\ head \o rest \in Seq(Numbers) /\ Len(head \o rest) = 1 + Len(rest)
      /\ \A k \in 1..(1 + Len(rest)) : k # 1 => (head \o rest)[k] = rest[k - 1]
  <2>1. /\ head \o rest \in Seq(Numbers) /\ Len(head \o rest) = 1 + Len(rest)
        /\ \A k \in 1..(1 + Len(rest)) :
             (head \o rest)[k] = IF k <= 1 THEN head[k] ELSE rest[k - 1]
    <3>1. /\ head \o rest \in Seq(Numbers) /\ Len(head \o rest) = Len(head) + Len(rest)
          /\ \A k \in 1..(Len(head) + Len(rest)) :
               (head \o rest)[k] = IF k <= Len(head) THEN head[k] ELSE rest[k - Len(head)]
      BY <1>6, <1>7, ConcatProperties
    <3> QED
      BY <1>7, <3>1
  <2>2. \A k \in 1..(1 + Len(rest)) : k # 1 => ~(k <= 1)
    BY <1>5
  <2> QED
    BY <2>1, <2>2
<1>9. \A k \in 1..Len(rest) : ~IsLength(rest[k])
  BY <1>5, ElementOfSeq
<1>10. ASSUME NEW k \in 1..(1 + Len(rest)), k # 1 PROVE ~IsLength((head \o rest)[k])
  <2>1. k - 1 \in 1..Len(rest)
    BY <1>5, <1>10
  <2> QED
    BY <1>8, <1>9, <1>10, <2>1
<1> DEFINE stream == head \o rest
<1>11. stream \in Seq(Numbers) /\ Len(stream) = 1 + Len(rest)
  BY <1>8
<1>12. \A k \in 1..Len(stream) : IsLength(stream[k]) => k = 1
  BY <1>8, <1>10
<1>13. toStream(a) = stream
  BY <1>4 DEF rest
<1> HIDE DEF stream
<1>14. Len(stream) \in Nat \ {0}
  BY <1>5, <1>11
<1> QED
  BY <1>11, <1>12, <1>13, <1>14

-----------------------------------------------------------------------------
(* Reading a stream back.                                                  *)

Block(task) == <<<<"task", Len(task)>>>> \o [j \in DOMAIN task |-> <<"step", task[j]>>]
Blocks(a) == [k \in DOMAIN a |-> Block(a[k])]

LEMMA BlockIs ==
  ASSUME NEW task \in Seq(Nat)
  PROVE  /\ Block(task) \in Seq(Numbers) /\ Len(Block(task)) = 1 + Len(task)
         /\ Block(task)[1] = <<"task", Len(task)>>
         /\ \A j \in 1..Len(task) : Block(task)[1 + j] = <<"step", task[j]>>
<1> DEFINE head == <<<<"task", Len(task)>>>>
           steps == [j \in DOMAIN task |-> <<"step", task[j]>>]
           n == Len(task)
<1>1. n \in Nat /\ DOMAIN task = 1..n /\ \A j \in 1..n : task[j] \in Nat
  BY LenProperties, ElementOfSeq
<1> HIDE DEF n
<1>2. head \in Seq(Numbers) /\ Len(head) = 1 /\ head[1] = <<"task", n>>
  <2>1. <<"task", n>> \in Numbers
    BY <1>1 DEF Numbers
  <2> QED
    BY <2>1, OneWord DEF n
<1>3. steps \in Seq(Numbers) /\ Len(steps) = n /\ \A j \in 1..n : steps[j] = <<"step", task[j]>>
  <2>1. \A j \in 1..n : <<"step", task[j]>> \in Numbers
    BY <1>1 DEF Numbers
  <2>2. steps \in [1..n -> Numbers] /\ \A j \in 1..n : steps[j] = <<"step", task[j]>>
    BY <1>1, <2>1
  <2> HIDE DEF steps
  <2>3. steps \in Seq(Numbers)
    BY <1>1, <2>2
  <2> QED
    BY <1>1, <2>2, <2>3, LenProperties
<1>4. Block(task) = head \o steps
  BY DEF Block
<1> HIDE DEF head, steps
<1>5. /\ head \o steps \in Seq(Numbers) /\ Len(head \o steps) = 1 + n
      /\ \A x \in 1..(1 + n) : (head \o steps)[x] = IF x <= 1 THEN head[x] ELSE steps[x - 1]
  <2>1. /\ head \o steps \in Seq(Numbers) /\ Len(head \o steps) = Len(head) + Len(steps)
        /\ \A x \in 1..(Len(head) + Len(steps)) :
             (head \o steps)[x] = IF x <= Len(head) THEN head[x] ELSE steps[x - Len(head)]
    BY <1>2, <1>3, ConcatProperties
  <2> QED
    BY <1>2, <1>3, <2>1
<1> DEFINE b == head \o steps
<1>6. b \in Seq(Numbers) /\ Len(b) = 1 + n
      /\ \A x \in 1..(1 + n) : b[x] = IF x <= 1 THEN head[x] ELSE steps[x - 1]
  BY <1>5
<1>7. Block(task) = b
  BY <1>4
<1> HIDE DEF b
<1>8. b[1] = <<"task", n>>
  BY <1>1, <1>2, <1>6
<1>9. ASSUME NEW j \in 1..n PROVE b[1 + j] = <<"step", task[j]>>
  <2>1. 1 + j \in 1..(1 + n) /\ ~(1 + j <= 1) /\ 1 + j - 1 = j
    BY <1>1
  <2> QED
    BY <1>3, <1>6, <2>1
<1> QED
  BY <1>6, <1>7, <1>8, <1>9 DEF n

\* what a stream consists of, and where
LEMMA StreamIs ==
  ASSUME NEW a \in Animations
  PROVE  /\ Len(a) \in Nat /\ a \in [1..Len(a) -> Seq(Nat)]
         /\ 1 \in 1..Len(toStream(a)) /\ toStream(a)[1] = <<"length", Len(a)>>
         /\ \E off \in [0..Len(a) -> Nat] :
              /\ off[0] = 0
              /\ \A m \in 1..Len(a) :
                   /\ off[m] = off[m - 1] + 1 + Len(a[m])
                   /\ off[m - 1] + 2 \in 1..Len(toStream(a))
                   /\ toStream(a)[off[m - 1] + 2] = <<"task", Len(a[m])>>
                   /\ \A j \in 1..Len(a[m]) :
                        /\ off[m - 1] + 2 + j \in 1..Len(toStream(a))
                        /\ toStream(a)[off[m - 1] + 2 + j] = <<"step", a[m][j]>>
<1> DEFINE n == Len(a)
           head == <<<<"length", Len(a)>>>>
           blocks == Blocks(a)
           rest == FlattenSeq(blocks)
           stream == toStream(a)
<1>1. a \in Seq(Seq(Nat)) /\ n \in Nat /\ DOMAIN a = 1..n /\ a \in [1..n -> Seq(Nat)]
      /\ \A m \in 1..n : a[m] \in Seq(Nat) /\ Len(a[m]) \in Nat
  BY FlashAssumption, LenProperties, ElementOfSeq
<1>2. stream = head \o rest
  BY DEF toStream, Blocks, Block
<1>3. head \in Seq(Numbers) /\ Len(head) = 1 /\ head[1] = <<"length", n>>
  <2>1. <<"length", n>> \in Numbers
    BY <1>1 DEF Numbers
  <2> QED
    BY <2>1, OneWord
<1> HIDE DEF n, head
<1>4. blocks \in Seq(Seq(Numbers)) /\ Len(blocks) = n /\ \A m \in 1..n : blocks[m] = Block(a[m])
  <2>1. \A m \in 1..n : Block(a[m]) \in Seq(Numbers)
    BY <1>1, BlockIs
  <2>2. blocks \in [1..n -> Seq(Numbers)] /\ \A m \in 1..n : blocks[m] = Block(a[m])
    BY <1>1, <2>1 DEF Blocks
  <2> HIDE DEF blocks
  <2>3. blocks \in Seq(Seq(Numbers))
    BY <1>1, <2>2
  <2> QED
    BY <1>1, <2>2, <2>3, LenProperties
<1> HIDE DEF blocks
<1>5. rest \in Seq(Numbers) /\ Len(rest) \in Nat
  BY <1>4, FlattenType, LenProperties
<1>6. PICK off \in [0..n -> Nat] :
        /\ off[0] = 0
        /\ \A m \in 1..n :
             /\ off[m] = off[m - 1] + Len(blocks[m])
             /\ \A j \in 1..Len(blocks[m]) :
                  /\ off[m - 1] + j \in 1..Len(rest)
                  /\ rest[off[m - 1] + j] = blocks[m][j]
  <2>1. \E off \in [0..Len(blocks) -> Nat] :
          /\ off[0] = 0
          /\ \A m \in 1..Len(blocks) :
               /\ off[m] = off[m - 1] + Len(blocks[m])
               /\ \A j \in 1..Len(blocks[m]) :
                    /\ off[m - 1] + j \in 1..Len(rest)
                    /\ rest[off[m - 1] + j] = blocks[m][j]
    BY <1>4, FlattenPlaces, Zenon
  <2> HIDE DEF rest
  <2> QED
    BY <1>4, <2>1
<1> HIDE DEF rest, stream
<1>7. /\ Len(stream) = 1 + Len(rest) /\ stream[1] = head[1]
      /\ \A x \in 1..Len(rest) : x + 1 \in 1..Len(stream) /\ stream[x + 1] = rest[x]
  <2>1. /\ Len(stream) = 1 + Len(rest)
        /\ \A x \in 1..(1 + Len(rest)) : stream[x] = IF x <= 1 THEN head[x] ELSE rest[x - 1]
    <3>1. /\ Len(head \o rest) = Len(head) + Len(rest)
          /\ \A x \in 1..(Len(head) + Len(rest)) :
               (head \o rest)[x] = IF x <= Len(head) THEN head[x] ELSE rest[x - Len(head)]
      BY <1>3, <1>5, ConcatProperties
    <3> QED
      BY <1>2, <1>3, <3>1
  <2>2. ASSUME NEW x \in 1..Len(rest) PROVE x + 1 \in 1..Len(stream) /\ stream[x + 1] = rest[x]
    <3>1. x + 1 \in 1..(1 + Len(rest)) /\ ~(x + 1 <= 1) /\ x + 1 - 1 = x
      BY <1>5
    <3> QED
      BY <2>1, <3>1
  <2>3. 1 \in 1..(1 + Len(rest))
    BY <1>5
  <2> QED
    BY <2>1, <2>2, <2>3
<1>8. ASSUME NEW m \in 1..n
      PROVE  /\ off[m] = off[m - 1] + 1 + Len(a[m])
             /\ off[m - 1] + 2 \in 1..Len(stream)
             /\ stream[off[m - 1] + 2] = <<"task", Len(a[m])>>
             /\ \A j \in 1..Len(a[m]) :
                  /\ off[m - 1] + 2 + j \in 1..Len(stream)
                  /\ stream[off[m - 1] + 2 + j] = <<"step", a[m][j]>>
  <2> DEFINE o == off[m - 1]
             b == blocks[m]
             l == Len(a[m])
  <2>1. /\ Len(b) = 1 + l /\ b[1] = <<"task", l>>
        /\ \A j \in 1..l : b[1 + j] = <<"step", a[m][j]>>
    BY <1>1, <1>4, BlockIs
  <2>2. l \in Nat /\ o \in Nat
    <3>1. m - 1 \in 0..n
      BY <1>1
    <3> QED
      BY <1>1, <1>6, <3>1
  <2>3. /\ off[m] = o + Len(b)
        /\ \A j \in 1..Len(b) : o + j \in 1..Len(rest) /\ rest[o + j] = b[j]
    BY <1>6
  <2>4. a[m] = a[m] /\ o = off[m - 1] /\ l = Len(a[m])
    OBVIOUS
  <2> HIDE DEF o, b, l
  <2>5. off[m] = o + 1 + l
    BY <2>1, <2>2, <2>3
  <2>6. ASSUME NEW j \in 1..(1 + l)
        PROVE  o + 1 + j \in 1..Len(stream) /\ stream[o + 1 + j] = b[j]
    <3>1. o + j \in 1..Len(rest) /\ rest[o + j] = b[j]
      BY <2>1, <2>3
    <3>2. o + j + 1 = o + 1 + j
      BY <2>2
    <3>3. o + j + 1 \in 1..Len(stream) /\ stream[o + j + 1] = rest[o + j]
      BY <1>7, <3>1
    <3> QED
      BY <3>1, <3>2, <3>3
  <2>7. o + 2 \in 1..Len(stream) /\ stream[o + 2] = <<"task", l>>
    <3>1. 1 \in 1..(1 + l) /\ o + 1 + 1 = o + 2
      BY <2>2
    <3>2. o + 1 + 1 \in 1..Len(stream) /\ stream[o + 1 + 1] = b[1]
      BY <2>6, <3>1
    <3> QED
      BY <2>1, <3>1, <3>2
  <2>8. ASSUME NEW j \in 1..l
        PROVE  o + 2 + j \in 1..Len(stream) /\ stream[o + 2 + j] = <<"step", a[m][j]>>
    <3> DEFINE i == 1 + j
    <3>1. i \in 1..(1 + l) /\ o + 1 + i = o + 2 + j
      BY <2>2
    <3>2. b[i] = <<"step", a[m][j]>>
      BY <2>1
    <3> HIDE DEF i
    <3>3. o + 1 + i \in 1..Len(stream) /\ stream[o + 1 + i] = b[i]
      BY <2>6, <3>1
    <3> QED
      BY <3>1, <3>2, <3>3
  <2> QED
    BY <2>4, <2>5, <2>7, <2>8
<1>9. 1 \in 1..Len(stream)
  BY <1>5, <1>7
<1> QED
  BY <1>1, <1>3, <1>6, <1>7, <1>8, <1>9 DEF n, stream

ReadBody(at, g, k) ==
  IF k = 0 THEN [at |-> at + 1, valid |-> TRUE, tasks |-> << >>] ELSE ReadTask(g[k - 1])
IsRead(at, g, p) == g = [k \in 0..p |-> ReadBody(at, g, k)]

LEMMA ReadExists == \A at : \A p \in Nat : \E g : IsRead(at, g, p)
<1> SUFFICES ASSUME NEW at PROVE \A p \in Nat : \E g : IsRead(at, g, p)
  OBVIOUS
<1> DEFINE S == {p \in Nat : \E g : IsRead(at, g, p)}
<1>1. 0 \in S
  <2> DEFINE e == [at |-> at + 1, valid |-> TRUE, tasks |-> << >>]
             g == [c \in 0..0 |-> e]
  <2>1. \A c \in 0..0 : ReadBody(at, g, c) = e
    <3> HIDE DEF g
    <3> QED
      BY DEF ReadBody
  <2> HIDE DEF e
  <2>2. g = [c \in 0..0 |-> ReadBody(at, g, c)]
    BY <2>1
  <2> HIDE DEF g
  <2>3. IsRead(at, g, 0)
    BY <2>2 DEF IsRead
  <2> QED
    BY <2>3
<1>2. ASSUME NEW p \in Nat, p \in S PROVE p + 1 \in S
  <2>1. PICK g : IsRead(at, g, p)
    BY <1>2
  <2> DEFINE h == [c \in 0..(p + 1) |-> ReadBody(at, g, c)]
  <2>2. ASSUME NEW c \in 0..p PROVE h[c] = g[c]
    <3>1. c \in 0..(p + 1)
      OBVIOUS
    <3> DEFINE f == [k \in 0..p |-> ReadBody(at, g, k)]
    <3>2. f[c] = ReadBody(at, g, c)
      OBVIOUS
    <3> HIDE DEF f
    <3>3. g = f
      BY <2>1, Zenon DEF f, IsRead
    <3> QED
      BY <3>1, <3>2, <3>3
  <2>3. ASSUME NEW c \in 0..(p + 1) PROVE ReadBody(at, g, c) = ReadBody(at, h, c)
    <3>1. CASE c = 0
      BY <3>1, Zenon DEF ReadBody
    <3>2. CASE c # 0
      <4>1. c - 1 \in 0..p
        BY <3>2
      <4>2. h[c - 1] = g[c - 1]
        BY <2>2, <4>1
      <4> HIDE DEF h
      <4> QED
        BY <4>2, Zenon DEF ReadBody
    <3> QED
      BY <3>1, <3>2
  <2>4. h = [c \in 0..(p + 1) |-> ReadBody(at, h, c)]
    BY <2>3
  <2>5. IsRead(at, h, p + 1)
    BY <2>4 DEF IsRead
  <2> HIDE DEF h
  <2> QED
    BY <2>5
<1>3. Nat \subseteq S
  <2> HIDE DEF S
  <2> QED
    BY <1>1, <1>2, SetInduction
<1> QED
  BY <1>3

\* one task is read
LEMMA ReadTaskIs ==
  ASSUME NEW x, NEW done, NEW task \in Seq(Nat),
         Read(x) = <<"task", Len(task)>>,
         \A j \in 1..Len(task) : Read(x + j) = <<"step", task[j]>>
  PROVE  ReadTask([at |-> x, valid |-> TRUE, tasks |-> done]) =
           [at |-> x + 1 + Len(task), valid |-> TRUE, tasks |-> Append(done, task)]
<1> DEFINE n == Len(task)
           from == [at |-> x, valid |-> TRUE, tasks |-> done]
           steps == [j \in 1..Read(x)[2] |-> Read(x + j)]
<1>1. n \in Nat /\ task = [j \in 1..n |-> task[j]]
  <2>1. n \in Nat /\ DOMAIN task = 1..n /\ task \in [1..n -> Nat]
    BY LenProperties
  <2> QED
    BY <2>1
<1>2. Read(x)[1] = "task" /\ Read(x)[2] = n
  BY DEF n
<1> HIDE DEF n
<1>3. DOMAIN steps = 1..n /\ \A j \in 1..n : steps[j] = <<"step", task[j]>>
  BY <1>2 DEF n
<1>4. from.at = x /\ from.valid = TRUE /\ from.tasks = done
  OBVIOUS
<1>5. ReadTask(from) =
        IF from.valid /\ Read(x)[1] = "task" /\ \A j \in DOMAIN steps : steps[j][1] = "step"
          THEN [at |-> x + 1 + Read(x)[2], valid |-> TRUE,
                tasks |-> Append(done, [j \in DOMAIN steps |-> steps[j][2]])]
          ELSE [from EXCEPT !.valid = FALSE]
  BY <1>4 DEF ReadTask
<1> HIDE DEF steps, from
<1>6. \A j \in 1..n : steps[j][1] = "step" /\ steps[j][2] = task[j]
  BY <1>3
<1>7. [j \in DOMAIN steps |-> steps[j][2]] = task
  <2>1. [j \in 1..n |-> steps[j][2]] = [j \in 1..n |-> task[j]]
    BY <1>6
  <2> QED
    BY <1>1, <1>3, <2>1
<1>8. ReadTask(from) = [at |-> x + 1 + n, valid |-> TRUE, tasks |-> Append(done, task)]
  BY <1>2, <1>3, <1>4, <1>5, <1>6, <1>7
<1> QED
  BY <1>8 DEF from, n

Holds(at, words) == \A k \in 0..(Len(words) - 1) : Read(at + k) = words[k + 1]

LEMMA SameTuple ==
  ASSUME NEW S, NEW m \in Nat, NEW f \in [1..m -> S], NEW h \in [1..m -> S],
         \A i \in 1..m : f[i] = h[i]
  PROVE  f = h
OBVIOUS

LEMMA Shifted ==
  ASSUME NEW at \in Nat, NEW o \in Nat, NEW j \in Nat
  PROVE  at + ((o + 2) - 1) = at + 1 + o /\ at + ((o + 2 + j) - 1) = (at + 1 + o) + j
OBVIOUS

\* fromStream is the inverse of toStream, wherever the stream is
LEMMA ReadsBack ==
  ASSUME NEW a \in Animations, NEW at \in Nat, Holds(at, toStream(a))
  PROVE  fromStream(at) = a
<1> DEFINE n == Len(a)
           size == Len(toStream(a))
           stream == toStream(a)
           g == CHOOSE f : IsRead(at, f, n)
           Q(k) == [i \in 1..k |-> a[i]]
<1>1. n \in Nat /\ a \in [1..n -> Seq(Nat)] /\ size \in Nat
  BY StreamIs, StreamType
<1>2. PICK off \in [0..n -> Nat] :
        /\ off[0] = 0
        /\ \A m \in 1..n :
             /\ off[m] = off[m - 1] + 1 + Len(a[m])
             /\ off[m - 1] + 2 \in 1..size
             /\ stream[off[m - 1] + 2] = <<"task", Len(a[m])>>
             /\ \A j \in 1..Len(a[m]) :
                  /\ off[m - 1] + 2 + j \in 1..size
                  /\ stream[off[m - 1] + 2 + j] = <<"step", a[m][j]>>
  BY StreamIs
<1>3. 1 \in 1..size /\ stream[1] = <<"length", n>>
  BY StreamIs
<1>4. fromStream(at) =
        IF Read(at)[1] = "length"
           /\ (CHOOSE f : IsRead(at, f, Read(at)[2]))[Read(at)[2]].valid
          THEN (CHOOSE f : IsRead(at, f, Read(at)[2]))[Read(at)[2]].tasks ELSE Garbage
  BY DEF fromStream, IsRead, ReadBody
<1>5. IsRead(at, g, n)
  BY <1>1, ReadExists
<1>6. ASSUME NEW x \in 1..size PROVE Read(at + (x - 1)) = stream[x]
  <2>1. x - 1 \in 0..(size - 1) /\ x - 1 + 1 = x
    BY <1>1
  <2> DEFINE k == x - 1
  <2>2. Read(at + k) = stream[k + 1]
    BY <2>1 DEF Holds
  <2> QED
    BY <2>1, <2>2
<1> HIDE DEF n, size, stream, g
<1>7. Read(at) = <<"length", n>>
  <2>1. 1 - 1 = 0 /\ at + 0 = at
    OBVIOUS
  <2>2. Read(at + (1 - 1)) = stream[1]
    BY <1>3, <1>6, Zenon
  <2> QED
    BY <1>3, <2>1, <2>2
<1>8. Read(at)[1] = "length" /\ Read(at)[2] = n
  BY <1>7
<1>9. fromStream(at) = IF g[n].valid THEN g[n].tasks ELSE Garbage
  BY <1>4, <1>8 DEF g
<1>10. ASSUME NEW k \in 0..n PROVE g[k] = ReadBody(at, g, k)
  <2> DEFINE f == [c \in 0..n |-> ReadBody(at, g, c)]
  <2>1. f[k] = ReadBody(at, g, k)
    OBVIOUS
  <2> HIDE DEF f
  <2>2. g = f
    BY <1>5, Zenon DEF f, IsRead
  <2> QED
    BY <2>1, <2>2
<1> DEFINE State(k) == [at |-> at + 1 + off[k], valid |-> TRUE, tasks |-> Q(k)]
           T == {k \in Nat : k <= n => g[k] = State(k)}
<1>11. 0 \in T
  <2>1. Q(0) = << >>
    OBVIOUS
  <2>2. g[0] = [at |-> at + 1, valid |-> TRUE, tasks |-> << >>]
    <3>1. 0 \in 0..n
      BY <1>1
    <3>2. g[0] = ReadBody(at, g, 0)
      BY <1>10, <3>1
    <3> QED
      BY <3>2 DEF ReadBody
  <2>3. at + 1 + off[0] = at + 1
    BY <1>2
  <2>4. State(0) = [at |-> at + 1, valid |-> TRUE, tasks |-> << >>]
    <3> HIDE DEF Q
    <3> QED
      BY <2>1, <2>3
  <2> HIDE DEF State
  <2> QED
    BY <2>2, <2>4
<1>12. ASSUME NEW k \in Nat, k \in T PROVE k + 1 \in T
  <2> SUFFICES ASSUME k + 1 <= n PROVE g[k + 1] = State(k + 1)
    OBVIOUS
  <2> DEFINE m == k + 1
             x == at + 1 + off[k]
             task == a[m]
  <2>1. m \in 1..n /\ m \in 0..n /\ m - 1 = k /\ m # 0 /\ k \in 0..n /\ k <= n
    BY <1>1
  <2>2. off[k] \in Nat /\ task \in Seq(Nat) /\ Len(task) \in Nat
    <3>1. off[k] \in Nat /\ task \in Seq(Nat)
      BY <1>1, <1>2, <2>1
    <3> HIDE DEF task
    <3> QED
      BY <3>1, LenProperties
  <2>3. g[k] = [at |-> x, valid |-> TRUE, tasks |-> Q(k)]
    <3> HIDE DEF Q
    <3> QED
      BY <1>12, <2>1
  <2>4. /\ off[m] = off[k] + 1 + Len(task)
        /\ off[k] + 2 \in 1..size /\ stream[off[k] + 2] = <<"task", Len(task)>>
        /\ \A j \in 1..Len(task) :
             off[k] + 2 + j \in 1..size /\ stream[off[k] + 2 + j] = <<"step", task[j]>>
    <3> HIDE DEF m
    <3> QED
      BY <1>2, <2>1
  <2>5. Q(m) = Append(Q(k), task)
    <3>1. Q(k) \in [1..k -> Seq(Nat)]
      BY <1>1, <2>1
    <3>2. Q(k) \in Seq(Seq(Nat)) /\ Len(Q(k)) = k
      BY <3>1
    <3>3. \A i \in 1..k : Q(k)[i] = a[i]
      OBVIOUS
    <3>4. Q(m) \in [1..m -> Seq(Nat)] /\ \A i \in 1..m : Q(m)[i] = a[i]
      BY <1>1, <2>1
    <3> DEFINE q == Q(k)
               p == Append(q, task)
    <3> HIDE DEF q, Q, task
    <3>5. q \in Seq(Seq(Nat)) /\ Len(q) = k /\ \A i \in 1..k : q[i] = a[i]
      BY <3>2, <3>3 DEF q
    <3>6. p \in Seq(Seq(Nat)) /\ Len(p) = k + 1
          /\ (\A i \in 1..k : p[i] = q[i]) /\ p[k + 1] = task
      BY <2>2, <3>5, AppendProperties
    <3> HIDE DEF p
    <3>7. p \in [1..m -> Seq(Nat)]
      BY <3>6
    <3>8. ASSUME NEW i \in 1..m PROVE p[i] = a[i]
      <4>1. i \in 1..k \/ i = k + 1
        OBVIOUS
      <4> QED
        BY <3>5, <3>6, <4>1 DEF task
    <3>9. m \in Nat
      OBVIOUS
    <3> HIDE DEF m
    <3>10. \A i \in 1..m : Q(m)[i] = p[i]
      BY <3>4, <3>8
    <3>11. Q(m) = p
      BY <3>4, <3>7, <3>9, <3>10, SameTuple
    <3> QED
      BY <3>11 DEF p, q
  <2>6. g[m] = ReadTask(g[k])
    BY <1>10, <2>1 DEF ReadBody
  <2> HIDE DEF m, task, Q
  <2>7. Read(x) = <<"task", Len(task)>>
    <3> DEFINE y == off[k] + 2
    <3>1. at + (y - 1) = x
      BY <2>2, Shifted
    <3>2. y \in 1..size /\ stream[y] = <<"task", Len(task)>>
      BY <2>4
    <3> HIDE DEF y, x
    <3> QED
      BY <1>6, <3>1, <3>2
  <2>8. ASSUME NEW j \in 1..Len(task) PROVE Read(x + j) = <<"step", task[j]>>
    <3> DEFINE y == off[k] + 2 + j
    <3>1. at + (y - 1) = x + j
      <4>1. j \in Nat
        BY <2>2
      <4> DEFINE o == off[k]
      <4>2. o \in Nat
        BY <2>2
      <4> HIDE DEF o
      <4>3. at + ((o + 2 + j) - 1) = (at + 1 + o) + j
        BY <4>1, <4>2, Shifted
      <4> QED
        BY <4>3, Zenon DEF o
    <3>2. y \in 1..size /\ stream[y] = <<"step", task[j]>>
      BY <2>4
    <3> HIDE DEF y, x
    <3> QED
      BY <1>6, <3>1, <3>2
  <2>9. x + 1 + Len(task) = at + 1 + off[m]
    BY <2>2, <2>4
  <2> HIDE DEF x
  <2>10. g[m] = [at |-> x + 1 + Len(task), valid |-> TRUE, tasks |-> Append(Q(k), task)]
    BY <2>2, <2>3, <2>6, <2>7, <2>8, ReadTaskIs
  <2>11. g[m] = State(m)
    BY <2>5, <2>9, <2>10
  <2> QED
    BY <2>11 DEF m
<1>13. g[n] = State(n)
  <2> HIDE DEF T, State
  <2>1. Nat \subseteq T
    BY <1>11, <1>12, SetInduction
  <2>2. n \in T /\ n <= n
    BY <1>1, <2>1
  <2> QED
    BY <2>2, Zenon DEF T
<1>14. Q(n) = a
  BY <1>1
<1>15. g[n].valid /\ g[n].tasks = a
  BY <1>13, <1>14
<1> QED
  BY <1>9, <1>15

-----------------------------------------------------------------------------
(* The invariant.                                                          *)

JobType ==
  [phase : {"idle", "erase", "program"}, kind : {"none", "data", "header"},
   data : Seq(WordType), page : Nat, dataCnt : Nat, flashCnt : Nat,
   buffer : Seq(WordType), word : Nat]

FlashInv ==
  /\ flash \in [Words -> WordType]
  /\ \A i \in Words : IsLength(flash[i]) => i = HeaderWords

RateData(data) == \E r \in Rates : data = <<<<"rate", r>>, <<"rate", r>>>>

\* words of the data among the first x words of the memory
Before(x, data) ==
  IF x <= HeaderWords THEN 0
  ELSE IF x - HeaderWords < Size(data) THEN x - HeaderWords ELSE Size(data)

JobInv ==
  /\ job \in JobType
  /\ job.kind = "data" => \E a \in Animations : job.data = toStream(a)
  /\ job.page <= Pages /\ job.dataCnt <= Size(job.data)
  /\ ~Idle =>
       /\ job.page < Pages
       /\ \/ job.kind = "data" /\ tasks \in Animations /\ job.data = toStream(tasks)
          \/ job.kind = "header" /\ RateData(job.data) /\ job.page = 0
  /\ job.phase = "erase" /\ job.kind = "data" =>
       /\ job.dataCnt = Before(Base(job.page), job.data) /\ MoreData(job)
       /\ job.page = 0 => job.flashCnt = 0
  /\ job.phase = "program" =>
       /\ Len(job.buffer) = PageWords /\ job.word < PageWords
       /\ job.kind = "data" => job.dataCnt = Before(Base(job.page) + PageWords, job.data)

\* w is the word that SAVE puts at x
RightWord(x, w) ==
  /\ IsLength(w) => x = HeaderWords
  /\ job.kind = "data" /\ x \in HeaderWords..(HeaderWords + Size(job.data) - 1) =>
       w = DataWord(x - HeaderWords)

\* the page is programmed up to the next word, the rest of it is erased
BufferInv ==
  job.phase = "program" =>
    \A w \in 0..(PageWords - 1) :
      /\ RightWord(Base(job.page) + w, job.buffer[w + 1])
      /\ flash[Base(job.page) + w] = IF w < job.word THEN job.buffer[w + 1] ELSE ErasedWord

\* the pages before are done
WrittenInv ==
  job.kind = "data" =>
    \A k \in 0..(Size(job.data) - 1) :
      HeaderWords + k < Base(job.page) => flash[HeaderWords + k] = DataWord(k)

\* while page 0 is written, the buffer holds the header
RateInv ==
  /\ rate \in Rates \union {Nothing}
  /\ job.phase = "program" /\ job.kind = "header" => job.buffer[1] = job.data[1]
  /\ rate # Nothing =>
       IF job.phase = "program" /\ job.page = 0
         THEN job.kind = "data" => job.buffer[1] = <<"rate", rate>>
         ELSE flash[0] = <<"rate", rate>>

TasksInv == tasks \in Animations \union {Garbage} /\ stored \in Animations \union {Nothing}

Inv == FlashInv /\ JobInv /\ BufferInv /\ WrittenInv /\ RateInv /\ TasksInv

-----------------------------------------------------------------------------
(* Filling the buffer.                                                     *)

LEMMA ConstantFacts ==
  /\ PageWords \in Nat /\ PageWords >= 2
  /\ HeaderWords \in Nat /\ HeaderWords >= 1 /\ HeaderWords < PageWords
  /\ Pages \in Nat /\ Pages >= 1
  /\ \A p \in Nat : p < Pages <=> Base(p) < Base(Pages)
  /\ \A i \in Nat : i \in Words <=> i < Base(Pages)
  /\ 0 \in Words
<1>1. /\ PageWords \in Nat /\ PageWords >= 2
      /\ HeaderWords \in Nat /\ HeaderWords >= 1 /\ HeaderWords < PageWords
      /\ Pages \in Nat
  BY FlashAssumption
<1>2. Base(Pages) \in Nat
  BY <1>1, Layout
<1>3. Pages >= 1
  <2>1. Blank \in Animations /\ HeaderWords + Size(toStream(Blank)) <= Base(Pages)
    BY FlashAssumption DEF Base
  <2>2. Size(toStream(Blank)) \in Nat
    BY <2>1, StreamType DEF Size
  <2>3. Base(Pages) # 0
    BY <1>1, <1>2, <2>1, <2>2
  <2> QED
    BY <1>1, <2>3, Layout
<1>4. ASSUME NEW p \in Nat PROVE p < Pages <=> Base(p) < Base(Pages)
  <2>1. p < Pages => Base(p) + PageWords <= Base(Pages)
    BY <1>1, Layout
  <2>2. Pages < p => Base(Pages) + PageWords <= Base(p)
    BY <1>1, Layout
  <2>3. Base(p) \in Nat
    BY Layout
  <2>4. p < Pages \/ p = Pages \/ Pages < p
    BY <1>1
  <2> QED
    BY <1>1, <1>2, <2>1, <2>2, <2>3, <2>4
<1>5. \A i \in Nat : i \in Words <=> i < Base(Pages)
  BY <1>2 DEF Words, Base
<1>6. 0 \in Words
  <2>1. Base(0) < Base(Pages)
    <3>1. 0 \in Nat /\ 0 < Pages
      BY <1>1, <1>3
    <3> QED
      BY <1>4, <3>1
  <2>2. Base(0) = 0
    BY Layout
  <2> QED
    BY <1>5, <2>1, <2>2
<1> QED
  BY <1>1, <1>3, <1>4, <1>5, <1>6

LEMMA JobUpdates ==
  ASSUME NEW j \in JobType
  PROVE  /\ \A x \in {"idle", "erase", "program"} : [j EXCEPT !.phase = x] \in JobType
         /\ \A x \in {"none", "data", "header"} : [j EXCEPT !.kind = x] \in JobType
         /\ \A x \in Seq(WordType) : [j EXCEPT !.data = x] \in JobType
         /\ \A x \in Nat : [j EXCEPT !.page = x] \in JobType
         /\ \A x \in Nat : [j EXCEPT !.dataCnt = x] \in JobType
         /\ \A x \in Nat : [j EXCEPT !.flashCnt = x] \in JobType
         /\ \A x \in Seq(WordType) : [j EXCEPT !.buffer = x] \in JobType
         /\ \A x \in Nat : [j EXCEPT !.word = x] \in JobType
BY DEF JobType

SameJob(j, k) ==
  k.phase = j.phase /\ k.kind = j.kind /\ k.data = j.data /\ k.page = j.page /\ k.word = j.word

\* one more word in the buffer
Appended(j, k, w) ==
  /\ k \in JobType /\ SameJob(j, k)
  /\ Len(k.buffer) = Len(j.buffer) + 1
  /\ \A i \in 1..Len(j.buffer) : k.buffer[i] = j.buffer[i]
  /\ k.buffer[Len(j.buffer) + 1] = w

LEMMA AppendOne ==
  ASSUME NEW j \in JobType, NEW w \in WordType
  PROVE  LET d == [j EXCEPT !.buffer = Append(@, w), !.dataCnt = @ + 1]
             f == [j EXCEPT !.buffer = Append(@, w), !.flashCnt = @ + 1]
         IN  /\ Appended(j, d, w) /\ d.dataCnt = j.dataCnt + 1 /\ d.flashCnt = j.flashCnt
             /\ Appended(j, f, w) /\ f.dataCnt = j.dataCnt /\ f.flashCnt = j.flashCnt + 1
<1> DEFINE b == Append(j.buffer, w)
           j1 == [j EXCEPT !.buffer = b]
           d == [j1 EXCEPT !.dataCnt = j.dataCnt + 1]
           f == [j1 EXCEPT !.flashCnt = j.flashCnt + 1]
<1>1. j.buffer \in Seq(WordType) /\ j.dataCnt + 1 \in Nat /\ j.flashCnt + 1 \in Nat
  BY DEF JobType
<1>2. /\ b \in Seq(WordType) /\ Len(b) = Len(j.buffer) + 1
      /\ \A i \in 1..Len(j.buffer) : b[i] = j.buffer[i]
      /\ b[Len(j.buffer) + 1] = w
  BY <1>1, AppendProperties
<1> HIDE DEF b
<1>3. j1 \in JobType
  BY <1>2, JobUpdates
<1>4. d \in JobType /\ f \in JobType
  <2> HIDE DEF j1
  <2> QED
    BY <1>1, <1>3, JobUpdates
<1>5. /\ SameJob(j, d) /\ d.buffer = b /\ d.dataCnt = j.dataCnt + 1 /\ d.flashCnt = j.flashCnt
      /\ SameJob(j, f) /\ f.buffer = b /\ f.dataCnt = j.dataCnt /\ f.flashCnt = j.flashCnt + 1
  BY DEF JobType, SameJob
<1>6. /\ [j EXCEPT !.buffer = Append(@, w), !.dataCnt = @ + 1] = d
      /\ [j EXCEPT !.buffer = Append(@, w), !.flashCnt = @ + 1] = f
  BY DEF b
<1> HIDE DEF d, f
<1> QED
  BY <1>2, <1>4, <1>5, <1>6 DEF Appended

\* the words that the loop of saveData has put into the buffer so far
FillInv(j, c) ==
  LET base == Base(job.page) IN
  /\ j \in JobType /\ SameJob(job, j)
  /\ Len(j.buffer) = c
  /\ j.dataCnt = Before(base + c, job.data)
  /\ job.page = 0 /\ c <= HeaderWords => j.flashCnt = c
  /\ \A i \in 0..(c - 1) :
       /\ RightWord(base + i, j.buffer[i + 1])
       /\ base + i = 0 => j.buffer[i + 1] = flash[0]

LEMMA ReadWord ==
  ASSUME FlashInv, NEW i \in Nat
  PROVE  Copied(i) \in WordType /\ (IsLength(Copied(i)) => i = HeaderWords)
BY OtherWords DEF FlashInv, Copied, Read, WordType

LEMMA JobWord ==
  ASSUME JobInv, job.kind = "data", NEW k \in Nat
  PROVE  DataWord(k) \in WordType /\ (IsLength(DataWord(k)) => k = 0)
<1>1. PICK a \in Animations : job.data = toStream(a)
  BY DEF JobInv
<1>2. /\ job.data \in Seq(Numbers) /\ Len(job.data) \in Nat
      /\ \A i \in 1..Len(job.data) : IsLength(job.data[i]) => i = 1
  BY <1>1, StreamType
<1>3. CASE k < Len(job.data)
  <2>1. k + 1 \in 1..Len(job.data)
    BY <1>2, <1>3
  <2>2. DataWord(k) = job.data[k + 1]
    BY <1>3 DEF DataWord
  <2>3. job.data[k + 1] \in WordType
    BY <1>2, <2>1, ElementOfSeq DEF WordType
  <2>4. IsLength(job.data[k + 1]) => k = 0
    BY <1>2, <2>1
  <2> QED
    BY <2>2, <2>3, <2>4
<1>4. CASE ~(k < Len(job.data))
  BY <1>4, OtherWords DEF DataWord, WordType
<1> QED
  BY <1>3, <1>4

LEMMA DataSize ==
  ASSUME JobInv, job.kind = "data"
  PROVE  /\ Size(job.data) \in Nat /\ Size(job.data) >= 2
         /\ HeaderWords + Size(job.data) <= Base(Pages)
<1>1. PICK a \in Animations : job.data = toStream(a)
  BY DEF JobInv
<1>2. Len(job.data) \in Nat \ {0}
  BY <1>1, StreamType
<1>3. HeaderWords + Size(toStream(a)) <= Base(Pages)
  BY FlashAssumption DEF Base
<1> QED
  BY <1>1, <1>2, <1>3 DEF Size

\* one more word of the buffer, whatever it is
LEMMA FillMore ==
  ASSUME JobInv, job.kind = "data", NEW c \in Nat, NEW j, FillInv(j, c), NEW k, NEW w,
         Appended(j, k, w), RightWord(Base(job.page) + c, w),
         Base(job.page) + c = 0 => w = flash[0],
         k.dataCnt = Before(Base(job.page) + (c + 1), job.data),
         job.page = 0 /\ c + 1 <= HeaderWords => k.flashCnt = c + 1
  PROVE  FillInv(k, c + 1)
<1> DEFINE base == Base(job.page)
<1>1. Len(j.buffer) = c /\ Len(k.buffer) = c + 1
  BY DEF FillInv, Appended
<1>2. ASSUME NEW i \in 0..c
      PROVE  RightWord(base + i, k.buffer[i + 1]) /\ (base + i = 0 => k.buffer[i + 1] = flash[0])
  <2>1. CASE i = c
    BY <1>1, <2>1 DEF Appended
  <2>2. CASE i # c
    <3>1. i \in 0..(c - 1) /\ i + 1 \in 1..Len(j.buffer)
      BY <1>1, <2>2
    <3>2. k.buffer[i + 1] = j.buffer[i + 1]
      BY <3>1 DEF Appended
    <3> QED
      BY <3>1, <3>2 DEF FillInv
  <2> QED
    BY <2>1, <2>2
<1>3. c + 1 - 1 = c
  OBVIOUS
<1>4. k \in JobType /\ SameJob(job, k)
  BY DEF FillInv, Appended, SameJob
<1> QED
  BY <1>1, <1>2, <1>3, <1>4 DEF FillInv

LEMMA FillWordStep ==
  ASSUME FlashInv, JobInv, job.kind = "data", NEW c \in 0..(PageWords - 1),
         NEW j, FillInv(j, c)
  PROVE  FillInv(FillWord(j, c), c + 1)
<1> DEFINE base == Base(job.page)
           x == base + c
           size == Size(job.data)
<1>1. /\ PageWords \in Nat /\ HeaderWords \in Nat /\ HeaderWords >= 1 /\ HeaderWords < PageWords
      /\ c \in Nat
  BY ConstantFacts
<1>2. /\ job.page \in Nat /\ base \in Nat /\ (job.page = 0 => base = 0)
      /\ (job.page > 0 => base > HeaderWords)
  <2>1. job.page \in Nat
    BY DEF JobInv, JobType
  <2>2. base \in Nat /\ (job.page = 0 => base = 0) /\ (job.page > 0 => base >= PageWords)
    BY <2>1, Layout
  <2> HIDE DEF base
  <2> QED
    BY <1>1, <2>1, <2>2
<1>3. size \in Nat /\ size >= 2
  BY DataSize
<1>4. /\ j \in JobType /\ j.data = job.data /\ j.dataCnt = Before(x, job.data)
      /\ (job.page = 0 /\ c <= HeaderWords => j.flashCnt = c)
      /\ j.flashCnt \in Nat
  BY DEF FillInv, SameJob, JobType
<1>5. c >= PageOffset <=> x >= HeaderWords
  BY <1>1, <1>2 DEF PageOffset
<1>6. MoreData(j) <=> x <= HeaderWords \/ x - HeaderWords < size
  BY <1>1, <1>2, <1>3, <1>4 DEF MoreData, Before
<1>7. base + (c + 1) = x + 1
  BY <1>1, <1>2
<1>8. x \in Nat
  BY <1>1, <1>2
<1> HIDE DEF base, size
<1>9. CASE MoreData(j) /\ c >= PageOffset
  <2> DEFINE w == DataWord(j.dataCnt)
             k == [j EXCEPT !.buffer = Append(@, w), !.dataCnt = @ + 1]
  <2>1. FillWord(j, c) = k
    <3>1. ~(c < PageOffset)
      BY <1>1, <1>9 DEF PageOffset
    <3> QED
      BY <1>9, <3>1 DEF FillWord
  <2>2. j.dataCnt = x - HeaderWords /\ j.dataCnt \in Nat
    BY <1>1, <1>3, <1>4, <1>5, <1>6, <1>8, <1>9 DEF Before, size
  <2>3. w \in WordType /\ (IsLength(w) => j.dataCnt = 0)
    BY <2>2, JobWord
  <2>4. RightWord(x, w)
    BY <1>1, <1>8, <2>2, <2>3 DEF RightWord
  <2>5. Appended(j, k, w) /\ k.dataCnt = j.dataCnt + 1 /\ k.flashCnt = j.flashCnt
    BY <1>4, <2>3, AppendOne
  <2>6. j.dataCnt + 1 = Before(x + 1, job.data)
    BY <1>1, <1>3, <1>5, <1>6, <1>8, <1>9, <2>2 DEF Before, size
  <2>7. x # 0 /\ (job.page = 0 => ~(c + 1 <= HeaderWords))
    BY <1>1, <1>2, <1>5, <1>9 DEF base
  <2> HIDE DEF k, w
  <2> QED
    BY <1>1, <1>7, <2>1, <2>4, <2>5, <2>6, <2>7, FillMore DEF base
<1>10. CASE MoreData(j) /\ c < PageOffset
  <2> DEFINE w == Copied(j.flashCnt)
             k == [j EXCEPT !.buffer = Append(@, w), !.flashCnt = @ + 1]
  <2>1. FillWord(j, c) = k
    <3>1. ~(c >= PageOffset)
      BY <1>1, <1>10 DEF PageOffset
    <3> QED
      BY <1>10, <3>1 DEF FillWord
  <2>2. job.page = 0 /\ c < HeaderWords /\ x = c
    BY <1>1, <1>2, <1>10 DEF PageOffset, base
  <2>3. j.flashCnt = c /\ j.dataCnt = 0
    BY <1>1, <1>4, <2>2 DEF Before
  <2>4. w \in WordType /\ (IsLength(w) => c = HeaderWords)
    BY <1>1, <2>3, ReadWord
  <2>5. RightWord(x, w)
    BY <1>1, <1>3, <2>2, <2>4 DEF RightWord, size
  <2>6. Appended(j, k, w) /\ k.dataCnt = j.dataCnt /\ k.flashCnt = j.flashCnt + 1
    BY <1>4, <2>4, AppendOne
  <2>7. Before(x + 1, job.data) = 0
    BY <1>1, <2>2 DEF Before
  <2>8. x = 0 => w = flash[0]
    BY <2>2, <2>3, ConstantFacts DEF Copied, Read
  <2> HIDE DEF k, w
  <2> QED
    BY <1>1, <1>7, <2>1, <2>3, <2>5, <2>6, <2>7, <2>8, FillMore DEF base
<1>11. CASE ~MoreData(j)
  <2> DEFINE i == Size(job.data) + HeaderWords + j.flashCnt
             w == Copied(i)
             k == [j EXCEPT !.buffer = Append(@, w), !.flashCnt = @ + 1]
  <2>1. FillWord(j, c) = k
    BY <1>11 DEF FillWord
  <2>2. x - HeaderWords >= size
    BY <1>1, <1>3, <1>6, <1>8, <1>11
  <2>3. i \in Nat /\ i # HeaderWords
    BY <1>1, <1>3, <1>4 DEF size
  <2>4. w \in WordType /\ ~IsLength(w)
    BY <2>3, ReadWord
  <2>5. RightWord(x, w)
    BY <1>1, <1>3, <1>8, <2>2, <2>4 DEF RightWord, size
  <2>6. Appended(j, k, w) /\ k.dataCnt = j.dataCnt /\ k.flashCnt = j.flashCnt + 1
    BY <1>4, <2>4, AppendOne
  <2>7. j.dataCnt = Before(x + 1, job.data)
    BY <1>1, <1>3, <1>4, <1>8, <2>2 DEF Before, size
  <2>8. x # 0 /\ (job.page = 0 => ~(c + 1 <= HeaderWords))
    BY <1>1, <1>2, <1>3, <1>8, <2>2 DEF base
  <2> HIDE DEF k, w
  <2> QED
    BY <1>1, <1>7, <2>1, <2>5, <2>6, <2>7, <2>8, FillMore DEF base
<1> QED
  <2>1. c >= PageOffset \/ c < PageOffset
    BY <1>1 DEF PageOffset
  <2> QED
    BY <1>9, <1>10, <1>11, <2>1

FillBody(g, c) == IF c = 0 THEN [job EXCEPT !.buffer = << >>] ELSE FillWord(g[c - 1], c - 1)
IsFill(g, p) == g = [c \in 0..p |-> FillBody(g, c)]

LEMMA FillExists == \A p \in Nat : \E g : IsFill(g, p)
<1> DEFINE S == {p \in Nat : \E g : IsFill(g, p)}
<1>1. 0 \in S
  <2> DEFINE e == [job EXCEPT !.buffer = << >>]
             g == [c \in 0..0 |-> e]
  <2>1. \A c \in 0..0 : FillBody(g, c) = e
    <3> HIDE DEF g
    <3> QED
      BY DEF FillBody
  <2> HIDE DEF e
  <2>2. g = [c \in 0..0 |-> FillBody(g, c)]
    BY <2>1
  <2>3. IsFill(g, 0)
    BY <2>2 DEF IsFill
  <2> HIDE DEF g
  <2> QED
    BY <2>3
<1>2. ASSUME NEW p \in Nat, p \in S PROVE p + 1 \in S
  <2>1. PICK g : IsFill(g, p)
    BY <1>2
  <2> DEFINE h == [c \in 0..(p + 1) |-> FillBody(g, c)]
  <2>2. ASSUME NEW c \in 0..p PROVE h[c] = g[c]
    <3>1. c \in 0..(p + 1)
      OBVIOUS
    <3> DEFINE f == [k \in 0..p |-> FillBody(g, k)]
    <3>2. f[c] = FillBody(g, c)
      OBVIOUS
    <3> HIDE DEF f
    <3>3. g = f
      BY <2>1, Zenon DEF f, IsFill
    <3> QED
      BY <3>1, <3>2, <3>3
  <2>3. ASSUME NEW c \in 0..(p + 1) PROVE FillBody(g, c) = FillBody(h, c)
    <3>1. CASE c = 0
      BY <3>1, Zenon DEF FillBody
    <3>2. CASE c # 0
      <4>1. c - 1 \in 0..p
        BY <3>2
      <4>2. h[c - 1] = g[c - 1]
        BY <2>2, <4>1
      <4> HIDE DEF h
      <4> QED
        BY <4>2, Zenon DEF FillBody
    <3> QED
      BY <3>1, <3>2
  <2>4. h = [c \in 0..(p + 1) |-> FillBody(h, c)]
    BY <2>3
  <2>5. IsFill(h, p + 1)
    BY <2>4 DEF IsFill
  <2> HIDE DEF h
  <2> QED
    BY <2>5
<1>3. Nat \subseteq S
  <2> HIDE DEF S
  <2> QED
    BY <1>1, <1>2, SetInduction
<1> QED
  BY <1>3

LEMMA FilledData ==
  ASSUME FlashInv, JobInv, job.kind = "data", job.phase = "erase"
  PROVE  FillInv(Filled, PageWords)
<1> DEFINE g == CHOOSE f : IsFill(f, PageWords)
           S == {c \in Nat : c <= PageWords => FillInv(g[c], c)}
           base == Base(job.page)
<1>1. PageWords \in Nat
  BY ConstantFacts
<1>2. IsFill(g, PageWords)
  BY <1>1, FillExists
<1>3. Filled = g[PageWords]
  BY DEF Filled, IsFill, FillBody
<1> HIDE DEF g
<1>4. ASSUME NEW c \in 0..PageWords PROVE g[c] = FillBody(g, c)
  <2> DEFINE f == [k \in 0..PageWords |-> FillBody(g, k)]
  <2>1. f[c] = FillBody(g, c)
    OBVIOUS
  <2> HIDE DEF f
  <2>2. g = f
    BY <1>2, Zenon DEF f, IsFill
  <2> QED
    BY <2>1, <2>2
<1>5. 0 \in S
  <2> DEFINE k == [job EXCEPT !.buffer = << >>]
  <2>1. job \in JobType /\ job.dataCnt = Before(base, job.data) /\ (job.page = 0 => job.flashCnt = 0)
        /\ job.page \in Nat
    BY DEF JobInv, JobType
  <2>2. << >> \in Seq(WordType) /\ Len(<< >>) = 0
    BY EmptySeq
  <2>3. k \in JobType
    BY <2>1, <2>2, JobUpdates
  <2>4. SameJob(job, k) /\ k.buffer = << >> /\ k.dataCnt = job.dataCnt /\ k.flashCnt = job.flashCnt
    BY <2>1 DEF SameJob, JobType
  <2>5. base + 0 = base
    <3>1. base \in Nat
      BY <2>1, Layout
    <3> QED
      BY <3>1
  <2> HIDE DEF k, base
  <2>6. FillInv(k, 0)
    BY <2>1, <2>2, <2>3, <2>4, <2>5 DEF FillInv, base
  <2>7. g[0] = k
    BY <1>1, <1>4 DEF FillBody, k
  <2> QED
    BY <2>6, <2>7
<1>6. ASSUME NEW c \in Nat, c \in S PROVE c + 1 \in S
  <2> SUFFICES ASSUME c + 1 <= PageWords PROVE FillInv(g[c + 1], c + 1)
    OBVIOUS
  <2>1. FillInv(g[c], c) /\ c \in 0..(PageWords - 1)
    BY <1>1, <1>6
  <2>2. g[c + 1] = FillWord(g[c], c)
    <3> DEFINE n == c + 1
    <3>1. n # 0 => FillBody(g, n) = FillWord(g[n - 1], n - 1)
      BY Zenon DEF FillBody
    <3>2. g[n] = FillBody(g, n)
      BY <1>1, <1>4
    <3> HIDE DEF n
    <3>3. n # 0 /\ n - 1 = c
      BY DEF n
    <3> QED
      BY <3>1, <3>2, <3>3 DEF n
  <2> QED
    BY <2>1, <2>2, FillWordStep
<1>7. PageWords \in S
  <2> HIDE DEF S
  <2>1. Nat \subseteq S
    BY <1>5, <1>6, SetInduction
  <2> QED
    BY <1>1, <2>1
<1> QED
  BY <1>1, <1>3, <1>7

LEMMA FilledHeader ==
  ASSUME FlashInv, JobInv, job.kind = "header", job.phase = "erase"
  PROVE  /\ Filled \in JobType /\ SameJob(job, Filled) /\ Filled.dataCnt = job.dataCnt
         /\ Len(Filled.buffer) = PageWords
         /\ Filled.buffer[1] = job.data[1]
         /\ \A i \in 0..(PageWords - 1) : IsLength(Filled.buffer[i + 1]) => i = HeaderWords
         /\ \A i \in 2..(PageWords - 1) : Filled.buffer[i + 1] = flash[i]
<1> DEFINE n == PageWords - 2
           tail == [c \in 1..n |-> Copied(c + 1)]
           b == job.data \o tail
<1>1. n \in Nat /\ PageWords \in Nat /\ n + 2 = PageWords
  BY ConstantFacts
<1>2. job \in JobType /\ RateData(job.data)
  BY DEF JobInv, Idle
<1>3. Len(job.data) = 2 /\ job.data \in Seq(WordType)
      /\ ~IsLength(job.data[1]) /\ ~IsLength(job.data[2])
  <2>1. PICK r \in Rates : job.data = <<<<"rate", r>>, <<"rate", r>>>>
    BY <1>2 DEF RateData
  <2>2. job.data \in Seq(WordType)
    BY <1>2 DEF JobType
  <2>3. Len(job.data) = 2 /\ job.data[1] = <<"rate", r>> /\ job.data[2] = <<"rate", r>>
    BY <2>1
  <2> QED
    BY <2>2, <2>3, OtherWords
<1>4. \A c \in 1..n : Copied(c + 1) \in WordType /\ (IsLength(Copied(c + 1)) => c + 1 = HeaderWords)
  BY ReadWord
<1> HIDE DEF n
<1>5. tail \in Seq(WordType) /\ Len(tail) = n /\ \A c \in 1..n : tail[c] = Copied(c + 1)
  <2>1. tail \in [1..n -> WordType]
    BY <1>4
  <2>2. DOMAIN tail = 1..n /\ \A c \in 1..n : tail[c] = Copied(c + 1)
    OBVIOUS
  <2> HIDE DEF tail
  <2>3. tail \in Seq(WordType)
    BY <1>1, <2>1
  <2> QED
    BY <1>1, <2>2, <2>3, LenProperties
<1> HIDE DEF tail
<1>6. /\ b \in Seq(WordType) /\ Len(b) = 2 + n
      /\ \A i \in 1..(2 + n) : b[i] = IF i <= 2 THEN job.data[i] ELSE tail[i - 2]
  <2>1. /\ b \in Seq(WordType) /\ Len(b) = Len(job.data) + Len(tail)
        /\ \A i \in 1..(Len(job.data) + Len(tail)) :
             b[i] = IF i <= Len(job.data) THEN job.data[i] ELSE tail[i - Len(job.data)]
    BY <1>3, <1>5, ConcatProperties
  <2> QED
    BY <1>3, <1>5, <2>1
<1> HIDE DEF b
<1>7. b[1] = job.data[1] /\ b[2] = job.data[2]
  BY <1>1, <1>6
<1>12. ASSUME NEW i \in 2..(PageWords - 1) PROVE b[i + 1] = Copied(i)
  <2>1. i + 1 \in 1..(2 + n) /\ ~(i + 1 <= 2) /\ i + 1 - 2 = i - 1 /\ i - 1 \in 1..n /\ i - 1 + 1 = i
    BY <1>1
  <2>2. b[i + 1] = tail[i - 1]
    BY <1>6, <2>1
  <2>3. tail[i - 1] = Copied(i)
    BY <1>5, <2>1
  <2> QED
    BY <2>2, <2>3
<1>13. ASSUME NEW i \in 2..(PageWords - 1) PROVE b[i + 1] = flash[i]
  <2>1. i \in Words
    <3>1. 0 < Pages /\ Base(0) = 0 /\ i \in 0..(PageWords - 1) /\ 0 + i = i
      BY ConstantFacts, Layout
    <3>2. Base(0) + i \in Words
      BY <3>1, WordsOfPage
    <3> QED
      BY <3>1, <3>2
  <2> QED
    BY <1>12, <2>1 DEF Copied, Read
<1>8. ASSUME NEW i \in 0..(PageWords - 1), IsLength(b[i + 1]) PROVE i = HeaderWords
  <2>1. CASE i >= 2
    <3>1. i \in 2..(PageWords - 1) /\ i \in Nat
      BY <1>1, <2>1
    <3>2. b[i + 1] = Copied(i)
      BY <1>12, <3>1
    <3> QED
      BY <1>8, <3>1, <3>2, ReadWord
  <2>2. CASE i < 2
    <3>1. i + 1 = 1 \/ i + 1 = 2
      BY <1>1, <2>2
    <3> QED
      BY <1>3, <1>7, <1>8, <3>1
  <2> QED
    BY <1>1, <2>1, <2>2
<1> DEFINE k == [job EXCEPT !.buffer = b]
<1>9. k \in JobType
  BY <1>2, <1>6, JobUpdates
<1>10. SameJob(job, k) /\ k.buffer = b /\ k.dataCnt = job.dataCnt
  BY <1>2 DEF JobType, SameJob
<1>11. Filled = k
  BY DEF Filled, b, tail, n
<1> HIDE DEF k
<1> QED
  BY <1>1, <1>6, <1>7, <1>8, <1>9, <1>10, <1>11, <1>13

-----------------------------------------------------------------------------
(* The steps.                                                              *)

LEMMA JobFacts ==
  ASSUME JobInv
  PROVE  /\ job \in JobType /\ job.page \in Nat /\ job.word \in Nat /\ job.dataCnt \in Nat
         /\ Base(job.page) \in Nat /\ Base(job.page + 1) = Base(job.page) + PageWords
         /\ ~Idle => Base(job.page) + PageWords <= Base(Pages)
<1>1. /\ job \in JobType /\ job.page \in Nat /\ job.word \in Nat /\ job.dataCnt \in Nat
      /\ ~Idle => job.page < Pages
  BY DEF JobInv, JobType
<1>2. /\ Base(job.page) \in Nat /\ Base(job.page + 1) = Base(job.page) + PageWords
      /\ \A q \in Nat : job.page < q => Base(job.page) + PageWords <= Base(q)
  BY <1>1, Layout
<1> QED
  BY <1>1, <1>2, ConstantFacts

\* the memory reaches to the end of the page that is written
LEMMA WordsUpTo ==
  ASSUME JobInv, ~Idle
  PROVE  \A i \in Nat : i < Base(job.page) + PageWords => i \in Words
<1>1. /\ Base(job.page) \in Nat /\ Base(job.page) + PageWords <= Base(Pages)
  BY JobFacts
<1>2. Base(Pages) \in Nat /\ PageWords \in Nat
  BY ConstantFacts, Layout
<1>3. \A i \in Nat : i < Base(Pages) => i \in Words
  BY ConstantFacts
<1> QED
  BY <1>1, <1>2, <1>3

\* the page that is erased, and nothing else
LEMMA Erasing ==
  ASSUME JobInv, FlashInv, ErasePage
  PROVE  LET base == Base(job.page) IN
         /\ flash' \in [Words -> WordType] /\ FlashInv'
         /\ \A w \in 0..(PageWords - 1) : flash'[base + w] = ErasedWord
         /\ \A i \in Words : i < base \/ i >= base + PageWords => flash'[i] = flash[i]
         /\ \A i \in Words : flash'[i] # flash[i] => PageOf(i) = job.page
<1> DEFINE base == Base(job.page)
<1>1. flash' = [i \in Words |-> IF PageOf(i) = job.page THEN ErasedWord ELSE flash[i]]
  BY DEF ErasePage, ErasedPages
<1>2. \A i \in Words : i \in Nat
  BY ConstantFacts DEF Words
<1>3. job.page \in Nat /\ base \in Nat
  BY JobFacts
<1>4. \A i \in Words : PageOf(i) = job.page <=> base <= i /\ i < base + PageWords
  BY <1>2, <1>3, PageOfWord
<1>5. ErasedWord \in WordType
  BY DEF WordType
<1>6. flash' \in [Words -> WordType]
  BY <1>1, <1>5 DEF FlashInv
<1>7. FlashInv'
  BY <1>1, <1>6, OtherWords DEF FlashInv
<1>8. ASSUME NEW w \in 0..(PageWords - 1) PROVE flash'[base + w] = ErasedWord
  <2>1. base + w \in Words /\ PageOf(base + w) = job.page
    <3>1. job.page < Pages
      BY DEF ErasePage, JobInv, Idle
    <3> QED
      BY <1>3, <3>1, WordsOfPage
  <2> QED
    BY <1>1, <2>1
<1>9. \A i \in Words : i < base \/ i >= base + PageWords => flash'[i] = flash[i]
  <2>1. PageWords \in Nat
    BY ConstantFacts
  <2> QED
    BY <1>1, <1>2, <1>3, <1>4, <2>1
<1>10. \A i \in Words : flash'[i] # flash[i] => PageOf(i) = job.page
  BY <1>1
<1> QED
  BY <1>6, <1>7, <1>8, <1>9, <1>10

\* a halfword is programmed where the memory is erased
LEMMA Programming ==
  ASSUME JobInv, FlashInv, BufferInv, NEW last, ProgramHalfword(last)
  PROVE  LET at == Base(job.page) + job.word IN
         /\ job.phase = "program" /\ last = (job.word = PageWords - 1)
         /\ at \in Words /\ PageOf(at) = job.page
         /\ job.word \in 0..(PageWords - 1)
         /\ FlashInv'
         /\ flash'[at] = job.buffer[job.word + 1]
         /\ \A i \in Words : i # at => flash'[i] = flash[i]
<1> DEFINE at == Base(job.page) + job.word
           new == job.buffer[job.word + 1]
<1>1. job.phase = "program" /\ last = (job.word = PageWords - 1)
      /\ flash' = [flash EXCEPT ![at] = Programmed(flash[at], new)]
  BY DEF ProgramHalfword, Base
<1>2. job.page < Pages /\ Len(job.buffer) = PageWords /\ job.word < PageWords
      /\ job \in JobType /\ job.page \in Nat /\ job.word \in Nat
  BY <1>1, JobFacts DEF JobInv, Idle
<1>3. job.word \in 0..(PageWords - 1) /\ job.word + 1 \in 1..Len(job.buffer)
  BY <1>2, ConstantFacts
<1>4. at \in Words /\ PageOf(at) = job.page
  BY <1>2, <1>3, WordsOfPage
<1>5. flash[at] = ErasedWord /\ RightWord(at, new)
  <2>1. ~(job.word < job.word)
    BY <1>2
  <2> QED
    BY <1>1, <1>3, <2>1 DEF BufferInv
<1>6. Programmed(flash[at], new) = new
  BY <1>5 DEF Programmed
<1>7. new \in WordType
  BY <1>2, <1>3, ElementOfSeq DEF JobType
<1>8. IsLength(new) => at = HeaderWords
  BY <1>5 DEF RightWord
<1> HIDE DEF at, new
<1>9. flash' = [flash EXCEPT ![at] = new]
  BY <1>1, <1>6
<1>10. flash' \in [Words -> WordType] /\ flash'[at] = new
       /\ \A i \in Words : i # at => flash'[i] = flash[i]
  BY <1>4, <1>7, <1>9 DEF FlashInv
<1>11. FlashInv'
  BY <1>8, <1>10 DEF FlashInv
<1> QED
  BY <1>1, <1>3, <1>4, <1>10, <1>11 DEF at, new

\* the job after the page has been copied to the buffer
LEMMA ErasedJob ==
  ASSUME FlashInv, JobInv, ErasePage
  PROVE  /\ job' \in JobType /\ job'.phase = "program" /\ job'.word = 0
         /\ job'.kind = job.kind /\ job'.data = job.data /\ job'.page = job.page
         /\ job'.dataCnt = Filled.dataCnt /\ job'.buffer = Filled.buffer
         /\ Len(Filled.buffer) = PageWords
         /\ \A w \in 0..(PageWords - 1) : RightWord(Base(job.page) + w, Filled.buffer[w + 1])
         /\ IF job.kind = "data"
              THEN /\ Filled.dataCnt = Before(Base(job.page) + PageWords, job.data)
                   /\ job.page = 0 => Filled.buffer[1] = flash[0]
              ELSE Filled.dataCnt = job.dataCnt /\ Filled.buffer[1] = job.data[1]
<1> DEFINE F == Filled
           k == [F EXCEPT !.phase = "program"]
           m == [k EXCEPT !.word = 0]
<1>1. job.phase = "erase" /\ job' = m
  BY DEF ErasePage
<1>2. job.kind = "data" \/ (job.kind = "header" /\ job.page = 0)
  <2>1. ~Idle
    BY <1>1 DEF Idle
  <2> QED
    BY <2>1, Zenon DEF JobInv
<1>3. PageWords \in Nat /\ PageWords >= 2 /\ Base(0) = 0
  BY ConstantFacts, Layout
<1>4. /\ F \in JobType /\ SameJob(job, F) /\ Len(F.buffer) = PageWords
      /\ \A w \in 0..(PageWords - 1) : RightWord(Base(job.page) + w, F.buffer[w + 1])
      /\ IF job.kind = "data"
           THEN /\ F.dataCnt = Before(Base(job.page) + PageWords, job.data)
                /\ job.page = 0 => F.buffer[1] = flash[0]
           ELSE F.dataCnt = job.dataCnt /\ F.buffer[1] = job.data[1]
  <2>1. CASE job.kind = "data"
    <3>1. FillInv(F, PageWords)
      BY <1>1, <2>1, FilledData
    <3> HIDE DEF F
    <3>2. /\ F \in JobType /\ SameJob(job, F) /\ Len(F.buffer) = PageWords
          /\ F.dataCnt = Before(Base(job.page) + PageWords, job.data)
          /\ \A w \in 0..(PageWords - 1) :
               /\ RightWord(Base(job.page) + w, F.buffer[w + 1])
               /\ Base(job.page) + w = 0 => F.buffer[w + 1] = flash[0]
      BY <3>1 DEF FillInv
    <3>3. ASSUME job.page = 0 PROVE F.buffer[1] = flash[0]
      <4>1. 0 \in 0..(PageWords - 1) /\ Base(job.page) + 0 = 0 /\ 0 + 1 = 1
        BY <1>3, <3>3
      <4> QED
        BY <3>2, <4>1
    <3> QED
      BY <2>1, <3>2, <3>3
  <2>2. CASE job.kind = "header"
    <3>1. /\ F \in JobType /\ SameJob(job, F) /\ F.dataCnt = job.dataCnt
          /\ Len(F.buffer) = PageWords /\ F.buffer[1] = job.data[1]
          /\ \A w \in 0..(PageWords - 1) : IsLength(F.buffer[w + 1]) => w = HeaderWords
      BY <1>1, <2>2, FilledHeader
    <3> HIDE DEF F
    <3>2. job.page = 0 /\ job.kind # "data"
      BY <1>2, <2>2
    <3>3. \A w \in 0..(PageWords - 1) : Base(job.page) + w = w
      BY <1>3, <3>2
    <3>4. \A w \in 0..(PageWords - 1) : RightWord(Base(job.page) + w, F.buffer[w + 1])
      BY <3>1, <3>2, <3>3 DEF RightWord
    <3> QED
      BY <3>1, <3>2, <3>4
  <2> QED
    BY <1>2, <2>1, <2>2
<1> HIDE DEF F
<1>5. k \in JobType
  BY <1>4, JobUpdates
<1>6. m \in JobType
  <2> HIDE DEF k
  <2> QED
    BY <1>5, JobUpdates
<1>7. /\ m.phase = "program" /\ m.word = 0
      /\ m.kind = F.kind /\ m.data = F.data /\ m.page = F.page
      /\ m.dataCnt = F.dataCnt /\ m.buffer = F.buffer
  BY <1>4 DEF JobType
<1> HIDE DEF m
<1> QED
  BY <1>1, <1>4, <1>6, <1>7 DEF SameJob, F

LEMMA BeforeBounds ==
  ASSUME JobInv, job.kind = "data", NEW x \in Nat
  PROVE  /\ Before(x, job.data) \in Nat /\ Before(x, job.data) <= Size(job.data)
         /\ Before(0, job.data) = 0
         /\ Before(x, job.data) < Size(job.data) => x < HeaderWords + Size(job.data)
BY DataSize, ConstantFacts DEF Before

LEMMA EraseKeeps ==
  ASSUME Inv, ErasePage
  PROVE  Inv'
<1> DEFINE base == Base(job.page)
<1>1. FlashInv /\ JobInv /\ BufferInv /\ WrittenInv /\ RateInv /\ TasksInv
  BY DEF Inv
<1>2. /\ job' \in JobType /\ job'.phase = "program" /\ job'.word = 0
      /\ job'.kind = job.kind /\ job'.data = job.data /\ job'.page = job.page
      /\ Len(job'.buffer) = PageWords
      /\ \A w \in 0..(PageWords - 1) : RightWord(base + w, job'.buffer[w + 1])
      /\ IF job.kind = "data"
           THEN /\ job'.dataCnt = Before(base + PageWords, job.data)
                /\ job.page = 0 => job'.buffer[1] = flash[0]
           ELSE job'.dataCnt = job.dataCnt /\ job'.buffer[1] = job.data[1]
  BY <1>1, ErasedJob
<1>3. /\ FlashInv'
      /\ \A w \in 0..(PageWords - 1) : flash'[base + w] = ErasedWord
      /\ \A i \in Words : i < base \/ i >= base + PageWords => flash'[i] = flash[i]
  BY <1>1, Erasing
<1>4. /\ job.phase = "erase" /\ tasks' = tasks /\ stored' = stored /\ rate' = rate
  BY DEF ErasePage
<1>5. /\ base \in Nat /\ base + PageWords <= Base(Pages) /\ job.page \in Nat
      /\ PageWords \in Nat /\ PageWords >= 2
  BY <1>1, <1>4, JobFacts, ConstantFacts DEF Idle
<1>6. ~Idle /\ ~Idle'
  BY <1>2, <1>4 DEF Idle
<1>7. JobInv'
  <2>1. /\ job'.kind = "data" => \E a \in Animations : job'.data = toStream(a)
        /\ job'.page < Pages /\ job'.page <= Pages
        /\ \/ job'.kind = "data" /\ tasks' \in Animations /\ job'.data = toStream(tasks')
           \/ job'.kind = "header" /\ RateData(job'.data) /\ job'.page = 0
    BY <1>1, <1>2, <1>4, <1>6, Zenon DEF JobInv
  <2>2. job'.dataCnt <= Size(job'.data)
    <3>1. job.kind = "data" => Before(base + PageWords, job.data) <= Size(job.data)
      BY <1>1, <1>5, BeforeBounds
    <3>2. job.dataCnt <= Size(job.data)
      BY <1>1 DEF JobInv
    <3> QED
      BY <1>2, <3>1, <3>2
  <2>3. job'.word < PageWords
    BY <1>2, <1>5
  <2>4. job'.kind = "data" => job'.dataCnt = Before(Base(job'.page) + PageWords, job'.data)
    BY <1>2
  <2>5. job'.phase # "erase"
    BY <1>2
  <2> HIDE DEF base
  <2> QED
    BY <1>2, <2>1, <2>2, <2>3, <2>4, <2>5, Zenon DEF JobInv
<1>8. BufferInv'
  <2>1. ASSUME NEW w \in 0..(PageWords - 1)
        PROVE  /\ RightWord(base + w, job'.buffer[w + 1])
               /\ flash'[base + w] = IF w < 0 THEN job'.buffer[w + 1] ELSE ErasedWord
    BY <1>2, <1>3
  <2> QED
    BY <1>2, <2>1 DEF BufferInv, RightWord, DataWord
<1>9. WrittenInv'
  <2> SUFFICES ASSUME job.kind = "data", NEW k \in 0..(Size(job.data) - 1), HeaderWords + k < base
               PROVE  flash'[HeaderWords + k] = DataWord(k)
    BY <1>2 DEF WrittenInv, DataWord
  <2>1. flash[HeaderWords + k] = DataWord(k)
    BY <1>1 DEF WrittenInv
  <2>2. k \in Nat /\ HeaderWords \in Nat /\ HeaderWords + k \in Nat
    BY <1>1, DataSize, ConstantFacts
  <2>3. HeaderWords + k \in Words
    BY <1>5, <2>2, ConstantFacts, Layout
  <2> QED
    BY <1>3, <2>1, <2>3
<1>10. RateInv'
  <2>1. job.page > 0 => flash'[0] = flash[0]
    <3>1. job.page > 0 => base >= PageWords
      BY <1>5, Layout
    <3> QED
      BY <1>3, <1>5, <3>1, ConstantFacts
  <2>2. rate # Nothing => flash[0] = <<"rate", rate>>
    BY <1>1, <1>4 DEF RateInv
  <2>3. rate \in Rates \union {Nothing}
    BY <1>1 DEF RateInv
  <2>4. job.page = 0 \/ job.page > 0
    BY <1>5
  <2>5. job'.kind = "header" => job'.buffer[1] = job'.data[1]
    BY <1>2
  <2>6. rate # Nothing /\ job'.page = 0 /\ job'.kind = "data" => job'.buffer[1] = <<"rate", rate>>
    BY <1>2, <2>2
  <2>7. rate # Nothing /\ job'.page # 0 => flash'[0] = <<"rate", rate>>
    BY <1>2, <2>1, <2>2, <2>4
  <2> QED
    BY <1>2, <1>4, <2>3, <2>5, <2>6, <2>7, Zenon DEF RateInv
<1>11. TasksInv'
  BY <1>1, <1>4 DEF TasksInv
<1> QED
  BY <1>3, <1>7, <1>8, <1>9, <1>10, <1>11, Zenon DEF Inv

LEMMA ProgramKeeps ==
  ASSUME Inv, ProgramWord
  PROVE  Inv'
<1> DEFINE base == Base(job.page)
           at == base + job.word
           k0 == [job EXCEPT !.word = job.word + 1]
<1>1. FlashInv /\ JobInv /\ BufferInv /\ WrittenInv /\ RateInv /\ TasksInv
  BY DEF Inv
<1>2. /\ job.phase = "program" /\ job.word # PageWords - 1
      /\ at \in Words /\ job.word \in 0..(PageWords - 1)
      /\ FlashInv' /\ flash'[at] = job.buffer[job.word + 1]
      /\ \A i \in Words : i # at => flash'[i] = flash[i]
  <2>1. ProgramHalfword(FALSE)
    BY DEF ProgramWord
  <2> QED
    BY <1>1, <2>1, Programming
<1>3. /\ base \in Nat /\ base + PageWords <= Base(Pages) /\ job.page \in Nat
      /\ PageWords \in Nat /\ PageWords >= 2 /\ job \in JobType /\ job.word \in Nat
  BY <1>1, <1>2, JobFacts, ConstantFacts DEF Idle
<1>4. job' = k0 /\ tasks' = tasks /\ stored' = stored /\ rate' = rate
  BY DEF ProgramWord, ProgramHalfword
<1>5. /\ job' \in JobType
      /\ job'.phase = "program" /\ job'.kind = job.kind /\ job'.data = job.data
      /\ job'.page = job.page /\ job'.dataCnt = job.dataCnt /\ job'.buffer = job.buffer
      /\ job'.word = job.word + 1
  <2>1. k0 \in JobType
    <3>1. job.word + 1 \in Nat
      BY <1>3
    <3> QED
      BY <1>3, <3>1, JobUpdates
  <2>2. /\ k0.phase = job.phase /\ k0.kind = job.kind /\ k0.data = job.data
        /\ k0.page = job.page /\ k0.dataCnt = job.dataCnt /\ k0.buffer = job.buffer
        /\ k0.word = job.word + 1
    BY <1>3 DEF JobType
  <2> HIDE DEF k0
  <2> QED
    BY <1>2, <1>4, <2>1, <2>2
<1>6. ~Idle /\ ~Idle'
  BY <1>2, <1>5 DEF Idle
<1>7. JobInv'
  <2>1. job'.word < PageWords
    BY <1>2, <1>3, <1>5
  <2>2. job'.phase # "erase"
    BY <1>5
  <2> HIDE DEF base
  <2> QED
    BY <1>1, <1>2, <1>4, <1>5, <1>6, <2>1, <2>2, Zenon DEF JobInv
<1>8. BufferInv'
  <2>1. ASSUME NEW w \in 0..(PageWords - 1)
        PROVE  flash'[base + w] = IF w < job.word + 1 THEN job.buffer[w + 1] ELSE ErasedWord
    <3>1. base + w \in Words
      <4>1. ~Idle /\ base + w \in Nat /\ base + w < base + PageWords
        BY <1>3, <1>6
      <4> QED
        BY <1>1, <4>1, WordsUpTo
    <3>2. flash[base + w] = IF w < job.word THEN job.buffer[w + 1] ELSE ErasedWord
      BY <1>1, <1>2 DEF BufferInv
    <3>3. CASE w = job.word
      BY <1>2, <1>3, <3>3
    <3>4. CASE w # job.word
      <4>1. base + w # at /\ (w < job.word + 1 <=> w < job.word)
        BY <1>3, <3>4
      <4> QED
        BY <1>2, <3>1, <3>2, <4>1
    <3> QED
      BY <3>3, <3>4
  <2>2. \A w \in 0..(PageWords - 1) : RightWord(base + w, job.buffer[w + 1])
    BY <1>1, <1>2 DEF BufferInv
  <2> QED
    BY <1>5, <2>1, <2>2 DEF BufferInv, RightWord, DataWord
<1>9. WrittenInv'
  <2> SUFFICES ASSUME job.kind = "data", NEW k \in 0..(Size(job.data) - 1), HeaderWords + k < base
               PROVE  flash'[HeaderWords + k] = DataWord(k)
    BY <1>5 DEF WrittenInv, DataWord
  <2>1. flash[HeaderWords + k] = DataWord(k)
    BY <1>1 DEF WrittenInv
  <2>2. k \in Nat /\ HeaderWords \in Nat /\ HeaderWords + k \in Nat
    BY <1>1, DataSize, ConstantFacts
  <2>3. HeaderWords + k \in Words /\ HeaderWords + k # at
    <3>1. HeaderWords + k < base + PageWords /\ HeaderWords + k # at
      BY <1>3, <2>2
    <3> QED
      BY <1>1, <1>6, <2>2, <3>1, WordsUpTo
  <2> QED
    BY <1>2, <2>1, <2>3
<1>10. RateInv'
  <2>1. job.page > 0 => flash'[0] = flash[0]
    <3>1. job.page > 0 => base >= PageWords
      BY <1>3, Layout
    <3> QED
      BY <1>2, <1>3, <3>1, ConstantFacts
  <2>2. job.page = 0 \/ job.page > 0
    BY <1>3
  <2> QED
    BY <1>1, <1>2, <1>4, <1>5, <2>1, <2>2 DEF RateInv
<1>11. TasksInv'
  BY <1>1, <1>4 DEF TasksInv
<1> QED
  BY <1>2, <1>7, <1>8, <1>9, <1>10, <1>11, Zenon DEF Inv

\* the last halfword of a page: what the memory holds then
LEMMA PageDone ==
  ASSUME Inv, ProgramHalfword(TRUE)
  PROVE  LET base == Base(job.page) IN
         /\ FlashInv'
         /\ job.kind = "data" =>
              \A k \in 0..(Size(job.data) - 1) :
                HeaderWords + k < base + PageWords => flash'[HeaderWords + k] = DataWord(k)
         /\ job.page = 0 => flash'[0] = job.buffer[1]
         /\ job.page > 0 => flash'[0] = flash[0]
         /\ \A w \in 0..(PageWords - 1) : flash'[base + w] = job.buffer[w + 1]
<1> DEFINE base == Base(job.page)
           at == base + job.word
<1>1. FlashInv /\ JobInv /\ BufferInv /\ WrittenInv
  BY DEF Inv
<1>2. /\ job.phase = "program" /\ job.word = PageWords - 1
      /\ at \in Words /\ job.word \in 0..(PageWords - 1)
      /\ FlashInv' /\ flash'[at] = job.buffer[job.word + 1]
      /\ \A i \in Words : i # at => flash'[i] = flash[i]
  BY <1>1, Programming
<1>3. /\ base \in Nat /\ base + PageWords <= Base(Pages) /\ job.page \in Nat
      /\ PageWords \in Nat /\ PageWords >= 2
  BY <1>1, <1>2, JobFacts, ConstantFacts DEF Idle
<1>4. ASSUME NEW w \in 0..(PageWords - 1) PROVE flash'[base + w] = job.buffer[w + 1]
  <2>1. base + w \in Words
    <3>1. ~Idle /\ base + w \in Nat /\ base + w < base + PageWords
      BY <1>2, <1>3 DEF Idle
    <3> QED
      BY <1>1, <3>1, WordsUpTo
  <2>2. flash[base + w] = IF w < job.word THEN job.buffer[w + 1] ELSE ErasedWord
    BY <1>1, <1>2 DEF BufferInv
  <2>3. CASE w = job.word
    BY <1>2, <2>3
  <2>4. CASE w # job.word
    <3>1. base + w # at /\ w < job.word
      BY <1>2, <1>3, <2>4
    <3> QED
      BY <1>2, <2>1, <2>2, <3>1
  <2> QED
    BY <2>3, <2>4
<1>5. ASSUME job.kind = "data", NEW k \in 0..(Size(job.data) - 1),
             HeaderWords + k < base + PageWords
      PROVE  flash'[HeaderWords + k] = DataWord(k)
  <2>1. k \in Nat /\ HeaderWords \in Nat /\ Size(job.data) \in Nat
    BY <1>1, <1>5, DataSize, ConstantFacts
  <2>2. CASE HeaderWords + k < base
    <3>1. flash[HeaderWords + k] = DataWord(k)
      BY <1>1, <1>5, <2>2 DEF WrittenInv
    <3>2. HeaderWords + k \in Words /\ HeaderWords + k # at
      <4>1. ~Idle /\ HeaderWords + k \in Nat /\ HeaderWords + k # at
        BY <1>2, <1>3, <2>1, <2>2 DEF Idle
      <4> QED
        BY <1>1, <1>5, <4>1, WordsUpTo
    <3> QED
      BY <1>2, <3>1, <3>2
  <2>3. CASE ~(HeaderWords + k < base)
    <3> DEFINE w == HeaderWords + k - base
    <3>1. w \in 0..(PageWords - 1) /\ base + w = HeaderWords + k
      BY <1>3, <1>5, <2>1, <2>3
    <3> HIDE DEF w
    <3> DEFINE x == HeaderWords + k
    <3>2. x \in HeaderWords..(HeaderWords + Size(job.data) - 1) /\ x - HeaderWords = k
      BY <2>1
    <3>3. RightWord(x, job.buffer[w + 1])
      <4>1. RightWord(base + w, job.buffer[w + 1])
        BY <1>1, <1>2, <3>1 DEF BufferInv
      <4> QED
        BY <3>1, <4>1
    <3> HIDE DEF x
    <3>4. job.buffer[w + 1] = DataWord(k)
      BY <1>5, <3>2, <3>3 DEF RightWord
    <3>5. flash'[base + w] = job.buffer[w + 1]
      BY <1>4, <3>1
    <3> QED
      BY <3>1, <3>4, <3>5
  <2> QED
    BY <2>2, <2>3
<1>6. ASSUME job.page = 0 PROVE flash'[0] = job.buffer[1]
  <2>1. base + 0 = 0 /\ 0 \in 0..(PageWords - 1) /\ 0 + 1 = 1
    BY <1>3, <1>6, Layout
  <2>2. flash'[base + 0] = job.buffer[0 + 1]
    BY <1>4, <2>1
  <2> QED
    BY <2>1, <2>2
<1>7. ASSUME job.page > 0 PROVE flash'[0] = flash[0]
  <2>1. base >= PageWords
    BY <1>3, <1>7, Layout
  <2> QED
    BY <1>2, <1>3, <2>1, ConstantFacts
<1> QED
  BY <1>2, <1>4, <1>5, <1>6, <1>7

\* the job after a page: the phase and the page change
LEMMA PagedJob ==
  ASSUME JobInv, NEW s \in {"idle", "erase"}
  PROVE  LET j == [job EXCEPT !.phase = s, !.page = @ + 1] IN
         /\ j \in JobType /\ j.phase = s /\ j.page = job.page + 1
         /\ j.kind = job.kind /\ j.data = job.data /\ j.dataCnt = job.dataCnt
         /\ j.flashCnt = job.flashCnt /\ j.buffer = job.buffer /\ j.word = job.word
<1> DEFINE j0 == [job EXCEPT !.phase = s]
           j == [j0 EXCEPT !.page = job.page + 1]
<1>1. job \in JobType /\ job.page + 1 \in Nat
  BY JobFacts
<1>2. j0 \in JobType
  BY <1>1, JobUpdates
<1>3. j \in JobType
  <2> HIDE DEF j0
  <2> QED
    BY <1>1, <1>2, JobUpdates
<1>4. /\ j.phase = s /\ j.page = job.page + 1
      /\ j.kind = job.kind /\ j.data = job.data /\ j.dataCnt = job.dataCnt
      /\ j.flashCnt = job.flashCnt /\ j.buffer = job.buffer /\ j.word = job.word
  BY <1>1 DEF JobType
<1>5. [job EXCEPT !.phase = s, !.page = @ + 1] = j
  OBVIOUS
<1> HIDE DEF j
<1> QED
  BY <1>3, <1>4, <1>5

LEMMA NextPageKeeps ==
  ASSUME Inv, NextPage
  PROVE  Inv'
<1> DEFINE base == Base(job.page)
<1>1. FlashInv /\ JobInv /\ BufferInv /\ WrittenInv /\ RateInv /\ TasksInv
  BY DEF Inv
<1>2. /\ ProgramHalfword(TRUE) /\ job.kind = "data" /\ MoreData(job) /\ job.phase = "program"
      /\ job' = [job EXCEPT !.phase = "erase", !.page = @ + 1]
      /\ tasks' = tasks /\ stored' = stored /\ rate' = rate
  BY DEF NextPage, ProgramHalfword
<1>3. /\ FlashInv'
      /\ \A k \in 0..(Size(job.data) - 1) :
           HeaderWords + k < base + PageWords => flash'[HeaderWords + k] = DataWord(k)
      /\ job.page = 0 => flash'[0] = job.buffer[1]
      /\ job.page > 0 => flash'[0] = flash[0]
  BY <1>2, PageDone
<1>4. /\ job' \in JobType /\ job'.phase = "erase" /\ job'.page = job.page + 1
      /\ job'.kind = job.kind /\ job'.data = job.data /\ job'.dataCnt = job.dataCnt
  BY <1>1, <1>2, PagedJob
<1>5. /\ job.page \in Nat /\ Base(job.page + 1) = base + PageWords
      /\ base \in Nat /\ PageWords \in Nat /\ HeaderWords \in Nat /\ HeaderWords < PageWords
  BY <1>1, JobFacts, ConstantFacts
<1>6. job.dataCnt = Before(Base(job.page + 1), job.data) /\ job.dataCnt < Size(job.data)
  BY <1>1, <1>2, <1>5 DEF JobInv, MoreData
<1>7. job.page + 1 < Pages
  <2>1. Base(job.page + 1) \in Nat /\ Base(Pages) \in Nat
    <3>1. base + PageWords \in Nat
      BY <1>5
    <3>2. Pages \in Nat
      BY ConstantFacts
    <3>3. Base(Pages) \in Nat
      BY <3>2, Layout
    <3> QED
      BY <1>5, <3>1, <3>3
  <2>2. Base(job.page + 1) < HeaderWords + Size(job.data)
    BY <1>1, <1>2, <1>6, <2>1, BeforeBounds
  <2>3. HeaderWords + Size(job.data) <= Base(Pages) /\ Size(job.data) \in Nat
    BY <1>1, <1>2, DataSize
  <2>4. Base(job.page + 1) < Base(Pages)
    BY <1>5, <2>1, <2>2, <2>3
  <2>5. job.page + 1 \in Nat
    BY <1>5
  <2> QED
    BY <2>4, <2>5, ConstantFacts
<1>8. JobInv'
  <2>1. /\ tasks \in Animations /\ job.data = toStream(tasks)
        /\ job.dataCnt <= Size(job.data)
    <3>1. ~Idle /\ job.kind # "header"
      BY <1>2 DEF Idle
    <3> QED
      BY <1>1, <1>2, <3>1, Zenon DEF JobInv
  <2>2. job'.page <= Pages /\ job'.page < Pages /\ job'.page # 0
    BY <1>4, <1>5, <1>7, ConstantFacts
  <2>3. job'.phase # "program" /\ MoreData(job)' /\ job'.kind = "data"
    BY <1>2, <1>4 DEF MoreData
  <2>4. \E a \in Animations : job'.data = toStream(a)
    BY <1>4, <2>1
  <2> QED
    BY <1>2, <1>4, <1>6, <2>1, <2>2, <2>3, <2>4, Zenon DEF JobInv
<1>9. BufferInv'
  BY <1>4 DEF BufferInv
<1>10. WrittenInv'
  BY <1>3, <1>4, <1>5 DEF WrittenInv, DataWord
<1>11. RateInv'
  <2>1. rate # Nothing => flash'[0] = <<"rate", rate>>
    <3>1. job.page = 0 \/ job.page > 0
      BY <1>5
    <3> QED
      BY <1>1, <1>2, <1>3, <3>1 DEF RateInv
  <2> QED
    BY <1>1, <1>2, <1>4, <2>1 DEF RateInv
<1>12. TasksInv'
  BY <1>1, <1>2 DEF TasksInv
<1> QED
  BY <1>3, <1>8, <1>9, <1>10, <1>11, <1>12, Zenon DEF Inv

\* the end of SAVE and of the header
LEMMA SavedKeeps ==
  ASSUME Inv, Saved \/ SavedHeader
  PROVE  Inv'
<1> DEFINE base == Base(job.page)
<1>1. FlashInv /\ JobInv /\ BufferInv /\ WrittenInv /\ RateInv /\ TasksInv
  BY DEF Inv
<1>2. /\ ProgramHalfword(TRUE) /\ job.phase = "program" /\ tasks' = tasks
      /\ job' = [job EXCEPT !.phase = "idle", !.page = @ + 1]
      /\ \/ job.kind = "data" /\ stored' = tasks /\ rate' = rate
         \/ job.kind = "header" /\ stored' = stored /\ rate' = job.data[1][2]
  BY DEF Saved, SavedHeader, ProgramHalfword
<1>3. /\ FlashInv'
      /\ job.kind = "data" =>
           \A k \in 0..(Size(job.data) - 1) :
             HeaderWords + k < base + PageWords => flash'[HeaderWords + k] = DataWord(k)
      /\ job.page = 0 => flash'[0] = job.buffer[1]
      /\ job.page > 0 => flash'[0] = flash[0]
  BY <1>2, PageDone
<1>4. /\ job' \in JobType /\ job'.phase = "idle" /\ job'.page = job.page + 1
      /\ job'.kind = job.kind /\ job'.data = job.data /\ job'.dataCnt = job.dataCnt
  BY <1>1, <1>2, PagedJob
<1>5. job.page \in Nat /\ Base(job.page + 1) = base + PageWords
  BY <1>1, JobFacts
<1>6. /\ job.page < Pages
      /\ \/ job.kind = "data" /\ tasks \in Animations /\ job.data = toStream(tasks)
         \/ job.kind = "header" /\ RateData(job.data) /\ job.page = 0
  <2>1. ~Idle
    BY <1>2 DEF Idle
  <2> QED
    BY <1>1, <2>1, Zenon DEF JobInv
<1>7. JobInv'
  <2>1. job'.page <= Pages
    BY <1>4, <1>5, <1>6, ConstantFacts
  <2>2. Idle'
    BY <1>4 DEF Idle
  <2>3. job'.phase # "erase" /\ job'.phase # "program"
    BY <1>4
  <2> QED
    BY <1>1, <1>4, <2>1, <2>2, <2>3, Zenon DEF JobInv
<1>8. BufferInv'
  BY <1>4 DEF BufferInv
<1>9. WrittenInv'
  BY <1>3, <1>4, <1>5 DEF WrittenInv, DataWord
<1>10. RateInv'
  <2>1. CASE job.kind = "data"
    <3>1. rate' = rate
      BY <1>2, <2>1
    <3>2. rate # Nothing => flash'[0] = <<"rate", rate>>
      <4>1. job.page = 0 \/ job.page > 0
        BY <1>5
      <4> QED
        BY <1>1, <1>2, <1>3, <2>1, <4>1 DEF RateInv
    <3> QED
      BY <1>1, <1>4, <3>1, <3>2 DEF RateInv
  <2>2. CASE job.kind = "header"
    <3>1. PICK r \in Rates : job.data = <<<<"rate", r>>, <<"rate", r>>>>
      BY <1>6, <2>2 DEF RateData
    <3>2. job.data[1] = <<"rate", r>> /\ job.data[1][2] = r
      BY <3>1
    <3>3. rate' = r
      BY <1>2, <2>2, <3>2
    <3>4. flash'[0] = job.data[1]
      BY <1>1, <1>2, <1>3, <1>6, <2>2 DEF RateInv
    <3> QED
      BY <1>4, <3>2, <3>3, <3>4 DEF RateInv
  <2> QED
    BY <1>6, <2>1, <2>2
<1>11. TasksInv'
  BY <1>1, <1>2, <1>6 DEF TasksInv
<1> QED
  BY <1>3, <1>7, <1>8, <1>9, <1>10, <1>11, Zenon DEF Inv

-----------------------------------------------------------------------------
(* The steps that write nothing.                                           *)

\* the memory and the history stay, the job is over or at the first page
LEMMA QuietJob ==
  ASSUME Inv, JobInv', TasksInv', UNCHANGED <<flash, rate>>, job'.phase # "program",
         job'.page = 0 \/ (job'.kind = job.kind /\ job'.data = job.data /\ job'.page = job.page),
         rate # Nothing => flash[0] = <<"rate", rate>>
  PROVE  Inv'
<1>1. FlashInv /\ WrittenInv /\ RateInv
  BY DEF Inv
<1>2. FlashInv'
  BY <1>1 DEF FlashInv
<1>3. BufferInv'
  BY DEF BufferInv
<1>4. WrittenInv'
  <2>1. CASE job'.page = 0
    <3> SUFFICES ASSUME job'.kind = "data", NEW k \in 0..(Size(job'.data) - 1),
                        HeaderWords + k < Base(job'.page)
                 PROVE  FALSE
      BY DEF WrittenInv
    <3>1. Base(job'.page) = 0 /\ HeaderWords \in Nat
      BY <2>1, Layout, ConstantFacts
    <3>2. job' \in JobType /\ job'.data \in Seq(WordType)
      BY DEF JobInv, JobType
    <3>3. Size(job'.data) \in Nat
      BY <3>2, LenProperties DEF Size
    <3> QED
      BY <3>1, <3>3
  <2>2. CASE job'.kind = job.kind /\ job'.data = job.data /\ job'.page = job.page
    BY <1>1, <2>2 DEF WrittenInv, DataWord
  <2> QED
    BY <2>1, <2>2
<1>5. RateInv'
  BY <1>1 DEF RateInv
<1> QED
  BY <1>2, <1>3, <1>4, <1>5, Zenon DEF Inv

LEMMA IdleRate ==
  ASSUME Inv, Idle
  PROVE  rate # Nothing => flash[0] = <<"rate", rate>>
BY DEF Inv, RateInv, Idle

\* EDIT and LOAD change the animation only
LEMMA TasksChange ==
  ASSUME Inv, Idle, tasks' \in Animations \union {Garbage},
         UNCHANGED <<flash, job, stored, rate>>
  PROVE  Inv'
<1>1. JobInv /\ TasksInv
  BY DEF Inv
<1>2. Idle'
  BY DEF Idle
<1>3. JobInv'
  BY <1>1, <1>2 DEF JobInv, Idle
<1>4. TasksInv'
  BY <1>1 DEF TasksInv
<1>5. job'.phase # "program"
  BY <1>2 DEF Idle
<1> QED
  BY <1>3, <1>4, <1>5, QuietJob, IdleRate

\* a job before its first page
LEMMA NewJob ==
  ASSUME NEW kind \in {"data", "header"}, NEW data \in Seq(WordType)
  PROVE  LET j == [NoJob EXCEPT !.phase = "erase", !.kind = kind, !.data = data] IN
         /\ j \in JobType /\ j.phase = "erase" /\ j.kind = kind /\ j.data = data
         /\ j.page = 0 /\ j.dataCnt = 0 /\ j.flashCnt = 0
<1> DEFINE j1 == [NoJob EXCEPT !.phase = "erase"]
           j2 == [j1 EXCEPT !.kind = kind]
           j == [j2 EXCEPT !.data = data]
<1>1. NoJob \in JobType
  <2>1. << >> \in Seq(WordType)
    BY EmptySeq
  <2> QED
    BY <2>1 DEF NoJob, JobType
<1>2. j1 \in JobType
  BY <1>1, JobUpdates
<1>3. j2 \in JobType
  <2> HIDE DEF j1
  <2> QED
    BY <1>2, JobUpdates
<1>4. j \in JobType
  <2> HIDE DEF j2
  <2> QED
    BY <1>3, JobUpdates
<1>5. /\ j.phase = "erase" /\ j.kind = kind /\ j.data = data
      /\ j.page = 0 /\ j.dataCnt = 0 /\ j.flashCnt = 0
  BY DEF NoJob
<1>6. [NoJob EXCEPT !.phase = "erase", !.kind = kind, !.data = data] = j
  OBVIOUS
<1> HIDE DEF j
<1> QED
  BY <1>4, <1>5, <1>6

LEMMA SaveKeeps ==
  ASSUME Inv, Save
  PROVE  Inv'
<1> DEFINE stream == toStream(tasks)
<1>1. JobInv /\ TasksInv /\ Idle /\ tasks \in Animations
  BY DEF Inv, Save, TasksInv
<1>2. /\ job' = [NoJob EXCEPT !.phase = "erase", !.kind = "data", !.data = stream]
      /\ UNCHANGED <<flash, tasks, stored, rate>>
  BY DEF Save
<1>3. stream \in Seq(WordType) /\ Len(stream) \in Nat \ {0}
  <2>1. stream \in Seq(Numbers) /\ Len(stream) \in Nat \ {0}
    BY <1>1, StreamType
  <2> HIDE DEF stream
  <2> QED
    BY <2>1 DEF WordType
<1>4. stream = toStream(tasks)
  OBVIOUS
<1> HIDE DEF stream
<1>5. /\ job' \in JobType /\ job'.phase = "erase" /\ job'.kind = "data" /\ job'.data = stream
      /\ job'.page = 0 /\ job'.dataCnt = 0 /\ job'.flashCnt = 0
  BY <1>2, <1>3, NewJob
<1>6. Size(stream) \in Nat /\ 0 < Size(stream)
  BY <1>3 DEF Size
<1>7. Before(Base(0), stream) = 0
  BY Layout, ConstantFacts DEF Before
<1>8. JobInv'
  <2>1. /\ 0 <= Pages /\ 0 < Pages /\ 0 <= Size(stream)
    BY <1>6, ConstantFacts
  <2>2. MoreData(job)'
    BY <1>5, <1>6 DEF MoreData
  <2>3. tasks' \in Animations /\ job'.data = toStream(tasks')
    BY <1>1, <1>2, <1>4, <1>5
  <2>4. job'.dataCnt = Before(Base(job'.page), job'.data)
    BY <1>5, <1>7
  <2>5. job'.page <= Pages /\ job'.page < Pages /\ job'.dataCnt <= Size(job'.data)
    BY <1>5, <2>1
  <2> QED
    BY <1>5, <2>2, <2>3, <2>4, <2>5 DEF JobInv
<1>9. TasksInv'
  BY <1>1, <1>2 DEF TasksInv
<1> QED
  BY <1>1, <1>2, <1>5, <1>8, <1>9, QuietJob, IdleRate

LEMMA SaveHeaderKeeps ==
  ASSUME Inv, SaveHeader
  PROVE  Inv'
<1>1. JobInv /\ TasksInv /\ Idle
  BY DEF Inv, SaveHeader
<1>2. PICK r \in Rates :
        job' = [NoJob EXCEPT !.phase = "erase", !.kind = "header",
                             !.data = <<<<"rate", r>>, <<"rate", r>>>>]
  BY DEF SaveHeader
<1>3. UNCHANGED <<flash, tasks, stored, rate>>
  BY DEF SaveHeader
<1> DEFINE data == <<<<"rate", r>>, <<"rate", r>>>>
<1>4. data \in Seq(WordType) /\ Len(data) = 2
  <2>1. <<"rate", r>> \in WordType
    BY DEF WordType, Numbers
  <2> QED
    BY <2>1
<1>5. RateData(data)
  BY DEF RateData
<1> HIDE DEF data
<1>6. /\ job' \in JobType /\ job'.phase = "erase" /\ job'.kind = "header" /\ job'.data = data
      /\ job'.page = 0 /\ job'.dataCnt = 0
  BY <1>2, <1>4, NewJob DEF data
<1>7. JobInv'
  <2>1. 0 <= Pages /\ 0 < Pages /\ 0 <= Size(data)
    BY <1>4, ConstantFacts DEF Size
  <2>2. job'.page <= Pages /\ job'.page < Pages /\ job'.dataCnt <= Size(job'.data)
    BY <1>6, <2>1
  <2> QED
    BY <1>5, <1>6, <2>2 DEF JobInv
<1>8. TasksInv'
  BY <1>1, <1>3 DEF TasksInv
<1> QED
  BY <1>1, <1>3, <1>6, <1>7, <1>8, QuietJob, IdleRate

\* LOAD looks for the stream where none begins
LEMMA NoStream ==
  ASSUME FlashInv
  PROVE  fromStream(2 * HeaderWords) = Garbage
<1> DEFINE at == 2 * HeaderWords
<1>1. at # HeaderWords
  BY ConstantFacts
<1> HIDE DEF at
<1>2. ~IsLength(Read(at))
  <2>1. CASE at \in Words
    BY <1>1, <2>1 DEF FlashInv, Read
  <2>2. CASE at \notin Words
    BY <2>2, OtherWords DEF Read
  <2> QED
    BY <2>1, <2>2
<1>3. fromStream(at) = Garbage
  BY <1>2 DEF fromStream, IsLength
<1> QED
  BY <1>3 DEF at

\* the power fails
LEMMA CutKeeps ==
  ASSUME Inv, Cut
  PROVE  Inv'
<1>1. FlashInv /\ JobInv /\ WrittenInv /\ RateInv /\ TasksInv
  BY DEF Inv
<1>2. /\ job' = [job EXCEPT !.phase = "idle"] /\ tasks' = Blank /\ flash' = flash
      /\ stored' = IF Begun THEN Nothing ELSE stored
      /\ rate' = IF job.phase = "program" /\ job.page = 0 THEN Nothing ELSE rate
  BY DEF Cut
<1>3. job \in JobType
  BY <1>1 DEF JobInv
<1>4. /\ job' \in JobType /\ job'.phase = "idle" /\ job'.page = job.page
      /\ job'.kind = job.kind /\ job'.data = job.data /\ job'.dataCnt = job.dataCnt
  <2>1. [job EXCEPT !.phase = "idle"] \in JobType
    BY <1>3, JobUpdates
  <2>2. LET j == [job EXCEPT !.phase = "idle"] IN
        /\ j.phase = "idle" /\ j.page = job.page
        /\ j.kind = job.kind /\ j.data = job.data /\ j.dataCnt = job.dataCnt
    BY <1>3 DEF JobType
  <2> QED
    BY <1>2, <2>1, <2>2
<1>5. FlashInv'
  BY <1>1, <1>2 DEF FlashInv
<1>6. JobInv'
  BY <1>1, <1>4 DEF JobInv, Idle
<1>7. BufferInv'
  BY <1>4 DEF BufferInv
<1>8. WrittenInv'
  BY <1>1, <1>2, <1>4 DEF WrittenInv, DataWord
<1>9. RateInv'
  BY <1>1, <1>2, <1>4 DEF RateInv
<1>10. TasksInv'
  BY <1>1, <1>2, FlashAssumption DEF TasksInv
<1> QED
  BY <1>5, <1>6, <1>7, <1>8, <1>9, <1>10, Zenon DEF Inv

LEMMA InitHolds == Init => Inv
<1> SUFFICES ASSUME Init PROVE Inv
  OBVIOUS
<1>1. PICK r \in Rates : rate = r /\ flash = [i \in Words |-> IF i = 0 THEN <<"rate", r>> ELSE ErasedWord]
  BY DEF Init
<1>2. job = NoJob /\ tasks = Blank /\ stored = Nothing
  BY DEF Init
<1>3. FlashInv
  <2>1. <<"rate", r>> \in WordType /\ ErasedWord \in WordType
    BY DEF WordType, Numbers
  <2>2. flash \in [Words -> WordType]
    BY <1>1, <2>1
  <2>3. ASSUME NEW i \in Words PROVE ~IsLength(flash[i])
    BY <1>1, OtherWords
  <2> QED
    BY <2>2, <2>3 DEF FlashInv
<1>4. /\ job \in JobType /\ job.phase = "idle" /\ job.kind = "none" /\ job.data = << >>
      /\ job.page = 0 /\ job.dataCnt = 0
  <2>1. << >> \in Seq(WordType)
    BY EmptySeq
  <2> QED
    BY <1>2, <2>1 DEF NoJob, JobType
<1>5. JobInv
  <2>1. 0 <= Pages /\ 0 <= Size(<< >>)
    BY ConstantFacts DEF Size
  <2> QED
    BY <1>4, <2>1 DEF JobInv, Idle
<1>6. BufferInv /\ WrittenInv
  BY <1>4 DEF BufferInv, WrittenInv
<1>7. RateInv
  BY <1>1, <1>4, ConstantFacts DEF RateInv
<1>8. TasksInv
  BY <1>2, FlashAssumption DEF TasksInv
<1> QED
  BY <1>3, <1>5, <1>6, <1>7, <1>8 DEF Inv

LEMMA StutterKeeps ==
  ASSUME Inv, UNCHANGED vars
  PROVE  Inv'
<1>1. FlashInv' /\ JobInv' /\ TasksInv'
  BY DEF Inv, vars, FlashInv, JobInv, TasksInv, Idle, MoreData
<1>2. BufferInv'
  BY DEF Inv, vars, BufferInv, RightWord, DataWord
<1>3. WrittenInv' /\ RateInv'
  BY DEF Inv, vars, WrittenInv, RateInv, DataWord
<1> QED
  BY <1>1, <1>2, <1>3, Zenon DEF Inv

LEMMA StepKeeps == Inv /\ [Next]_vars => Inv'
<1> SUFFICES ASSUME Inv, [Next]_vars PROVE Inv'
  OBVIOUS
<1>1. CASE Edit
  <2>1. Idle /\ tasks' \in Animations \union {Garbage} /\ UNCHANGED <<flash, job, stored, rate>>
    BY <1>1 DEF Edit
  <2> QED
    BY <2>1, TasksChange
<1>2. CASE Load
  <2>1. Idle /\ tasks' = fromStream(2 * HeaderWords) /\ UNCHANGED <<flash, job, stored, rate>>
    BY <1>2 DEF Load
  <2>2. fromStream(2 * HeaderWords) = Garbage
    BY NoStream DEF Inv
  <2> QED
    BY <2>1, <2>2, TasksChange
<1>3. CASE Save
  BY <1>3, SaveKeeps
<1>4. CASE SaveHeader
  BY <1>4, SaveHeaderKeeps
<1>5. CASE ErasePage
  BY <1>5, EraseKeeps
<1>6. CASE ProgramWord
  BY <1>6, ProgramKeeps
<1>7. CASE NextPage
  BY <1>7, NextPageKeeps
<1>8. CASE Saved \/ SavedHeader
  BY <1>8, SavedKeeps
<1>9. CASE Cut
  BY <1>9, CutKeeps
<1>10. CASE UNCHANGED vars
  BY <1>10, StutterKeeps
<1> QED
  BY <1>1, <1>2, <1>3, <1>4, <1>5, <1>6, <1>7, <1>8, <1>9, <1>10 DEF Next

LEMMA InvCorrect == Spec => []Inv
BY InitHolds, StepKeeps, PTL DEF Spec

-----------------------------------------------------------------------------
(* What was saved stays.  The rewriting of the header holds the rest of    *)
(* its page in the buffer for a while.                                     *)

Content(i) ==
  IF job.phase = "program" /\ job.kind = "header" /\ PageOf(i) = 0
    THEN job.buffer[i + 1] ELSE flash[i]

\* a SAVE that has begun destroys what was saved before
Intact == job.kind = "header" \/ ~Begun

StoredInv ==
  stored # Nothing /\ Intact =>
    \A k \in 0..(Len(toStream(stored)) - 1) : Content(HeaderWords + k) = toStream(stored)[k + 1]

LEMMA StreamWords ==
  ASSUME NEW a \in Animations, NEW k \in 0..(Len(toStream(a)) - 1)
  PROVE  /\ k \in Nat /\ HeaderWords + k \in Words /\ HeaderWords + k >= HeaderWords
         /\ HeaderWords + k < HeaderWords + Size(toStream(a))
<1> DEFINE n == Len(toStream(a))
<1>1. n \in Nat /\ HeaderWords \in Nat /\ Size(toStream(a)) = 2 * n
  BY StreamType, ConstantFacts DEF Size
<1>2. HeaderWords + Size(toStream(a)) <= Base(Pages) /\ Base(Pages) \in Nat
  BY FlashAssumption, ConstantFacts, Layout DEF Base
<1> HIDE DEF n
<1>3. k \in 0..(n - 1)
  BY DEF n
<1>4. /\ k \in Nat /\ HeaderWords + k \in Nat /\ HeaderWords + k >= HeaderWords
      /\ HeaderWords + k < HeaderWords + 2 * n /\ HeaderWords + k < Base(Pages)
  BY <1>1, <1>2, <1>3
<1>5. HeaderWords + k \in Words
  BY <1>4, ConstantFacts
<1> QED
  BY <1>1, <1>4, <1>5

\* a step that destroys nothing behind the header
LEMMA ContentKept ==
  ASSUME Inv, StoredInv, stored' = stored, Intact' => Intact,
         Intact' => \A i \in Words : i >= HeaderWords => Content(i)' = Content(i)
  PROVE  StoredInv'
<1> SUFFICES ASSUME stored # Nothing, Intact', NEW k \in 0..(Len(toStream(stored)) - 1)
             PROVE  Content(HeaderWords + k)' = toStream(stored)[k + 1]
  BY DEF StoredInv
<1>1. stored \in Animations
  BY DEF Inv, TasksInv
<1>2. HeaderWords + k \in Words /\ HeaderWords + k >= HeaderWords
  BY <1>1, StreamWords
<1>3. Content(HeaderWords + k) = toStream(stored)[k + 1]
  BY DEF StoredInv
<1> QED
  BY <1>2, <1>3

\* outside the header jobs the content is that of the memory
LEMMA QuietKeeps ==
  ASSUME Inv, StoredInv, UNCHANGED <<flash, stored>>, Intact,
         job.phase # "program", job'.phase # "program"
  PROVE  StoredInv'
<1>1. \A i : Content(i)' = Content(i)
  BY DEF Content
<1> QED
  BY <1>1, ContentKept

LEMMA EraseStored ==
  ASSUME HeaderWords >= 2, Inv, StoredInv, ErasePage
  PROVE  StoredInv'
<1>1. FlashInv /\ JobInv
  BY DEF Inv
<1>2. /\ job.phase = "erase" /\ job'.phase = "program" /\ job'.kind = job.kind
      /\ job'.buffer = Filled.buffer /\ stored' = stored
  BY <1>1, ErasedJob DEF ErasePage
<1>3. CASE job.kind = "header"
  <2>1. job.page = 0
    <3>1. ~Idle /\ job.kind # "data"
      BY <1>2, <1>3 DEF Idle
    <3> QED
      BY <1>1, <3>1, Zenon DEF JobInv
  <2>2. \A i \in 2..(PageWords - 1) : Filled.buffer[i + 1] = flash[i]
    BY <1>1, <1>2, <1>3, FilledHeader
  <2>3. ASSUME NEW i \in Words, i >= HeaderWords PROVE Content(i)' = Content(i)
    <3>1. i \in Nat
      BY ConstantFacts DEF Words
    <3>2. Content(i) = flash[i]
      BY <1>2 DEF Content
    <3>3. CASE PageOf(i) = 0
      <4>1. i < PageWords
        <5>1. Base(0) = 0 /\ i < Base(0) + PageWords
          BY <3>1, <3>3, PageOfWord, Layout
        <5> QED
          BY <5>1, ConstantFacts
      <4>2. i \in 2..(PageWords - 1)
        BY <2>3, <3>1, <4>1, ConstantFacts
      <4>3. Content(i)' = Filled.buffer[i + 1]
        BY <1>2, <1>3, <3>3 DEF Content, PageOf
      <4> QED
        BY <2>2, <3>2, <4>2, <4>3
    <3>4. CASE PageOf(i) # 0
      <4>1. Content(i)' = flash'[i]
        BY <3>4 DEF Content, PageOf
      <4>2. flash'[i] = flash[i]
        BY <1>1, <2>1, <3>4, Erasing
      <4> QED
        BY <3>2, <4>1, <4>2
    <3> QED
      BY <3>3, <3>4
  <2>4. Intact
    BY <1>3 DEF Intact
  <2> QED
    BY <1>2, <2>3, <2>4, ContentKept
<1>4. CASE job.kind # "header"
  <2>1. ~Intact'
    BY <1>2, <1>4 DEF Intact, Begun
  <2> QED
    BY <2>1 DEF StoredInv
<1> QED
  BY <1>3, <1>4

LEMMA ProgramStored ==
  ASSUME Inv, StoredInv, ProgramWord \/ SavedHeader
  PROVE  StoredInv'
<1>1. FlashInv /\ JobInv /\ BufferInv
  BY DEF Inv
<1>2. /\ job.phase = "program" /\ stored' = stored
      /\ \/ job' = [job EXCEPT !.word = @ + 1]
         \/ job.kind = "header" /\ job' = [job EXCEPT !.phase = "idle", !.page = @ + 1]
  <2>1. CASE ProgramWord
    BY <2>1 DEF ProgramWord, ProgramHalfword
  <2>2. CASE SavedHeader
    BY <2>2 DEF SavedHeader, ProgramHalfword
  <2> QED
    BY <2>1, <2>2
<1>3. PICK last : ProgramHalfword(last) /\ (SavedHeader => last = TRUE)
  <2>1. CASE SavedHeader
    BY <2>1 DEF SavedHeader
  <2>2. CASE ~SavedHeader
    BY <2>2 DEF ProgramWord
  <2> QED
    BY <2>1, <2>2
<1>4. job \in JobType /\ job'.kind = job.kind /\ job'.buffer = job.buffer
  <2>1. job \in JobType
    BY <1>1 DEF JobInv
  <2> QED
    BY <1>2, <2>1 DEF JobType
<1>5. CASE job.kind = "header"
  <2>1. job.page = 0 /\ ~Idle
    <3>1. ~Idle /\ job.kind # "data"
      BY <1>2, <1>5 DEF Idle
    <3> QED
      BY <1>1, <3>1, Zenon DEF JobInv
  <2> DEFINE at == Base(job.page) + job.word
  <2>2. PageOf(at) = 0 /\ \A i \in Words : i # at => flash'[i] = flash[i]
    BY <1>1, <1>3, <2>1, Programming
  <2> HIDE DEF at
  <2>3. ASSUME NEW i \in Words, i >= HeaderWords PROVE Content(i)' = Content(i)
    <3>1. CASE PageOf(i) # 0
      <4>1. Content(i) = flash[i] /\ Content(i)' = flash'[i]
        BY <3>1 DEF Content, PageOf
      <4> QED
        BY <2>2, <3>1, <4>1
    <3>2. CASE PageOf(i) = 0 /\ ProgramWord
      <4>1. job'.phase = "program"
        BY <1>1, <1>2, <1>4, <3>2 DEF ProgramWord, JobType
      <4> QED
        BY <1>2, <1>4, <1>5, <3>2, <4>1 DEF Content, PageOf
    <3>3. CASE PageOf(i) = 0 /\ SavedHeader
      <4>1. job'.phase = "idle"
        BY <1>4, <3>3 DEF SavedHeader, JobType
      <4>2. Content(i)' = flash'[i] /\ Content(i) = job.buffer[i + 1]
        BY <1>2, <1>5, <3>3, <4>1 DEF Content, PageOf
      <4>3. i \in 0..(PageWords - 1) /\ Base(job.page) + i = i
        <5>1. i \in Nat /\ Base(0) = 0 /\ i < Base(0) + PageWords
          BY <3>3, PageOfWord, Layout, ConstantFacts DEF Words
        <5> QED
          BY <2>1, <5>1, ConstantFacts
      <4>4. flash'[Base(job.page) + i] = job.buffer[i + 1]
        BY <1>3, <3>3, <4>3, PageDone
      <4> QED
        BY <4>2, <4>3, <4>4
    <3> QED
      BY <3>1, <3>2, <3>3
  <2>4. Intact
    BY <1>5 DEF Intact
  <2> QED
    BY <1>2, <2>3, <2>4, ContentKept
<1>6. CASE job.kind # "header"
  <2>1. job'.phase = "program"
    BY <1>2, <1>4, <1>6 DEF ProgramWord, JobType
  <2>2. ~Intact'
    BY <1>4, <1>6, <2>1 DEF Intact, Begun
  <2> QED
    BY <2>2 DEF StoredInv
<1> QED
  BY <1>5, <1>6

\* The last page is done, all data have been handed over: the stream is in
\* the memory.
LEMMA SavedStored ==
  ASSUME Inv, Saved
  PROVE  StoredInv'
<1> DEFINE base == Base(job.page)
           data == job.data
<1>1. JobInv
  BY DEF Inv
<1>2. /\ ProgramHalfword(TRUE) /\ job.phase = "program" /\ job.kind = "data" /\ ~MoreData(job)
      /\ job' = [job EXCEPT !.phase = "idle", !.page = @ + 1] /\ stored' = tasks
  BY DEF Saved, ProgramHalfword
<1>3. job'.phase = "idle"
  BY <1>1, <1>2, PagedJob
<1>4. tasks \in Animations /\ data = toStream(tasks)
  <2>1. ~Idle /\ job.kind # "header"
    BY <1>2 DEF Idle
  <2> QED
    BY <1>1, <2>1, Zenon DEF JobInv
<1>5. Len(data) \in Nat /\ Size(data) = 2 * Len(data) /\ Size(data) >= 2 /\ Size(data) \in Nat
  BY <1>1, <1>2, <1>4, StreamType, DataSize DEF Size
<1>6. base \in Nat /\ PageWords \in Nat /\ HeaderWords \in Nat
  BY <1>1, JobFacts, ConstantFacts
<1> HIDE DEF base, data
<1>7. HeaderWords + Size(data) <= base + PageWords
  <2>1. job.dataCnt = Before(base + PageWords, data)
    BY <1>1, <1>2 DEF JobInv, base, data
  <2>2. ~(job.dataCnt < Size(data))
    BY <1>2 DEF MoreData, data
  <2> DEFINE x == base + PageWords
             z == Size(data)
             h == HeaderWords
  <2>3. x \in Nat /\ z \in Nat /\ h \in Nat /\ z >= 2
    BY <1>5, <1>6
  <2>4. job.dataCnt = IF x <= h THEN 0 ELSE IF x - h < z THEN x - h ELSE z
    BY <2>1 DEF Before
  <2>5. ~(job.dataCnt < z)
    BY <2>2
  <2> HIDE DEF x, z, h
  <2>6. h + z <= x
    BY <2>3, <2>4, <2>5
  <2> QED
    BY <2>6 DEF x, z, h
<1>8. ASSUME NEW k \in 0..(Len(toStream(tasks)) - 1)
      PROVE  Content(HeaderWords + k)' = toStream(tasks)[k + 1]
  <2>1. k \in 0..(Len(data) - 1) /\ k < Len(data) /\ k \in Nat
    BY <1>4, <1>5
  <2>2. k \in 0..(Size(data) - 1) /\ HeaderWords + k < base + PageWords
    BY <1>5, <1>6, <1>7, <2>1
  <2>3. flash'[HeaderWords + k] = DataWord(k)
    BY <1>2, <2>2, PageDone DEF base, data
  <2>4. DataWord(k) = data[k + 1]
    BY <2>1 DEF DataWord, data
  <2>5. Content(HeaderWords + k)' = flash'[HeaderWords + k]
    BY <1>3 DEF Content
  <2> QED
    BY <1>4, <2>3, <2>4, <2>5
<1> QED
  BY <1>2, <1>8 DEF StoredInv

LEMMA CutStored ==
  ASSUME Inv, StoredInv, Cut
  PROVE  StoredInv'
<1>1. job \in JobType
  BY DEF Inv, JobInv
<1>2. job'.phase = "idle" /\ flash' = flash /\ stored' = IF Begun THEN Nothing ELSE stored
  BY <1>1 DEF Cut, JobType
<1>3. CASE Begun
  BY <1>2, <1>3 DEF StoredInv
<1>4. CASE ~Begun
  <2>1. Intact /\ job.phase # "program" /\ job'.phase # "program" /\ stored' = stored
    BY <1>2, <1>4 DEF Begun, Intact
  <2> QED
    BY <1>2, <2>1, QuietKeeps
<1> QED
  BY <1>3, <1>4

LEMMA StepStores ==
  ASSUME HeaderWords >= 2
  PROVE  Inv /\ StoredInv /\ [Next]_vars => StoredInv'
<1> SUFFICES ASSUME Inv, StoredInv, [Next]_vars PROVE StoredInv'
  OBVIOUS
<1>1. CASE Edit \/ Load
  <2>1. Idle /\ UNCHANGED <<flash, stored, job>>
    BY <1>1 DEF Edit, Load
  <2>2. Intact /\ job.phase # "program" /\ job'.phase # "program"
    BY <2>1 DEF Idle, Intact, Begun
  <2> QED
    BY <2>1, <2>2, QuietKeeps
<1>2. CASE Save \/ SaveHeader
  <2>1. Idle /\ UNCHANGED <<flash, stored>>
    BY <1>2 DEF Save, SaveHeader
  <2>2. Intact /\ job.phase # "program"
    BY <2>1 DEF Idle, Intact, Begun
  <2>3. job'.phase # "program"
    <3>1. CASE Save
      BY <3>1 DEF Save, NoJob
    <3>2. CASE SaveHeader
      BY <3>2 DEF SaveHeader, NoJob
    <3> QED
      BY <1>2, <3>1, <3>2
  <2> QED
    BY <2>1, <2>2, <2>3, QuietKeeps
<1>3. CASE ErasePage
  BY <1>3, EraseStored
<1>4. CASE ProgramWord \/ SavedHeader
  BY <1>4, ProgramStored
<1>5. CASE NextPage
  <2>1. /\ JobInv /\ job.kind = "data"
        /\ job' = [job EXCEPT !.phase = "erase", !.page = @ + 1]
    BY <1>5 DEF NextPage, Inv
  <2>2. job'.phase = "erase" /\ job'.page = job.page + 1 /\ job'.kind = job.kind
        /\ job.page \in Nat
    BY <2>1, PagedJob, JobFacts
  <2>3. ~Intact'
    BY <2>1, <2>2 DEF Intact, Begun
  <2> QED
    BY <2>3 DEF StoredInv
<1>6. CASE Saved
  BY <1>6, SavedStored
<1>7. CASE Cut
  BY <1>7, CutStored
<1>8. CASE UNCHANGED vars
  BY <1>8 DEF vars, StoredInv, Intact, Begun, Content
<1> QED
  BY <1>1, <1>2, <1>3, <1>4, <1>5, <1>6, <1>7, <1>8 DEF Next

-----------------------------------------------------------------------------
(* The theorems.                                                           *)

\* The job stays within the memory and within its data: no page behind the
\* file system is erased, no word of the buffer is programmed that has not
\* been filled.
THEOREM TypeCorrect == Spec => []TypeOK
<1>1. ASSUME Inv PROVE TypeOK
  <2>1. FlashInv /\ JobInv /\ RateInv /\ TasksInv
    BY <1>1 DEF Inv
  <2>2. /\ job \in JobType /\ job.page \in Nat /\ job.word \in Nat /\ job.dataCnt \in Nat
        /\ Pages \in Nat /\ PageWords \in Nat
    BY <2>1, JobFacts, ConstantFacts
  <2>3. job.data \in Seq(WordType) /\ job.phase \in {"idle", "erase", "program"}
    BY <2>2 DEF JobType
  <2>4. Size(job.data) \in Nat
    BY <2>3, LenProperties DEF Size
  <2>5. job.page \in 0..Pages /\ job.dataCnt \in 0..Size(job.data)
    BY <2>1, <2>2, <2>4 DEF JobInv
  <2>6. job.phase = "program" => Len(job.buffer) = PageWords /\ job.word \in 0..(PageWords - 1)
    BY <2>1, <2>2 DEF JobInv
  <2>7. DOMAIN flash = Words
    BY <2>1 DEF FlashInv
  <2> QED
    BY <2>1, <2>3, <2>5, <2>6, <2>7 DEF TypeOK, RateInv, TasksInv
<1> QED
  BY <1>1, InvCorrect, PTL

\* Whatever is saved, and whenever the power fails: the pages before the one
\* that saveData is writing hold the first part of the stream, although each
\* of them has been put together from the flash memory and the stream in a
\* buffer of one page.
THEOREM WrittenSoFarTheorem == Spec => []WrittenSoFar
<1>1. ASSUME Inv PROVE WrittenSoFar
  <2> SUFFICES ASSUME job.kind = "data", NEW k \in 0..(Size(job.data) - 1),
                      PageOf(HeaderWords + k) < job.page
               PROVE  flash[HeaderWords + k] = DataWord(k)
    BY DEF WrittenSoFar
  <2>1. JobInv /\ WrittenInv
    BY <1>1 DEF Inv
  <2>2. job.page \in Nat /\ HeaderWords + k \in Nat
    BY <2>1, DataSize, JobFacts, ConstantFacts
  <2>3. HeaderWords + k < Base(job.page)
    BY <2>2, PageOfWord
  <2> QED
    BY <2>1, <2>3 DEF WrittenInv
<1> QED
  BY <1>1, InvCorrect, PTL

\* The baud rate in front of the animation outlives every SAVE of any
\* animation, although the page it is in is erased and programmed anew.
THEOREM RateKeptTheorem == Spec => []RateKept
<1>1. ASSUME Inv PROVE RateKept
  <2>1. RateInv
    BY <1>1 DEF Inv
  <2>2. job.page \in Nat
    BY <1>1, JobFacts DEF Inv
  <2> QED
    BY <2>1, <2>2 DEF RateInv, RateKept, Idle
<1> QED
  BY <1>1, InvCorrect, PTL

\* No step of SAVE changes a word outside the page that it is at, so that a
\* power failure damages one page at most.
THEOREM OnePageAtRiskTheorem == Spec => OnePageAtRisk
<1> DEFINE OnePage == \A i \in Words : flash'[i] # flash[i] => PageOf(i) = job.page
<1>1. ASSUME Inv, [Next]_vars PROVE [OnePage]_vars
  <2>1. FlashInv /\ JobInv /\ BufferInv
    BY <1>1 DEF Inv
  <2>2. CASE ErasePage
    BY <2>1, <2>2, Erasing
  <2>3. ASSUME NEW last, ProgramHalfword(last) PROVE OnePage
    <3> DEFINE at == Base(job.page) + job.word
    <3>1. PageOf(at) = job.page /\ \A i \in Words : i # at => flash'[i] = flash[i]
      BY <2>1, <2>3, Programming
    <3> HIDE DEF at
    <3> QED
      BY <3>1
  <2>4. CASE ProgramWord \/ NextPage \/ Saved \/ SavedHeader
    <3>1. ProgramHalfword(FALSE) \/ ProgramHalfword(TRUE)
      BY <2>4 DEF ProgramWord, NextPage, Saved, SavedHeader
    <3> QED
      BY <2>3, <3>1
  <2>5. CASE Edit \/ Save \/ SaveHeader \/ Load \/ Cut
    <3>1. flash' = flash
      BY <2>5 DEF Edit, Save, SaveHeader, Load, Cut
    <3> QED
      BY <3>1
  <2> QED
    BY <1>1, <2>2, <2>4, <2>5 DEF Next
<1>2. Inv /\ [Next]_vars => [OnePage]_vars
  BY <1>1
<1>3. Spec => [][OnePage]_vars
  <2> HIDE DEF OnePage
  <2> QED
    BY <1>2, InvCorrect, PTL DEF Spec
<1> QED
  BY <1>3 DEF OnePageAtRisk

\* Whatever was saved last is in the memory, unless the power failed after
\* SAVE began to erase: the way back from the stream, started where SAVE put
\* it, gives the animation, task by task and step by step.  The header must
\* have room for the two words that saveHeader announces; with less room it
\* would write into the stream.
THEOREM RecoverableTheorem == ASSUME HeaderWords >= 2 PROVE Spec => []Recoverable
<1>1. ASSUME Inv, StoredInv PROVE Recoverable
  <2> SUFFICES ASSUME Idle, stored # Nothing PROVE fromStream(HeaderWords) = stored
    BY DEF Recoverable
  <2>1. stored \in Animations /\ HeaderWords \in Nat
    BY <1>1, ConstantFacts DEF Inv, TasksInv
  <2>2. ASSUME NEW k \in 0..(Len(toStream(stored)) - 1)
        PROVE  Read(HeaderWords + k) = toStream(stored)[k + 1]
    <3>1. HeaderWords + k \in Words
      BY <2>1, StreamWords
    <3>2. Content(HeaderWords + k) = toStream(stored)[k + 1]
      BY <1>1 DEF StoredInv, Intact, Begun, Idle
    <3>3. Content(HeaderWords + k) = flash[HeaderWords + k]
      BY DEF Content, Idle
    <3> QED
      BY <3>1, <3>2, <3>3 DEF Read
  <2>3. Holds(HeaderWords, toStream(stored))
    BY <2>2 DEF Holds
  <2> QED
    BY <2>1, <2>3, ReadsBack
<1>2. Init => StoredInv
  BY DEF Init, StoredInv
<1> QED
  BY <1>1, <1>2, StepStores, InvCorrect, PTL DEF Spec

\* LOAD never gives an animation back: it looks for the stream at twice the
\* size of the header, where no stream begins in any state of the memory that
\* the program can reach.
THEOREM LoadFails == Spec => [][Load => tasks' = Garbage]_vars
<1>1. Inv => (Load => tasks' = Garbage)
  <2> SUFFICES ASSUME Inv, Load PROVE tasks' = Garbage
    OBVIOUS
  <2>1. fromStream(2 * HeaderWords) = Garbage
    BY NoStream DEF Inv
  <2> QED
    BY <2>1 DEF Load
<1> QED
  BY <1>1, InvCorrect, PTL DEF Spec
=============================================================================
