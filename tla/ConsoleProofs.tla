---------------------------- MODULE ConsoleProofs ----------------------------
(***************************************************************************)
(* Proofs about the line editor, for every length of a line and of the     *)
(* history, every alphabet, and every key after every other.               *)
(***************************************************************************)
EXTENDS Console, InductionLemmas, SequenceTheorems

-----------------------------------------------------------------------------
(* Rows of the buffer.                                                     *)

Start(r) == r * Columns

Chars == Letters \union {NUL}

Cols == 0..(Columns - 1)

LEMMA Sizes == Columns \in Nat /\ Columns >= 2 /\ Rows \in Nat /\ Rows >= 2
BY SizeAssumption

LEMMA RowLayout ==
  ASSUME NEW r \in Nat
  PROVE  /\ Start(r) \in Nat /\ Start(r + 1) = Start(r) + Columns
         /\ \A q \in Nat : r < q => Start(r) + Columns <= Start(q)
         /\ r < Rows => \A p \in 0..(Columns - 1) : Start(r) + p \in Cells
<1>1. Columns \in Nat /\ Rows \in Nat
  BY Sizes
<1>2. Start(r) \in Nat
  <2>1. \A x, y \in Nat : x * y \in Nat
    OBVIOUS
  <2> QED
    BY <1>1, <2>1 DEF Start
<1>3. Start(r + 1) = Start(r) + Columns
  BY <1>1 DEF Start
<1>4. ASSUME NEW q \in Nat, r < q PROVE Start(r) + Columns <= Start(q)
  <2>1. Start(r + 1) <= Start(q)
    BY <1>1, <1>4, ScaledOrder DEF Start
  <2> QED
    BY <1>3, <2>1
<1>5. ASSUME r < Rows, NEW p \in 0..(Columns - 1) PROVE Start(r) + p \in Cells
  <2>1. Start(r) + Columns <= Start(Rows)
    BY <1>1, <1>4, <1>5
  <2>2. Start(Rows) = Columns * Rows /\ Start(Rows) \in Int
    BY <1>1 DEF Start
  <2>3. Start(r) + p \in Nat /\ Start(r) + p <= Start(Rows) - 1
    BY <1>1, <1>2, <2>1, <2>2
  <2> QED
    BY <2>2, <2>3 DEF Cells
<1> QED
  BY <1>2, <1>3, <1>4, <1>5

LEMMA RowsApart ==
  ASSUME NEW r \in Nat, NEW q \in Nat, r # q, NEW k \in Nat,
         Start(r) <= k, k < Start(r) + Columns
  PROVE  k < Start(q) \/ k >= Start(q) + Columns
<1>1. Start(r) \in Nat /\ Start(q) \in Nat /\ Columns \in Nat
  BY RowLayout, Sizes
<1>2. r < q => Start(r) + Columns <= Start(q)
  BY RowLayout
<1>3. q < r => Start(q) + Columns <= Start(r)
  BY RowLayout
<1> QED
  BY <1>1, <1>2, <1>3

LEMMA LettersApart ==
  /\ \A x \in AllControls \union Arrows \union Tokens \union {"[", NUL} : x \notin Letters
  /\ NUL # Space
BY LettersAssumption DEF NUL, Space

LEMMA LeastIs ==
  ASSUME NEW S \in SUBSET Int, NEW m \in S, \A x \in S : m <= x
  PROVE  Min(S) = m
<1> DEFINE c == CHOOSE x \in S : \A y \in S : x <= y
<1>1. c \in S /\ \A y \in S : c <= y
  OBVIOUS
<1>2. Min(S) = c
  BY DEF Min
<1> HIDE DEF c
<1>3. c \in Int /\ m \in Int /\ c <= m /\ m <= c
  BY <1>1
<1> QED
  BY <1>2, <1>3

LEMMA GreatestIs ==
  ASSUME NEW S \in SUBSET Int, NEW m \in S, \A x \in S : m >= x
  PROVE  Max(S) = m
<1> DEFINE c == CHOOSE x \in S : \A y \in S : x >= y
<1>1. c \in S /\ \A y \in S : c >= y
  OBVIOUS
<1>2. Max(S) = c
  BY DEF Max
<1> HIDE DEF c
<1>3. c \in Int /\ m \in Int /\ c >= m /\ m >= c
  BY <1>1
<1> QED
  BY <1>2, <1>3

LEMMA SameRow ==
  ASSUME NEW b, NEW d, NEW r \in Nat, NEW q \in Nat,
         \A p \in Cols : d[Start(q) + p] = b[Start(r) + p]
  PROVE  Row(d, q) = Row(b, r)
<1> DEFINE cells(f, i) == [p \in 1..Columns |-> f[i * Columns + p - 1]]
<1>1. ASSUME NEW p \in 1..Columns
      PROVE  d[q * Columns + p - 1] = b[r * Columns + p - 1]
  <2>1. p - 1 \in Cols /\ Start(q) \in Nat /\ Start(r) \in Nat /\ p \in Int
    BY Sizes, RowLayout DEF Cols
  <2>2. /\ q * Columns + p - 1 = Start(q) + (p - 1)
        /\ r * Columns + p - 1 = Start(r) + (p - 1)
    BY <2>1 DEF Start
  <2> QED
    BY <2>1, <2>2
<1>2. cells(d, q) = cells(b, r)
  BY <1>1
<1>3. /\ Row(d, q) = LET cell == cells(d, q)
                         zeros == {p \in 1..Columns : cell[p] = NUL}
                     IN IF zeros = {} THEN cell ELSE SubSeq(cell, 1, Min(zeros) - 1)
      /\ Row(b, r) = LET cell == cells(b, r)
                         zeros == {p \in 1..Columns : cell[p] = NUL}
                     IN IF zeros = {} THEN cell ELSE SubSeq(cell, 1, Min(zeros) - 1)
  BY DEF Row
<1> HIDE DEF cells
<1> QED
  BY <1>2, <1>3

\* the text of a row ends before its first zero
LEMMA RowIs ==
  ASSUME NEW b \in [Cells -> Chars], NEW r \in Nat, r < Rows, NEW n \in Cols,
         b[Start(r) + n] = NUL, \A p \in 0..(n - 1) : b[Start(r) + p] # NUL
  PROVE  /\ Row(b, r) \in Seq(Chars) /\ Len(Row(b, r)) = n
         /\ \A k \in 1..n : Row(b, r)[k] = b[Start(r) + (k - 1)]
<1> DEFINE cell == [p \in 1..Columns |-> b[r * Columns + p - 1]]
           zeros == {p \in 1..Columns : cell[p] = NUL}
<1>1. n \in Nat /\ n <= Columns - 1 /\ Columns \in Nat /\ Start(r) \in Nat
  BY Sizes, RowLayout DEF Cols
<1>2. ASSUME NEW p \in 1..Columns
      PROVE  cell[p] = b[Start(r) + (p - 1)] /\ cell[p] \in Chars
  <2>1. p - 1 \in 0..(Columns - 1)
    BY <1>1
  <2>2. Start(r) + (p - 1) \in Cells
    BY <2>1, RowLayout
  <2>3. r * Columns + p - 1 = Start(r) + (p - 1)
    BY <1>1 DEF Start
  <2> QED
    BY <2>2, <2>3
<1>3. zeros \in SUBSET Int /\ n + 1 \in zeros /\ \A x \in zeros : n + 1 <= x
  <2> HIDE DEF cell
  <2>1. n + 1 \in 1..Columns /\ n + 1 - 1 = n
    BY <1>1
  <2>2. cell[n + 1] = NUL
    <3> DEFINE i == n + 1
    <3>1. i \in 1..Columns /\ i - 1 = n
      BY <1>1, <2>1
    <3> HIDE DEF i
    <3>2. cell[i] = b[Start(r) + (i - 1)]
      BY <1>2, <3>1
    <3> QED
      BY <3>1, <3>2 DEF i
  <2>3. ASSUME NEW x \in zeros, ~(n + 1 <= x) PROVE FALSE
    <3>1. x \in 1..Columns /\ x - 1 \in 0..(n - 1)
      BY <1>1, <2>3
    <3> QED
      BY <1>2, <3>1
  <2> QED
    BY <2>1, <2>2, <2>3
<1>4. Min(zeros) = n + 1 /\ zeros # {}
  <2> HIDE DEF zeros
  <2> QED
    BY <1>1, <1>3, LeastIs
<1>5. Row(b, r) = SubSeq(cell, 1, n)
  <2>1. Row(b, r) = IF zeros = {} THEN cell ELSE SubSeq(cell, 1, Min(zeros) - 1)
    BY DEF Row
  <2> HIDE DEF zeros, cell
  <2>2. Min(zeros) - 1 = n
    BY <1>1, <1>4
  <2> QED
    BY <1>4, <2>1, <2>2
<1>6. /\ SubSeq(cell, 1, n) \in Seq(Chars) /\ Len(SubSeq(cell, 1, n)) = n
      /\ \A k \in 1..n : SubSeq(cell, 1, n)[k] = cell[k]
  <2> HIDE DEF cell
  <2>1. \A k \in 1..n : cell[k] \in Chars
    BY <1>1, <1>2
  <2>2. /\ SubSeq(cell, 1, n) \in Seq(Chars)
        /\ Len(SubSeq(cell, 1, n)) = IF 1 <= n THEN n - 1 + 1 ELSE 0
        /\ \A k \in 1..(n - 1 + 1) : SubSeq(cell, 1, n)[k] = cell[1 + k - 1]
    BY <1>1, <2>1, SubSeqProperties
  <2> QED
    BY <1>1, <2>2
<1> DEFINE text == SubSeq(cell, 1, n)
<1>7. text \in Seq(Chars) /\ Len(text) = n /\ \A k \in 1..n : text[k] = b[Start(r) + (k - 1)]
  <2> HIDE DEF cell
  <2> QED
    BY <1>1, <1>2, <1>6
<1> HIDE DEF text, cell
<1>8. Row(b, r) = text
  BY <1>5 DEF text
<1> QED
  BY <1>7, <1>8

\* the last cell of every row is a zero
Zeroed(b) == \A r \in 0..(Rows - 1) : b[Start(r) + (Columns - 1)] = NUL

\* the first zero from column p on
LEMMA FirstZero ==
  ASSUME NEW b \in [Cells -> Chars], Zeroed(b), NEW r \in Nat, r < Rows, NEW p \in Cols
  PROVE  \E e \in p..(Columns - 1) : /\ b[Start(r) + e] = NUL
                                     /\ \A q \in p..(e - 1) : b[Start(r) + q] # NUL
<1> DEFINE S == {e \in Nat : p <= e /\ e <= Columns - 1 /\ b[Start(r) + e] = NUL}
<1>1. p \in Nat /\ Columns \in Nat /\ Columns >= 2 /\ p <= Columns - 1
  BY Sizes DEF Cols
<1>2. Columns - 1 \in S
  <2>1. r \in 0..(Rows - 1)
    BY Sizes
  <2> QED
    BY <1>1, <2>1 DEF Zeroed
<1>3. PICK m \in S : \A k \in S : m <= k
  <2>1. S \in SUBSET Nat /\ S # {}
    BY <1>2
  <2> HIDE DEF S
  <2> QED
    BY <2>1, LeastElement
<1>4. m \in p..(Columns - 1) /\ b[Start(r) + m] = NUL
  BY <1>1, <1>3
<1>5. ASSUME NEW q \in p..(m - 1), b[Start(r) + q] = NUL PROVE FALSE
  <2>1. q \in Nat /\ p <= q /\ q <= Columns - 1 /\ q < m /\ m \in Nat
    BY <1>1, <1>4, <1>5
  <2>2. q \in S
    BY <1>5, <2>1
  <2> HIDE DEF S
  <2> QED
    BY <1>3, <2>1, <2>2
<1> QED
  BY <1>4, <1>5

LEMMA RowType ==
  ASSUME NEW b \in [Cells -> Chars], Zeroed(b), NEW r \in Nat, r < Rows
  PROVE  Row(b, r) \in Seq(Chars)
<1>1. 0 \in Cols
  BY Sizes DEF Cols
<1>2. PICK n \in 0..(Columns - 1) : /\ b[Start(r) + n] = NUL
                                    /\ \A q \in 0..(n - 1) : b[Start(r) + q] # NUL
  BY <1>1, FirstZero
<1> QED
  BY <1>2, RowIs DEF Cols

-----------------------------------------------------------------------------
(* Reading and writing the row that is edited.                             *)

ConType ==
  [commandBuffer : [Cells -> Chars], commandBufferShadow : [Cells -> Chars],
   cbfCnt : Cols, cbfIdx : 0..(Rows - 1), cursor : 0..(Wrap - 1), mode : 0..2,
   cmdBfr : {"[", NUL}]

Fine(c) == c \in ConType /\ Zeroed(c.commandBuffer) /\ Zeroed(c.commandBufferShadow)

\* the cells of the row that is edited
Here(c, q) == c.commandBuffer[Start(c.cbfIdx) + q]

\* as far as the editor counts, the row holds the command w
Editing(c, w) ==
  /\ Fine(c) /\ w \in Seq(Letters) /\ c.cbfCnt = Len(w)
  /\ \A k \in 1..Len(w) : Here(c, k - 1) = w[k]

\* and nothing behind it
Ended(c) == Here(c, c.cbfCnt) = NUL

LEMMA HereIs ==
  ASSUME NEW c \in ConType
  PROVE  /\ \A q : c.commandBuffer[At(c, q)] = Here(c, q)
         /\ \A q \in Cols : Here(c, q) \in Chars /\ Start(c.cbfIdx) + q \in Cells
         /\ c.cbfIdx \in Nat /\ c.cbfIdx < Rows /\ Start(c.cbfIdx) \in Nat
         /\ \A q : At(c, q) = Start(c.cbfIdx) + q
         /\ c.commandBuffer \in [Cells -> Chars]
<1>1. c.commandBuffer \in [Cells -> Chars] /\ c.cbfIdx \in 0..(Rows - 1)
  BY DEF ConType
<1>2. c.cbfIdx \in Nat /\ c.cbfIdx < Rows
  BY <1>1, Sizes
<1>3. Start(c.cbfIdx) \in Nat /\ \A q \in Cols : Start(c.cbfIdx) + q \in Cells
  BY <1>2, RowLayout DEF Cols
<1>4. \A q : At(c, q) = Start(c.cbfIdx) + q
  BY DEF At, Start
<1>5. \A q \in Cols : Here(c, q) \in Chars
  BY <1>1, <1>3 DEF Here
<1>6. \A q : c.commandBuffer[At(c, q)] = Here(c, q)
  BY <1>4 DEF Here
<1> QED
  BY <1>1, <1>2, <1>3, <1>4, <1>5, <1>6

LEMMA EditingFacts ==
  ASSUME NEW c, NEW w, Editing(c, w)
  PROVE  /\ c \in ConType /\ Fine(c) /\ w \in Seq(Letters) /\ Len(w) \in Nat
         /\ c.cbfCnt = Len(w) /\ Len(w) \in Cols /\ Len(w) <= Columns - 1
         /\ \A k \in 1..Len(w) : w[k] \in Letters /\ w[k] # NUL
         /\ \A q \in 0..(Len(w) - 1) : q + 1 \in 1..Len(w) /\ Here(c, q) = w[q + 1]
         /\ c.cursor \in 0..(Wrap - 1) /\ c.cursor \in Nat
         /\ Columns \in Nat /\ Columns >= 2 /\ Wrap \in Nat /\ Wrap >= Columns
<1>1. /\ Fine(c) /\ w \in Seq(Letters) /\ c.cbfCnt = Len(w)
      /\ \A k \in 1..Len(w) : Here(c, k - 1) = w[k]
  BY DEF Editing
<1>2. c \in ConType
  BY <1>1 DEF Fine
<1>3. c.cbfCnt \in Cols /\ c.cursor \in 0..(Wrap - 1)
  BY <1>2 DEF ConType
<1>4. Columns \in Nat /\ Columns >= 2 /\ Wrap \in Nat /\ Wrap >= Columns
  BY Sizes, WrapAssumption
<1>5. Len(w) \in Nat /\ Len(w) \in Cols /\ Len(w) <= Columns - 1
  BY <1>1, <1>3, <1>4 DEF Cols
<1>6. \A k \in 1..Len(w) : w[k] \in Letters /\ w[k] # NUL
  BY <1>1, ElementOfSeq, LettersApart
<1>7. ASSUME NEW q \in 0..(Len(w) - 1) PROVE q + 1 \in 1..Len(w) /\ Here(c, q) = w[q + 1]
  <2>1. q + 1 \in 1..Len(w) /\ q + 1 - 1 = q
    BY <1>5
  <2>2. Here(c, q + 1 - 1) = w[q + 1]
    BY <1>1, <2>1
  <2> QED
    BY <2>1, <2>2
<1>8. c.cursor \in Nat
  BY <1>3, <1>4
<1> QED
  BY <1>1, <1>2, <1>3, <1>4, <1>5, <1>6, <1>7, <1>8

\* the text from column p on ends at the first zero
LEMMA FromIs ==
  ASSUME NEW c, Fine(c), NEW p \in Cols
  PROVE  /\ From(c, p) \in Seq(Letters) /\ p + Len(From(c, p)) \in Cols
         /\ End(c, p) = p + Len(From(c, p))
         /\ \A k \in 1..Len(From(c, p)) : From(c, p)[k] = Here(c, p + k - 1)
         /\ Here(c, p + Len(From(c, p))) = NUL
<1> DEFINE Ends(e) == /\ c.commandBuffer[At(c, e)] = NUL
                      /\ \A q \in p..(e - 1) : c.commandBuffer[At(c, q)] # NUL
           i == c.cbfIdx
<1>1. /\ c \in ConType /\ i \in Nat /\ i < Rows /\ Zeroed(c.commandBuffer)
      /\ c.commandBuffer \in [Cells -> Chars]
      /\ p \in Nat /\ p <= Columns - 1 /\ Columns \in Nat /\ Columns >= 2
      /\ \A q : c.commandBuffer[At(c, q)] = Here(c, q)
      /\ \A q \in Cols : Here(c, q) \in Chars
  BY HereIs, Sizes DEF Fine, Cols
<1>2. PICK e \in p..(Columns - 1) : /\ Here(c, e) = NUL
                                    /\ \A q \in p..(e - 1) : Here(c, q) # NUL
  BY <1>1, FirstZero DEF Here
<1>3. e \in p..(Columns * Rows) /\ e \in Cols /\ e \in Nat
  <2>1. 1 * Columns <= Rows * Columns /\ Rows * Columns \in Int
    BY Sizes, ScaledOrder
  <2>2. Columns * Rows = Rows * Columns /\ 1 * Columns = Columns
    BY Sizes
  <2>3. Columns <= Columns * Rows /\ Columns * Rows \in Int
    BY <2>1, <2>2
  <2> DEFINE top == Columns * Rows
  <2> HIDE DEF top
  <2>4. Columns <= top /\ top \in Int
    BY <2>3 DEF top
  <2>5. e \in p..top /\ e \in Cols /\ e \in Nat
    BY <1>1, <1>2, <2>4 DEF Cols
  <2> QED
    BY <2>5 DEF top
<1>4. Ends(e)
  BY <1>1, <1>2
<1>5. ASSUME NEW f \in p..(Columns * Rows), Ends(f) PROVE f = e
  <2> DEFINE top == Columns * Rows
  <2>1. f \in p..top
    OBVIOUS
  <2> HIDE DEF top
  <2>2. f \in Int /\ f >= p
    BY <1>1, <2>1
  <2>3. CASE f < e
    <3>1. f \in p..(e - 1)
      BY <1>1, <1>3, <2>2, <2>3
    <3> QED
      BY <1>1, <1>2, <1>5, <3>1
  <2>4. CASE f > e
    <3>1. e \in p..(f - 1)
      BY <1>1, <1>2, <1>3, <2>2, <2>4
    <3> QED
      BY <1>1, <1>2, <1>5, <3>1
  <2> QED
    BY <1>3, <2>2, <2>3, <2>4
<1>6. End(c, p) = e
  <2>1. End(c, p) = CHOOSE f \in p..(Columns * Rows) : Ends(f)
    BY DEF End
  <2> HIDE DEF Ends
  <2>2. (CHOOSE f \in p..(Columns * Rows) : Ends(f)) = e
    BY <1>3, <1>4, <1>5
  <2> QED
    BY <2>1, <2>2
<1> DEFINE m == e - p
           text == [k \in 1..m |-> c.commandBuffer[At(c, p + k - 1)]]
<1>7. From(c, p) = text
  <2>1. From(c, p) = [k \in 1..(End(c, p) - p) |-> c.commandBuffer[At(c, p + k - 1)]]
    BY DEF From
  <2> QED
    BY <1>6, <2>1
<1>8. m \in Nat /\ p + m = e
  BY <1>1, <1>2, <1>3
<1>9. ASSUME NEW k \in 1..m PROVE text[k] = Here(c, p + k - 1) /\ text[k] \in Letters
  <2> DEFINE q == p + k - 1
  <2>1. q \in p..(e - 1) /\ q \in Cols
    BY <1>1, <1>3, <1>8 DEF Cols
  <2>2. text[k] = c.commandBuffer[At(c, q)]
    OBVIOUS
  <2> HIDE DEF q, text, m
  <2>3. text[k] = Here(c, q) /\ Here(c, q) \in Chars /\ Here(c, q) # NUL
    BY <1>1, <1>2, <2>1, <2>2
  <2>4. text[k] \in Letters
    BY <2>3 DEF Chars
  <2> QED
    BY <2>3, <2>4 DEF q
<1> HIDE DEF m
<1>10. text \in [1..m -> Letters] /\ DOMAIN text = 1..m
  BY <1>9
<1> HIDE DEF text
<1>11. text \in Seq(Letters) /\ Len(text) = m
  <2>1. \A f \in [1..m -> Letters] : f \in Seq(Letters) /\ Len(f) = m
    BY <1>8
  <2> QED
    BY <1>10, <2>1
<1> QED
  BY <1>2, <1>3, <1>6, <1>7, <1>8, <1>9, <1>11

\* the rest of w behind its first p characters
Rest(w, p) == [k \in 1..(Len(w) - p) |-> w[p + k]]

LEMMA RestType ==
  ASSUME NEW w \in Seq(Letters), NEW p \in 0..Len(w)
  PROVE  /\ Rest(w, p) \in Seq(Letters) /\ Len(Rest(w, p)) = Len(w) - p
         /\ \A k \in 1..(Len(w) - p) : Rest(w, p)[k] = w[p + k]
         /\ p = Len(w) => Rest(w, p) = << >>
         /\ p = 0 => Rest(w, p) = w
<1> DEFINE n == Len(w)
           m == n - p
<1>1. n \in Nat /\ m \in Nat
  BY LenProperties
<1>2. \A k \in 1..m : w[p + k] \in Letters
  <2>1. \A k \in 1..m : p + k \in 1..n
    BY <1>1
  <2> QED
    BY <2>1, ElementOfSeq
<1>3. Rest(w, p) = [k \in 1..m |-> w[p + k]]
  BY DEF Rest
<1> HIDE DEF m
<1>4. Rest(w, p) \in [1..m -> Letters]
  BY <1>2, <1>3
<1>5. Rest(w, p) \in Seq(Letters) /\ Len(Rest(w, p)) = m
  <2>1. \A f \in [1..m -> Letters] : f \in Seq(Letters) /\ Len(f) = m
    BY <1>1
  <2> QED
    BY <1>4, <2>1
<1>6. \A k \in 1..m : Rest(w, p)[k] = w[p + k]
  BY <1>3
<1>7. p = n => Rest(w, p) = << >>
  BY <1>1, <1>5, EmptySeq DEF m
<1>8. p = 0 => Rest(w, p) = w
  BY <1>1, <1>5, <1>6 DEF m
<1> QED
  BY <1>5, <1>6, <1>7, <1>8 DEF m

LEMMA ConUpdates ==
  ASSUME NEW c \in ConType
  PROVE  /\ \A x \in [Cells -> Chars] : [c EXCEPT !.commandBuffer = x] \in ConType
         /\ \A x \in [Cells -> Chars] : [c EXCEPT !.commandBufferShadow = x] \in ConType
         /\ \A x \in Cols : [c EXCEPT !.cbfCnt = x] \in ConType
         /\ \A x \in 0..(Rows - 1) : [c EXCEPT !.cbfIdx = x] \in ConType
         /\ \A x \in 0..(Wrap - 1) : [c EXCEPT !.cursor = x] \in ConType
         /\ \A x \in 0..2 : [c EXCEPT !.mode = x] \in ConType
         /\ \A x \in {"[", NUL} : [c EXCEPT !.cmdBfr = x] \in ConType
BY DEF ConType

\* d differs from c in the row that is edited at most
SameElsewhere(c, d) ==
  /\ Fine(d) /\ d.commandBufferShadow = c.commandBufferShadow /\ d.cbfIdx = c.cbfIdx
  /\ \A r \in 0..(Rows - 1) : \A q \in Cols :
       r # c.cbfIdx => d.commandBuffer[Start(r) + q] = c.commandBuffer[Start(r) + q]

LEMMA WrittenIs ==
  ASSUME NEW c, Fine(c), NEW p \in Nat, NEW s \in Seq(Chars), p + Len(s) <= Columns,
         p + Len(s) = Columns => s # << >> /\ s[Len(s)] = NUL
  PROVE  LET d == Written(c, p, s) IN
         /\ SameElsewhere(c, d)
         /\ d.cbfCnt = c.cbfCnt /\ d.cursor = c.cursor /\ d.mode = c.mode
         /\ \A q \in Cols :
              Here(d, q) = IF p <= q /\ q < p + Len(s) THEN s[q - p + 1] ELSE Here(c, q)
<1> DEFINE b == c.commandBuffer
           new == [k \in Cells |->
                     IF k - At(c, p) + 1 \in 1..Len(s) THEN s[k - At(c, p) + 1] ELSE b[k]]
           d == [c EXCEPT !.commandBuffer = new]
           i == c.cbfIdx
<1>1. /\ c \in ConType /\ i \in Nat /\ i < Rows /\ b \in [Cells -> Chars]
      /\ Start(i) \in Nat /\ Len(s) \in Nat /\ Columns \in Nat /\ Columns >= 2
      /\ Rows \in Nat
      /\ \A q : b[At(c, q)] = Here(c, q)
  BY HereIs, LenProperties, Sizes DEF Fine
<1>2. \A q : At(c, q) = Start(i) + q
  BY DEF At, Start
<1>3. Written(c, p, s) = d
  BY DEF Written
<1>4. new \in [Cells -> Chars]
  <2>1. \A k \in 1..Len(s) : s[k] \in Chars
    BY ElementOfSeq
  <2> HIDE DEF b
  <2> QED
    BY <1>1, <2>1
<1>5. /\ d \in ConType /\ d.commandBuffer = new
      /\ d.commandBufferShadow = c.commandBufferShadow /\ d.cbfIdx = c.cbfIdx
      /\ d.cbfCnt = c.cbfCnt /\ d.cursor = c.cursor /\ d.mode = c.mode
  <2> HIDE DEF new
  <2>1. d \in ConType
    BY <1>1, <1>4, ConUpdates
  <2>2. /\ d.commandBuffer = new
        /\ d.commandBufferShadow = c.commandBufferShadow /\ d.cbfIdx = c.cbfIdx
        /\ d.cbfCnt = c.cbfCnt /\ d.cursor = c.cursor /\ d.mode = c.mode
    BY <1>1 DEF ConType
  <2> QED
    BY <2>1, <2>2
<1>6. ASSUME NEW q \in Cols
      PROVE  new[Start(i) + q] = IF p <= q /\ q < p + Len(s) THEN s[q - p + 1] ELSE Here(c, q)
  <2> DEFINE k == Start(i) + q
  <2>1. k \in Cells /\ q \in Int
    <3>1. q \in 0..(Columns - 1) /\ q \in Int
      BY <1>1 DEF Cols
    <3>2. \A x \in 0..(Columns - 1) : Start(i) + x \in Cells
      BY <1>1, RowLayout
    <3> QED
      BY <3>1, <3>2
  <2>2. k - At(c, p) + 1 = q - p + 1
    BY <1>1, <1>2, <2>1
  <2>3. new[k] = IF q - p + 1 \in 1..Len(s) THEN s[q - p + 1] ELSE b[k]
    <3> HIDE DEF k, b
    <3> QED
      BY <2>1, <2>2
  <2>4. b[k] = Here(c, q)
    BY DEF Here
  <2>5. q - p + 1 \in 1..Len(s) <=> p <= q /\ q < p + Len(s)
    BY <1>1, <2>1
  <2> HIDE DEF new, k, b
  <2> QED
    BY <2>3, <2>4, <2>5 DEF k
<1>7. ASSUME NEW r \in Nat, r # i, r < Rows, NEW q \in Cols
      PROVE  new[Start(r) + q] = b[Start(r) + q]
  <2> DEFINE k == Start(r) + q
  <2>1. k \in Cells /\ k \in Nat /\ Start(r) \in Nat /\ q \in 0..(Columns - 1)
    <3>1. Start(r) \in Nat
      BY RowLayout
    <3>2. k \in Cells /\ q \in 0..(Columns - 1)
      BY <1>7, RowLayout DEF Cols
    <3> QED
      BY <1>1, <3>1, <3>2
  <2>2. Start(r) <= k /\ k < Start(r) + Columns
    BY <1>1, <2>1
  <2> HIDE DEF k
  <2>3. k < Start(i) \/ k >= Start(i) + Columns
    BY <1>1, <1>7, <2>1, <2>2, RowsApart
  <2>4. k - At(c, p) + 1 \notin 1..Len(s)
    <3>1. At(c, p) = Start(i) + p
      BY <1>2
    <3> QED
      BY <1>1, <2>1, <2>3, <3>1
  <2>5. new[k] = b[k]
    BY <2>1, <2>4
  <2> QED
    BY <2>5 DEF k
<1> HIDE DEF new
<1>8. Zeroed(new)
  <2> SUFFICES ASSUME NEW r \in 0..(Rows - 1) PROVE new[Start(r) + (Columns - 1)] = NUL
    BY DEF Zeroed
  <2> DEFINE q == Columns - 1
  <2>1. q \in Cols /\ b[Start(r) + q] = NUL /\ r \in Nat /\ r < Rows
    BY <1>1 DEF Cols, Fine, Zeroed
  <2>2. p <= q /\ q < p + Len(s) => q - p + 1 = Len(s) /\ p + Len(s) = Columns
    BY <1>1
  <2> HIDE DEF q
  <2>3. new[Start(r) + q] = NUL
    <3>1. CASE r = i
      <4>1. Here(c, q) = NUL
        BY <2>1, <3>1 DEF Here
      <4> QED
        BY <1>6, <2>1, <2>2, <3>1, <4>1
    <3>2. CASE r # i
      BY <1>7, <2>1, <3>2
    <3> QED
      BY <3>1, <3>2
  <2> QED
    BY <2>3 DEF q
<1> HIDE DEF d
<1>9. SameElsewhere(c, d)
  <2>1. Fine(d)
    BY <1>5, <1>8 DEF Fine
  <2>2. \A r \in 0..(Rows - 1) : \A q \in Cols :
          r # i => d.commandBuffer[Start(r) + q] = c.commandBuffer[Start(r) + q]
    BY <1>1, <1>5, <1>7
  <2> QED
    BY <1>5, <2>1, <2>2 DEF SameElsewhere
<1>10. \A q \in Cols :
         Here(d, q) = IF p <= q /\ q < p + Len(s) THEN s[q - p + 1] ELSE Here(c, q)
  BY <1>5, <1>6 DEF Here
<1> QED
  BY <1>3, <1>5, <1>9, <1>10

\* no characters behind a zero of the row that is edited
NeatHere(c) == \A p \in 1..(Columns - 1) : Here(c, p - 1) = NUL => Here(c, p) = NUL

LEMMA NeatIs ==
  ASSUME NEW c, Fine(c)
  PROVE  /\ Neat(c.commandBuffer) => NeatHere(c)
         /\ \A d : SameElsewhere(c, d) /\ Neat(c.commandBuffer) /\ NeatHere(d) =>
              Neat(d.commandBuffer)
<1>1. /\ c.cbfIdx \in 0..(Rows - 1) /\ Columns \in Nat /\ Rows \in Nat
      /\ \A r \in 0..(Rows - 1) : Start(r) \in Nat
  <2>1. \A r \in 0..(Rows - 1) : r \in Nat
    BY Sizes
  <2> QED
    BY <2>1, Sizes, RowLayout DEF Fine, ConType
<1>2. ASSUME NEW r \in 0..(Rows - 1), NEW p \in 1..(Columns - 1)
      PROVE  /\ r * Columns + p - 1 = Start(r) + (p - 1) /\ r * Columns + p = Start(r) + p
             /\ p \in Cols /\ p - 1 \in Cols
  BY <1>1 DEF Start, Cols
<1>3. \A b : Neat(b) <=> \A r \in 0..(Rows - 1) : \A p \in 1..(Columns - 1) :
                           b[Start(r) + (p - 1)] = NUL => b[Start(r) + p] = NUL
  BY <1>2 DEF Neat
<1>4. Neat(c.commandBuffer) => NeatHere(c)
  BY <1>1, <1>3 DEF NeatHere, Here
<1>5. ASSUME NEW d, SameElsewhere(c, d), Neat(c.commandBuffer), NeatHere(d)
      PROVE  Neat(d.commandBuffer)
  <2> SUFFICES ASSUME NEW r \in 0..(Rows - 1), NEW p \in 1..(Columns - 1),
                      d.commandBuffer[Start(r) + (p - 1)] = NUL
               PROVE  d.commandBuffer[Start(r) + p] = NUL
    BY <1>3
  <2>1. CASE r = c.cbfIdx
    BY <1>5, <2>1 DEF NeatHere, Here, SameElsewhere
  <2>2. CASE r # c.cbfIdx
    <3>1. /\ d.commandBuffer[Start(r) + (p - 1)] = c.commandBuffer[Start(r) + (p - 1)]
          /\ d.commandBuffer[Start(r) + p] = c.commandBuffer[Start(r) + p]
      BY <1>2, <1>5, <2>2 DEF SameElsewhere
    <3> QED
      BY <1>3, <1>5, <3>1
  <2> QED
    BY <2>1, <2>2
<1> QED
  BY <1>4, <1>5

-----------------------------------------------------------------------------
(* The terminal.                                                           *)

ShownBody(s, out, g, k) == IF k = 0 THEN s ELSE Displayed(g[k - 1], out[k])

\* g[k] is the terminal after k of the tokens
IsTrace(s, out, g, n) ==
  g[0] = s /\ \A k \in 0..(n - 1) : g[k + 1] = Displayed(g[k], out[k + 1])

LEMMA TraceExists ==
  ASSUME NEW s, NEW out
  PROVE  \A p \in Nat : \E g : g = [k \in 0..p |-> ShownBody(s, out, g, k)]
<1> DEFINE S == {p \in Nat : \E g : g = [k \in 0..p |-> ShownBody(s, out, g, k)]}
<1>1. 0 \in S
  <2> DEFINE g == [k \in 0..0 |-> s]
  <2>1. \A k \in 0..0 : ShownBody(s, out, g, k) = s
    BY DEF ShownBody
  <2>2. g = [k \in 0..0 |-> ShownBody(s, out, g, k)]
    BY <2>1
  <2> HIDE DEF g
  <2> QED
    BY <2>2
<1>2. ASSUME NEW p \in Nat, p \in S PROVE p + 1 \in S
  <2>1. PICK g : g = [k \in 0..p |-> ShownBody(s, out, g, k)]
    BY <1>2
  <2> DEFINE h == [k \in 0..(p + 1) |-> ShownBody(s, out, g, k)]
             f == [k \in 0..p |-> ShownBody(s, out, g, k)]
  <2>2. ASSUME NEW k \in 0..p PROVE h[k] = g[k]
    <3>1. k \in 0..(p + 1)
      OBVIOUS
    <3>2. f[k] = ShownBody(s, out, g, k)
      OBVIOUS
    <3>3. g = f
      BY <2>1, Zenon
    <3> HIDE DEF f
    <3> QED
      BY <3>1, <3>2, <3>3
  <2>3. ASSUME NEW k \in 0..(p + 1)
        PROVE  ShownBody(s, out, g, k) = ShownBody(s, out, h, k)
    <3>1. CASE k = 0
      BY <3>1 DEF ShownBody
    <3>2. CASE k # 0
      <4>1. k - 1 \in 0..p
        BY <3>2
      <4>2. h[k - 1] = g[k - 1]
        BY <2>2, <4>1
      <4> HIDE DEF h
      <4> QED
        BY <4>2, Zenon DEF ShownBody
    <3> QED
      BY <3>1, <3>2
  <2>4. h = [k \in 0..(p + 1) |-> ShownBody(s, out, h, k)]
    BY <2>3
  <2> HIDE DEF h
  <2> QED
    BY <2>4
<1>3. Nat \subseteq S
  <2> HIDE DEF S
  <2> QED
    BY <1>1, <1>2, SetInduction
<1> QED
  BY <1>3

LEMMA ShownTrace ==
  ASSUME NEW s, NEW out, Len(out) \in Nat
  PROVE  \E g : IsTrace(s, out, g, Len(out)) /\ Shown(s, out) = g[Len(out)]
<1> DEFINE n == Len(out)
           g == CHOOSE f : f = [k \in 0..n |-> ShownBody(s, out, f, k)]
<1>1. g = [k \in 0..n |-> ShownBody(s, out, g, k)]
  BY TraceExists
<1>2. Shown(s, out) = g[n]
  BY DEF Shown, ShownBody
<1> HIDE DEF g
<1>3. ASSUME NEW k \in 0..n PROVE g[k] = ShownBody(s, out, g, k)
  <2> DEFINE f == [i \in 0..n |-> ShownBody(s, out, g, i)]
  <2>1. f[k] = ShownBody(s, out, g, k)
    OBVIOUS
  <2>2. g = f
    BY <1>1, Zenon
  <2> HIDE DEF f
  <2> QED
    BY <2>1, <2>2
<1>4. g[0] = s
  <2>1. 0 \in 0..n
    OBVIOUS
  <2> QED
    BY <1>3, <2>1 DEF ShownBody
<1>5. ASSUME NEW k \in 0..(n - 1) PROVE g[k + 1] = Displayed(g[k], out[k + 1])
  <2> DEFINE m == k + 1
  <2>1. m \in 0..n /\ m # 0 /\ m - 1 = k
    OBVIOUS
  <2> HIDE DEF m
  <2>2. g[m] = ShownBody(s, out, g, m)
    BY <1>3, <2>1
  <2>3. ShownBody(s, out, g, m) = Displayed(g[m - 1], out[m])
    BY <2>1, Zenon DEF ShownBody
  <2>4. g[m] = Displayed(g[k], out[m])
    BY <2>1, <2>2, <2>3
  <2> QED
    BY <2>4 DEF m
<1>6. IsTrace(s, out, g, n)
  BY <1>4, <1>5 DEF IsTrace
<1> QED
  BY <1>2, <1>6

\* two traces that begin alike are alike
LEMMA SameTrace ==
  ASSUME NEW s, NEW out, NEW n \in Nat, NEW g, NEW h,
         IsTrace(s, out, g, n), IsTrace(s, out, h, n)
  PROVE  \A k \in 0..n : g[k] = h[k]
<1> DEFINE S == {k \in Nat : k <= n => g[k] = h[k]}
<1>1. 0 \in S
  BY DEF IsTrace
<1>2. ASSUME NEW k \in Nat, k \in S PROVE k + 1 \in S
  <2> SUFFICES ASSUME k + 1 <= n PROVE g[k + 1] = h[k + 1]
    OBVIOUS
  <2>1. k \in 0..(n - 1)
    OBVIOUS
  <2>2. g[k] = h[k]
    BY <1>2, <2>1
  <2>3. g[k + 1] = Displayed(g[k], out[k + 1]) /\ h[k + 1] = Displayed(h[k], out[k + 1])
    BY <2>1 DEF IsTrace
  <2> QED
    BY <2>2, <2>3
<1>3. Nat \subseteq S
  <2> HIDE DEF S
  <2> QED
    BY <1>1, <1>2, SetInduction
<1> QED
  BY <1>3

\* what is printed in two parts
LEMMA ShownParts ==
  ASSUME NEW T, NEW s, NEW a \in Seq(T), NEW b \in Seq(T)
  PROVE  Shown(s, a \o b) = Shown(Shown(s, a), b)
<1> DEFINE m == Len(a)
           n == Len(b)
           out == a \o b
           t == Shown(s, a)
<1>1. m \in Nat /\ n \in Nat
  BY LenProperties
<1>2. /\ out \in Seq(T) /\ Len(out) = m + n
      /\ \A k \in 1..(m + n) : out[k] = IF k <= m THEN a[k] ELSE b[k - m]
  BY ConcatProperties
<1>3. PICK f : IsTrace(s, a, f, m) /\ t = f[m]
  BY <1>1, ShownTrace
<1>4. PICK g : IsTrace(t, b, g, n) /\ Shown(t, b) = g[n]
  <2> HIDE DEF t
  <2> QED
    BY <1>1, ShownTrace
<1>5. PICK h : IsTrace(s, out, h, m + n) /\ Shown(s, out) = h[m + n]
  <2> HIDE DEF out
  <2>1. Len(out) \in Nat
    BY <1>1, <1>2
  <2> QED
    BY <1>2, <2>1, ShownTrace
<1> DEFINE j == [k \in 0..(m + n) |-> IF k <= m THEN f[k] ELSE g[k - m]]
           cut == m + n
<1> HIDE DEF m, n, out, t
<1>6. /\ f[0] = s /\ \A k \in 0..(m - 1) : f[k + 1] = Displayed(f[k], a[k + 1])
      /\ g[0] = t /\ \A k \in 0..(n - 1) : g[k + 1] = Displayed(g[k], b[k + 1])
  BY <1>3, <1>4 DEF IsTrace
<1>7. cut \in Nat /\ cut = m + n
  BY <1>1
<1>8. IsTrace(s, out, h, cut)
  BY <1>5
<1>9. j[0] = s
  BY <1>1, <1>6
<1>10. ASSUME NEW k \in 0..(cut - 1) PROVE j[k + 1] = Displayed(j[k], out[k + 1])
  <2>1. k \in 0..(m + n) /\ k + 1 \in 0..(m + n) /\ k + 1 \in 1..(m + n)
    BY <1>1
  <2>2. CASE k + 1 <= m
    <3>1. k \in 0..(m - 1) /\ k <= m
      BY <1>1, <2>2
    <3>2. j[k + 1] = f[k + 1] /\ j[k] = f[k] /\ out[k + 1] = a[k + 1]
      BY <1>2, <2>1, <2>2, <3>1
    <3> HIDE DEF j
    <3> QED
      BY <1>6, <3>1, <3>2
  <2>3. CASE ~(k + 1 <= m)
    <3> DEFINE i == k - m
    <3>1. i \in 0..(n - 1) /\ k + 1 - m = i + 1 /\ k - m = i
      BY <1>1, <2>3
    <3>2. j[k + 1] = g[i + 1] /\ out[k + 1] = b[i + 1]
      <4>1. j[k + 1] = g[k + 1 - m]
        BY <1>1, <2>1, <2>3
      <4>2. out[k + 1] = b[k + 1 - m]
        BY <1>1, <1>2, <2>1, <2>3
      <4> HIDE DEF j, i
      <4> QED
        BY <3>1, <4>1, <4>2
    <3>3. j[k] = g[i]
      <4>1. CASE k = m
        BY <1>1, <1>3, <1>6, <2>1, <4>1
      <4>2. CASE k # m
        BY <1>1, <2>1, <2>3, <4>2
      <4> QED
        BY <4>1, <4>2
    <3> HIDE DEF j, i
    <3> QED
      BY <1>6, <3>1, <3>2, <3>3
  <2> QED
    BY <2>2, <2>3
<1>11. h[cut] = j[cut]
  <2> HIDE DEF j, cut
  <2>1. \A k \in 0..cut : h[k] = j[k]
    <3>1. IsTrace(s, out, j, cut)
      BY <1>9, <1>10 DEF IsTrace
    <3> QED
      BY <1>7, <1>8, <3>1, SameTrace
  <2> QED
    BY <1>7, <2>1
<1>12. j[cut] = g[n]
  <2>1. CASE n = 0
    BY <1>1, <1>3, <1>6, <2>1
  <2>2. CASE n # 0
    BY <1>1, <2>2
  <2> QED
    BY <2>1, <2>2
<1>13. Shown(s, out) = Shown(t, b)
  <2> HIDE DEF j
  <2> QED
    BY <1>4, <1>5, <1>11, <1>12
<1> QED
  BY <1>13 DEF out, t

\* what the terminal shows at column x
Glyphs == Letters \union {Space}
ScreenType == [line : Seq(Glyphs), column : Int]
Cell(line, x) == IF x < Len(line) THEN line[x + 1] ELSE Space

LEMMA PaddedIs ==
  ASSUME NEW line \in Seq(Glyphs), NEW n \in Nat
  PROVE  LET m == IF n > Len(line) THEN n - Len(line) ELSE 0 IN
         /\ Padded(line, n) \in Seq(Glyphs) /\ Len(Padded(line, n)) = Len(line) + m
         /\ \A k \in 1..(Len(line) + m) :
              Padded(line, n)[k] = IF k <= Len(line) THEN line[k] ELSE Space
<1> DEFINE l == Len(line)
           m == IF n > l THEN n - l ELSE 0
           blanks == [k \in 1..(n - l) |-> Space]
<1>1. Padded(line, n) = line \o blanks
  BY DEF Padded
<1>2. l \in Nat /\ m \in Nat /\ 1..(n - l) = 1..m
  BY LenProperties
<1>3. blanks \in Seq(Glyphs) /\ Len(blanks) = m /\ \A k \in 1..m : blanks[k] = Space
  <2> DEFINE top == n - l
  <2>1. 1..top = 1..m /\ m \in Nat
    BY <1>2
  <2> HIDE DEF m, top
  <2>2. [k \in 1..top |-> Space] \in [1..m -> Glyphs]
    BY <2>1 DEF Glyphs
  <2>3. \A k \in 1..m : [i \in 1..top |-> Space][k] = Space
    BY <2>1
  <2>4. \A f \in [1..m -> Glyphs] : f \in Seq(Glyphs) /\ Len(f) = m
    BY <2>1
  <2>5. blanks \in [1..m -> Glyphs] /\ \A k \in 1..m : blanks[k] = Space
    BY <2>2, <2>3 DEF top
  <2> HIDE DEF blanks
  <2> QED
    BY <2>4, <2>5
<1> HIDE DEF blanks, m, l
<1>4. /\ line \o blanks \in Seq(Glyphs) /\ Len(line \o blanks) = l + m
      /\ \A k \in 1..(l + m) : (line \o blanks)[k] = IF k <= l THEN line[k] ELSE blanks[k - l]
  BY <1>3, ConcatProperties DEF l
<1>5. \A k \in 1..(l + m) : ~(k <= l) => k - l \in 1..m
  BY <1>2
<1>6. \A k \in 1..(l + m) : (line \o blanks)[k] = IF k <= l THEN line[k] ELSE Space
  BY <1>3, <1>4, <1>5
<1> QED
  BY <1>1, <1>4, <1>6 DEF l, m

LEMMA PutCell ==
  ASSUME NEW line \in Seq(Glyphs), NEW column \in Nat, NEW ch \in Glyphs
  PROVE  /\ Put(line, column, ch) \in Seq(Glyphs)
         /\ Cell(Put(line, column, ch), column) = ch
         /\ \A x \in Nat : x # column => Cell(Put(line, column, ch), x) = Cell(line, x)
<1> DEFINE n == Len(line)
           m == IF column + 1 > n THEN column + 1 - n ELSE 0
           padded == Padded(line, column + 1)
           new == [padded EXCEPT ![column + 1] = ch]
<1>1. n \in Nat /\ m \in Nat /\ n + m >= column + 1 /\ (m > 0 => n + m = column + 1)
  BY LenProperties
<1>2. Put(line, column, ch) = new
  <2>1. ~(column < 0)
    OBVIOUS
  <2> QED
    BY <2>1 DEF Put
<1>4. /\ padded \in Seq(Glyphs) /\ Len(padded) = n + m
      /\ \A k \in 1..(n + m) : padded[k] = IF k <= n THEN line[k] ELSE Space
  <2>1. column + 1 \in Nat
    OBVIOUS
  <2> QED
    BY <2>1, PaddedIs
<1> HIDE DEF padded, m
<1>5. column + 1 \in 1..(n + m)
  BY <1>1
<1>6. /\ new \in Seq(Glyphs) /\ Len(new) = n + m
      /\ \A k \in 1..(n + m) : new[k] = IF k = column + 1 THEN ch ELSE padded[k]
  BY <1>1, <1>4, <1>5
<1> HIDE DEF new
<1>7. ASSUME NEW x \in Nat
      PROVE  Cell(new, x) = IF x = column THEN ch ELSE Cell(line, x)
  <2>1. CASE x = column
    <3>1. x < n + m /\ x + 1 \in 1..(n + m) /\ x + 1 = column + 1
      BY <1>1, <2>1
    <3> QED
      BY <1>6, <2>1, <3>1 DEF Cell
  <2>2. CASE x # column
    <3>1. CASE x < n
      <4>1. x + 1 \in 1..(n + m) /\ x + 1 # column + 1 /\ x + 1 <= n /\ x < n + m
        BY <1>1, <2>2, <3>1
      <4>2. new[x + 1] = line[x + 1]
        BY <1>4, <1>6, <4>1
      <4> QED
        BY <1>6, <2>2, <3>1, <4>1, <4>2 DEF Cell
    <3>2. CASE ~(x < n) /\ x < n + m
      <4>1. x + 1 \in 1..(n + m) /\ x + 1 # column + 1 /\ ~(x + 1 <= n)
        BY <1>1, <2>2, <3>2
      <4>2. new[x + 1] = Space
        BY <1>4, <1>6, <4>1
      <4> QED
        BY <1>6, <2>2, <3>2, <4>2 DEF Cell
    <3>3. CASE ~(x < n) /\ ~(x < n + m)
      BY <1>6, <2>2, <3>3 DEF Cell
    <3> QED
      BY <3>1, <3>2, <3>3
  <2> QED
    BY <2>1, <2>2
<1> QED
  BY <1>2, <1>6, <1>7

LEMMA DisplayedGlyph ==
  ASSUME NEW s \in ScreenType, s.column \in Nat, NEW ch \in Glyphs
  PROVE  /\ Displayed(s, ch) \in ScreenType /\ Displayed(s, ch).column = s.column + 1
         /\ Cell(Displayed(s, ch).line, s.column) = ch
         /\ \A x \in Nat : x # s.column => Cell(Displayed(s, ch).line, x) = Cell(s.line, x)
<1> DEFINE new == Put(s.line, s.column, ch)
<1>1. s.line \in Seq(Glyphs)
  BY DEF ScreenType
<1>2. ch # "PROMPT" /\ ch \notin {"BS", "LEFT"} /\ ch # "RIGHT"
  BY LettersApart DEF Glyphs, Space, Tokens
<1>3. Displayed(s, ch) = [line |-> new, column |-> s.column + 1]
  BY <1>2 DEF Displayed
<1>4. /\ new \in Seq(Glyphs)
      /\ Cell(new, s.column) = ch
      /\ \A x \in Nat : x # s.column => Cell(new, x) = Cell(s.line, x)
  <2>1. new \in Seq(Glyphs)
    BY <1>1, PutCell
  <2>2. Cell(new, s.column) = ch
    BY <1>1, PutCell
  <2>3. \A x \in Nat : x # s.column => Cell(new, x) = Cell(s.line, x)
    BY <1>1, PutCell
  <2> QED
    BY <2>1, <2>2, <2>3
<1> HIDE DEF new
<1>5. /\ Displayed(s, ch) \in ScreenType /\ Displayed(s, ch).column = s.column + 1
      /\ Displayed(s, ch).line = new
  BY <1>3, <1>4 DEF ScreenType
<1> QED
  BY <1>4, <1>5

LEMMA DisplayedLeft ==
  ASSUME NEW s \in ScreenType, NEW token \in {"BS", "LEFT"}
  PROVE  /\ Displayed(s, token) \in ScreenType /\ Displayed(s, token).column = s.column - 1
         /\ Displayed(s, token).line = s.line
<1>1. token # "PROMPT" /\ token # "RIGHT"
  OBVIOUS
<1>2. Displayed(s, token) = [s EXCEPT !.column = @ - 1]
  BY <1>1 DEF Displayed
<1> QED
  BY <1>2 DEF ScreenType

\* text is written over what is there
LEMMA ShowText ==
  ASSUME NEW s \in ScreenType, s.column \in Nat, NEW text \in Seq(Glyphs)
  PROVE  LET t == Shown(s, text) IN
         /\ t \in ScreenType /\ t.column = s.column + Len(text)
         /\ \A x \in Nat : x >= s.column /\ x < s.column + Len(text) =>
              Cell(t.line, x) = text[x - s.column + 1]
         /\ \A x \in Nat : x < s.column \/ x >= s.column + Len(text) =>
              Cell(t.line, x) = Cell(s.line, x)
<1> DEFINE n == Len(text)
           c == s.column
           Good(k, t) ==
             /\ t \in ScreenType /\ t.column = c + k
             /\ \A x \in Nat : x >= c /\ x < c + k => Cell(t.line, x) = text[x - c + 1]
             /\ \A x \in Nat : x < c \/ x >= c + k => Cell(t.line, x) = Cell(s.line, x)
<1>1. n \in Nat /\ c \in Nat /\ \A k \in 1..n : text[k] \in Glyphs
  BY LenProperties, ElementOfSeq
<1>2. PICK g : IsTrace(s, text, g, n) /\ Shown(s, text) = g[n]
  BY <1>1, ShownTrace
<1> DEFINE S == {k \in Nat : k <= n => Good(k, g[k])}
<1>3. 0 \in S
  <2>1. g[0] = s
    BY <1>2 DEF IsTrace
  <2>2. Good(0, s)
    BY <1>1
  <2> HIDE DEF Good
  <2> QED
    BY <2>1, <2>2
<1>4. ASSUME NEW k \in Nat, k \in S PROVE k + 1 \in S
  <2> SUFFICES ASSUME k + 1 <= n PROVE Good(k + 1, g[k + 1])
    BY DEF S
  <2> DEFINE ch == text[k + 1]
             old == g[k]
             new == Displayed(old, ch)
  <2>1. k \in 0..(n - 1) /\ k + 1 \in 1..n
    BY <1>1
  <2>2. g[k + 1] = new /\ ch \in Glyphs
    BY <1>1, <1>2, <2>1 DEF IsTrace
  <2>3. Good(k, old)
    BY <1>4, <2>1
  <2> HIDE DEF n, old, ch
  <2>4. old \in ScreenType /\ old.column = c + k /\ old.column \in Nat
    BY <1>1, <2>3
  <2> HIDE DEF c
  <2>5. /\ new \in ScreenType /\ new.column = old.column + 1
        /\ Cell(new.line, old.column) = ch
        /\ \A x \in Nat : x # old.column => Cell(new.line, x) = Cell(old.line, x)
    BY <2>2, <2>4, DisplayedGlyph
  <2> HIDE DEF new
  <2>6. new.column = c + (k + 1)
    BY <1>1, <2>4, <2>5
  <2>7. ASSUME NEW x \in Nat, x >= c /\ x < c + (k + 1)
        PROVE  Cell(new.line, x) = text[x - c + 1]
    <3>1. CASE x = c + k
      <4>1. x - c + 1 = k + 1
        BY <1>1, <3>1
      <4> QED
        BY <2>4, <2>5, <3>1, <4>1 DEF ch
    <3>2. CASE x # c + k
      <4>1. x < c + k
        BY <1>1, <2>7, <3>2
      <4> QED
        BY <2>3, <2>4, <2>5, <2>7, <3>2, <4>1
    <3> QED
      BY <3>1, <3>2
  <2>8. ASSUME NEW x \in Nat, x < c \/ x >= c + (k + 1)
        PROVE  Cell(new.line, x) = Cell(s.line, x)
    <3>1. x # c + k /\ (x < c \/ x >= c + k)
      BY <1>1, <2>8
    <3> QED
      BY <2>3, <2>4, <2>5, <3>1
  <2> QED
    BY <2>2, <2>5, <2>6, <2>7, <2>8
<1>5. Good(n, g[n])
  <2> HIDE DEF Good
  <2>1. n \in S
    <3> HIDE DEF S
    <3> QED
      BY <1>1, <1>3, <1>4, SetInduction
  <2> QED
    BY <1>1, <2>1
<1> QED
  BY <1>2, <1>5

LEMMA TimesType ==
  ASSUME NEW n \in Nat
  PROVE  /\ Times(n, <<"LEFT">>) \in Seq({"LEFT"}) /\ Len(Times(n, <<"LEFT">>)) = n
         /\ Times(n, Rubout) \in Seq({"BS", Space}) /\ Len(Times(n, Rubout)) = 3 * n
         /\ \A k \in 1..n : Times(n, <<"LEFT">>)[k] = "LEFT"
         /\ \A k \in 0..(n - 1) :
              /\ Times(n, Rubout)[3 * k + 1] = "BS"
              /\ Times(n, Rubout)[3 * k + 2] = Space
              /\ Times(n, Rubout)[3 * k + 3] = "BS"
<1> DEFINE left == <<"LEFT">>
           rub == <<"BS", Space, "BS">>
<1>1. Len(left) = 1 /\ left[1] = "LEFT"
  OBVIOUS
<1>2. Len(rub) = 3 /\ rub[1] = "BS" /\ rub[2] = Space /\ rub[3] = "BS"
  OBVIOUS
<1>3. /\ Times(n, left) \in Seq({"LEFT"}) /\ Len(Times(n, left)) = n
      /\ \A k \in 1..n : Times(n, left)[k] = "LEFT"
  <2> HIDE DEF left
  <2> DEFINE f == [k \in 1..(n * Len(left)) |-> left[((k - 1) % Len(left)) + 1]]
  <2>1. Times(n, left) = f
    BY DEF Times
  <2>2. n * Len(left) = n
    BY <1>1
  <2>3. ASSUME NEW k \in 1..n PROVE f[k] = "LEFT"
    <3>1. (k - 1) % Len(left) = 0
      BY <1>1
    <3> QED
      BY <1>1, <2>2, <3>1
  <2>4. f \in [1..n -> {"LEFT"}]
    BY <2>2, <2>3
  <2> HIDE DEF f
  <2> QED
    BY <2>1, <2>3, <2>4
<1>4. /\ Times(n, rub) \in Seq({"BS", Space}) /\ Len(Times(n, rub)) = 3 * n
      /\ \A k \in 0..(n - 1) : /\ Times(n, rub)[3 * k + 1] = "BS"
                               /\ Times(n, rub)[3 * k + 2] = Space
                               /\ Times(n, rub)[3 * k + 3] = "BS"
  <2> HIDE DEF rub
  <2> DEFINE f == [k \in 1..(n * Len(rub)) |-> rub[((k - 1) % Len(rub)) + 1]]
             top == 3 * n
  <2>1. Times(n, rub) = f
    BY DEF Times
  <2>2. n * Len(rub) = top /\ top \in Nat
    BY <1>2
  <2>3. ASSUME NEW k \in 1..top PROVE f[k] = rub[((k - 1) % 3) + 1]
    BY <1>2, <2>2
  <2>4. f \in [1..top -> {"BS", Space}]
    <3>1. ASSUME NEW k \in 1..top PROVE f[k] \in {"BS", Space}
      <4>1. (k - 1) % 3 \in {0, 1, 2}
        BY <2>2
      <4> HIDE DEF f
      <4> QED
        BY <1>2, <2>3, <4>1
    <3>2. f = [k \in 1..top |-> f[k]]
      BY <2>2
    <3> HIDE DEF f
    <3> QED
      BY <3>1, <3>2
  <2> HIDE DEF f
  <2>5. f \in Seq({"BS", Space}) /\ Len(f) = top
    BY <2>2, <2>4
  <2>6. ASSUME NEW k \in 0..(n - 1)
        PROVE  f[3 * k + 1] = "BS" /\ f[3 * k + 2] = Space /\ f[3 * k + 3] = "BS"
    <3>1. 3 * k + 1 \in 1..top /\ 3 * k + 2 \in 1..top /\ 3 * k + 3 \in 1..top
      OBVIOUS
    <3>2. (3 * k + 1 - 1) % 3 = 0 /\ (3 * k + 2 - 1) % 3 = 1 /\ (3 * k + 3 - 1) % 3 = 2
      OBVIOUS
    <3> QED
      BY <1>2, <2>3, <3>1, <3>2
  <2> QED
    BY <2>1, <2>5, <2>6
<1> QED
  BY <1>3, <1>4 DEF Rubout

LEMMA ShowLefts ==
  ASSUME NEW s \in ScreenType, NEW n \in Nat
  PROVE  LET t == Shown(s, Times(n, <<"LEFT">>)) IN
         t \in ScreenType /\ t.column = s.column - n /\ t.line = s.line
<1> DEFINE out == Times(n, <<"LEFT">>)
           Good(k, t) == t \in ScreenType /\ t.column = s.column - k /\ t.line = s.line
<1>1. Len(out) = n /\ \A k \in 1..n : out[k] = "LEFT"
  BY TimesType
<1> HIDE DEF out
<1>2. PICK g : IsTrace(s, out, g, n) /\ Shown(s, out) = g[n]
  BY <1>1, ShownTrace
<1> DEFINE S == {k \in Nat : k <= n => Good(k, g[k])}
<1>3. s.column \in Int
  BY DEF ScreenType
<1>4. 0 \in S
  BY <1>2, <1>3 DEF IsTrace
<1>5. ASSUME NEW k \in Nat, k \in S PROVE k + 1 \in S
  <2> SUFFICES ASSUME k + 1 <= n PROVE Good(k + 1, g[k + 1])
    BY DEF S
  <2>1. k \in 0..(n - 1) /\ k + 1 \in 1..n
    OBVIOUS
  <2>2. g[k + 1] = Displayed(g[k], "LEFT")
    BY <1>1, <1>2, <2>1 DEF IsTrace
  <2>3. Good(k, g[k])
    BY <1>5, <2>1
  <2>4. /\ g[k + 1] \in ScreenType /\ g[k + 1].column = g[k].column - 1
        /\ g[k + 1].line = g[k].line
    BY <2>2, <2>3, DisplayedLeft
  <2> QED
    BY <1>3, <2>3, <2>4
<1>6. Good(n, g[n])
  <2> HIDE DEF Good
  <2>1. n \in S
    <3> HIDE DEF S
    <3> QED
      BY <1>4, <1>5, SetInduction
  <2> QED
    BY <2>1
<1> QED
  BY <1>2, <1>6 DEF out

\* the last n characters in front of the cursor are rubbed out
LEMMA ShowRubouts ==
  ASSUME NEW s \in ScreenType, NEW n \in Nat, s.column \in Nat, n <= s.column
  PROVE  LET t == Shown(s, Times(n, Rubout)) IN
         /\ t \in ScreenType /\ t.column = s.column - n
         /\ \A x \in Nat : x >= s.column - n /\ x < s.column => Cell(t.line, x) = Space
         /\ \A x \in Nat : x < s.column - n \/ x >= s.column => Cell(t.line, x) = Cell(s.line, x)
<1> DEFINE out == Times(n, Rubout)
           c == s.column
           m == 3 * n
           Good(k, t) ==
             /\ t \in ScreenType /\ t.column = c - k
             /\ \A x \in Nat : x >= c - k /\ x < c => Cell(t.line, x) = Space
             /\ \A x \in Nat : x < c - k \/ x >= c => Cell(t.line, x) = Cell(s.line, x)
<1>1. /\ Len(out) = m /\ m \in Nat /\ m = 3 * n
      /\ \A k \in 0..(n - 1) : /\ out[3 * k + 1] = "BS" /\ out[3 * k + 2] = Space
                               /\ out[3 * k + 3] = "BS"
  <2>1. Len(out) = 3 * n
    BY TimesType
  <2>2. \A k \in 0..(n - 1) : /\ out[3 * k + 1] = "BS" /\ out[3 * k + 2] = Space
                              /\ out[3 * k + 3] = "BS"
    BY TimesType
  <2>3. m \in Nat /\ m = 3 * n
    OBVIOUS
  <2> HIDE DEF out
  <2> QED
    BY <2>1, <2>2, <2>3
<1>2. c \in Nat /\ n <= c
  OBVIOUS
<1> HIDE DEF out, m
<1>3. PICK g : IsTrace(s, out, g, m) /\ Shown(s, out) = g[m]
  BY <1>1, ShownTrace
<1> DEFINE S == {k \in Nat : k <= n => Good(k, g[3 * k])}
<1>4. 0 \in S
  <2>1. g[3 * 0] = s
    BY <1>3 DEF IsTrace
  <2>2. Good(0, s)
    BY <1>2
  <2> HIDE DEF Good
  <2> QED
    BY <2>1, <2>2
<1>5. ASSUME NEW k \in Nat, k \in S PROVE k + 1 \in S
  <2> SUFFICES ASSUME k + 1 <= n PROVE Good(k + 1, g[3 * (k + 1)])
    BY DEF S
  <2> DEFINE a == g[3 * k]
             b == Displayed(a, "BS")
             d == Displayed(b, Space)
             e == Displayed(d, "BS")
  <2>1. k \in 0..(n - 1) /\ Good(k, a)
    BY <1>5
  <2>2. g[3 * (k + 1)] = e
    <3>1. /\ 3 * k \in 0..(m - 1) /\ 3 * k + 1 \in 0..(m - 1) /\ 3 * k + 2 \in 0..(m - 1)
          /\ 3 * k + 1 + 1 = 3 * k + 2 /\ 3 * k + 2 + 1 = 3 * k + 3 /\ 3 * (k + 1) = 3 * k + 3
      BY <1>1, <2>1
    <3>2. /\ g[3 * k + 1] = Displayed(g[3 * k], out[3 * k + 1])
          /\ g[3 * k + 2] = Displayed(g[3 * k + 1], out[3 * k + 2])
          /\ g[3 * k + 3] = Displayed(g[3 * k + 2], out[3 * k + 3])
      BY <1>3, <3>1 DEF IsTrace
    <3>3. out[3 * k + 1] = "BS" /\ out[3 * k + 2] = Space /\ out[3 * k + 3] = "BS"
      BY <1>1, <2>1
    <3> QED
      BY <3>1, <3>2, <3>3
  <2> HIDE DEF a, b, d, e
  <2>3. a \in ScreenType /\ a.column = c - k
    BY <2>1
  <2>4. b \in ScreenType /\ b.column = a.column - 1 /\ b.line = a.line
    BY <2>3, DisplayedLeft DEF b
  <2>5. b.column = c - k - 1 /\ b.column \in Nat
    BY <1>2, <2>1, <2>3, <2>4
  <2>6. /\ d \in ScreenType /\ d.column = b.column + 1
        /\ Cell(d.line, b.column) = Space
        /\ \A x \in Nat : x # b.column => Cell(d.line, x) = Cell(b.line, x)
    <3>1. Space \in Glyphs
      BY DEF Glyphs
    <3> QED
      BY <2>4, <2>5, <3>1, DisplayedGlyph DEF d
  <2>7. e \in ScreenType /\ e.column = d.column - 1 /\ e.line = d.line
    BY <2>6, DisplayedLeft DEF e
  <2>8. e.column = c - (k + 1)
    BY <1>2, <2>5, <2>6, <2>7
  <2>9. ASSUME NEW x \in Nat, x >= c - (k + 1) /\ x < c PROVE Cell(e.line, x) = Space
    <3>1. CASE x = b.column
      BY <2>6, <2>7, <3>1
    <3>2. CASE x # b.column
      <4>1. x >= c - k
        BY <1>2, <2>5, <2>9, <3>2
      <4>2. Cell(a.line, x) = Space
        BY <2>1, <2>9, <4>1
      <4> QED
        BY <2>4, <2>6, <2>7, <3>2, <4>2
    <3> QED
      BY <3>1, <3>2
  <2>10. ASSUME NEW x \in Nat, x < c - (k + 1) \/ x >= c
         PROVE  Cell(e.line, x) = Cell(s.line, x)
    <3>1. x # b.column /\ (x < c - k \/ x >= c)
      BY <1>2, <2>5, <2>10
    <3>2. Cell(a.line, x) = Cell(s.line, x)
      BY <2>1, <3>1
    <3> QED
      BY <2>4, <2>6, <2>7, <3>1, <3>2
  <2> QED
    BY <2>2, <2>7, <2>8, <2>9, <2>10
<1>6. Good(n, g[m])
  <2> HIDE DEF Good
  <2>1. n \in S
    <3> HIDE DEF S
    <3> QED
      BY <1>4, <1>5, SetInduction
  <2>2. m = 3 * n
    BY <1>1
  <2> QED
    BY <2>1, <2>2
<1> QED
  BY <1>3, <1>6 DEF out

\* the columns of a line that show something
Visible(line) == {k \in 1..Len(line) : line[k] # Space}

LEMMA VisibleIs ==
  ASSUME NEW line \in Seq(Glyphs), NEW k
  PROVE  k \in Visible(line) <=> k \in Nat /\ k >= 1 /\ Cell(line, k - 1) # Space
<1> DEFINE l == Len(line)
<1>1. l \in Nat
  BY LenProperties
<1>2. ASSUME k \in Visible(line) PROVE k \in Nat /\ k >= 1 /\ Cell(line, k - 1) # Space
  <2>1. k \in 1..l /\ line[k] # Space
    BY <1>2 DEF Visible
  <2>2. k \in Nat /\ k >= 1 /\ k - 1 < l /\ k - 1 + 1 = k
    BY <1>1, <2>1
  <2> QED
    BY <2>1, <2>2 DEF Cell
<1>3. ASSUME k \in Nat, k >= 1, Cell(line, k - 1) # Space PROVE k \in Visible(line)
  <2>1. k - 1 < l /\ line[k - 1 + 1] # Space
    BY <1>3 DEF Cell
  <2>2. k \in 1..l /\ k - 1 + 1 = k
    BY <1>1, <1>3, <2>1
  <2> QED
    BY <2>1, <2>2 DEF Visible
<1> QED
  BY <1>2, <1>3

\* cutting off the spaces at the end changes nothing that is shown
LEMMA TrimmedIs ==
  ASSUME NEW line \in Seq(Glyphs)
  PROVE  \/ Visible(line) = {} /\ Trimmed(line) = << >>
         \/ \E m \in Visible(line) :
              /\ \A k \in Visible(line) : k <= m
              /\ Trimmed(line) \in Seq(Glyphs) /\ Len(Trimmed(line)) = m
              /\ \A k \in 1..m : Trimmed(line)[k] = Cell(line, k - 1)
<1> DEFINE visible == Visible(line)
           l == Len(line)
<1>1. l \in Nat /\ visible \in SUBSET (1..l) /\ \A k \in 1..l : line[k] \in Glyphs
  BY LenProperties, ElementOfSeq DEF Visible
<1>2. Trimmed(line) = IF visible = {} THEN << >> ELSE SubSeq(line, 1, Max(visible))
  BY DEF Trimmed, Visible
<1> HIDE DEF visible, l
<1>3. CASE visible = {}
  BY <1>2, <1>3 DEF visible
<1>4. CASE visible # {}
  <2>1. PICK m \in visible : \A k \in visible : k <= m
    <3>1. visible \in SUBSET Int /\ l \in Int /\ \A k \in visible : k <= l
      BY <1>1
    <3>2. PICK m \in visible : \A k \in visible : m >= k
      BY <1>4, <3>1, GreatestElement
    <3>3. \A k \in visible : k <= m
      BY <3>1, <3>2
    <3> QED
      BY <3>3
  <2>2. m \in 1..l /\ m \in Int
    BY <1>1
  <2>3. Max(visible) = m
    <3>1. visible \in SUBSET Int /\ \A k \in visible : m >= k
      BY <1>1, <2>1
    <3> QED
      BY <3>1, GreatestIs
  <2> DEFINE text == SubSeq(line, 1, m)
  <2>4. \A k \in 1..m : line[k] \in Glyphs
    BY <1>1, <2>2
  <2>5. /\ text \in Seq(Glyphs) /\ Len(text) = m
        /\ \A k \in 1..m : text[k] = line[k]
    <3>1. /\ SubSeq(line, 1, m) \in Seq(Glyphs)
          /\ Len(SubSeq(line, 1, m)) = IF 1 <= m THEN m - 1 + 1 ELSE 0
          /\ \A k \in 1..(m - 1 + 1) : SubSeq(line, 1, m)[k] = line[1 + k - 1]
      BY <2>2, <2>4, SubSeqProperties
    <3> QED
      BY <2>2, <3>1
  <2> HIDE DEF text
  <2>6. Trimmed(line) = text
    BY <1>2, <1>4, <2>3 DEF text
  <2>7. \A k \in 1..m : text[k] = Cell(line, k - 1)
    <3> SUFFICES ASSUME NEW k \in 1..m PROVE line[k] = Cell(line, k - 1)
      BY <2>5
    <3>1. k - 1 < l /\ k - 1 + 1 = k
      BY <1>1, <2>2
    <3> QED
      BY <3>1 DEF Cell, l
  <2> QED
    BY <2>1, <2>5, <2>6, <2>7 DEF visible
<1> QED
  BY <1>3, <1>4

LEMMA TrimmedCells ==
  ASSUME NEW line \in Seq(Glyphs)
  PROVE  /\ Trimmed(line) \in Seq(Glyphs)
         /\ \A x \in Nat : Cell(Trimmed(line), x) = Cell(line, x)
<1> DEFINE t == Trimmed(line)
<1>1. CASE Visible(line) = {} /\ t = << >>
  <2>1. t \in Seq(Glyphs) /\ Len(t) = 0
    BY <1>1, EmptySeq
  <2> HIDE DEF t
  <2>2. ASSUME NEW x \in Nat PROVE Cell(t, x) = Cell(line, x)
    <3> DEFINE k == x + 1
    <3>1. k \in Nat /\ k >= 1 /\ k - 1 = x /\ ~(x < 0)
      OBVIOUS
    <3> HIDE DEF k
    <3>2. Cell(line, x) = Space
      <4>1. k \notin Visible(line)
        BY <1>1
      <4> QED
        BY <3>1, <4>1, VisibleIs
    <3> QED
      BY <2>1, <3>1, <3>2 DEF Cell
  <2> QED
    BY <2>1, <2>2 DEF t
<1>2. ASSUME NEW m \in Visible(line), \A k \in Visible(line) : k <= m,
             t \in Seq(Glyphs), Len(t) = m, \A k \in 1..m : t[k] = Cell(line, k - 1)
      PROVE  t \in Seq(Glyphs) /\ \A x \in Nat : Cell(t, x) = Cell(line, x)
  <2>1. m \in Nat
    BY VisibleIs
  <2> HIDE DEF t
  <2>2. ASSUME NEW x \in Nat PROVE Cell(t, x) = Cell(line, x)
    <3> DEFINE k == x + 1
    <3>1. k \in Nat /\ k >= 1 /\ k - 1 = x /\ (k \in 1..m <=> x < m) /\ (k <= m <=> x < m)
      BY <2>1
    <3>2. CASE x < m
      <4> HIDE DEF k
      <4>1. t[k] = Cell(line, x)
        BY <1>2, <3>1, <3>2
      <4>2. Cell(t, x) = t[x + 1]
        BY <1>2, <3>2 DEF Cell
      <4> QED
        BY <4>1, <4>2 DEF k
    <3>3. CASE ~(x < m)
      <4> HIDE DEF k
      <4>1. k \notin Visible(line)
        BY <1>2, <3>1, <3>3
      <4>2. Cell(line, k - 1) = Space
        BY <3>1, <4>1, VisibleIs
      <4>3. Cell(t, x) = Space
        BY <1>2, <3>3 DEF Cell
      <4> QED
        BY <3>1, <4>2, <4>3
    <3> QED
      BY <3>2, <3>3
  <2> QED
    BY <1>2, <2>2
<1>3. \/ Visible(line) = {} /\ t = << >>
      \/ \E m \in Visible(line) :
           /\ \A k \in Visible(line) : k <= m
           /\ t \in Seq(Glyphs) /\ Len(t) = m
           /\ \A k \in 1..m : t[k] = Cell(line, k - 1)
  BY TrimmedIs
<1> HIDE DEF t
<1>4. t \in Seq(Glyphs) /\ \A x \in Nat : Cell(t, x) = Cell(line, x)
  BY <1>1, <1>2, <1>3 DEF t
<1> QED
  BY <1>4 DEF t

\* lines that look alike are the same without the spaces at their end
LEMMA TrimmedAlike ==
  ASSUME NEW a \in Seq(Glyphs), NEW b \in Seq(Glyphs), \A x \in Nat : Cell(a, x) = Cell(b, x)
  PROVE  Trimmed(a) = Trimmed(b)
<1> DEFINE s == Trimmed(a)
           t == Trimmed(b)
<1>1. \A k : k \in Visible(a) <=> k \in Visible(b)
  <2> SUFFICES ASSUME NEW k PROVE k \in Visible(a) <=> k \in Visible(b)
    OBVIOUS
  <2>1. k \in Visible(a) <=> k \in Nat /\ k >= 1 /\ Cell(a, k - 1) # Space
    BY VisibleIs
  <2>2. k \in Visible(b) <=> k \in Nat /\ k >= 1 /\ Cell(b, k - 1) # Space
    BY VisibleIs
  <2>3. k \in Nat /\ k >= 1 => k - 1 \in Nat
    OBVIOUS
  <2> QED
    BY <2>1, <2>2, <2>3
<1>2. /\ \/ Visible(a) = {} /\ s = << >>
         \/ \E m \in Visible(a) :
              /\ \A k \in Visible(a) : k <= m
              /\ s \in Seq(Glyphs) /\ Len(s) = m
              /\ \A k \in 1..m : s[k] = Cell(a, k - 1)
      /\ \/ Visible(b) = {} /\ t = << >>
         \/ \E m \in Visible(b) :
              /\ \A k \in Visible(b) : k <= m
              /\ t \in Seq(Glyphs) /\ Len(t) = m
              /\ \A k \in 1..m : t[k] = Cell(b, k - 1)
  BY TrimmedIs
<1> HIDE DEF s, t
<1>3. CASE Visible(a) = {}
  <2>1. s = << >> /\ t = << >>
    BY <1>1, <1>2, <1>3
  <2> QED
    BY <2>1 DEF s, t
<1>4. CASE Visible(a) # {}
  <2>1. PICK m \in Visible(a) : /\ \A k \in Visible(a) : k <= m
                                /\ s \in Seq(Glyphs) /\ Len(s) = m
                                /\ \A k \in 1..m : s[k] = Cell(a, k - 1)
    BY <1>2, <1>4
  <2>2. PICK n \in Visible(b) : /\ \A k \in Visible(b) : k <= n
                                /\ t \in Seq(Glyphs) /\ Len(t) = n
                                /\ \A k \in 1..n : t[k] = Cell(b, k - 1)
    BY <1>1, <1>2, <1>4
  <2>3. m \in Nat /\ n \in Nat
    BY VisibleIs
  <2>4. m = n
    BY <1>1, <2>1, <2>2, <2>3
  <2>5. \A k \in 1..m : s[k] = t[k]
    <3> SUFFICES ASSUME NEW k \in 1..m PROVE s[k] = t[k]
      OBVIOUS
    <3>1. k - 1 \in Nat
      BY <2>3
    <3> QED
      BY <2>1, <2>2, <2>4, <3>1
  <2>6. s = t
    BY <2>1, <2>2, <2>3, <2>4, <2>5
  <2> QED
    BY <2>6 DEF s, t
<1> QED
  BY <1>3, <1>4

LEMMA DisplayIs ==
  ASSUME NEW s, NEW out, NEW w \in Seq(Glyphs), Shown(s, out) \in ScreenType,
         \A x \in Nat : Cell(Shown(s, out).line, x) = Cell(w, x)
  PROVE  Display(s, out) = [line |-> Trimmed(w), column |-> Shown(s, out).column]
<1> DEFINE t == Shown(s, out)
<1>1. Display(s, out) = [t EXCEPT !.line = Trimmed(@)]
  BY DEF Display
<1>2. t \in ScreenType /\ \A x \in Nat : Cell(t.line, x) = Cell(w, x)
  OBVIOUS
<1> HIDE DEF t
<1>3. t.line \in Seq(Glyphs)
  BY <1>2 DEF ScreenType
<1>4. Trimmed(t.line) = Trimmed(w)
  BY <1>2, <1>3, TrimmedAlike
<1>5. Display(s, out) = [line |-> Trimmed(w), column |-> t.column]
  BY <1>1, <1>2, <1>4 DEF ScreenType
<1> QED
  BY <1>5 DEF t

\* all that an answer consists of
Printed == Glyphs \union Tokens

LEMMA PrintedSeqs ==
  /\ \A a \in Seq(Letters) : a \in Seq(Glyphs) /\ a \in Seq(Printed) /\ a \in Seq(Chars)
  /\ \A a \in Seq(Glyphs) : a \in Seq(Printed)
  /\ \A n \in Nat : Times(n, <<"LEFT">>) \in Seq(Printed) /\ Times(n, Rubout) \in Seq(Printed)
  /\ Times(0, <<"LEFT">>) = << >> /\ Times(1, <<"LEFT">>) = <<"LEFT">>
<1>1. \A A, B : A \subseteq B => \A a \in Seq(A) : a \in Seq(B)
  BY SeqMonotonic
<1>2. /\ Letters \subseteq Glyphs /\ Letters \subseteq Printed /\ Letters \subseteq Chars
      /\ Glyphs \subseteq Printed /\ {"LEFT"} \subseteq Printed /\ {"BS", Space} \subseteq Printed
  BY DEF Glyphs, Printed, Chars, Tokens
<1>3. \A n \in Nat : Times(n, <<"LEFT">>) \in Seq(Printed) /\ Times(n, Rubout) \in Seq(Printed)
  BY <1>1, <1>2, TimesType
<1>4. Times(0, <<"LEFT">>) = << >>
  <2> DEFINE a == Times(0, <<"LEFT">>)
  <2>1. a \in Seq({"LEFT"}) /\ Len(a) = 0
    BY TimesType
  <2> HIDE DEF a
  <2>2. a = << >>
    BY <2>1, EmptySeq
  <2> QED
    BY <2>2 DEF a
<1>5. Times(1, <<"LEFT">>) = <<"LEFT">>
  <2> DEFINE a == Times(1, <<"LEFT">>)
  <2>1. a \in Seq({"LEFT"}) /\ Len(a) = 1 /\ \A k \in 1..1 : a[k] = "LEFT"
    BY TimesType
  <2> HIDE DEF a
  <2>2. a = <<"LEFT">>
    BY <2>1
  <2> QED
    BY <2>2 DEF a
<1> QED
  BY <1>1, <1>2, <1>3, <1>4, <1>5

\* a text is written over the line, and the cursor taken back
LEMMA Retyped ==
  ASSUME NEW s \in ScreenType, s.column \in Nat, NEW text \in Seq(Glyphs), NEW m \in Nat,
         NEW v \in Seq(Letters),
         \A x \in Nat : Cell(v, x) = IF x >= s.column /\ x < s.column + Len(text)
                                       THEN text[x - s.column + 1] ELSE Cell(s.line, x)
  PROVE  Display(s, text \o Times(m, <<"LEFT">>)) =
           [line |-> Trimmed(v), column |-> s.column + Len(text) - m]
<1> DEFINE back == Times(m, <<"LEFT">>)
           t == Shown(s, text)
           u == Shown(t, back)
<1>1. /\ t \in ScreenType /\ t.column = s.column + Len(text)
      /\ \A x \in Nat : x >= s.column /\ x < s.column + Len(text) =>
           Cell(t.line, x) = text[x - s.column + 1]
      /\ \A x \in Nat : x < s.column \/ x >= s.column + Len(text) =>
           Cell(t.line, x) = Cell(s.line, x)
  BY ShowText
<1>2. Shown(s, text \o back) = u
  <2>1. text \in Seq(Printed) /\ back \in Seq(Printed)
    BY PrintedSeqs
  <2> HIDE DEF back
  <2> QED
    BY <2>1, ShownParts
<1> HIDE DEF t
<1>3. u \in ScreenType /\ u.column = t.column - m /\ u.line = t.line
  BY <1>1, ShowLefts
<1>4. \A x \in Nat : Cell(t.line, x) = Cell(v, x)
  <2>1. Len(text) \in Nat
    BY LenProperties
  <2> QED
    BY <1>1, <2>1
<1> HIDE DEF u, back
<1>5. Display(s, text \o back) = [line |-> Trimmed(v), column |-> u.column]
  <2>1. v \in Seq(Glyphs)
    BY PrintedSeqs
  <2> QED
    BY <1>2, <1>3, <1>4, <2>1, DisplayIs
<1>6. u.column = s.column + Len(text) - m
  BY <1>1, <1>3
<1> QED
  BY <1>5, <1>6 DEF back

-----------------------------------------------------------------------------
(* What each answer does to the display of a line.                         *)

Picture(w, x) == [line |-> Trimmed(w), column |-> x]

LEMMA PictureIs ==
  ASSUME NEW w \in Seq(Letters), NEW x \in Nat
  PROVE  /\ Picture(w, x) \in ScreenType /\ Picture(w, x).column = x
         /\ Picture(w, x).line = Trimmed(w)
         /\ \A y \in Nat : Cell(Picture(w, x).line, y) = Cell(w, y)
<1>1. w \in Seq(Glyphs)
  BY PrintedSeqs
<1>2. Trimmed(w) \in Seq(Glyphs) /\ \A y \in Nat : Cell(Trimmed(w), y) = Cell(w, y)
  BY <1>1, TrimmedCells
<1> QED
  BY <1>2 DEF Picture, ScreenType

\* w with ch inserted at p
With(w, p, ch) == [k \in 1..(Len(w) + 1) |->
                     IF k <= p THEN w[k] ELSE IF k = p + 1 THEN ch ELSE w[k - 1]]

LEMMA WithType ==
  ASSUME NEW w \in Seq(Letters), NEW p \in 0..Len(w), NEW ch \in Letters
  PROVE  /\ With(w, p, ch) \in Seq(Letters) /\ Len(With(w, p, ch)) = Len(w) + 1
         /\ \A k \in 1..(Len(w) + 1) :
              With(w, p, ch)[k] = IF k <= p THEN w[k] ELSE IF k = p + 1 THEN ch ELSE w[k - 1]
<1> DEFINE n == Len(w)
           v == With(w, p, ch)
           m == n + 1
<1>1. n \in Nat /\ m \in Nat /\ p \in Nat /\ p <= n
  BY LenProperties
<1>2. \A k \in 1..n : w[k] \in Letters
  BY ElementOfSeq
<1>3. v = [k \in 1..m |-> IF k <= p THEN w[k] ELSE IF k = p + 1 THEN ch ELSE w[k - 1]]
  BY DEF With
<1> HIDE DEF v, n
<1>4. \A k \in 1..m :
        /\ v[k] = IF k <= p THEN w[k] ELSE IF k = p + 1 THEN ch ELSE w[k - 1]
        /\ v[k] \in Letters
  <2> SUFFICES ASSUME NEW k \in 1..m
               PROVE  /\ v[k] = IF k <= p THEN w[k] ELSE IF k = p + 1 THEN ch ELSE w[k - 1]
                      /\ v[k] \in Letters
    OBVIOUS
  <2>1. v[k] = IF k <= p THEN w[k] ELSE IF k = p + 1 THEN ch ELSE w[k - 1]
    BY <1>3
  <2>2. CASE k <= p
    BY <1>1, <1>2, <2>1, <2>2
  <2>3. CASE ~(k <= p) /\ k # p + 1
    <3>1. k - 1 \in 1..n
      BY <1>1, <2>3
    <3> QED
      BY <1>2, <2>1, <2>3, <3>1
  <2>4. CASE ~(k <= p) /\ k = p + 1
    BY <2>1, <2>4
  <2> QED
    BY <2>1, <2>2, <2>3, <2>4
<1> HIDE DEF m
<1>5. v \in [1..m -> Letters]
  BY <1>3, <1>4
<1>6. v \in Seq(Letters) /\ Len(v) = m
  <2>1. \A f \in [1..m -> Letters] : f \in Seq(Letters) /\ Len(f) = m
    BY <1>1
  <2> QED
    BY <1>5, <2>1
<1> QED
  BY <1>4, <1>6 DEF m, n, v

LEMMA PutInFront ==
  ASSUME NEW ch \in Letters, NEW tail \in Seq(Letters)
  PROVE  /\ <<ch>> \o tail \in Seq(Letters) /\ Len(<<ch>> \o tail) = Len(tail) + 1
         /\ \A k \in 1..(Len(tail) + 1) :
              (<<ch>> \o tail)[k] = IF k = 1 THEN ch ELSE tail[k - 1]
<1> DEFINE one == <<ch>>
           both == one \o tail
           m == Len(tail)
<1>1. one \in Seq(Letters) /\ Len(one) = 1 /\ one[1] = ch /\ m \in Nat
  BY LenProperties
<1> HIDE DEF one
<1>2. /\ both \in Seq(Letters) /\ Len(both) = Len(one) + Len(tail)
      /\ \A k \in 1..(Len(one) + Len(tail)) :
           both[k] = IF k <= Len(one) THEN one[k] ELSE tail[k - Len(one)]
  BY <1>1, ConcatProperties
<1> HIDE DEF both
<1>3. ASSUME NEW k \in 1..(m + 1) PROVE both[k] = IF k = 1 THEN ch ELSE tail[k - 1]
  <2>1. k \in 1..(Len(one) + Len(tail)) /\ (k <= 1 <=> k = 1)
    BY <1>1
  <2> HIDE DEF m
  <2> QED
    BY <1>1, <1>2, <2>1
<1>4. Len(both) = m + 1
  BY <1>1, <1>2
<1> QED
  BY <1>2, <1>3, <1>4 DEF both, one

LEMMA InsertPicture ==
  ASSUME NEW w \in Seq(Letters), NEW p \in 0..Len(w), NEW ch \in Letters,
         NEW s, s = Picture(w, p)
  PROVE  Display(s, (<<ch>> \o Rest(w, p)) \o Times(Len(w) - p, <<"LEFT">>)) =
           Picture(With(w, p, ch), p + 1)
<1> DEFINE n == Len(w)
           tail == Rest(w, p)
           text == <<ch>> \o tail
           v == With(w, p, ch)
           m == n - p
           out == text \o Times(m, <<"LEFT">>)
<1>1. n \in Nat /\ p \in Nat /\ p <= n /\ m \in Nat
  BY LenProperties
<1>2. /\ s \in ScreenType /\ s.column = p
      /\ \A x \in Nat : Cell(s.line, x) = Cell(w, x)
  BY <1>1, PictureIs
<1>3. /\ tail \in Seq(Letters) /\ Len(tail) = m
      /\ \A k \in 1..m : tail[k] = w[p + k]
  BY <1>1, RestType
<1> HIDE DEF tail
<1>4. /\ text \in Seq(Letters) /\ Len(text) = m + 1
      /\ \A k \in 1..(m + 1) : text[k] = IF k = 1 THEN ch ELSE tail[k - 1]
  <2>1. /\ text \in Seq(Letters) /\ Len(text) = Len(tail) + 1
        /\ \A k \in 1..(Len(tail) + 1) : text[k] = IF k = 1 THEN ch ELSE tail[k - 1]
    BY <1>3, PutInFront
  <2> HIDE DEF text, m
  <2> QED
    BY <1>3, <2>1
<1>5. /\ v \in Seq(Letters) /\ Len(v) = n + 1
      /\ \A k \in 1..(n + 1) : v[k] = IF k <= p THEN w[k] ELSE IF k = p + 1 THEN ch ELSE w[k - 1]
  BY <1>1, WithType
<1> HIDE DEF text, v, n
<1>6. ASSUME NEW x \in Nat
      PROVE  Cell(v, x) = IF x >= p /\ x < p + (m + 1) THEN text[x - p + 1] ELSE Cell(w, x)
  <2>1. Cell(v, x) = IF x < n + 1 THEN v[x + 1] ELSE Space
    BY <1>5 DEF Cell
  <2>2. Cell(w, x) = IF x < n THEN w[x + 1] ELSE Space
    BY DEF Cell, n
  <2>3. p + (m + 1) = n + 1
    BY <1>1
  <2>4. CASE x < p
    <3>1. x + 1 \in 1..(n + 1) /\ x + 1 <= p /\ x < n /\ x < n + 1 /\ ~(x >= p)
      BY <1>1, <2>4
    <3> QED
      BY <1>5, <2>1, <2>2, <3>1
  <2>5. CASE x = p
    <3>1. x + 1 \in 1..(n + 1) /\ x + 1 = p + 1 /\ ~(x + 1 <= p) /\ x < n + 1 /\ x - p + 1 = 1
          /\ 1 \in 1..(m + 1)
      BY <1>1, <2>5
    <3>2. v[x + 1] = ch /\ text[1] = ch
      BY <1>4, <1>5, <3>1
    <3> QED
      BY <1>1, <2>1, <2>3, <2>5, <3>1, <3>2
  <2>6. CASE x > p /\ x < n + 1
    <3> DEFINE i == x - p + 1
               j == x + 1
    <3>1. /\ i \in 1..(m + 1) /\ i # 1 /\ i - 1 \in 1..m /\ p + (i - 1) = x
          /\ j \in 1..(n + 1) /\ j - 1 = x /\ ~(j <= p) /\ j # p + 1
      BY <1>1, <2>6
    <3> HIDE DEF i, j
    <3>2. v[j] = w[x] /\ text[i] = w[x]
      BY <1>3, <1>4, <1>5, <3>1
    <3> QED
      BY <1>1, <2>1, <2>3, <2>6, <3>2 DEF i, j
  <2>7. CASE x >= n + 1
    <3>1. ~(x < n + 1) /\ ~(x < n)
      BY <1>1, <2>7
    <3> QED
      BY <2>1, <2>2, <2>3, <3>1
  <2> QED
    BY <1>1, <2>4, <2>5, <2>6, <2>7
<1>7. Display(s, out) = [line |-> Trimmed(v), column |-> s.column + Len(text) - m]
  <2>1. text \in Seq(Glyphs) /\ s.column \in Nat
    BY <1>1, <1>2, <1>4, PrintedSeqs
  <2>2. \A x \in Nat : Cell(v, x) = IF x >= s.column /\ x < s.column + Len(text)
                                      THEN text[x - s.column + 1] ELSE Cell(s.line, x)
    BY <1>2, <1>4, <1>6
  <2> HIDE DEF m
  <2> QED
    BY <1>1, <1>2, <1>5, <2>1, <2>2, Retyped
<1>8. s.column + Len(text) - m = p + 1
  BY <1>1, <1>2, <1>4
<1> HIDE DEF out
<1>9. Display(s, out) = Picture(v, p + 1)
  BY <1>7, <1>8 DEF Picture
<1> QED
  BY <1>9 DEF out, m, n, v, text, tail

\* w without its character p
Without(w, p) == [k \in 1..(Len(w) - 1) |-> IF k < p THEN w[k] ELSE w[k + 1]]

LEMMA WithoutType ==
  ASSUME NEW w \in Seq(Letters), NEW p \in 1..Len(w)
  PROVE  /\ Without(w, p) \in Seq(Letters) /\ Len(Without(w, p)) = Len(w) - 1
         /\ \A k \in 1..(Len(w) - 1) : Without(w, p)[k] = IF k < p THEN w[k] ELSE w[k + 1]
<1> DEFINE n == Len(w)
           v == Without(w, p)
           m == n - 1
<1>1. n \in Nat /\ m \in Nat /\ p \in Nat /\ p <= n
  BY LenProperties
<1>2. \A k \in 1..n : w[k] \in Letters
  BY ElementOfSeq
<1>3. v = [k \in 1..m |-> IF k < p THEN w[k] ELSE w[k + 1]]
  BY DEF Without
<1> HIDE DEF v, n
<1>4. ASSUME NEW k \in 1..m
      PROVE  v[k] = (IF k < p THEN w[k] ELSE w[k + 1]) /\ v[k] \in Letters
  <2>1. k \in 1..n /\ k + 1 \in 1..n
    BY <1>1
  <2>2. v[k] = IF k < p THEN w[k] ELSE w[k + 1]
    BY <1>3
  <2> QED
    BY <1>2, <2>1, <2>2
<1> HIDE DEF m
<1>5. v \in [1..m -> Letters]
  BY <1>3, <1>4
<1>6. v \in Seq(Letters) /\ Len(v) = m
  <2>1. \A f \in [1..m -> Letters] : f \in Seq(Letters) /\ Len(f) = m
    BY <1>1
  <2> QED
    BY <1>5, <2>1
<1> QED
  BY <1>4, <1>6 DEF m, n, v

RestAnd(w, p, e) == Append(Rest(w, p), e)

LEMMA RestThen ==
  ASSUME NEW w \in Seq(Letters), NEW p \in 0..Len(w), NEW e \in {NUL, Space}
  PROVE  /\ RestAnd(w, p, e) \in Seq(Letters \union {e})
         /\ RestAnd(w, p, e) = Rest(w, p) \o <<e>>
         /\ Len(RestAnd(w, p, e)) = Len(w) - p + 1
         /\ \A k \in 1..(Len(w) - p) : RestAnd(w, p, e)[k] = w[p + k]
         /\ RestAnd(w, p, e)[Len(w) - p + 1] = e
<1> DEFINE n == Len(w)
           tail == Rest(w, p)
           T == Letters \union {e}
           text == Append(tail, e)
<1>1. n \in Nat /\ n - p \in Nat
  BY LenProperties
<1>2. /\ tail \in Seq(Letters) /\ Len(tail) = n - p
      /\ \A k \in 1..(n - p) : tail[k] = w[p + k]
  BY RestType
<1> HIDE DEF tail, n
<1>3. tail \in Seq(T) /\ e \in T
  BY <1>2, SeqMonotonic
<1>4. text \in Seq(T) /\ text = tail \o <<e>>
  <2> HIDE DEF T
  <2> QED
    BY <1>3, AppendProperties, AppendIsConcat
<1>5. /\ Len(text) = Len(tail) + 1 /\ text[Len(tail) + 1] = e
      /\ \A i \in 1..Len(tail) : text[i] = tail[i]
  <2> HIDE DEF T
  <2> QED
    BY <1>3, AppendProperties
<1> HIDE DEF text, T
<1>6. (\A k \in 1..(n - p) : text[k] = w[p + k]) /\ text[n - p + 1] = e
  BY <1>1, <1>2, <1>5
<1>7. Len(text) = n - p + 1
  BY <1>2, <1>5
<1> QED
  BY <1>4, <1>6, <1>7 DEF T, text, tail, n, RestAnd

LEMMA ErasePicture ==
  ASSUME NEW w \in Seq(Letters), NEW p \in 1..Len(w), NEW s, s = Picture(w, p)
  PROVE  Display(s, <<"LEFT">> \o Rest(w, p) \o <<Space>> \o Times(Len(w) - p + 1, <<"LEFT">>)) =
           Picture(Without(w, p), p - 1)
<1> DEFINE n == Len(w)
           tail == Rest(w, p)
           text == RestAnd(w, p, Space)
           v == Without(w, p)
           m == n - p + 1
           back == Times(m, <<"LEFT">>)
           left == <<"LEFT">>
           gap == <<Space>>
           out == left \o tail \o gap \o back
           o == p - 1
<1>1. n \in Nat /\ p \in Nat /\ p <= n /\ m \in Nat /\ o \in Nat /\ p \in 0..n
  BY LenProperties
<1>2. /\ s \in ScreenType /\ s.column = p
      /\ \A x \in Nat : Cell(s.line, x) = Cell(w, x)
  BY <1>1, PictureIs
<1>3. tail \in Seq(Letters)
  BY <1>1, RestType
<1>4. /\ text \in Seq(Glyphs) /\ Len(text) = m /\ text = tail \o gap
      /\ \A k \in 1..(n - p) : text[k] = w[p + k]
      /\ text[m] = Space
  <2>1. Letters \union {Space} = Glyphs
    BY DEF Glyphs
  <2>2. /\ text \in Seq(Letters \union {Space}) /\ Len(text) = n - p + 1
        /\ text = tail \o gap
    BY <1>1, RestThen
  <2>3. (\A k \in 1..(n - p) : text[k] = w[p + k]) /\ text[n - p + 1] = Space
    BY <1>1, RestThen
  <2> HIDE DEF text, tail, gap
  <2> QED
    BY <2>1, <2>2, <2>3
<1>5. /\ v \in Seq(Letters) /\ Len(v) = n - 1
      /\ \A k \in 1..(n - 1) : v[k] = IF k < p THEN w[k] ELSE w[k + 1]
  BY <1>1, WithoutType
<1>6. /\ left \in Seq(Printed) /\ gap \in Seq(Printed) /\ tail \in Seq(Printed)
      /\ back \in Seq(Printed) /\ text \in Seq(Printed)
      /\ out = ((left \o tail) \o gap) \o back
  <2>1. "LEFT" \in Printed /\ Space \in Printed
    BY DEF Printed, Tokens, Glyphs
  <2>2. back \in Seq(Printed) /\ tail \in Seq(Printed) /\ text \in Seq(Printed)
    <3> HIDE DEF tail, text, m
    <3> QED
      BY <1>1, <1>3, <1>4, PrintedSeqs
  <2>3. left \in Seq(Printed) /\ gap \in Seq(Printed)
    BY <2>1
  <2>4. out = ((left \o tail) \o gap) \o back
    OBVIOUS
  <2> QED
    BY <2>2, <2>3, <2>4
<1> HIDE DEF left, gap, tail, text, back, out, v, n
<1>7. out = left \o (text \o back) /\ text \o back \in Seq(Printed)
  <2>1. (left \o tail) \o gap = left \o (tail \o gap)
    <3>1. left \in Seq(Printed) /\ tail \in Seq(Printed) /\ gap \in Seq(Printed)
      BY <1>6
    <3> QED
      BY <3>1, ConcatAssociative
  <2>2. (left \o text) \o back = left \o (text \o back)
    <3>1. left \in Seq(Printed) /\ text \in Seq(Printed) /\ back \in Seq(Printed)
      BY <1>6
    <3> QED
      BY <3>1, ConcatAssociative
  <2>3. text \o back \in Seq(Printed)
    BY <1>6, ConcatProperties
  <2> QED
    BY <1>4, <1>6, <2>1, <2>2, <2>3
<1> DEFINE t == Shown(s, left)
           rest == text \o back
<1>8. /\ t \in ScreenType /\ t.column = o
      /\ \A x \in Nat : Cell(t.line, x) = Cell(w, x)
  <2> DEFINE u == Shown(s, Times(1, <<"LEFT">>))
  <2>1. u \in ScreenType /\ u.column = s.column - 1 /\ u.line = s.line
    BY <1>2, ShowLefts
  <2>2. u = t
    BY PrintedSeqs, Zenon DEF left
  <2> HIDE DEF u, t
  <2> QED
    BY <1>2, <2>1, <2>2
<1>9. Display(s, out) = Display(t, rest)
  <2>1. Shown(s, out) = Shown(t, rest)
    <3> HIDE DEF rest
    <3>1. left \in Seq(Printed) /\ rest \in Seq(Printed) /\ out = left \o rest
      BY <1>6, <1>7 DEF rest
    <3> QED
      BY <3>1, ShownParts
  <2> HIDE DEF t, rest
  <2> QED
    BY <2>1, Zenon DEF Display
<1> HIDE DEF t
<1>10. ASSUME NEW x \in Nat
       PROVE  Cell(v, x) = IF x >= o /\ x < o + m THEN text[x - o + 1] ELSE Cell(w, x)
  <2>1. Cell(v, x) = IF x < n - 1 THEN v[x + 1] ELSE Space
    BY <1>5 DEF Cell
  <2>2. Cell(w, x) = IF x < n THEN w[x + 1] ELSE Space
    BY DEF Cell, n
  <2>3. o + m = n
    BY <1>1
  <2>4. CASE x < o
    <3>1. x + 1 \in 1..(n - 1) /\ x + 1 < p /\ x < n - 1 /\ x < n /\ ~(x >= o)
      BY <1>1, <2>4
    <3> QED
      BY <1>5, <2>1, <2>2, <3>1
  <2>5. CASE x >= o /\ x < n - 1
    <3> DEFINE i == x - o + 1
               j == x + 1
    <3>1. i \in 1..(n - p) /\ p + i = j + 1 /\ j \in 1..(n - 1) /\ ~(j < p) /\ x < n
      BY <1>1, <2>5
    <3> HIDE DEF i, j
    <3>2. v[j] = w[j + 1] /\ text[i] = w[j + 1]
      BY <1>4, <1>5, <3>1
    <3> QED
      BY <2>1, <2>3, <2>5, <3>1, <3>2 DEF i, j
  <2>6. CASE x = n - 1
    <3>1. x - o + 1 = m /\ x >= o /\ x < n /\ ~(x < n - 1)
      BY <1>1, <2>6
    <3> QED
      BY <1>4, <2>1, <2>3, <3>1
  <2>7. CASE x >= n
    <3>1. ~(x < n - 1) /\ ~(x < n)
      BY <1>1, <2>7
    <3> QED
      BY <2>1, <2>2, <2>3, <3>1
  <2> QED
    BY <1>1, <2>4, <2>5, <2>6, <2>7
<1>11. Display(t, rest) = [line |-> Trimmed(v), column |-> t.column + Len(text) - m]
  <2>1. \A x \in Nat : Cell(v, x) = IF x >= t.column /\ x < t.column + Len(text)
                                      THEN text[x - t.column + 1] ELSE Cell(t.line, x)
    BY <1>4, <1>8, <1>10
  <2>2. t.column \in Nat
    BY <1>1, <1>8
  <2>3. rest = text \o Times(m, <<"LEFT">>)
    BY DEF back
  <2> HIDE DEF m, rest, o
  <2> QED
    BY <1>1, <1>4, <1>5, <1>8, <2>1, <2>2, <2>3, Retyped
<1>12. t.column + Len(text) - m = p - 1
  BY <1>1, <1>4, <1>8
<1> HIDE DEF rest
<1>13. Display(s, out) = Picture(v, p - 1)
  BY <1>9, <1>11, <1>12 DEF Picture
<1> QED
  BY <1>13 DEF out, left, tail, gap, back, m, n, v

LEMMA RuboutPicture ==
  ASSUME NEW w \in Seq(Letters), w # << >>, NEW s, s = Picture(w, Len(w))
  PROVE  Display(s, Rubout) = Picture(Without(w, Len(w)), Len(w) - 1)
<1> DEFINE n == Len(w)
           v == Without(w, n)
           t == Shown(s, Times(1, Rubout))
<1>1. n \in Nat /\ n >= 1 /\ n \in 1..n
  BY LenProperties, EmptySeq
<1>2. /\ s \in ScreenType /\ s.column = n
      /\ \A x \in Nat : Cell(s.line, x) = Cell(w, x)
  BY <1>1, PictureIs
<1>3. /\ v \in Seq(Letters) /\ Len(v) = n - 1
      /\ \A k \in 1..(n - 1) : v[k] = IF k < n THEN w[k] ELSE w[k + 1]
  BY <1>1, WithoutType
<1>4. Times(1, Rubout) = Rubout
  <2> DEFINE a == Times(1, Rubout)
  <2>1. a \in Seq({"BS", Space}) /\ Len(a) = 3 * 1
    BY TimesType
  <2>2. a[3 * 0 + 1] = "BS" /\ a[3 * 0 + 2] = Space /\ a[3 * 0 + 3] = "BS"
    <3>1. 1 \in Nat /\ 0 \in 0..(1 - 1)
      OBVIOUS
    <3> HIDE DEF a
    <3> QED
      BY <3>1, TimesType DEF a
  <2> HIDE DEF a
  <2>3. Len(a) = 3 /\ a[1] = "BS" /\ a[2] = Space /\ a[3] = "BS"
    BY <2>1, <2>2
  <2>4. a = <<"BS", Space, "BS">>
    BY <2>1, <2>3
  <2> QED
    BY <2>4 DEF a, Rubout
<1>5. /\ t \in ScreenType /\ t.column = n - 1
      /\ \A x \in Nat : x >= n - 1 /\ x < n => Cell(t.line, x) = Space
      /\ \A x \in Nat : x < n - 1 \/ x >= n => Cell(t.line, x) = Cell(w, x)
  <2>1. s.column \in Nat /\ 1 <= s.column /\ 1 \in Nat
    BY <1>1, <1>2
  <2>2. /\ t \in ScreenType /\ t.column = s.column - 1
        /\ \A x \in Nat : x >= s.column - 1 /\ x < s.column => Cell(t.line, x) = Space
        /\ \A x \in Nat : x < s.column - 1 \/ x >= s.column => Cell(t.line, x) = Cell(s.line, x)
    BY <1>2, <2>1, ShowRubouts
  <2> HIDE DEF t
  <2> QED
    BY <1>2, <2>2
<1> HIDE DEF t, v, n
<1>6. ASSUME NEW x \in Nat PROVE Cell(t.line, x) = Cell(v, x)
  <2>1. Cell(v, x) = IF x < n - 1 THEN v[x + 1] ELSE Space
    BY <1>3 DEF Cell
  <2>2. Cell(w, x) = IF x < n THEN w[x + 1] ELSE Space
    BY DEF Cell, n
  <2>3. CASE x < n - 1
    <3>1. x + 1 \in 1..(n - 1) /\ x + 1 < n /\ x < n
      BY <1>1, <2>3
    <3> QED
      BY <1>3, <1>5, <2>1, <2>2, <2>3, <3>1
  <2>4. CASE x >= n - 1
    <3>1. ~(x < n - 1) /\ (x < n => x >= n - 1 /\ x < n) /\ (~(x < n) => x >= n)
      BY <1>1, <2>4
    <3> QED
      BY <1>5, <2>1, <2>2, <3>1
  <2> QED
    BY <1>1, <2>3, <2>4
<1>7. Shown(s, Rubout) = t
  BY <1>4, Zenon DEF t
<1>8. Display(s, Rubout) = [line |-> Trimmed(v), column |-> Shown(s, Rubout).column]
  <2>1. v \in Seq(Glyphs)
    BY <1>3, PrintedSeqs
  <2> QED
    BY <1>5, <1>6, <1>7, <2>1, DisplayIs
<1> QED
  BY <1>5, <1>7, <1>8 DEF Picture, v, n

\* a line is rubbed out from its end, and replaced by another one
LEMMA BrowsePicture ==
  ASSUME NEW w \in Seq(Letters), NEW s, s = Picture(w, Len(w)), NEW v \in Seq(Letters)
  PROVE  Display(s, Times(Len(w), Rubout) \o v) = Picture(v, Len(v))
<1> DEFINE n == Len(w)
           l == Len(v)
           old == Times(n, Rubout)
           out == old \o v
           t == Shown(s, old)
           none == Times(0, <<"LEFT">>)
<1>1. n \in Nat /\ l \in Nat
  BY LenProperties
<1>2. /\ s \in ScreenType /\ s.column = n
      /\ \A x \in Nat : Cell(s.line, x) = Cell(w, x)
  BY <1>1, PictureIs
<1>3. /\ t \in ScreenType /\ t.column = 0
      /\ \A x \in Nat : x < n => Cell(t.line, x) = Space
      /\ \A x \in Nat : x >= n => Cell(t.line, x) = Cell(w, x)
  <2>1. s.column \in Nat /\ n <= s.column
    BY <1>1, <1>2
  <2>2. /\ t \in ScreenType /\ t.column = s.column - n
        /\ \A x \in Nat : x >= s.column - n /\ x < s.column => Cell(t.line, x) = Space
        /\ \A x \in Nat : x < s.column - n \/ x >= s.column => Cell(t.line, x) = Cell(s.line, x)
    BY <1>1, <1>2, <2>1, ShowRubouts
  <2> HIDE DEF t, n
  <2> QED
    BY <1>1, <1>2, <2>2
<1>4. Display(s, out) = Display(t, v)
  <2>1. Shown(s, out) = Shown(t, v)
    <3>1. old \in Seq(Printed) /\ v \in Seq(Printed)
      BY <1>1, PrintedSeqs
    <3> HIDE DEF old
    <3> QED
      BY <3>1, ShownParts
  <2> HIDE DEF t, out
  <2> QED
    BY <2>1, Zenon DEF Display
<1> HIDE DEF t
<1>5. ASSUME NEW x \in Nat PROVE Cell(t.line, x) = Space
  <2>1. CASE x < n
    BY <1>3, <2>1
  <2>2. CASE x >= n
    <3>1. ~(x < Len(w))
      BY <1>1, <2>2
    <3>2. Cell(w, x) = Space
      BY <3>1 DEF Cell
    <3> QED
      BY <1>3, <2>2, <3>2
  <2> QED
    BY <1>1, <2>1, <2>2
<1>6. \A x \in Nat : Cell(v, x) = IF x >= t.column /\ x < t.column + Len(v)
                                    THEN v[x - t.column + 1] ELSE Cell(t.line, x)
  <2> SUFFICES ASSUME NEW x \in Nat
               PROVE  Cell(v, x) = IF x < l THEN v[x + 1] ELSE Space
    BY <1>1, <1>3, <1>5
  <2> QED
    BY DEF Cell
<1>7. v \in Seq(Glyphs) /\ t.column \in Nat /\ v \o none = v
  <2>1. none = << >> /\ v \in Seq(Glyphs)
    BY PrintedSeqs
  <2> HIDE DEF none
  <2> QED
    BY <1>3, <2>1, ConcatEmptySeq
<1>8. Display(t, v \o none) = [line |-> Trimmed(v), column |-> t.column + l - 0]
  BY <1>1, <1>3, <1>6, <1>7, Retyped
<1>9. t.column + l - 0 = l
  BY <1>1, <1>3
<1> HIDE DEF none, out
<1>10. Display(s, out) = Picture(v, l)
  BY <1>4, <1>7, <1>8, <1>9 DEF Picture
<1> QED
  BY <1>10 DEF out, old, n, l

\* a step within the line, no step at all, and a new prompt
LEMMA MovePicture ==
  ASSUME NEW w \in Seq(Letters), NEW x \in Nat, NEW s, s = Picture(w, x)
  PROVE  /\ Display(s, << >>) = Picture(w, x)
         /\ Display(s, <<"LEFT">>) = Picture(w, x - 1)
         /\ Display(s, <<"RIGHT">>) = Picture(w, x + 1)
         /\ Display(s, <<"PROMPT">>) = Picture(<< >>, 0)
<1> DEFINE none == << >>
           left == <<"LEFT">>
           right == <<"RIGHT">>
           prompt == <<"PROMPT">>
<1>1. /\ s \in ScreenType /\ s.column = x /\ w \in Seq(Glyphs)
      /\ \A y \in Nat : Cell(s.line, y) = Cell(w, y)
  BY PictureIs, PrintedSeqs
<1>2. ASSUME NEW out, Shown(s, out) \in ScreenType, Shown(s, out).line = s.line
      PROVE  Display(s, out) = Picture(w, Shown(s, out).column)
  <2>1. \A y \in Nat : Cell(Shown(s, out).line, y) = Cell(w, y)
    BY <1>1, <1>2
  <2> QED
    BY <1>1, <1>2, <2>1, DisplayIs DEF Picture
<1>3. /\ Shown(s, none) \in ScreenType /\ Shown(s, none).column = s.column
      /\ Shown(s, none).line = s.line
  <2> DEFINE out == Times(0, <<"LEFT">>)
             t == Shown(s, out)
  <2>1. t \in ScreenType /\ t.column = s.column - 0 /\ t.line = s.line
    BY <1>1, ShowLefts
  <2>2. out = none
    BY PrintedSeqs
  <2> HIDE DEF out, none
  <2>3. t = Shown(s, none)
    BY <2>2
  <2> HIDE DEF t
  <2> QED
    BY <1>1, <2>1, <2>3
<1>4. /\ Shown(s, left) \in ScreenType /\ Shown(s, left).column = s.column - 1
      /\ Shown(s, left).line = s.line
  <2> DEFINE out == Times(1, <<"LEFT">>)
             t == Shown(s, out)
  <2>1. t \in ScreenType /\ t.column = s.column - 1 /\ t.line = s.line
    BY <1>1, ShowLefts
  <2>2. out = left
    BY PrintedSeqs
  <2> HIDE DEF out, left
  <2>3. t = Shown(s, left)
    BY <2>2
  <2> HIDE DEF t
  <2> QED
    BY <1>1, <2>1, <2>3
<1>5. ASSUME NEW token PROVE Shown(s, <<token>>) = Displayed(s, token)
  <2> DEFINE out == <<token>>
  <2>1. Len(out) = 1 /\ out[1] = token
    OBVIOUS
  <2> HIDE DEF out
  <2>2. PICK g : IsTrace(s, out, g, 1) /\ Shown(s, out) = g[1]
    <3>1. Len(out) \in Nat
      BY <2>1
    <3>2. \E g : IsTrace(s, out, g, Len(out)) /\ Shown(s, out) = g[Len(out)]
      BY <3>1, ShownTrace
    <3> QED
      BY <2>1, <3>2
  <2>3. Shown(s, out) = Displayed(s, token)
    <3>1. 0 \in 0..(1 - 1) /\ 0 + 1 = 1
      OBVIOUS
    <3> QED
      BY <2>1, <2>2, <3>1 DEF IsTrace
  <2> QED
    BY <2>3 DEF out
<1>6. /\ Shown(s, right) \in ScreenType /\ Shown(s, right).column = s.column + 1
      /\ Shown(s, right).line = s.line
  <2>1. Displayed(s, "RIGHT") = [s EXCEPT !.column = @ + 1]
    BY DEF Displayed
  <2>2. Shown(s, right) = Displayed(s, "RIGHT")
    BY <1>5
  <2> HIDE DEF right
  <2> QED
    BY <1>1, <2>1, <2>2 DEF ScreenType
<1>7. Display(s, prompt) = Picture(none, 0)
  <2>1. Shown(s, prompt) = Displayed(s, "PROMPT")
    BY <1>5
  <2>2. Shown(s, prompt) = Blank
    BY <2>1 DEF Displayed
  <2>3. none \in Seq(Letters) /\ none \in Seq(Glyphs)
    BY EmptySeq
  <2>4. Blank \in ScreenType /\ Blank.column = 0 /\ Blank.line = none
    BY <2>3 DEF Blank, ScreenType
  <2> HIDE DEF none, prompt
  <2> QED
    BY <2>2, <2>3, <2>4, DisplayIs DEF Picture
<1> HIDE DEF none, left, right, prompt
<1>8. Display(s, none) = Picture(w, x)
  BY <1>1, <1>2, <1>3
<1>9. Display(s, left) = Picture(w, x - 1)
  BY <1>1, <1>2, <1>4
<1>10. Display(s, right) = Picture(w, x + 1)
  BY <1>1, <1>2, <1>6
<1> QED
  BY <1>7, <1>8, <1>9, <1>10 DEF none, left, right, prompt


-----------------------------------------------------------------------------
(* What each key does to the command and to its display.                   *)

\* the counters are adjusted after the buffer was written
Adjusted(d, x, y) == [d EXCEPT !.cbfCnt = x, !.cursor = y]

\* the display s of the command w
Follows(c, s, w) == c.cursor <= Len(w) /\ s = Picture(w, c.cursor)

\* The answer a to a key turns the command w into v and leaves the history.
\* Unless the key misled the terminal, the display follows, and unless it erased
\* the end of the command, nothing is left behind its end.
Answered(c, w, a, v, misled, erased) ==
  /\ Editing(a.con, v)
  /\ a.con.commandBufferShadow = c.commandBufferShadow
  /\ ~misled => \A s : Follows(c, s, w) => Follows(a.con, Display(s, a.out), v)
  /\ ~erased /\ Neat(c.commandBuffer) =>
       /\ Neat(a.con.commandBuffer)
       /\ ~misled /\ Ended(c) => Ended(a.con)

LEMMA Counted ==
  ASSUME NEW d \in ConType, NEW x \in Cols, NEW y \in 0..(Wrap - 1)
  PROVE  LET e == Adjusted(d, x, y) IN
         /\ e \in ConType /\ e.commandBuffer = d.commandBuffer
         /\ e.commandBufferShadow = d.commandBufferShadow
         /\ e.cbfIdx = d.cbfIdx /\ e.cbfCnt = x /\ e.cursor = y
         /\ \A q : Here(e, q) = Here(d, q)
<1> DEFINE e1 == [d EXCEPT !.cbfCnt = x]
           e2 == [e1 EXCEPT !.cursor = y]
<1>1. /\ e1 \in ConType /\ e1.commandBuffer = d.commandBuffer /\ e1.cbfIdx = d.cbfIdx
      /\ e1.commandBufferShadow = d.commandBufferShadow /\ e1.cbfCnt = x
  BY DEF ConType
<1> HIDE DEF e1
<1>2. /\ e2 \in ConType /\ e2.commandBuffer = d.commandBuffer /\ e2.cbfIdx = d.cbfIdx
      /\ e2.commandBufferShadow = d.commandBufferShadow /\ e2.cbfCnt = x /\ e2.cursor = y
  BY <1>1 DEF ConType
<1>3. Adjusted(d, x, y) = e2
  BY DEF ConType, Adjusted, e1
<1> HIDE DEF e2
<1>4. \A q : Here(e2, q) = Here(d, q)
  BY <1>1, <1>2 DEF Here
<1> QED
  BY <1>1, <1>2, <1>3, <1>4

\* the row that is edited was written and the counters adjusted
LEMMA EditedIs ==
  ASSUME NEW c, Fine(c), NEW d, SameElsewhere(c, d), NEW v \in Seq(Letters), Len(v) \in Cols,
         NEW y \in 0..(Wrap - 1), \A k \in 1..Len(v) : Here(d, k - 1) = v[k]
  PROVE  LET e == Adjusted(d, Len(v), y) IN
         /\ Editing(e, v) /\ e.cursor = y
         /\ e.commandBufferShadow = c.commandBufferShadow
         /\ Neat(c.commandBuffer) /\ NeatHere(d) => Neat(e.commandBuffer)
         /\ Here(d, Len(v)) = NUL => Ended(e)
<1> DEFINE e == Adjusted(d, Len(v), y)
           l == Len(v)
<1>1. Fine(d) /\ d \in ConType /\ d.commandBufferShadow = c.commandBufferShadow
  BY DEF SameElsewhere, Fine
<1>2. /\ e \in ConType /\ e.commandBuffer = d.commandBuffer
      /\ e.commandBufferShadow = d.commandBufferShadow
      /\ e.cbfIdx = d.cbfIdx /\ e.cbfCnt = l /\ e.cursor = y
      /\ \A q : Here(e, q) = Here(d, q)
  BY <1>1, Counted
<1> HIDE DEF e
<1>3. Fine(e)
  BY <1>1, <1>2 DEF Fine
<1>4. Editing(e, v)
  BY <1>2, <1>3 DEF Editing
<1>5. Neat(c.commandBuffer) /\ NeatHere(d) => Neat(e.commandBuffer)
  BY <1>2, NeatIs
<1>6. Here(d, l) = NUL => Ended(e)
  BY <1>2 DEF Ended
<1> HIDE DEF l
<1> QED
  BY <1>1, <1>2, <1>4, <1>5, <1>6 DEF e, l

LEMMA InsideIs ==
  ASSUME NEW c, NEW w, Editing(c, w), NEW p \in 0..(Len(w) - 1)
  PROVE  LET tail == From(c, p) IN
         /\ tail \in Seq(Letters) /\ p + Len(tail) \in Cols /\ Len(w) <= p + Len(tail)
         /\ End(c, p) = p + Len(tail)
         /\ \A k \in 1..Len(tail) : tail[k] = Here(c, p + k - 1) /\ tail[k] # NUL
         /\ Here(c, p + Len(tail)) = NUL
         /\ Ended(c) => tail = Rest(w, p) /\ p + Len(tail) = Len(w)
<1> DEFINE tail == From(c, p)
           n == Len(w)
           m == Len(tail)
           o == p + m
<1>1. /\ Fine(c) /\ w \in Seq(Letters) /\ n \in Nat /\ c.cbfCnt = n /\ n \in Cols
      /\ n <= Columns - 1 /\ \A q \in 0..(n - 1) : Here(c, q) = w[q + 1] /\ q + 1 \in 1..n
      /\ \A k \in 1..n : w[k] # NUL
      /\ Columns \in Nat /\ Columns >= 2
  BY EditingFacts
<1>2. p \in Nat /\ p \in Cols /\ p < n /\ p \in 0..n
  BY <1>1 DEF Cols
<1>3. /\ tail \in Seq(Letters) /\ o \in Cols /\ End(c, p) = o
      /\ \A k \in 1..m : tail[k] = Here(c, p + k - 1)
      /\ Here(c, o) = NUL
  BY <1>1, <1>2, FromIs
<1>4. m \in Nat /\ o \in Nat
  <2> HIDE DEF tail
  <2> QED
    BY <1>2, <1>3, LenProperties
<1>5. \A k \in 1..m : tail[k] # NUL
  <2> HIDE DEF tail
  <2>1. \A k \in 1..m : tail[k] \in Letters
    BY <1>3, ElementOfSeq
  <2> QED
    BY <2>1, LettersApart
<1> HIDE DEF tail
<1>6. n <= o
  <2> SUFFICES ASSUME ~(n <= o) PROVE FALSE
    OBVIOUS
  <2> HIDE DEF o
  <2>1. o \in 0..(n - 1)
    BY <1>1, <1>4
  <2>2. Here(c, o) = w[o + 1] /\ o + 1 \in 1..n
    BY <1>1, <2>1
  <2> QED
    BY <1>1, <1>3, <2>2
<1>7. ASSUME Ended(c) PROVE tail = Rest(w, p) /\ o = n
  <2>1. o = n
    <3> SUFFICES ASSUME ~(o <= n) PROVE FALSE
      BY <1>1, <1>4, <1>6
    <3> DEFINE i == n - p + 1
    <3>1. i \in 1..m /\ p + i - 1 = n
      BY <1>1, <1>2, <1>4
    <3> HIDE DEF i
    <3>2. tail[i] = Here(c, n) /\ tail[i] # NUL
      BY <1>3, <1>5, <3>1
    <3> QED
      BY <1>1, <1>7, <3>2 DEF Ended
  <2> DEFINE rest == Rest(w, p)
  <2>2. /\ rest \in Seq(Letters) /\ Len(rest) = n - p
        /\ \A k \in 1..(n - p) : rest[k] = w[p + k]
    BY <1>1, <1>2, RestType
  <2>3. m = n - p
    BY <1>1, <1>2, <1>4, <2>1
  <2>4. ASSUME NEW k \in 1..m PROVE tail[k] = rest[k]
    <3> DEFINE q == p + k - 1
    <3>1. q \in 0..(n - 1) /\ q + 1 = p + k /\ k \in 1..(n - p)
      BY <1>1, <1>2, <1>4, <2>3
    <3>2. tail[k] = Here(c, q)
      BY <1>3
    <3> HIDE DEF q, rest
    <3>3. Here(c, q) = w[q + 1]
      BY <1>1, <3>1
    <3> QED
      BY <2>2, <3>1, <3>2, <3>3
  <2> HIDE DEF rest
  <2>5. tail = rest
    BY <1>3, <2>2, <2>3, <2>4, SeqEqual
  <2> QED
    BY <2>1, <2>5 DEF rest
<1> HIDE DEF n, m, o
<1>8. /\ Len(tail) = m /\ Len(w) = n /\ p + Len(tail) = o
  BY DEF n, m, o
<1> QED
  BY <1>3, <1>5, <1>6, <1>7, <1>8 DEF tail, n, m, o

LEMMA Small ==
  ASSUME NEW k \in Nat, NEW n \in Nat, k < n
  PROVE  k % n = k
BY Z3

LEMMA InsertInside ==
  ASSUME NEW c, NEW w, Editing(c, w), NEW ch \in Letters, c.cursor < Len(w),
         End(c, c.cursor) < Columns - 1
  PROVE  Answered(c, w, Insert(c, ch), With(w, c.cursor, ch), Here(c, c.cbfCnt) # NUL, FALSE)
<1> DEFINE n == Len(w)
           x == c.cursor
           tail == From(c, x)
           m == Len(tail)
           text == <<ch>> \o tail
           v == With(w, c.cursor, ch)
           d == Written(c, x, text)
           y == (x + 1) % Wrap
           e == Adjusted(d, Len(v), y)
           out == text \o Times(m, <<"LEFT">>)
           a == Insert(c, ch)
<1>1. /\ n = Len(w) /\ x = c.cursor /\ c \in ConType /\ Fine(c) /\ w \in Seq(Letters) /\ n \in Nat /\ c.cbfCnt = n
      /\ n <= Columns - 1 /\ n \in Cols
      /\ \A q \in 0..(n - 1) : Here(c, q) = w[q + 1] /\ q + 1 \in 1..n
      /\ \A k \in 1..n : w[k] # NUL
      /\ Columns \in Nat /\ Columns >= 2 /\ Wrap \in Nat /\ Wrap >= Columns
      /\ x \in Nat /\ x < n
  BY EditingFacts
<1>2. x \in 0..(n - 1) /\ x \in 0..n
  BY <1>1
<1> HIDE DEF n, x
<1>3. /\ tail \in Seq(Letters) /\ x + m \in Cols /\ n <= x + m /\ End(c, x) = x + m
      /\ \A k \in 1..m : tail[k] = Here(c, x + k - 1) /\ tail[k] # NUL
      /\ Here(c, x + m) = NUL
      /\ Ended(c) => tail = Rest(w, x) /\ x + m = n
  <2> HIDE DEF tail, m
  <2>1. x \in 0..(Len(w) - 1)
    BY <1>1, <1>2
  <2>2. LET t == From(c, x) IN
        /\ t \in Seq(Letters) /\ x + Len(t) \in Cols /\ Len(w) <= x + Len(t)
        /\ End(c, x) = x + Len(t)
        /\ \A k \in 1..Len(t) : t[k] = Here(c, x + k - 1) /\ t[k] # NUL
        /\ Here(c, x + Len(t)) = NUL
        /\ Ended(c) => t = Rest(w, x) /\ x + Len(t) = Len(w)
    BY <2>1, InsideIs
  <2> QED
    BY <1>1, <2>2, Zenon DEF tail, m
<1> HIDE DEF tail
<1>4. m \in Nat /\ x + m < Columns - 1
  <2>1. m \in Nat
    BY <1>3, LenProperties
  <2> QED
    BY <1>1, <1>3, <2>1
<1>5. /\ text \in Seq(Letters) /\ Len(text) = m + 1
      /\ \A k \in 1..(m + 1) : text[k] = IF k = 1 THEN ch ELSE tail[k - 1]
  BY <1>3, PutInFront
<1>6. /\ v \in Seq(Letters) /\ Len(v) = n + 1
      /\ \A k \in 1..(n + 1) : v[k] = IF k <= x THEN w[k] ELSE IF k = x + 1 THEN ch ELSE w[k - 1]
  <2>1. c.cursor \in 0..Len(w) /\ w \in Seq(Letters)
    BY <1>1, <1>2
  <2>2. /\ v \in Seq(Letters) /\ Len(v) = Len(w) + 1
        /\ \A k \in 1..(Len(w) + 1) : v[k] = IF k <= c.cursor THEN w[k]
                                              ELSE IF k = c.cursor + 1 THEN ch ELSE w[k - 1]
    BY <2>1, WithType
  <2> HIDE DEF v
  <2> QED
    BY <1>1, <2>2
<1> HIDE DEF text, v
<1>7. /\ SameElsewhere(c, d) /\ d.cbfCnt = n /\ d.cursor = x
      /\ \A q \in Cols :
           Here(d, q) = IF x <= q /\ q < x + (m + 1) THEN text[q - x + 1] ELSE Here(c, q)
  <2>1. text \in Seq(Chars)
    BY <1>5, PrintedSeqs
  <2>2. x + Len(text) <= Columns /\ ~(x + Len(text) = Columns)
    BY <1>1, <1>4, <1>5
  <2>3. /\ SameElsewhere(c, d) /\ d.cbfCnt = c.cbfCnt /\ d.cursor = c.cursor
        /\ \A q \in Cols :
             Here(d, q) = IF x <= q /\ q < x + Len(text) THEN text[q - x + 1] ELSE Here(c, q)
    BY <1>1, <2>1, <2>2, WrittenIs
  <2> HIDE DEF d
  <2> QED
    BY <1>1, <1>5, <2>3
<1>8. a.con = e /\ a.out = out
  <2>1. a = Answer([d EXCEPT !.cbfCnt = @ + 1, !.cursor = (@ + 1) % Wrap], out)
    BY <1>1, Zenon DEF Insert, tail, text, x, d, out, m
  <2>2. [d EXCEPT !.cbfCnt = @ + 1, !.cursor = (@ + 1) % Wrap] = e
    <3> HIDE DEF d
    <3>1. [d EXCEPT !.cbfCnt = @ + 1, !.cursor = (@ + 1) % Wrap] =
            [d EXCEPT !.cbfCnt = d.cbfCnt + 1, !.cursor = (d.cursor + 1) % Wrap]
      OBVIOUS
    <3> QED
      BY <1>6, <1>7, <3>1 DEF Adjusted
  <2> HIDE DEF a, e, out
  <2> QED
    BY <2>1, <2>2 DEF Answer
<1> HIDE DEF a, d, m, out
<1>9. y = x + 1 /\ y \in 0..(Wrap - 1)
  <2>1. x + 1 \in 0..(Wrap - 1) /\ x + 1 < Wrap
    BY <1>1
  <2> DEFINE z == x + 1
  <2> HIDE DEF z
  <2>2. z \in 0..(Wrap - 1) /\ z < Wrap
    BY <2>1 DEF z
  <2>3. z % Wrap = z
    <3>1. z \in Nat
      BY <1>1, <2>2
    <3> QED
      BY <1>1, <2>2, <3>1, Small
  <2> QED
    BY <2>1, <2>3 DEF z
<1> HIDE DEF y
<1>10. ASSUME NEW q \in Cols
       PROVE  /\ q < x => Here(d, q) = Here(c, q)
              /\ q = x => Here(d, q) = ch
              /\ x < q /\ q <= x + m => Here(d, q) = Here(c, q - 1) /\ Here(d, q) # NUL
              /\ x + m < q => Here(d, q) = Here(c, q)
  <2>1. q \in Nat
    BY <1>1 DEF Cols
  <2>2. CASE q < x \/ x + m < q
    <3>1. ~(x <= q /\ q < x + (m + 1)) /\ q # x /\ ~(x < q /\ q <= x + m)
      BY <1>1, <1>4, <2>1, <2>2
    <3> QED
      BY <1>7, <3>1
  <2>3. CASE q = x
    <3>1. x <= q /\ q < x + (m + 1) /\ q - x + 1 = 1 /\ 1 \in 1..(m + 1)
          /\ ~(q < x) /\ ~(x < q) /\ ~(x + m < q)
      BY <1>1, <1>4, <2>3
    <3> QED
      BY <1>5, <1>7, <2>3, <3>1
  <2>4. CASE x < q /\ q <= x + m
    <3> DEFINE i == q - x
    <3>1. /\ x <= q /\ q < x + (m + 1) /\ q - x + 1 = i + 1 /\ i + 1 \in 1..(m + 1)
          /\ i + 1 # 1 /\ i + 1 - 1 = i /\ i \in 1..m /\ x + i - 1 = q - 1
          /\ ~(q < x) /\ q # x /\ ~(x + m < q)
      <4>1. i \in Nat /\ q = x + i /\ i >= 1 /\ i <= m
        BY <1>1, <1>4, <2>1, <2>4
      <4> HIDE DEF i
      <4>2. /\ x <= q /\ q < x + (m + 1) /\ i \in 1..m
            /\ ~(q < x) /\ q # x /\ ~(x + m < q)
        BY <1>1, <1>4, <2>1, <4>1
      <4>3. /\ q - x + 1 = i + 1 /\ i + 1 # 1 /\ i + 1 - 1 = i /\ x + i - 1 = q - 1
        BY <1>1, <4>1
      <4>4. i + 1 \in 1..(m + 1)
        BY <1>4, <4>1
      <4> QED
        BY <4>2, <4>3, <4>4
    <3> DEFINE j == i + 1
    <3>2. j \in 1..(m + 1) /\ j # 1 /\ j - 1 = i /\ q - x + 1 = j
      BY <3>1
    <3> HIDE DEF i, j
    <3>3. Here(d, q) = text[j] /\ text[j] = tail[i]
      BY <1>5, <1>7, <3>1, <3>2
    <3>4. tail[i] = Here(c, q - 1) /\ tail[i] # NUL
      BY <1>3, <3>1
    <3> QED
      BY <3>1, <3>3, <3>4
  <2> QED
    BY <1>1, <1>4, <2>1, <2>2, <2>3, <2>4
<1>11. \A k \in 1..(n + 1) : Here(d, k - 1) = v[k]
  <2> SUFFICES ASSUME NEW k \in 1..(n + 1) PROVE Here(d, k - 1) = v[k]
    OBVIOUS
  <2> DEFINE q == k - 1
  <2>1. q \in Cols /\ q \in Nat /\ q + 1 = k
    BY <1>1, <1>3, <1>4 DEF Cols
  <2>2. CASE q < x
    <3>1. q \in 0..(n - 1) /\ k <= x
      BY <1>1, <2>1, <2>2
    <3> HIDE DEF q
    <3> QED
      BY <1>1, <1>6, <1>10, <2>1, <2>2, <3>1 DEF q
  <2>3. CASE q = x
    <3>1. ~(k <= x) /\ k = x + 1
      BY <1>1, <2>1, <2>3
    <3> HIDE DEF q
    <3> QED
      BY <1>6, <1>10, <2>1, <2>3, <3>1 DEF q
  <2>4. CASE x < q
    <3>1. ~(k <= x) /\ k # x + 1 /\ q <= x + m /\ q - 1 \in 0..(n - 1) /\ q - 1 + 1 = k - 1
      BY <1>1, <1>3, <1>4, <2>1, <2>4
    <3>2. Here(c, q - 1) = w[k - 1]
      <4> DEFINE o == q - 1
      <4>1. o \in 0..(n - 1) /\ o + 1 = k - 1
        BY <3>1
      <4> HIDE DEF o
      <4>2. Here(c, o) = w[o + 1]
        BY <1>1, <4>1
      <4> QED
        BY <4>1, <4>2 DEF o
    <3> HIDE DEF q
    <3> QED
      BY <1>6, <1>10, <2>1, <2>4, <3>1, <3>2 DEF q
  <2> QED
    BY <1>1, <2>1, <2>2, <2>3, <2>4
<1>12. NeatHere(c) => NeatHere(d)
  <2> SUFFICES ASSUME NeatHere(c), NEW p \in 1..(Columns - 1), Here(d, p - 1) = NUL
               PROVE  Here(d, p) = NUL
    BY DEF NeatHere
  <2> DEFINE q == p - 1
  <2>1. q \in Cols /\ q \in Nat /\ p \in Cols /\ p \in Nat /\ p = q + 1
    BY <1>1 DEF Cols
  <2>2. x + m < q
    <3> SUFFICES ASSUME ~(x + m < q) PROVE FALSE
      OBVIOUS
    <3>1. CASE q < x
      <4>1. q \in 0..(n - 1)
        BY <1>1, <2>1, <3>1
      <4> HIDE DEF q
      <4> QED
        BY <1>1, <1>10, <2>1, <3>1, <4>1 DEF q
    <3>2. CASE q = x
      <4> HIDE DEF q
      <4> QED
        BY <1>10, <2>1, <3>2, LettersApart DEF q
    <3>3. CASE x < q
      <4>1. q <= x + m
        BY <1>1, <1>4, <2>1
      <4> HIDE DEF q
      <4> QED
        BY <1>10, <2>1, <3>3, <4>1 DEF q
    <3> QED
      BY <1>1, <2>1, <3>1, <3>2, <3>3
  <2>3. x + m < p
    BY <1>1, <1>4, <2>1, <2>2
  <2> HIDE DEF q
  <2>4. Here(c, q) = NUL
    BY <1>10, <2>1, <2>2 DEF q
  <2>5. Here(c, p) = NUL
    BY <2>4 DEF NeatHere, q
  <2> QED
    BY <1>10, <2>1, <2>3, <2>5
<1>13. /\ Editing(e, v) /\ e.cursor = x + 1
       /\ e.commandBufferShadow = c.commandBufferShadow
       /\ Neat(c.commandBuffer) /\ NeatHere(d) => Neat(e.commandBuffer)
       /\ Here(d, n + 1) = NUL => Ended(e)
  <2>1. Len(v) \in Cols
    BY <1>1, <1>3, <1>4, <1>6 DEF Cols
  <2>2. /\ Editing(e, v) /\ e.cursor = y
        /\ e.commandBufferShadow = c.commandBufferShadow
        /\ Neat(c.commandBuffer) /\ NeatHere(d) => Neat(e.commandBuffer)
        /\ Here(d, Len(v)) = NUL => Ended(e)
    <3> HIDE DEF e
    <3> QED
      BY <1>1, <1>6, <1>7, <1>9, <1>11, <2>1, EditedIs DEF e
  <2> HIDE DEF e
  <2> QED
    BY <1>6, <1>9, <2>2
<1> HIDE DEF e
<1>14. ASSUME Ended(c), NeatHere(c) PROVE Ended(e)
  <2> DEFINE o == n + 1
  <2>1. o \in 1..(Columns - 1) /\ o \in Cols /\ o - 1 = n /\ x + m < o
    BY <1>1, <1>3, <1>4, <1>14 DEF Cols
  <2> HIDE DEF o
  <2>2. Here(c, o) = NUL
    BY <1>1, <1>14, <2>1 DEF NeatHere, Ended
  <2>3. Here(d, o) = NUL
    BY <1>10, <2>1, <2>2
  <2> QED
    BY <1>13, <2>3 DEF o
<1>15. ASSUME Ended(c), NEW s, Follows(c, s, w) PROVE Follows(e, Display(s, out), v)
  <2>1. tail = Rest(w, x) /\ m = n - x
    BY <1>1, <1>3, <1>4, <1>15
  <2>2. out = (<<ch>> \o Rest(w, x)) \o Times(n - x, <<"LEFT">>)
    <3> QED
      BY <2>1 DEF text, out
  <2>3. Display(s, out) = Picture(v, x + 1)
    <3> QED
      BY <1>1, <1>2, <1>15, <2>2, InsertPicture DEF Follows, v
  <2>4. x + 1 <= Len(v)
    BY <1>1, <1>6
  <2> QED
    BY <1>13, <2>3, <2>4 DEF Follows
<1>16. Neat(c.commandBuffer) => NeatHere(c)
  BY <1>1, NeatIs
<1>17. Here(c, c.cbfCnt) = NUL <=> Ended(c)
  BY DEF Ended
<1>18. Answered(c, w, a, v, Here(c, c.cbfCnt) # NUL, FALSE)
  BY <1>8, <1>12, <1>13, <1>14, <1>15, <1>16, <1>17 DEF Answered
<1> QED
  BY <1>18 DEF a, v

\* at the end of the command, or beyond it after the terminal was misled
LEMMA InsertAtEnd ==
  ASSUME NEW c, NEW w, Editing(c, w), NEW ch \in Letters, ~(c.cursor < Len(w)),
         Len(w) < Columns - 1
  PROVE  Answered(c, w, Insert(c, ch), With(w, Len(w), ch), FALSE, FALSE)
<1> DEFINE n == Len(w)
           x == c.cursor
           text == <<ch>>
           v == With(w, Len(w), ch)
           d == Written(c, n, text)
           y == (x + 1) % Wrap
           e == Adjusted(d, Len(v), y)
           a == Insert(c, ch)
<1>1. /\ n = Len(w) /\ x = c.cursor /\ c \in ConType /\ Fine(c) /\ w \in Seq(Letters)
      /\ n \in Nat /\ c.cbfCnt = n /\ n < Columns - 1 /\ n \in Cols
      /\ \A q \in 0..(n - 1) : Here(c, q) = w[q + 1] /\ q + 1 \in 1..n
      /\ \A k \in 1..n : w[k] # NUL
      /\ Columns \in Nat /\ Columns >= 2 /\ Wrap \in Nat /\ Wrap >= Columns
      /\ x \in Nat /\ x >= n
  BY EditingFacts
<1>2. text \in Seq(Letters) /\ text \in Seq(Chars) /\ Len(text) = 1 /\ text[1] = ch
  BY LettersApart DEF Chars
<1> HIDE DEF n, x
<1>3. /\ v \in Seq(Letters) /\ Len(v) = n + 1
      /\ \A k \in 1..(n + 1) : v[k] = IF k <= n THEN w[k] ELSE IF k = n + 1 THEN ch ELSE w[k - 1]
  <2>1. Len(w) \in 0..Len(w) /\ w \in Seq(Letters)
    BY <1>1
  <2>2. /\ v \in Seq(Letters) /\ Len(v) = Len(w) + 1
        /\ \A k \in 1..(Len(w) + 1) : v[k] = IF k <= Len(w) THEN w[k]
                                              ELSE IF k = Len(w) + 1 THEN ch ELSE w[k - 1]
    BY <2>1, WithType
  <2> HIDE DEF v
  <2> QED
    BY <1>1, <2>2
<1> HIDE DEF v
<1>4. /\ SameElsewhere(c, d) /\ d.cbfCnt = n /\ d.cursor = x
      /\ \A q \in Cols : Here(d, q) = IF q = n THEN ch ELSE Here(c, q)
  <2> HIDE DEF text
  <2>1. n + Len(text) <= Columns /\ ~(n + Len(text) = Columns)
    BY <1>1, <1>2
  <2>2. /\ SameElsewhere(c, d) /\ d.cbfCnt = c.cbfCnt /\ d.cursor = c.cursor
        /\ \A q \in Cols :
             Here(d, q) = IF n <= q /\ q < n + Len(text) THEN text[q - n + 1] ELSE Here(c, q)
    BY <1>1, <1>2, <2>1, WrittenIs
  <2> HIDE DEF d
  <2>3. \A q \in Cols : Here(d, q) = IF q = n THEN ch ELSE Here(c, q)
    <3> SUFFICES ASSUME NEW q \in Cols PROVE Here(d, q) = IF q = n THEN ch ELSE Here(c, q)
      OBVIOUS
    <3>1. /\ q \in Int /\ (n <= q /\ q < n + Len(text) <=> q = n)
          /\ q = n => q - n + 1 = 1
      BY <1>1, <1>2 DEF Cols
    <3> QED
      BY <1>2, <2>2, <3>1
  <2> QED
    BY <1>1, <2>2, <2>3
<1>5. a.con = e /\ a.out = text
  <2>1. a = Answer([d EXCEPT !.cbfCnt = @ + 1, !.cursor = (@ + 1) % Wrap], text)
    <3>1. ~(c.cursor < c.cbfCnt)
      BY <1>1
    <3> QED
      BY <1>1, <3>1, Zenon DEF Insert, text, d
  <2>2. [d EXCEPT !.cbfCnt = @ + 1, !.cursor = (@ + 1) % Wrap] = e
    <3> HIDE DEF d
    <3>1. [d EXCEPT !.cbfCnt = @ + 1, !.cursor = (@ + 1) % Wrap] =
            [d EXCEPT !.cbfCnt = d.cbfCnt + 1, !.cursor = (d.cursor + 1) % Wrap]
      OBVIOUS
    <3> QED
      BY <1>3, <1>4, <3>1 DEF Adjusted
  <2> HIDE DEF a, e, text
  <2> QED
    BY <2>1, <2>2 DEF Answer
<1> HIDE DEF a, d, text
<1>6. y \in 0..(Wrap - 1) /\ (x = n => y = n + 1)
  <2> DEFINE z == x + 1
  <2>1. z \in Nat /\ Wrap \in Nat /\ Wrap > 0
    BY <1>1
  <2>2. x = n => z = n + 1 /\ z < Wrap
    BY <1>1
  <2> HIDE DEF z
  <2>3. z % Wrap \in 0..(Wrap - 1)
    BY <2>1
  <2>4. z < Wrap => z % Wrap = z
    BY <2>1, Small
  <2> QED
    BY <2>2, <2>3, <2>4 DEF z
<1> HIDE DEF y
<1>7. \A k \in 1..(n + 1) : Here(d, k - 1) = v[k]
  <2> SUFFICES ASSUME NEW k \in 1..(n + 1) PROVE Here(d, k - 1) = v[k]
    OBVIOUS
  <2> DEFINE q == k - 1
  <2>1. q \in Cols /\ q \in Nat /\ q + 1 = k /\ (k <= n <=> q < n) /\ (q < n => q \in 0..(n - 1))
        /\ (~(q < n) => q = n /\ k = n + 1)
    BY <1>1 DEF Cols
  <2> HIDE DEF q
  <2>2. CASE q < n
    <3>1. q # n
      BY <1>1, <2>2
    <3> QED
      BY <1>1, <1>3, <1>4, <2>1, <2>2, <3>1 DEF q
  <2>3. CASE ~(q < n)
    BY <1>3, <1>4, <2>1, <2>3 DEF q
  <2> QED
    BY <2>2, <2>3
<1>8. NeatHere(c) => NeatHere(d)
  <2> SUFFICES ASSUME NeatHere(c), NEW p \in 1..(Columns - 1), Here(d, p - 1) = NUL
               PROVE  Here(d, p) = NUL
    BY DEF NeatHere
  <2> DEFINE q == p - 1
  <2>1. q \in Cols /\ p \in Cols /\ q \in Nat /\ p = q + 1
    BY <1>1 DEF Cols
  <2> HIDE DEF q
  <2>2. q # n /\ Here(c, q) = NUL
    BY <1>4, <2>1, LettersApart DEF q
  <2>3. Here(c, p) = NUL
    BY <2>2 DEF NeatHere, q
  <2>4. p # n
    <3> SUFFICES ASSUME p = n PROVE FALSE
      OBVIOUS
    <3>1. q \in 0..(n - 1)
      BY <1>1, <2>1
    <3> QED
      BY <1>1, <2>2, <3>1
  <2> QED
    BY <1>4, <2>1, <2>3, <2>4
<1>9. /\ Editing(e, v) /\ e.cursor = y
      /\ e.commandBufferShadow = c.commandBufferShadow
      /\ Neat(c.commandBuffer) /\ NeatHere(d) => Neat(e.commandBuffer)
      /\ Here(d, n + 1) = NUL => Ended(e)
  <2>1. Len(v) \in Cols
    BY <1>1, <1>3 DEF Cols
  <2>2. /\ Editing(e, v) /\ e.cursor = y
        /\ e.commandBufferShadow = c.commandBufferShadow
        /\ Neat(c.commandBuffer) /\ NeatHere(d) => Neat(e.commandBuffer)
        /\ Here(d, Len(v)) = NUL => Ended(e)
    <3> HIDE DEF e
    <3> QED
      BY <1>1, <1>3, <1>4, <1>6, <1>7, <2>1, EditedIs DEF e
  <2> HIDE DEF e
  <2> QED
    BY <1>3, <2>2
<1> HIDE DEF e
<1>10. ASSUME Ended(c), NeatHere(c) PROVE Ended(e)
  <2> DEFINE o == n + 1
  <2>1. o \in 1..(Columns - 1) /\ o \in Cols /\ o - 1 = n /\ o # n
    BY <1>1 DEF Cols
  <2> HIDE DEF o
  <2>2. Here(c, o) = NUL
    BY <1>1, <1>10, <2>1 DEF NeatHere, Ended
  <2>3. Here(d, o) = NUL
    BY <1>4, <2>1, <2>2
  <2> QED
    BY <1>9, <2>3 DEF o
<1>11. ASSUME NEW s, Follows(c, s, w) PROVE Follows(e, Display(s, text), v)
  <2>1. x = n /\ s = Picture(w, Len(w))
    BY <1>1, <1>11 DEF Follows
  <2>2. text = (<<ch>> \o Rest(w, Len(w))) \o Times(Len(w) - Len(w), <<"LEFT">>)
    <3> DEFINE rest == Rest(w, Len(w))
               none == Times(0, <<"LEFT">>)
               l == Len(w)
    <3>1. rest = << >> /\ none = << >>
      <4>1. l \in 0..l /\ w \in Seq(Letters)
        BY <1>1
      <4> QED
        BY <4>1, RestType, PrintedSeqs
    <3>2. l - l = 0
      BY <1>1
    <3> HIDE DEF rest, none, l
    <3>3. (text \o rest) \o none = text
      BY <1>2, <3>1, ConcatEmptySeq
    <3> QED
      BY <3>2, <3>3 DEF text, rest, none, l
  <2>3. Display(s, text) = Picture(v, Len(w) + 1)
    <3>1. Len(w) \in 0..Len(w) /\ w \in Seq(Letters)
      BY <1>1
    <3> QED
      BY <2>1, <2>2, <3>1, InsertPicture DEF v
  <2>4. n + 1 <= Len(v) /\ e.cursor = n + 1
    BY <1>1, <1>3, <1>6, <1>9, <2>1
  <2> QED
    BY <1>1, <2>3, <2>4 DEF Follows
<1>12. Neat(c.commandBuffer) => NeatHere(c)
  BY <1>1, NeatIs
<1>13. Answered(c, w, a, v, FALSE, FALSE)
  BY <1>5, <1>8, <1>9, <1>10, <1>11, <1>12 DEF Answered
<1> QED
  BY <1>13 DEF a, v

LEMMA EraseInside ==
  ASSUME NEW c, NEW w, Editing(c, w), c.cursor > 0, c.cursor < Len(w)
  PROVE  Answered(c, w, Erase(c), Without(w, c.cursor), Here(c, c.cbfCnt) # NUL, FALSE)
<1> DEFINE n == Len(w)
           x == c.cursor
           tail == From(c, x)
           m == Len(tail)
           text == Append(tail, NUL)
           v == Without(w, c.cursor)
           d == Written(c, x - 1, text)
           e == Adjusted(d, Len(v), x - 1)
           left == <<"LEFT">>
           out == left \o tail \o <<Space>> \o Times(m + 1, left)
           a == Erase(c)
<1>1. /\ n = Len(w) /\ x = c.cursor /\ c \in ConType /\ Fine(c) /\ w \in Seq(Letters)
      /\ n \in Nat /\ c.cbfCnt = n /\ n <= Columns - 1 /\ n \in Cols
      /\ \A q \in 0..(n - 1) : Here(c, q) = w[q + 1] /\ q + 1 \in 1..n
      /\ \A k \in 1..n : w[k] # NUL
      /\ Columns \in Nat /\ Columns >= 2 /\ Wrap \in Nat /\ Wrap >= Columns
      /\ x \in Nat /\ x < n /\ x > 0
  BY EditingFacts
<1>2. x \in 0..(n - 1) /\ x \in 0..n /\ x \in 1..n /\ x - 1 \in Nat
  BY <1>1
<1> HIDE DEF n, x
<1>3. /\ tail \in Seq(Letters) /\ x + m \in Cols /\ n <= x + m
      /\ \A k \in 1..m : tail[k] = Here(c, x + k - 1) /\ tail[k] # NUL
      /\ Here(c, x + m) = NUL
      /\ Ended(c) => tail = Rest(w, x) /\ x + m = n
  <2> HIDE DEF tail, m
  <2>1. x \in 0..(Len(w) - 1)
    BY <1>1, <1>2
  <2>2. LET t == From(c, x) IN
        /\ t \in Seq(Letters) /\ x + Len(t) \in Cols /\ Len(w) <= x + Len(t)
        /\ \A k \in 1..Len(t) : t[k] = Here(c, x + k - 1) /\ t[k] # NUL
        /\ Here(c, x + Len(t)) = NUL
        /\ Ended(c) => t = Rest(w, x) /\ x + Len(t) = Len(w)
    BY <2>1, InsideIs
  <2> QED
    BY <1>1, <2>2, Zenon DEF tail, m
<1> HIDE DEF tail
<1>4. /\ m \in Nat /\ x \in Nat /\ x > 0 /\ n \in Nat /\ x < n /\ n <= x + m
      /\ x + m <= Columns - 1 /\ x + m \in Nat /\ Columns \in Nat
  <2>1. m \in Nat
    BY <1>3, LenProperties
  <2> HIDE DEF m
  <2> QED
    BY <1>1, <1>3, <2>1 DEF Cols
<1>5. /\ text \in Seq(Chars) /\ Len(text) = m + 1 /\ text[m + 1] = NUL
      /\ \A k \in 1..m : text[k] = tail[k]
  <2>1. tail \in Seq(Chars) /\ NUL \in Chars
    BY <1>3, PrintedSeqs DEF Chars
  <2> DEFINE l == Len(tail)
  <2>2. /\ text \in Seq(Chars) /\ Len(text) = l + 1 /\ text[l + 1] = NUL
        /\ \A k \in 1..l : text[k] = tail[k]
    BY <2>1, AppendProperties
  <2> HIDE DEF text
  <2> QED
    BY <2>2
<1>6. /\ v \in Seq(Letters) /\ Len(v) = n - 1
      /\ \A k \in 1..(n - 1) : v[k] = IF k < x THEN w[k] ELSE w[k + 1]
  <2>1. c.cursor \in 1..Len(w) /\ w \in Seq(Letters)
    BY <1>1, <1>2
  <2>2. /\ v \in Seq(Letters) /\ Len(v) = Len(w) - 1
        /\ \A k \in 1..(Len(w) - 1) : v[k] = IF k < c.cursor THEN w[k] ELSE w[k + 1]
    BY <2>1, WithoutType
  <2> HIDE DEF v
  <2> QED
    BY <1>1, <2>2
<1> HIDE DEF text, v
<1>7. /\ SameElsewhere(c, d) /\ d.cbfCnt = n /\ d.cursor = x
      /\ \A q \in Cols :
           Here(d, q) = IF x - 1 <= q /\ q < x + m THEN text[q - (x - 1) + 1] ELSE Here(c, q)
  <2> DEFINE p == x - 1
  <2>1. p \in Nat /\ p + Len(text) = x + m /\ p + Len(text) <= Columns
        /\ ~(p + Len(text) = Columns)
    <3> DEFINE l == Len(text)
    <3>1. l = m + 1
      BY <1>5
    <3> HIDE DEF l, m
    <3>2. p \in Nat /\ p + l = x + m
      BY <1>4, <3>1
    <3> QED
      BY <1>4, <3>2 DEF l
  <2> HIDE DEF p
  <2> DEFINE f == Written(c, p, text)
  <2>2. /\ SameElsewhere(c, f) /\ f.cbfCnt = c.cbfCnt /\ f.cursor = c.cursor
        /\ \A q \in Cols :
             Here(f, q) = IF p <= q /\ q < p + Len(text) THEN text[q - p + 1] ELSE Here(c, q)
    BY <1>1, <1>5, <2>1, WrittenIs
  <2> HIDE DEF f
  <2>3. d = f
    BY DEF f, p
  <2> HIDE DEF d
  <2> QED
    BY <1>1, <2>1, <2>2, <2>3 DEF p
<1>8. a.con = e /\ a.out = out
  <2>1. a = Answer([d EXCEPT !.cbfCnt = @ - 1, !.cursor = @ - 1], out)
    BY <1>1, Zenon DEF Erase, tail, text, x, d, out, m, left
  <2>2. [d EXCEPT !.cbfCnt = @ - 1, !.cursor = @ - 1] = e
    <3> HIDE DEF d
    <3>1. [d EXCEPT !.cbfCnt = @ - 1, !.cursor = @ - 1] =
            [d EXCEPT !.cbfCnt = d.cbfCnt - 1, !.cursor = d.cursor - 1]
      OBVIOUS
    <3> QED
      BY <1>6, <1>7, <3>1 DEF Adjusted
  <2> HIDE DEF a, e, out
  <2> QED
    BY <2>1, <2>2 DEF Answer
<1> HIDE DEF a, d, m, out, left
<1>9. ASSUME NEW q \in Cols
      PROVE  /\ q < x - 1 => Here(d, q) = Here(c, q)
             /\ x - 1 <= q /\ q < x + m - 1 => Here(d, q) = Here(c, q + 1) /\ Here(d, q) # NUL
             /\ q = x + m - 1 => Here(d, q) = NUL
             /\ q >= x + m => Here(d, q) = Here(c, q)
  <2>1. q \in Nat
    BY <1>1 DEF Cols
  <2>2. CASE q < x - 1 \/ q >= x + m
    <3>1. ~(x - 1 <= q /\ q < x + m) /\ ~(x - 1 <= q /\ q < x + m - 1) /\ q # x + m - 1
      BY <1>4, <2>1, <2>2
    <3> QED
      BY <1>7, <3>1
  <2>3. CASE q = x + m - 1
    <3>1. x - 1 <= q /\ q < x + m /\ q - (x - 1) + 1 = m + 1
          /\ ~(q < x - 1) /\ ~(q < x + m - 1) /\ ~(q >= x + m)
      BY <1>4, <2>1, <2>3
    <3> QED
      BY <1>5, <1>7, <3>1
  <2>4. CASE x - 1 <= q /\ q < x + m - 1
    <3> DEFINE i == q - (x - 1) + 1
    <3>1. i \in Nat /\ i >= 1 /\ i <= m /\ x + i - 1 = q + 1
      BY <1>4, <2>1, <2>4
    <3>2. q < x + m /\ ~(q < x - 1) /\ q # x + m - 1 /\ ~(q >= x + m)
      BY <1>4, <2>1, <2>4
    <3> HIDE DEF i
    <3>3. i \in 1..m
      BY <1>4, <3>1
    <3>4. Here(d, q) = text[i] /\ text[i] = tail[i]
      BY <1>5, <1>7, <2>4, <3>2, <3>3 DEF i
    <3>5. tail[i] = Here(c, q + 1) /\ tail[i] # NUL
      BY <1>3, <3>1, <3>3
    <3> QED
      BY <3>2, <3>4, <3>5
  <2> QED
    BY <1>4, <2>1, <2>2, <2>3, <2>4
<1>10. \A k \in 1..(n - 1) : Here(d, k - 1) = v[k]
  <2> SUFFICES ASSUME NEW k \in 1..(n - 1) PROVE Here(d, k - 1) = v[k]
    OBVIOUS
  <2> DEFINE q == k - 1
  <2>1. q \in Cols /\ q \in Nat /\ q + 1 = k /\ q < n - 1
    BY <1>1 DEF Cols
  <2>2. CASE q < x - 1
    <3>1. q \in 0..(n - 1) /\ k < x
      BY <1>1, <2>1, <2>2
    <3> HIDE DEF q
    <3> QED
      BY <1>1, <1>6, <1>9, <2>1, <2>2, <3>1 DEF q
  <2>3. CASE q >= x - 1
    <3>1. k \in 0..(n - 1) /\ ~(k < x) /\ x - 1 <= q /\ q < x + m - 1
      BY <1>4, <2>1, <2>3
    <3>2. Here(c, k) = w[k + 1]
      BY <1>1, <3>1
    <3> HIDE DEF q
    <3> QED
      BY <1>6, <1>9, <2>1, <3>1, <3>2 DEF q
  <2> QED
    BY <1>1, <2>1, <2>2, <2>3
<1>11. NeatHere(c) => NeatHere(d)
  <2> SUFFICES ASSUME NeatHere(c), NEW p \in 1..(Columns - 1), Here(d, p - 1) = NUL
               PROVE  Here(d, p) = NUL
    BY DEF NeatHere
  <2> DEFINE q == p - 1
  <2>1. q \in Cols /\ q \in Nat /\ p \in Cols /\ p \in Nat /\ p = q + 1
    BY <1>1 DEF Cols
  <2>2. CASE q < x - 1
    <3>1. q \in 0..(n - 1)
      BY <1>1, <2>1, <2>2
    <3> HIDE DEF q
    <3> QED
      BY <1>1, <1>9, <2>1, <2>2, <3>1 DEF q
  <2>3. CASE x - 1 <= q /\ q < x + m - 1
    <3> HIDE DEF q
    <3> QED
      BY <1>9, <2>1, <2>3 DEF q
  <2>4. CASE q = x + m - 1
    <3>1. p = x + m /\ p >= x + m
      BY <1>4, <2>1, <2>4
    <3> QED
      BY <1>3, <1>9, <2>1, <3>1
  <2>5. CASE q >= x + m
    <3>1. p >= x + m
      BY <1>4, <2>1, <2>5
    <3> HIDE DEF q
    <3>2. Here(c, q) = NUL
      BY <1>9, <2>1, <2>5 DEF q
    <3>3. Here(c, p) = NUL
      BY <3>2 DEF NeatHere, q
    <3> QED
      BY <1>9, <2>1, <3>1, <3>3
  <2> QED
    BY <1>4, <2>1, <2>2, <2>3, <2>4, <2>5
<1>12. /\ Editing(e, v) /\ e.cursor = x - 1
       /\ e.commandBufferShadow = c.commandBufferShadow
       /\ Neat(c.commandBuffer) /\ NeatHere(d) => Neat(e.commandBuffer)
       /\ Here(d, n - 1) = NUL => Ended(e)
  <2> DEFINE y == x - 1
  <2>1. Len(v) \in Cols /\ y \in 0..(Wrap - 1)
    BY <1>1, <1>6 DEF Cols
  <2> DEFINE f == Adjusted(d, Len(v), y)
  <2>2. /\ Editing(f, v) /\ f.cursor = y
        /\ f.commandBufferShadow = c.commandBufferShadow
        /\ Neat(c.commandBuffer) /\ NeatHere(d) => Neat(f.commandBuffer)
        /\ Here(d, Len(v)) = NUL => Ended(f)
    <3> HIDE DEF f, y
    <3> QED
      BY <1>1, <1>6, <1>7, <1>10, <2>1, EditedIs DEF f
  <2>3. e = f
    OBVIOUS
  <2> HIDE DEF e, f
  <2> QED
    BY <1>6, <2>2, <2>3
<1> HIDE DEF e
<1>13. ASSUME Ended(c) PROVE Ended(e)
  <2> DEFINE o == n - 1
  <2>1. o \in Cols /\ o = x + m - 1
    <3>1. x + m = n
      BY <1>3, <1>13
    <3> QED
      BY <1>4, <3>1 DEF Cols
  <2> HIDE DEF o
  <2>2. Here(d, o) = NUL
    BY <1>9, <2>1
  <2> QED
    BY <1>12, <2>2 DEF o
<1>14. ASSUME Ended(c), NEW s, Follows(c, s, w) PROVE Follows(e, Display(s, out), v)
  <2>1. tail = Rest(w, x) /\ m + 1 = n - x + 1
    <3>1. tail = Rest(w, x) /\ x + m = n
      BY <1>3, <1>14
    <3> QED
      BY <1>4, <3>1
  <2>2. out = <<"LEFT">> \o Rest(w, x) \o <<Space>> \o Times(n - x + 1, <<"LEFT">>)
    BY <2>1 DEF out, left
  <2>3. Display(s, out) = Picture(v, x - 1)
    <3>1. x \in 1..Len(w) /\ s = Picture(w, x)
      BY <1>1, <1>2, <1>14 DEF Follows
    <3> QED
      BY <1>1, <2>2, <3>1, ErasePicture DEF v
  <2>4. x - 1 <= Len(v)
    BY <1>1, <1>6
  <2> QED
    BY <1>12, <2>3, <2>4 DEF Follows
<1>15. Neat(c.commandBuffer) => NeatHere(c)
  BY <1>1, NeatIs
<1>16. Here(c, c.cbfCnt) = NUL <=> Ended(c)
  BY DEF Ended
<1>17. Answered(c, w, a, v, Here(c, c.cbfCnt) # NUL, FALSE)
  BY <1>8, <1>11, <1>12, <1>13, <1>14, <1>15, <1>16 DEF Answered
<1> QED
  BY <1>17 DEF a, v

LEMMA EraseAtEnd ==
  ASSUME NEW c, NEW w, Editing(c, w), c.cursor > 0, ~(c.cursor < Len(w)), Len(w) > 0
  PROVE  Answered(c, w, Erase(c), Without(w, Len(w)), FALSE, TRUE)
<1> DEFINE n == Len(w)
           x == c.cursor
           text == <<NUL>>
           v == Without(w, Len(w))
           d == Written(c, n, text)
           y == x - 1
           e == Adjusted(d, Len(v), y)
           a == Erase(c)
<1>1. /\ n = Len(w) /\ x = c.cursor /\ c \in ConType /\ Fine(c) /\ w \in Seq(Letters)
      /\ n \in Nat /\ n > 0 /\ c.cbfCnt = n /\ n <= Columns - 1 /\ n \in Cols
      /\ \A q \in 0..(n - 1) : Here(c, q) = w[q + 1] /\ q + 1 \in 1..n
      /\ Columns \in Nat /\ Columns >= 2 /\ Wrap \in Nat /\ Wrap >= Columns
      /\ x \in Nat /\ x >= n /\ x \in 0..(Wrap - 1)
  BY EditingFacts
<1>2. text \in Seq(Chars) /\ Len(text) = 1 /\ text[1] = NUL /\ text # << >>
  BY DEF Chars
<1> HIDE DEF n, x
<1>3. /\ v \in Seq(Letters) /\ Len(v) = n - 1
      /\ \A k \in 1..(n - 1) : v[k] = w[k]
  <2>1. Len(w) \in 1..Len(w) /\ w \in Seq(Letters)
    BY <1>1
  <2>2. /\ v \in Seq(Letters) /\ Len(v) = Len(w) - 1
        /\ \A k \in 1..(Len(w) - 1) : v[k] = IF k < Len(w) THEN w[k] ELSE w[k + 1]
    BY <2>1, WithoutType
  <2> HIDE DEF v
  <2>3. \A k \in 1..(n - 1) : k < n
    BY <1>1
  <2> QED
    BY <1>1, <2>2, <2>3
<1> HIDE DEF v
<1>4. /\ SameElsewhere(c, d) /\ d.cbfCnt = n /\ d.cursor = x
      /\ \A q \in Cols : q # n => Here(d, q) = Here(c, q)
  <2> HIDE DEF text
  <2>1. n + Len(text) <= Columns /\ text[Len(text)] = NUL
    BY <1>1, <1>2
  <2>2. /\ SameElsewhere(c, d) /\ d.cbfCnt = c.cbfCnt /\ d.cursor = c.cursor
        /\ \A q \in Cols :
             Here(d, q) = IF n <= q /\ q < n + Len(text) THEN text[q - n + 1] ELSE Here(c, q)
    BY <1>1, <1>2, <2>1, WrittenIs
  <2> HIDE DEF d
  <2>3. \A q \in Cols : q # n => Here(d, q) = Here(c, q)
    <3> SUFFICES ASSUME NEW q \in Cols, q # n PROVE Here(d, q) = Here(c, q)
      OBVIOUS
    <3>1. ~(n <= q /\ q < n + Len(text))
      BY <1>1, <1>2 DEF Cols
    <3> QED
      BY <2>2, <3>1
  <2> QED
    BY <1>1, <2>2, <2>3
<1>5. a.con = e /\ a.out = Rubout
  <2>1. a = Answer([d EXCEPT !.cbfCnt = @ - 1, !.cursor = @ - 1], Rubout)
    <3>1. ~(c.cursor < c.cbfCnt)
      BY <1>1
    <3> QED
      BY <1>1, <3>1, Zenon DEF Erase, text, d
  <2>2. [d EXCEPT !.cbfCnt = @ - 1, !.cursor = @ - 1] = e
    <3> HIDE DEF d
    <3>1. [d EXCEPT !.cbfCnt = @ - 1, !.cursor = @ - 1] =
            [d EXCEPT !.cbfCnt = d.cbfCnt - 1, !.cursor = d.cursor - 1]
      OBVIOUS
    <3> QED
      BY <1>3, <1>4, <3>1 DEF Adjusted
  <2> HIDE DEF a, e
  <2> QED
    BY <2>1, <2>2 DEF Answer
<1> HIDE DEF a, d, text
<1>6. \A k \in 1..(n - 1) : Here(d, k - 1) = v[k]
  <2> SUFFICES ASSUME NEW k \in 1..(n - 1) PROVE Here(d, k - 1) = v[k]
    OBVIOUS
  <2> DEFINE q == k - 1
  <2>1. q \in Cols /\ q + 1 = k /\ q \in 0..(n - 1) /\ q # n
    BY <1>1 DEF Cols
  <2> HIDE DEF q
  <2> QED
    BY <1>1, <1>3, <1>4, <2>1 DEF q
<1>7. y \in 0..(Wrap - 1) /\ Len(v) \in Cols
  BY <1>1, <1>3 DEF Cols
<1> HIDE DEF y
<1>8. /\ Editing(e, v) /\ e.cursor = y
      /\ e.commandBufferShadow = c.commandBufferShadow
  <2> HIDE DEF e
  <2> QED
    BY <1>1, <1>3, <1>4, <1>6, <1>7, EditedIs DEF e
<1> HIDE DEF e
<1>9. ASSUME NEW s, Follows(c, s, w) PROVE Follows(e, Display(s, Rubout), v)
  <2>1. x = n /\ s = Picture(w, Len(w)) /\ w # << >> /\ w \in Seq(Letters)
    BY <1>1, <1>9, EmptySeq DEF Follows
  <2>2. Display(s, Rubout) = Picture(v, Len(w) - 1)
    BY <2>1, RuboutPicture DEF v
  <2>3. y = Len(w) - 1 /\ y <= Len(v)
    BY <1>1, <1>3, <2>1 DEF y
  <2> QED
    BY <1>8, <2>2, <2>3 DEF Follows
<1>10. Answered(c, w, a, v, FALSE, TRUE)
  BY <1>5, <1>8, <1>9 DEF Answered
<1> QED
  BY <1>10 DEF a, v

\* the marks only weaken what is said of an answer
LEMMA Weakened ==
  ASSUME NEW c, NEW w, NEW a, NEW v, NEW m1 \in BOOLEAN, NEW m2 \in BOOLEAN,
         NEW e1 \in BOOLEAN, NEW e2 \in BOOLEAN,
         Answered(c, w, a, v, m1, e1), m1 => m2, e1 => e2
  PROVE  Answered(c, w, a, v, m2, e2)
BY Zenon DEF Answered

\* the console d differs from c in what it has seen of an arrow key
SameLine(c, d) ==
  /\ d \in ConType /\ d.commandBuffer = c.commandBuffer /\ d.cbfIdx = c.cbfIdx
  /\ d.commandBufferShadow = c.commandBufferShadow
  /\ d.cbfCnt = c.cbfCnt /\ d.cursor = c.cursor

LEMMA SameLineIs ==
  ASSUME NEW c, NEW w, Editing(c, w), NEW d, SameLine(c, d)
  PROVE  /\ Editing(d, w) /\ Fine(c) /\ Ended(c) = Ended(d)
         /\ \A q : Here(d, q) = Here(c, q)
         /\ \A s : Follows(c, s, w) = Follows(d, s, w)
         /\ \A a, v : \A m, e \in BOOLEAN :
              Answered(d, w, a, v, m, e) => Answered(c, w, a, v, m, e)
<1>1. \A q : Here(d, q) = Here(c, q)
  BY DEF SameLine, Here
<1>2. Fine(c) /\ Fine(d)
  BY DEF Editing, Fine, SameLine
<1>3. Editing(d, w)
  BY <1>1, <1>2 DEF Editing, SameLine
<1>4. \A s : Follows(c, s, w) = Follows(d, s, w)
  BY DEF Follows, SameLine
<1>5. Ended(c) = Ended(d)
  BY <1>1 DEF Ended, SameLine
<1>6. d.commandBuffer = c.commandBuffer /\ d.commandBufferShadow = c.commandBufferShadow
  BY DEF SameLine
<1>7. ASSUME NEW a, NEW v, NEW m \in BOOLEAN, NEW e \in BOOLEAN, Answered(d, w, a, v, m, e)
      PROVE  Answered(c, w, a, v, m, e)
  BY <1>4, <1>5, <1>6, <1>7, Zenon DEF Answered
<1> QED
  BY <1>1, <1>2, <1>3, <1>4, <1>5, <1>7

\* nothing is printed and the command stays
LEMMA SilentIs ==
  ASSUME NEW c, NEW w, Editing(c, w), NEW d, SameLine(c, d), NEW a, a = Answer(d, << >>)
  PROVE  Answered(c, w, a, w, FALSE, FALSE)
<1> DEFINE none == << >>
<1>1. a.con = d /\ a.out = none
  BY DEF Answer
<1>2. Editing(d, w) /\ Ended(c) = Ended(d) /\ \A s : Follows(c, s, w) = Follows(d, s, w)
  BY SameLineIs
<1>3. d.commandBuffer = c.commandBuffer /\ d.commandBufferShadow = c.commandBufferShadow
  BY DEF SameLine
<1>4. ASSUME NEW s, Follows(c, s, w) PROVE Follows(d, Display(s, none), w)
  <2>1. w \in Seq(Letters) /\ c.cursor \in Nat
    BY EditingFacts
  <2>2. Display(s, none) = s
    BY <1>4, <2>1, MovePicture DEF Follows
  <2> QED
    BY <1>2, <1>4, <2>2
<1> HIDE DEF none
<1> QED
  BY <1>1, <1>2, <1>3, <1>4, Zenon DEF Answered

\* the cursor moves within the command
LEMMA MovedIs ==
  ASSUME NEW c, NEW w, Editing(c, w), NEW x \in Nat, x < Wrap,
         NEW a, a.con = [c EXCEPT !.cursor = x],
         c.cursor <= Len(w) => x <= Len(w),
         \/ a.out = <<"LEFT">> /\ x = c.cursor - 1
         \/ a.out = <<"RIGHT">> /\ x = c.cursor + 1
  PROVE  Answered(c, w, a, w, FALSE, FALSE)
<1> DEFINE d == [c EXCEPT !.cursor = x]
<1>1. /\ c \in ConType /\ Fine(c) /\ w \in Seq(Letters) /\ c.cursor \in Nat
      /\ x \in 0..(Wrap - 1)
  BY EditingFacts
<1>2. /\ d \in ConType /\ d.commandBuffer = c.commandBuffer /\ d.cbfIdx = c.cbfIdx
      /\ d.commandBufferShadow = c.commandBufferShadow
      /\ d.cbfCnt = c.cbfCnt /\ d.cursor = x
  BY <1>1 DEF ConType
<1>3. a.con = d
  OBVIOUS
<1> HIDE DEF d
<1>4. \A q : Here(d, q) = Here(c, q)
  BY <1>2 DEF Here
<1>5. Editing(d, w) /\ Ended(d) = Ended(c)
  <2>1. Fine(d)
    BY <1>1, <1>2 DEF Fine
  <2> QED
    BY <1>2, <1>4, <2>1 DEF Editing, Ended
<1>6. ASSUME NEW s, Follows(c, s, w) PROVE Follows(d, Display(s, a.out), w)
  <2>1. s = Picture(w, c.cursor)
    BY <1>6 DEF Follows
  <2>2. /\ Display(s, <<"LEFT">>) = Picture(w, c.cursor - 1)
        /\ Display(s, <<"RIGHT">>) = Picture(w, c.cursor + 1)
    BY <1>1, <2>1, MovePicture
  <2>3. Display(s, a.out) = Picture(w, x)
    BY <2>2
  <2> QED
    BY <1>2, <1>6, <2>3 DEF Follows
<1> QED
  BY <1>2, <1>3, <1>5, <1>6, Zenon DEF Answered

LEMMA LeftIs ==
  ASSUME NEW c, NEW w, Editing(c, w)
  PROVE  Answered(c, w, Left(c), w, FALSE, FALSE)
<1> DEFINE a == Left(c)
           x == c.cursor - 1
<1>1. c \in ConType /\ c.cursor \in 0..(Wrap - 1) /\ c.cursor \in Nat /\ Wrap \in Nat /\ Len(w) \in Nat
  BY EditingFacts
<1>2. CASE c.cursor > 0
  <2>1. a.con = [c EXCEPT !.cursor = x] /\ a.out = <<"LEFT">>
    BY <1>2 DEF Left, Answer
  <2>2. x \in Nat /\ x < Wrap /\ (c.cursor <= Len(w) => x <= Len(w))
    BY <1>1, <1>2
  <2>3. x = c.cursor - 1
    OBVIOUS
  <2> HIDE DEF a, x
  <2>4. Answered(c, w, a, w, FALSE, FALSE)
    BY <2>1, <2>2, <2>3, MovedIs
  <2> QED
    BY <2>4 DEF a
<1>3. CASE ~(c.cursor > 0)
  <2>1. a = Answer(c, << >>)
    BY <1>3, Zenon DEF Left
  <2> HIDE DEF a
  <2>2. SameLine(c, c)
    BY <1>1 DEF SameLine
  <2>3. Answered(c, w, a, w, FALSE, FALSE)
    BY <2>1, <2>2, SilentIs
  <2> QED
    BY <2>3 DEF a
<1> QED
  BY <1>2, <1>3

LEMMA RightIs ==
  ASSUME NEW c, NEW w, Editing(c, w)
  PROVE  Answered(c, w, Right(c), w, FALSE, FALSE)
<1> DEFINE a == Right(c)
           x == c.cursor + 1
<1>1. /\ c \in ConType /\ c.cursor \in Nat /\ Wrap \in Nat /\ Len(w) \in Nat
      /\ c.cbfCnt = Len(w) /\ Len(w) <= Columns - 1 /\ Columns <= Wrap /\ Columns \in Nat
  BY EditingFacts
<1>2. CASE c.cursor < c.cbfCnt
  <2>1. a.con = [c EXCEPT !.cursor = x] /\ a.out = <<"RIGHT">>
    BY <1>2 DEF Right, Answer
  <2>2. x \in Nat /\ x < Wrap /\ (c.cursor <= Len(w) => x <= Len(w))
    BY <1>1, <1>2
  <2>3. x = c.cursor + 1
    OBVIOUS
  <2> HIDE DEF a, x
  <2>4. Answered(c, w, a, w, FALSE, FALSE)
    BY <2>1, <2>2, <2>3, MovedIs
  <2> QED
    BY <2>4 DEF a
<1>3. CASE ~(c.cursor < c.cbfCnt)
  <2>1. a = Answer(c, << >>)
    BY <1>3, Zenon DEF Right
  <2> HIDE DEF a
  <2>2. SameLine(c, c)
    BY <1>1 DEF SameLine
  <2>3. Answered(c, w, a, w, FALSE, FALSE)
    BY <2>1, <2>2, SilentIs
  <2> QED
    BY <2>3 DEF a
<1> QED
  BY <1>2, <1>3

LEMMA BrowseRow ==
  ASSUME NEW c, NEW w, Editing(c, w), NEW row \in 0..(Rows - 1)
  PROVE  \E v : /\ Answered(c, w, Browse(c, row), v, c.cursor # c.cbfCnt, FALSE)
                /\ Browse(c, row).con.cursor = Browse(c, row).con.cbfCnt
<1> DEFINE d == [c EXCEPT !.cbfIdx = row]
           v == From(d, 0)
           l == Len(v)
           e == Adjusted(d, l, l)
           old == Times(c.cbfCnt, Rubout)
           out == old \o v
           a == Browse(c, row)
<1>1. /\ c \in ConType /\ Fine(c) /\ w \in Seq(Letters) /\ Len(w) \in Nat
      /\ c.cbfCnt = Len(w) /\ Columns \in Nat /\ Columns >= 2 /\ Wrap \in Nat /\ Wrap >= Columns
  BY EditingFacts
<1>2. /\ d \in ConType /\ d.commandBuffer = c.commandBuffer /\ d.cbfIdx = row
      /\ d.commandBufferShadow = c.commandBufferShadow
  BY <1>1 DEF ConType
<1>3. a.con = e /\ a.out = out
  <2>1. a = Answer([d EXCEPT !.cbfCnt = Len(From(d, 0)), !.cursor = Len(From(d, 0))], out)
    BY Zenon DEF Browse, d, old, out, v
  <2> HIDE DEF a, out
  <2>2. a = Answer(e, out)
    BY <2>1, Zenon DEF Adjusted, e, l, v
  <2> QED
    BY <2>2, Zenon DEF Answer
<1> HIDE DEF a, d
<1>4. Fine(d)
  BY <1>1, <1>2 DEF Fine
<1>5. /\ v \in Seq(Letters) /\ l \in Cols
      /\ \A k \in 1..l : v[k] = Here(d, k - 1)
      /\ Here(d, l) = NUL
  <2>1. 0 \in Cols
    BY <1>1 DEF Cols
  <2>2. /\ v \in Seq(Letters) /\ 0 + l \in Cols
        /\ \A k \in 1..l : v[k] = Here(d, 0 + k - 1)
        /\ Here(d, 0 + l) = NUL
    BY <1>4, <2>1, FromIs
  <2> HIDE DEF v
  <2>3. l \in Nat
    BY <2>2, LenProperties
  <2> HIDE DEF l
  <2>4. 0 + l = l /\ \A k \in 1..l : 0 + k - 1 = k - 1
    BY <2>3
  <2> QED
    BY <2>2, <2>4
<1> HIDE DEF v
<1>6. l \in 0..(Wrap - 1) /\ l \in Nat
  BY <1>1, <1>5 DEF Cols
<1> HIDE DEF l
<1>7. /\ e \in ConType /\ e.commandBuffer = d.commandBuffer
      /\ e.commandBufferShadow = d.commandBufferShadow /\ e.cbfCnt = l /\ e.cursor = l
      /\ \A q : Here(e, q) = Here(d, q)
  BY <1>2, <1>5, <1>6, Counted
<1> HIDE DEF e
<1>8. Editing(e, v) /\ Ended(e)
  <2>1. Fine(e)
    BY <1>4, <1>7 DEF Fine
  <2> QED
    BY <1>5, <1>7, <2>1 DEF Editing, Ended, l
<1>9. ASSUME c.cursor = c.cbfCnt, NEW s, Follows(c, s, w) PROVE Follows(e, Display(s, out), v)
  <2>1. s = Picture(w, Len(w)) /\ out = Times(Len(w), Rubout) \o v
    BY <1>1, <1>9 DEF Follows
  <2>2. Display(s, out) = Picture(v, Len(v))
    <3> HIDE DEF out
    <3> QED
      BY <1>1, <1>5, <2>1, BrowsePicture
  <2>3. e.cursor = Len(v) /\ Len(v) <= Len(v)
    BY <1>6, <1>7 DEF l
  <2> QED
    BY <2>2, <2>3 DEF Follows
<1> HIDE DEF out
<1>10. Answered(c, w, a, v, c.cursor # c.cbfCnt, FALSE)
  BY <1>2, <1>3, <1>7, <1>8, <1>9, Zenon DEF Answered
<1>11. a.con.cursor = a.con.cbfCnt
  BY <1>3, <1>7
<1> QED
  BY <1>10, <1>11 DEF a

LEMMA BrowseBeyond ==
  ASSUME NEW c, NEW w, Editing(c, w), NEW row, row \notin 0..(Rows - 1)
  PROVE  LET a == Browse(c, row) IN
         Answered(c, w, a, << >>, c.cursor # c.cbfCnt \/ a.con.cursor # a.con.cbfCnt, FALSE)
<1> DEFINE a == Browse(c, row)
           e == [c EXCEPT !.cbfCnt = 0]
           none == << >>
           out == Times(c.cbfCnt, Rubout)
<1>1. /\ c \in ConType /\ Fine(c) /\ w \in Seq(Letters) /\ Len(w) \in Nat
      /\ c.cbfCnt = Len(w) /\ Columns \in Nat /\ Columns >= 2
  BY EditingFacts
<1>2. a.con = e /\ a.out = out
  BY Zenon DEF Browse, Answer
<1> HIDE DEF a
<1>3. /\ e \in ConType /\ e.commandBuffer = c.commandBuffer /\ e.cbfIdx = c.cbfIdx
      /\ e.commandBufferShadow = c.commandBufferShadow
      /\ e.cbfCnt = 0 /\ e.cursor = c.cursor
  <2>1. 0 \in Cols
    BY <1>1 DEF Cols
  <2> QED
    BY <1>1, <2>1 DEF ConType
<1> HIDE DEF e
<1>4. none \in Seq(Letters) /\ Len(none) = 0
  BY EmptySeq
<1> HIDE DEF none
<1>5. Editing(e, none)
  <2>1. Fine(e)
    BY <1>1, <1>3 DEF Fine
  <2> QED
    BY <1>3, <1>4, <2>1 DEF Editing
<1>6. ASSUME c.cursor = c.cbfCnt, e.cursor = e.cbfCnt
      PROVE  /\ Ended(c) => Ended(e)
             /\ \A s : Follows(c, s, w) => Follows(e, Display(s, out), none)
  <2>1. c.cbfCnt = 0 /\ Len(w) = 0
    BY <1>1, <1>3, <1>6
  <2>2. Ended(c) => Ended(e)
    BY <1>3, <2>1 DEF Ended, Here
  <2>3. ASSUME NEW s, Follows(c, s, w) PROVE Follows(e, Display(s, out), none)
    <3>1. s = Picture(w, Len(w))
      BY <1>1, <1>6, <2>3 DEF Follows
    <3>2. Display(s, out \o none) = Picture(none, Len(none))
      <4>1. Display(s, Times(Len(w), Rubout) \o none) = Picture(none, Len(none))
        BY <1>1, <1>4, <3>1, BrowsePicture
      <4> QED
        BY <1>1, <4>1
    <3>3. out \o none = out
      <4>1. out \in Seq(Printed)
        BY <1>1, PrintedSeqs
      <4> HIDE DEF out
      <4> QED
        BY <4>1, ConcatEmptySeq DEF none
    <3> HIDE DEF out
    <3> QED
      BY <1>3, <1>4, <2>1, <1>6, <3>2, <3>3 DEF Follows
  <2> QED
    BY <2>2, <2>3
<1> HIDE DEF out
<1>7. Answered(c, w, a, none, c.cursor # c.cbfCnt \/ a.con.cursor # a.con.cbfCnt, FALSE)
  BY <1>2, <1>3, <1>5, <1>6, Zenon DEF Answered
<1> QED
  BY <1>7 DEF a, none

LEMMA BrowseIs ==
  ASSUME NEW c, NEW w, Editing(c, w), NEW row
  PROVE  LET a == Browse(c, row) IN
         \E v : Answered(c, w, a, v, c.cursor # c.cbfCnt \/ a.con.cursor # a.con.cbfCnt, FALSE)
<1> DEFINE a == Browse(c, row)
           m1 == c.cursor # c.cbfCnt
           m2 == c.cursor # c.cbfCnt \/ a.con.cursor # a.con.cbfCnt
<1>1. CASE row \in 0..(Rows - 1)
  <2>1. PICK v : Answered(c, w, a, v, m1, FALSE)
    BY <1>1, BrowseRow
  <2>2. m1 \in BOOLEAN /\ m2 \in BOOLEAN /\ (m1 => m2)
    OBVIOUS
  <2> HIDE DEF m1, m2, a
  <2>3. Answered(c, w, a, v, m2, FALSE)
    BY <2>1, <2>2, Weakened
  <2> QED
    BY <2>3 DEF m2, a
<1>2. CASE row \notin 0..(Rows - 1)
  BY <1>2, BrowseBeyond
<1> QED
  BY <1>1, <1>2

LEMMA ArrowIs ==
  ASSUME NEW c, NEW w, Editing(c, w), NEW ch
  PROVE  LET a == Arrow(c, ch) IN
         \E v : Answered(c, w, a, v, /\ c.cmdBfr = "[" /\ ch \in {"A", "B"}
                                     /\ c.cursor # c.cbfCnt \/ a.con.cursor # a.con.cbfCnt,
                         FALSE)
<1> DEFINE a == Arrow(c, ch)
           m == /\ c.cmdBfr = "[" /\ ch \in {"A", "B"}
                /\ c.cursor # c.cbfCnt \/ a.con.cursor # a.con.cbfCnt
           d1 == [c EXCEPT !.mode = 0]
           d == [d1 EXCEPT !.cmdBfr = NUL]
           up == d.cbfIdx + 1
           down == d.cbfIdx - 1
<1> SUFFICES \E v : Answered(c, w, a, v, m, FALSE)
  OBVIOUS
<1>1. c \in ConType
  BY EditingFacts
<1>2. SameLine(c, d1)
  BY <1>1 DEF ConType, SameLine
<1> DEFINE d0 == d1
<1>3. SameLine(c, d) /\ [c EXCEPT !.mode = 0, !.cmdBfr = NUL] = d
  <2>1. [c EXCEPT !.mode = 0, !.cmdBfr = NUL] = d
    BY <1>1 DEF ConType
  <2> HIDE DEF d1
  <2>2. SameLine(c, d)
    BY <1>2 DEF ConType, SameLine
  <2> QED
    BY <2>1, <2>2
<1>4. a = CASE c.cmdBfr = "[" /\ ch = "D" -> Left(d)
            [] c.cmdBfr = "[" /\ ch = "C" -> Right(d)
            [] c.cmdBfr = "[" /\ ch = "A" -> Browse(d, up)
            [] c.cmdBfr = "[" /\ ch = "B" -> Browse(d, down)
            [] OTHER -> Answer(d, << >>)
  <2> HIDE DEF d1
  <2>1. Arrow(c, ch) =
          LET f == [c EXCEPT !.mode = 0, !.cmdBfr = NUL] IN
          CASE c.cmdBfr = "[" /\ ch = "D" -> Left(f)
            [] c.cmdBfr = "[" /\ ch = "C" -> Right(f)
            [] c.cmdBfr = "[" /\ ch = "A" -> Browse(f, f.cbfIdx + 1)
            [] c.cmdBfr = "[" /\ ch = "B" -> Browse(f, f.cbfIdx - 1)
            [] OTHER -> Answer(f, << >>)
    BY DEF Arrow
  <2> HIDE DEF d
  <2> QED
    BY <1>3, <2>1
<1> HIDE DEF a, d1, d, d0, up, down
<1>5. Editing(d, w) /\ d.cursor = c.cursor /\ d.cbfCnt = c.cbfCnt
  BY <1>3, SameLineIs DEF SameLine
<1>6. m \in BOOLEAN
  OBVIOUS
<1>7. ASSUME NEW v, NEW k \in BOOLEAN, k => m, Answered(d, w, a, v, k, FALSE)
      PROVE  Answered(c, w, a, v, m, FALSE)
  <2> HIDE DEF m
  <2>1. Answered(d, w, a, v, m, FALSE)
    BY <1>6, <1>7, Weakened
  <2> QED
    BY <1>3, <1>6, <2>1, SameLineIs
<1>8. CASE c.cmdBfr = "[" /\ ch = "D"
  <2>1. Answered(d, w, a, w, FALSE, FALSE)
    BY <1>4, <1>5, <1>8, LeftIs
  <2> HIDE DEF m
  <2> QED
    BY <1>7, <2>1
<1>9. CASE c.cmdBfr = "[" /\ ch = "C"
  <2>1. a = Right(d)
    BY <1>4, <1>9
  <2>2. Answered(d, w, a, w, FALSE, FALSE)
    BY <1>5, <2>1, RightIs
  <2> HIDE DEF m
  <2> QED
    BY <1>7, <2>2
<1>10. ASSUME c.cmdBfr = "[", ch \in {"A", "B"}, NEW row, a = Browse(d, row)
       PROVE  \E v : Answered(c, w, a, v, m, FALSE)
  <2> DEFINE k == d.cursor # d.cbfCnt \/ a.con.cursor # a.con.cbfCnt
  <2>1. PICK v : Answered(d, w, a, v, k, FALSE)
    BY <1>5, <1>10, BrowseIs
  <2>2. k \in BOOLEAN /\ (k => m)
    BY <1>5, <1>10
  <2> HIDE DEF k, m
  <2> QED
    BY <1>7, <2>1, <2>2
<1>11. CASE c.cmdBfr = "[" /\ ch = "A"
  <2>1. a = Browse(d, up)
    BY <1>4, <1>11
  <2> HIDE DEF m
  <2> QED
    BY <1>10, <1>11, <2>1
<1>12. CASE c.cmdBfr = "[" /\ ch = "B"
  <2>1. a = Browse(d, down)
    BY <1>4, <1>12
  <2> HIDE DEF m
  <2> QED
    BY <1>10, <1>12, <2>1
<1>13. CASE ~(c.cmdBfr = "[" /\ ch \in {"A", "B", "C", "D"})
  <2>1. a = Answer(d, << >>)
    BY <1>4, <1>13
  <2>2. SameLine(d, d)
    BY <1>3 DEF SameLine
  <2>3. Answered(d, w, a, w, FALSE, FALSE)
    BY <1>5, <2>1, <2>2, SilentIs
  <2> HIDE DEF m
  <2> QED
    BY <1>7, <2>3
<1> HIDE DEF m
<1> QED
  BY <1>8, <1>9, <1>11, <1>12, <1>13

\* every key but a carriage return
LEMMA KeyIs ==
  ASSUME NEW w, Editing(con, w), NEW ch \in Typed, ~Overruns(con, ch),
         ~(ch = "CR" /\ con.mode = 0)
  PROVE  \E v : Answered(con, w, onCharacterReception(con, ch), v,
                         Misleads(con, ch), ErasesTheEnd(con, ch))
<1> DEFINE a == onCharacterReception(con, ch)
           m == Misleads(con, ch)
           e == ErasesTheEnd(con, ch)
           tail == Here(con, con.cbfCnt) # NUL
<1> SUFFICES \E v : Answered(con, w, a, v, m, e)
  OBVIOUS
<1>1. /\ con \in ConType /\ con.cbfCnt = Len(w) /\ con.cursor \in Nat
      /\ Len(w) \in Nat /\ con.mode \in 0..2 /\ Columns \in Nat
  BY EditingFacts DEF ConType
<1>2. /\ con.mode = 0 => ch \in Letters \union AllControls
      /\ con.mode = 1 => ch \in Letters \union AllControls \union {"["}
      /\ con.mode = 2 => ch \in Letters \union AllControls \union Arrows
  BY <1>1, ControlsAssumption DEF Typed
<1>3. \A x \in AllControls \union Arrows \union {"["} : x \notin Letters
  BY LettersApart
<1>4. m \in BOOLEAN /\ e \in BOOLEAN
  BY DEF Misleads, ErasesTheEnd
<1>5. con.commandBuffer[At(con, con.cbfCnt)] = Here(con, con.cbfCnt)
  BY <1>1, HereIs
<1>6. ASSUME NEW v, NEW m1 \in BOOLEAN, NEW e1 \in BOOLEAN,
             Answered(con, w, a, v, m1, e1), m1 => m, e1 => e
      PROVE  Answered(con, w, a, v, m, e)
  <2> HIDE DEF a, m, e
  <2> QED
    BY <1>4, <1>6, Weakened
<1>7. ASSUME NEW d, SameLine(con, d), a = Answer(d, << >>)
      PROVE  \E v : Answered(con, w, a, v, m, e)
  <2> HIDE DEF a, m, e
  <2>1. Answered(con, w, a, w, FALSE, FALSE)
    BY <1>7, SilentIs
  <2> QED
    BY <1>6, <2>1
<1>8. CASE Erases(con, ch)
  <2>1. a = Erase(con)
    BY <1>8, Zenon DEF onCharacterReception, Erases
  <2>2. con.cursor > 0 /\ Len(w) > 0
    BY <1>1, <1>8 DEF Erases
  <2>3. CASE con.cursor < Len(w)
    <3>1. tail => m
      BY <1>1, <1>5, <1>8, <2>3 DEF Misleads, Inside
    <3>2. tail \in BOOLEAN
      OBVIOUS
    <3> HIDE DEF a, m, e, tail
    <3>3. Answered(con, w, a, Without(w, con.cursor), tail, FALSE)
      BY <2>1, <2>2, <2>3, EraseInside DEF tail
    <3> QED
      BY <1>6, <3>1, <3>2, <3>3
  <2>4. CASE ~(con.cursor < Len(w))
    <3>1. e
      BY <1>1, <1>8, <2>4 DEF ErasesTheEnd, Inside
    <3> HIDE DEF a, m, e
    <3>2. Answered(con, w, a, Without(w, Len(w)), FALSE, TRUE)
      BY <2>1, <2>2, <2>4, EraseAtEnd
    <3> QED
      BY <1>6, <3>1, <3>2
  <2> QED
    BY <2>3, <2>4
<1>9. CASE ~Erases(con, ch) /\ ch \in {"CR", "BS", "ESC"}
  <2> DEFINE d1 == [con EXCEPT !.mode = 1]
             d == [d1 EXCEPT !.cmdBfr = NUL]
  <2>1. SameLine(con, d1)
    BY <1>1 DEF ConType, SameLine
  <2>2. a = Answer([con EXCEPT !.mode = 1, !.cmdBfr = NUL], << >>)
    BY <1>9, Zenon DEF onCharacterReception
  <2>3. [con EXCEPT !.mode = 1, !.cmdBfr = NUL] = d
    BY <1>1 DEF ConType
  <2> HIDE DEF d1, a
  <2>4. SameLine(con, d)
    BY <2>1 DEF ConType, SameLine
  <2> HIDE DEF d, m, e
  <2> QED
    BY <1>7, <2>2, <2>3, <2>4
<1>10. CASE ~Erases(con, ch) /\ ~(ch \in {"CR", "BS", "ESC"}) /\ con.mode = 1
  <2> DEFINE b == IF ch = "[" THEN ch ELSE NUL
             d1 == [con EXCEPT !.mode = 2]
             d == [d1 EXCEPT !.cmdBfr = b]
  <2>1. SameLine(con, d1)
    BY <1>1 DEF ConType, SameLine
  <2>2. a = Answer([con EXCEPT !.mode = 2, !.cmdBfr = b], << >>)
    BY <1>10, Zenon DEF onCharacterReception
  <2>3. [con EXCEPT !.mode = 2, !.cmdBfr = b] = d
    BY <1>1 DEF ConType
  <2>4. b \in {"[", NUL}
    OBVIOUS
  <2> HIDE DEF d1, a, b
  <2>5. SameLine(con, d)
    BY <2>1, <2>4 DEF ConType, SameLine
  <2> HIDE DEF d, m, e
  <2> QED
    BY <1>7, <2>2, <2>3, <2>5
<1>11. CASE ~Erases(con, ch) /\ ~(ch \in {"CR", "BS", "ESC"}) /\ con.mode = 2
  <2> DEFINE k == /\ con.cmdBfr = "[" /\ ch \in {"A", "B"}
                  /\ con.cursor # con.cbfCnt \/ a.con.cursor # a.con.cbfCnt
  <2>1. a = Arrow(con, ch)
    <3>1. ~(con.mode = 1)
      BY <1>11
    <3> QED
      BY <1>11, <3>1, Zenon DEF onCharacterReception
  <2>2. k => m
    <3> HIDE DEF a
    <3>1. ASSUME k PROVE Misleads(con, ch)
      BY <1>11, <3>1 DEF Misleads, a
    <3> QED
      BY <3>1
  <2>3. k \in BOOLEAN
    OBVIOUS
  <2> HIDE DEF a, m, e
  <2>4. PICK v : Answered(con, w, a, v, k, FALSE)
    BY <2>1, ArrowIs
  <2> HIDE DEF k
  <2> QED
    BY <1>6, <2>2, <2>3, <2>4
<1>12. CASE ~Erases(con, ch) /\ ~(ch \in {"CR", "BS", "ESC"}) /\ con.mode = 0
  <2> DEFINE typed == ch # "DEL" /\ con.cbfCnt < Columns - 1
  <2>1. a = IF typed THEN Insert(con, ch) ELSE Answer(con, << >>)
    <3>1. ~(con.mode = 1) /\ ~(con.mode = 2)
      BY <1>12
    <3> QED
      BY <1>12, <3>1, Zenon DEF onCharacterReception
  <2>2. CASE typed
    <3>1. ch \in Letters /\ Len(w) < Columns - 1 /\ Inserts(con, ch) /\ a = Insert(con, ch)
      BY <1>1, <1>2, <1>12, <2>1, <2>2 DEF AllControls, Inserts
    <3>2. CASE con.cursor < Len(w)
      <4>1. tail => m
        BY <1>1, <1>5, <3>1, <3>2 DEF Misleads, Inside
      <4>2. End(con, con.cursor) < Columns - 1
        <5> DEFINE end == End(con, con.cursor)
        <5>1. con.cursor \in 0..(Len(w) - 1)
          BY <1>1, <3>2
        <5>2. end = con.cursor + Len(From(con, con.cursor)) /\ end \in Cols
          BY <5>1, InsideIs
        <5>3. ~(end >= Columns - 1)
          BY <1>1, <3>1, <3>2 DEF Overruns, Inside
        <5> HIDE DEF end
        <5>4. end < Columns - 1
          BY <1>1, <5>2, <5>3 DEF Cols
        <5> QED
          BY <5>4 DEF end
      <4>3. tail \in BOOLEAN
        OBVIOUS
      <4> HIDE DEF a, m, e, tail
      <4>4. Answered(con, w, a, With(w, con.cursor, ch), tail, FALSE)
        BY <3>1, <3>2, <4>2, InsertInside DEF tail
      <4> QED
        BY <1>6, <4>1, <4>3, <4>4
    <3>3. CASE ~(con.cursor < Len(w))
      <4> HIDE DEF a, m, e
      <4>1. Answered(con, w, a, With(w, Len(w), ch), FALSE, FALSE)
        BY <3>1, <3>3, InsertAtEnd
      <4> QED
        BY <1>6, <4>1
    <3> QED
      BY <3>2, <3>3
  <2>3. CASE ~typed
    <3>1. a = Answer(con, << >>)
      BY <2>1, <2>3
    <3>2. SameLine(con, con)
      BY <1>1 DEF SameLine
    <3> HIDE DEF a, m, e
    <3> QED
      BY <1>7, <3>1, <3>2
  <2> QED
    BY <2>2, <2>3
<1> HIDE DEF a, m, e
<1> QED
  BY <1>1, <1>8, <1>9, <1>10, <1>11, <1>12

-----------------------------------------------------------------------------
(* Carriage return.                                                        *)

LEMMA PushedIs ==
  ASSUME NEW c, Fine(c)
  PROVE  /\ Pushed(c) \in [Cells -> Chars]
         /\ \A q \in Cols : /\ Pushed(c)[Start(0) + q] = Here(c, q)
                            /\ Pushed(c)[Start(1) + q] = Here(c, q)
         /\ \A r \in 1..(Rows - 2) : \A q \in Cols :
              Pushed(c)[Start(r + 1) + q] = c.commandBufferShadow[Start(r) + q]
<1> DEFINE b == c.commandBuffer
           f == c.commandBufferShadow
           i == c.cbfIdx
           new == Pushed(c)
           two == 2 * Columns
<1>1. /\ c \in ConType /\ i \in Nat /\ i < Rows /\ b \in [Cells -> Chars]
      /\ Start(i) \in Nat /\ Columns \in Nat /\ Columns >= 2 /\ Rows \in Nat /\ Rows >= 2
      /\ \A q : b[At(c, q)] = Here(c, q)
      /\ \A q \in Cols : Here(c, q) \in Chars
  BY HereIs, Sizes DEF Fine
<1>2. f \in [Cells -> Chars]
  BY <1>1 DEF ConType
<1>3. new = [k \in Cells |-> IF k < two THEN b[At(c, k % Columns)] ELSE f[k - Columns]]
  BY DEF Pushed
<1>4. Start(0) = 0 /\ Start(1) = Columns /\ Start(2) = two /\ two = Columns + Columns
  BY <1>1 DEF Start
<1>5. \A k \in Cells : k % Columns \in Cols
  <2> SUFFICES ASSUME NEW k \in Cells PROVE k % Columns \in 0..(Columns - 1)
    BY DEF Cols
  <2>1. k \in Int
    BY DEF Cells
  <2> QED
    BY <1>1, <2>1
<1>6. \A k \in Cells : ~(k < two) => k - Columns \in Cells
  <2> SUFFICES ASSUME NEW k \in Cells, ~(k < two) PROVE k - Columns \in Cells
    OBVIOUS
  <2> DEFINE top == Columns * Rows
  <2>1. top \in Int /\ k \in 0..(top - 1)
    BY <1>1 DEF Cells
  <2> HIDE DEF top
  <2>2. k - Columns \in 0..(top - 1)
    BY <1>1, <1>4, <2>1
  <2> QED
    BY <2>2 DEF Cells, top
<1> HIDE DEF new, two, b, f
<1>7. new \in [Cells -> Chars]
  <2>1. \A k \in Cells : b[At(c, k % Columns)] \in Chars
    BY <1>1, <1>5
  <2> QED
    BY <1>2, <1>3, <1>6, <2>1
<1>8. ASSUME NEW q \in Cols
      PROVE  new[Start(0) + q] = Here(c, q) /\ new[Start(1) + q] = Here(c, q)
  <2> DEFINE k == Columns + q
  <2>1. q \in Nat /\ q < Columns
    BY <1>1 DEF Cols
  <2>2. q \in Cells /\ k \in Cells
    <3>1. Start(0) + q \in Cells /\ Start(1) + q \in Cells
      <4>1. 0 \in Nat /\ 0 < Rows /\ 1 \in Nat /\ 1 < Rows
        BY <1>1
      <4> QED
        BY <4>1, RowLayout DEF Cols
    <3>2. Start(0) + q = q
      BY <1>4, <2>1
    <3> QED
      BY <1>4, <3>1, <3>2
  <2>3. q < two /\ k < two
    BY <1>1, <1>4, <2>1
  <2>4. q % Columns = q /\ k % Columns = q
    <3>1. Columns \in Nat \ {0}
      BY <1>1
    <3>2. q % Columns = q
      BY <2>1, <3>1
    <3>3. (q + Columns) % Columns = q
      BY <2>1, <3>1
    <3>4. k = q + Columns
      BY <1>1, <2>1
    <3> QED
      BY <3>2, <3>3, <3>4
  <2>5. Start(0) + q = q /\ Start(1) + q = k
    BY <1>4, <2>1
  <2> HIDE DEF k
  <2>6. new[q] = b[At(c, q)] /\ new[k] = b[At(c, q)]
    BY <1>3, <2>2, <2>3, <2>4
  <2> QED
    BY <1>1, <2>5, <2>6
<1>9. ASSUME NEW r \in 1..(Rows - 2), NEW q \in Cols
      PROVE  new[Start(r + 1) + q] = f[Start(r) + q]
  <2> DEFINE k == Start(r + 1) + q
             o == r + 1
  <2>1. r \in Nat /\ o \in Nat /\ o < Rows /\ 1 <= r /\ q \in 0..(Columns - 1) /\ q \in Nat
    BY <1>1 DEF Cols
  <2>2. Start(r) \in Nat /\ Start(r + 1) = Start(r) + Columns
    BY <2>1, RowLayout
  <2>3. Start(o) + q \in Cells
    <3> HIDE DEF o
    <3> QED
      BY <2>1, RowLayout
  <2>4. 1 * Columns <= r * Columns
    BY <1>1, <2>1, ScaledOrder
  <2>5. Columns <= Start(r)
    BY <1>1, <2>4 DEF Start
  <2>6. k \in Cells /\ ~(k < two) /\ k - Columns = Start(r) + q
    BY <1>1, <1>4, <2>1, <2>2, <2>3, <2>5
  <2> HIDE DEF k
  <2>7. new[k] = f[k - Columns]
    BY <1>3, <2>6
  <2> QED
    BY <2>6, <2>7 DEF k
<1> QED
  BY <1>7, <1>8, <1>9 DEF new, f

LEMMA ClearedIs ==
  ASSUME NEW f \in [Cells -> Chars]
  PROVE  /\ Cleared(f) \in [Cells -> Chars]
         /\ \A q \in Cols : Cleared(f)[Start(0) + q] = NUL
         /\ \A r \in 1..(Rows - 1) : \A q \in Cols :
              Cleared(f)[Start(r) + q] = f[Start(r) + q]
<1> DEFINE new == Cleared(f)
<1>1. Columns \in Nat /\ Columns >= 2 /\ Rows \in Nat /\ Rows >= 2
  BY Sizes
<1>2. new = [k \in Cells |-> IF k < Columns THEN NUL ELSE f[k]]
  BY DEF Cleared
<1> HIDE DEF new
<1>3. new \in [Cells -> Chars]
  BY <1>2 DEF Chars
<1>4. ASSUME NEW q \in Cols PROVE new[Start(0) + q] = NUL
  <2> DEFINE k == Start(0) + q
  <2>1. k \in Cells /\ k < Columns
    <3>1. k \in Cells
      BY <1>1, RowLayout DEF Cols
    <3>2. Start(0) = 0
      BY <1>1 DEF Start
    <3> QED
      BY <1>1, <3>1, <3>2 DEF Cols
  <2> HIDE DEF k
  <2>2. new[k] = NUL
    BY <1>2, <2>1
  <2> QED
    BY <2>2 DEF k
<1>5. ASSUME NEW r \in 1..(Rows - 1), NEW q \in Cols
      PROVE  new[Start(r) + q] = f[Start(r) + q]
  <2> DEFINE k == Start(r) + q
  <2>1. r \in Nat /\ r < Rows /\ 1 <= r /\ q \in 0..(Columns - 1) /\ q \in Nat
    BY <1>1 DEF Cols
  <2>2. k \in Cells
    BY <2>1, RowLayout
  <2>3. ~(k < Columns)
    <3>1. 1 * Columns <= r * Columns
      BY <1>1, <2>1, ScaledOrder
    <3>2. Columns <= Start(r) /\ Start(r) \in Nat
      BY <1>1, <2>1, <3>1, RowLayout DEF Start
    <3> QED
      BY <1>1, <2>1, <3>2
  <2> HIDE DEF k
  <2>4. new[k] = f[k]
    BY <1>2, <2>2, <2>3
  <2> QED
    BY <2>4 DEF k
<1> QED
  BY <1>3, <1>4, <1>5 DEF new

\* what is executed: the row that is edited up to its first zero
LEMMA WholeIs ==
  ASSUME NEW c, NEW w, Editing(c, w)
  PROVE  /\ From(c, 0) \in Seq(Letters) /\ Row(Pushed(c), 0) = From(c, 0)
         /\ Len(w) <= Len(From(c, 0)) /\ \A k \in 1..Len(w) : From(c, 0)[k] = w[k]
         /\ Ended(c) => From(c, 0) = w
<1> DEFINE t == From(c, 0)
           l == Len(t)
           n == Len(w)
           new == Pushed(c)
<1>1. /\ Fine(c) /\ w \in Seq(Letters) /\ n \in Nat /\ c.cbfCnt = n
      /\ n <= Columns - 1 /\ Columns \in Nat /\ Columns >= 2 /\ Rows \in Nat /\ Rows >= 2
      /\ \A q \in 0..(n - 1) : Here(c, q) = w[q + 1]
  BY EditingFacts, Sizes
<1>2. 0 \in Cols
  BY <1>1 DEF Cols
<1>3. /\ t \in Seq(Letters) /\ 0 + l \in Cols
      /\ \A k \in 1..l : t[k] = Here(c, 0 + k - 1)
      /\ Here(c, 0 + l) = NUL
  BY <1>1, <1>2, FromIs
<1> HIDE DEF t
<1>4. l \in Nat
  BY <1>3, LenProperties
<1> HIDE DEF l, n
<1>5. /\ l \in Cols /\ Here(c, l) = NUL
      /\ \A k \in 1..l : t[k] = Here(c, k - 1) /\ t[k] # NUL
  <2>1. 0 + l = l /\ \A k \in 1..l : 0 + k - 1 = k - 1
    BY <1>4
  <2>2. \A k \in 1..l : t[k] # NUL
    <3>1. \A k \in 1..l : t[k] \in Letters
      BY <1>3, ElementOfSeq DEF l
    <3> QED
      BY <3>1, LettersApart
  <2> QED
    BY <1>3, <2>1, <2>2
<1>6. n <= l /\ \A k \in 1..n : t[k] = w[k]
  <2>1. CASE n = 0
    BY <1>4, <2>1
  <2>2. CASE n > 0
    <3>1. 0 \in 0..(Len(w) - 1)
      BY <1>1, <2>2 DEF n
    <3>2. Len(w) <= 0 + Len(t)
      BY <3>1, InsideIs DEF t
    <3>3. n <= l
      BY <1>1, <1>4, <3>2 DEF n, l
    <3>4. ASSUME NEW k \in 1..n PROVE t[k] = w[k]
      <4> DEFINE q == k - 1
      <4>1. q \in 0..(n - 1) /\ q + 1 = k /\ k \in 1..l
        BY <1>1, <1>4, <3>3
      <4> HIDE DEF q
      <4>2. Here(c, q) = w[q + 1]
        BY <1>1, <4>1
      <4> QED
        BY <1>5, <4>1, <4>2 DEF q
    <3> QED
      BY <3>3, <3>4
  <2> QED
    BY <1>1, <2>1, <2>2
<1>7. ASSUME Ended(c) PROVE t = w
  <2>1. l = n
    <3> SUFFICES ASSUME ~(l <= n) PROVE FALSE
      BY <1>1, <1>4, <1>6
    <3> DEFINE i == n + 1
    <3>1. i \in 1..l /\ i - 1 = n
      BY <1>1, <1>4
    <3> HIDE DEF i
    <3>2. t[i] = Here(c, n) /\ t[i] # NUL
      BY <1>5, <3>1
    <3> QED
      BY <1>1, <1>7, <3>2 DEF Ended
  <2>2. Len(t) = Len(w) /\ \A k \in 1..Len(t) : t[k] = w[k]
    BY <1>6, <2>1 DEF l, n
  <2> QED
    BY <1>1, <1>3, <2>2, SeqEqual
<1>8. Row(new, 0) = t
  <2>1. new \in [Cells -> Chars] /\ \A q \in Cols : new[Start(0) + q] = Here(c, q)
    BY <1>1, PushedIs
  <2> HIDE DEF new
  <2>2. 0 \in Nat /\ 0 < Rows
    BY <1>1
  <2>3. new[Start(0) + l] = NUL
    BY <1>5, <2>1
  <2>4. ASSUME NEW q \in 0..(l - 1) PROVE new[Start(0) + q] # NUL /\ q \in Cols
    <3> DEFINE k == q + 1
    <3>1. k \in 1..l /\ k - 1 = q /\ q \in Cols
      BY <1>1, <1>4, <1>5 DEF Cols
    <3> HIDE DEF k
    <3> QED
      BY <1>5, <2>1, <3>1
  <2>5. /\ Row(new, 0) \in Seq(Chars) /\ Len(Row(new, 0)) = l
        /\ \A k \in 1..l : Row(new, 0)[k] = new[Start(0) + (k - 1)]
    BY <1>5, <2>1, <2>2, <2>3, <2>4, RowIs
  <2> DEFINE u == Row(new, 0)
  <2> HIDE DEF u
  <2>6. u \in Seq(Chars) /\ Len(u) = l /\ \A k \in 1..l : u[k] = new[Start(0) + (k - 1)]
    BY <2>5 DEF u
  <2>7. ASSUME NEW k \in 1..l PROVE u[k] = t[k]
    <3> DEFINE q == k - 1
    <3>1. q \in 0..(l - 1)
      BY <1>4
    <3>2. u[k] = new[Start(0) + q]
      BY <2>6
    <3> HIDE DEF q
    <3>3. new[Start(0) + q] = Here(c, q)
      BY <2>1, <2>4, <3>1
    <3> QED
      BY <1>5, <3>2, <3>3 DEF q
  <2>8. t \in Seq(Chars) /\ Len(t) = l
    BY <1>3, PrintedSeqs DEF l
  <2>9. u = t
    BY <2>6, <2>7, <2>8, SeqEqual
  <2> QED
    BY <2>9 DEF u
<1> QED
  BY <1>3, <1>6, <1>7, <1>8 DEF t, l, n, new

LEMMA PromptIs ==
  ASSUME NEW s
  PROVE  Display(s, <<"PROMPT">>) = Picture(<< >>, 0)
<1> DEFINE out == <<"PROMPT">>
           none == << >>
<1>1. Len(out) = 1 /\ out[1] = "PROMPT"
  OBVIOUS
<1> HIDE DEF out
<1>2. PICK g : IsTrace(s, out, g, 1) /\ Shown(s, out) = g[1]
  <2>1. Len(out) \in Nat
    BY <1>1
  <2>2. \E g : IsTrace(s, out, g, Len(out)) /\ Shown(s, out) = g[Len(out)]
    BY <2>1, ShownTrace
  <2> QED
    BY <1>1, <2>2
<1>3. Shown(s, out) = Displayed(g[0], "PROMPT")
  <2>1. 0 \in 0..(1 - 1) /\ 0 + 1 = 1
    OBVIOUS
  <2> QED
    BY <1>1, <1>2, <2>1 DEF IsTrace
<1>4. Shown(s, out) = Blank
  BY <1>3 DEF Displayed
<1>5. none \in Seq(Letters) /\ none \in Seq(Glyphs)
  BY EmptySeq
<1>6. Blank \in ScreenType /\ Blank.column = 0 /\ Blank.line = none
  BY <1>5 DEF Blank, ScreenType
<1> HIDE DEF none
<1>7. Display(s, out) = Picture(none, 0)
  BY <1>4, <1>5, <1>6, DisplayIs DEF Picture
<1> QED
  BY <1>7 DEF out, none

LEMMA EnterIs ==
  ASSUME NEW c, Fine(c)
  PROVE  LET a == Enter(c) IN
         /\ Editing(a.con, << >>) /\ Ended(a.con) /\ a.con.cursor = 0
         /\ a.out = <<"PROMPT">>
         /\ a.con.commandBuffer = a.con.commandBufferShadow
         /\ Row(a.con.commandBufferShadow, 1) = Row(Pushed(c), 0)
         /\ \A r \in 1..(Rows - 2) :
              Row(a.con.commandBufferShadow, r + 1) = Row(c.commandBufferShadow, r)
<1> DEFINE a == Enter(c)
           out == <<"PROMPT">>
           pushed == Pushed(c)
           new == Cleared(pushed)
           e1 == [c EXCEPT !.commandBuffer = new]
           e2 == [e1 EXCEPT !.commandBufferShadow = new]
           e3 == [e2 EXCEPT !.cbfIdx = 0]
           e4 == Adjusted(e3, 0, 0)
           none == << >>
<1>1. /\ c \in ConType /\ Columns \in Nat /\ Columns >= 2 /\ Rows \in Nat /\ Rows >= 2
      /\ Wrap \in Nat /\ Wrap >= Columns
      /\ Zeroed(c.commandBuffer) /\ Zeroed(c.commandBufferShadow)
      /\ c.cbfIdx \in 0..(Rows - 1)
  BY Sizes, WrapAssumption DEF Fine, ConType
<1>2. /\ pushed \in [Cells -> Chars]
      /\ \A q \in Cols : /\ pushed[Start(0) + q] = Here(c, q)
                         /\ pushed[Start(1) + q] = Here(c, q)
      /\ \A r \in 1..(Rows - 2) : \A q \in Cols :
           pushed[Start(r + 1) + q] = c.commandBufferShadow[Start(r) + q]
  BY PushedIs
<1> HIDE DEF pushed
<1>3. /\ new \in [Cells -> Chars]
      /\ \A q \in Cols : new[Start(0) + q] = NUL
      /\ \A r \in 1..(Rows - 1) : \A q \in Cols : new[Start(r) + q] = pushed[Start(r) + q]
  BY <1>2, ClearedIs
<1> HIDE DEF new
<1>4. Row(new, 1) = Row(pushed, 0)
  <2>1. \A q \in Cols : new[Start(1) + q] = pushed[Start(0) + q]
    <3>1. 1 \in 1..(Rows - 1)
      BY <1>1
    <3> QED
      BY <1>2, <1>3, <3>1
  <2>2. 0 \in Nat /\ 1 \in Nat
    OBVIOUS
  <2> QED
    BY <2>1, <2>2, SameRow
<1>5. ASSUME NEW r \in 1..(Rows - 2)
      PROVE  /\ \A q \in Cols : new[Start(r + 1) + q] = c.commandBufferShadow[Start(r) + q]
             /\ Row(new, r + 1) = Row(c.commandBufferShadow, r)
  <2> DEFINE o == r + 1
             f == c.commandBufferShadow
  <2>1. o \in 1..(Rows - 1) /\ o \in Nat /\ r \in Nat
    BY <1>1
  <2>2. \A q \in Cols : pushed[Start(o) + q] = f[Start(r) + q]
    BY <1>2
  <2> HIDE DEF o, f
  <2>3. \A q \in Cols : new[Start(o) + q] = f[Start(r) + q]
    BY <1>3, <2>1, <2>2
  <2>4. Row(new, o) = Row(f, r)
    BY <2>1, <2>3, SameRow
  <2> QED
    BY <2>3, <2>4 DEF o, f
<1>6. Zeroed(new)
  <2> SUFFICES ASSUME NEW r \in 0..(Rows - 1) PROVE new[Start(r) + (Columns - 1)] = NUL
    BY DEF Zeroed
  <2> DEFINE q == Columns - 1
  <2>1. q \in Cols
    BY <1>1 DEF Cols
  <2>2. CASE r = 0
    BY <1>3, <2>1, <2>2
  <2>3. CASE r = 1
    <3>1. Here(c, q) = NUL /\ 1 \in 1..(Rows - 1)
      BY <1>1 DEF Here, Zeroed
    <3> HIDE DEF q
    <3>2. new[Start(1) + q] = NUL
      BY <1>2, <1>3, <2>1, <3>1
    <3> QED
      BY <2>3, <3>2 DEF q
  <2>4. CASE r >= 2
    <3> DEFINE o == r - 1
    <3>1. o \in 1..(Rows - 2) /\ o + 1 = r /\ o \in 0..(Rows - 1)
      BY <1>1, <2>4
    <3> HIDE DEF o, q
    <3>2. new[Start(o + 1) + q] = c.commandBufferShadow[Start(o) + q]
      BY <1>5, <2>1, <3>1
    <3>3. c.commandBufferShadow[Start(o) + q] = NUL
      BY <1>1, <3>1 DEF Zeroed, q
    <3> QED
      BY <3>1, <3>2, <3>3 DEF q
  <2> QED
    BY <1>1, <2>2, <2>3, <2>4
<1>7. e1 \in ConType /\ e1.commandBuffer = new
  BY <1>1, <1>3 DEF ConType
<1>8. a.con = e4 /\ a.out = out
  <2>1. a = Answer([c EXCEPT !.commandBuffer = new, !.commandBufferShadow = new,
                             !.cbfIdx = 0, !.cbfCnt = 0, !.cursor = 0], out)
    BY DEF Enter, new, pushed
  <2>2. [c EXCEPT !.commandBuffer = new, !.commandBufferShadow = new,
                  !.cbfIdx = 0, !.cbfCnt = 0, !.cursor = 0] = e4
    BY <1>1 DEF ConType, Adjusted
  <2> HIDE DEF a, e4, out
  <2> QED
    BY <2>1, <2>2 DEF Answer
<1> HIDE DEF a, e1
<1>9. e2 \in ConType /\ e2.commandBuffer = new /\ e2.commandBufferShadow = new
  BY <1>3, <1>7 DEF ConType
<1> HIDE DEF e2
<1>10. /\ e3 \in ConType /\ e3.commandBuffer = new /\ e3.commandBufferShadow = new
       /\ e3.cbfIdx = 0
  <2>1. 0 \in 0..(Rows - 1)
    BY <1>1
  <2>2. e3 \in ConType
    BY <1>9, <2>1, ConUpdates
  <2>3. /\ e3.commandBuffer = e2.commandBuffer /\ e3.cbfIdx = 0
        /\ e3.commandBufferShadow = e2.commandBufferShadow
    BY <1>9 DEF ConType
  <2> QED
    BY <1>9, <2>2, <2>3
<1> HIDE DEF e3
<1>11. /\ e4 \in ConType /\ e4.commandBuffer = new /\ e4.commandBufferShadow = new
       /\ e4.cbfIdx = 0 /\ e4.cbfCnt = 0 /\ e4.cursor = 0
  <2>1. 0 \in Cols /\ 0 \in 0..(Wrap - 1)
    BY <1>1 DEF Cols
  <2>2. /\ e4 \in ConType /\ e4.commandBuffer = e3.commandBuffer
        /\ e4.commandBufferShadow = e3.commandBufferShadow
        /\ e4.cbfIdx = e3.cbfIdx /\ e4.cbfCnt = 0 /\ e4.cursor = 0
    BY <1>10, <2>1, Counted
  <2> HIDE DEF e4
  <2> QED
    BY <1>10, <2>2
<1> HIDE DEF e4
<1>12. Editing(e4, none) /\ Ended(e4)
  <2>1. none \in Seq(Letters) /\ Len(none) = 0
    BY EmptySeq
  <2> HIDE DEF none
  <2>2. Fine(e4)
    BY <1>6, <1>11 DEF Fine
  <2>3. Here(e4, 0) = NUL
    <3>1. 0 \in Cols
      BY <1>1 DEF Cols
    <3> QED
      BY <1>3, <1>11, <3>1 DEF Here
  <2> QED
    BY <1>11, <2>1, <2>2, <2>3 DEF Editing, Ended
<1> HIDE DEF none, out
<1>13. /\ Editing(a.con, none) /\ Ended(a.con) /\ a.con.cursor = 0 /\ a.out = out
       /\ a.con.commandBuffer = a.con.commandBufferShadow
       /\ a.con.commandBufferShadow = new
  BY <1>8, <1>11, <1>12
<1> QED
  BY <1>4, <1>5, <1>13 DEF a, none, pushed, out

LEMMA PrefixIs ==
  ASSUME NEW w \in Seq(Letters), NEW t \in Seq(Letters), Len(w) <= Len(t),
         \A k \in 1..Len(w) : t[k] = w[k]
  PROVE  IsPrefix(Trimmed(w), t)
<1> DEFINE s == Trimmed(w)
           m == Len(s)
           n == Len(w)
           a == SubSeq(s, 1, m)
           b == SubSeq(t, 1, m)
<1>1. w \in Seq(Glyphs) /\ t \in Seq(Glyphs) /\ n \in Nat /\ Len(t) \in Nat
  BY PrintedSeqs, LenProperties
<1>2. /\ s \in Seq(Glyphs) /\ m \in Nat /\ m <= n
      /\ \A k \in 1..m : s[k] = w[k]
  <2>1. CASE s = << >>
    <3>1. s \in Seq(Glyphs) /\ m = 0
      BY <2>1
    <3> HIDE DEF s, m
    <3> QED
      BY <1>1, <3>1
  <2>2. CASE s # << >>
    <3> HIDE DEF s, m
    <3>1. PICK l \in Visible(w) :
            /\ s \in Seq(Glyphs) /\ m = l
            /\ \A k \in 1..l : s[k] = Cell(w, k - 1)
      BY <1>1, <2>2, TrimmedIs DEF s, m
    <3>2. l \in 1..n
      BY DEF Visible
    <3>3. ASSUME NEW k \in 1..l PROVE s[k] = w[k]
      <4> DEFINE q == k - 1
      <4>1. q < n /\ q + 1 = k
        BY <1>1, <3>2
      <4>2. s[k] = Cell(w, q)
        BY <3>1
      <4> HIDE DEF q
      <4>3. Cell(w, q) = w[k]
        BY <4>1 DEF Cell
      <4> QED
        BY <4>2, <4>3
    <3> QED
      BY <1>1, <3>1, <3>2, <3>3
  <2> QED
    BY <2>1, <2>2
<1> HIDE DEF s
<1> HIDE DEF m, n
<1>3. m <= Len(t) /\ \A k \in 1..m : t[k] = s[k] /\ k \in 1..Len(t) /\ k \in 1..Len(s)
  <2>1. n <= Len(t) /\ Len(s) = m
    BY DEF n, m
  <2>2. ASSUME NEW k \in 1..m PROVE k \in 1..n /\ k \in 1..Len(t) /\ k \in 1..Len(s)
    BY <1>1, <1>2, <2>1
  <2>3. \A k \in 1..n : t[k] = w[k]
    BY DEF n
  <2> QED
    BY <1>1, <1>2, <2>1, <2>2, <2>3
<1>4. \A k \in 1..m : s[k] \in Glyphs /\ t[k] \in Glyphs
  BY <1>1, <1>2, <1>3, ElementOfSeq
<1>5. /\ a \in Seq(Glyphs) /\ Len(a) = m /\ \A k \in 1..m : a[k] = s[k]
      /\ b \in Seq(Glyphs) /\ Len(b) = m /\ \A k \in 1..m : b[k] = t[k]
  <2>1. ASSUME NEW u, \A k \in 1..m : u[k] \in Glyphs
        PROVE  /\ SubSeq(u, 1, m) \in Seq(Glyphs) /\ Len(SubSeq(u, 1, m)) = m
               /\ \A k \in 1..m : SubSeq(u, 1, m)[k] = u[k]
    <3>1. /\ SubSeq(u, 1, m) \in Seq(Glyphs)
          /\ Len(SubSeq(u, 1, m)) = IF 1 <= m THEN m - 1 + 1 ELSE 0
          /\ \A k \in 1..(m - 1 + 1) : SubSeq(u, 1, m)[k] = u[1 + k - 1]
      BY <1>2, <2>1, SubSeqProperties
    <3>2. m - 1 + 1 = m /\ (~(1 <= m) => m = 0) /\ \A k \in 1..m : 1 + k - 1 = k
      BY <1>2
    <3> QED
      BY <3>1, <3>2
  <2> QED
    BY <1>4, <2>1
<1> HIDE DEF a, b
<1>6. a = b
  BY <1>3, <1>5, SeqEqual
<1>7. Len(s) <= Len(t) /\ SubSeq(s, 1, Len(s)) = SubSeq(t, 1, Len(s))
  BY <1>3, <1>6 DEF a, b, m
<1>8. IsPrefix(s, t)
  BY <1>7 DEF IsPrefix
<1> QED
  BY <1>8 DEF s

-----------------------------------------------------------------------------
(* The invariant: the buffer holds a command as long as it is counted,     *)
(* which the terminal shows until it is misled, the shadow holds the       *)
(* history, and nothing is left behind a command until one is shortened.   *)

Command(h, r) == IF r <= Len(h) THEN h[r] ELSE << >>

Kept(c, h, touched) ==
  \A r \in 1..(Rows - 1) :
    /\ Row(c.commandBufferShadow, r) = Command(h, r)
    /\ r \notin touched =>
         \A q \in Cols : c.commandBuffer[Start(r) + q] = c.commandBufferShadow[Start(r) + q]

History == past \in Seq(Seq(Letters)) /\ Kept(con, past, edited)

Agrees == \E w : Editing(con, w) /\ (~lost => Follows(con, screen, w))

Tidy == ~shortened => Neat(con.commandBuffer) /\ (~lost => Ended(con))

Marks == lost \in BOOLEAN /\ shortened \in BOOLEAN

Inv == Agrees /\ History /\ Tidy /\ Marks

LEMMA InitInv ==
  ASSUME Init
  PROVE  Inv
<1> DEFINE b == [k \in Cells |-> NUL]
           none == << >>
<1>1. /\ con = [commandBuffer |-> b, commandBufferShadow |-> b,
                cbfCnt |-> 0, cbfIdx |-> 0, cursor |-> 0, mode |-> 0, cmdBfr |-> NUL]
      /\ screen = [line |-> none, column |-> 0] /\ past = none /\ edited = {}
      /\ lost = FALSE /\ shortened = FALSE
  BY DEF Init, Blank
<1>2. /\ Columns \in Nat /\ Columns >= 2 /\ Rows \in Nat /\ Rows >= 2
      /\ Wrap \in Nat /\ Wrap >= Columns
  BY Sizes, WrapAssumption
<1>3. b \in [Cells -> Chars]
  BY DEF Chars
<1>4. ASSUME NEW r \in 0..(Rows - 1), NEW q \in Cols PROVE b[Start(r) + q] = NUL
  <2>1. r \in Nat /\ r < Rows /\ q \in 0..(Columns - 1)
    BY <1>2 DEF Cols
  <2>2. Start(r) + q \in Cells
    BY <2>1, RowLayout
  <2> QED
    BY <2>2
<1> HIDE DEF b
<1>5. 0 \in Cols /\ 0 \in 0..(Rows - 1) /\ 0 \in 0..(Wrap - 1) /\ Columns - 1 \in Cols
  BY <1>2 DEF Cols
<1>6. Fine(con)
  <2>1. con \in ConType
    BY <1>1, <1>3, <1>5 DEF ConType
  <2> QED
    BY <1>1, <1>4, <1>5, <2>1 DEF Fine, Zeroed
<1>7. /\ Len(none) = 0 /\ none \in Seq(Letters) /\ none \in Seq(Seq(Letters))
      /\ Trimmed(none) = none
  BY EmptySeq DEF Trimmed
<1>8. Agrees
  <2> HIDE DEF none
  <2>1. Editing(con, none)
    BY <1>1, <1>6, <1>7 DEF Editing
  <2>2. Follows(con, screen, none)
    BY <1>1, <1>7 DEF Follows, Picture
  <2> QED
    BY <2>1, <2>2 DEF Agrees
<1>9. ASSUME NEW r \in 1..(Rows - 1)
      PROVE  /\ Row(con.commandBufferShadow, r) = Command(past, r)
             /\ \A q \in Cols : con.commandBuffer[Start(r) + q] =
                                  con.commandBufferShadow[Start(r) + q]
  <2>1. r \in 0..(Rows - 1) /\ r \in Nat /\ r < Rows /\ ~(r <= 0)
    BY <1>2
  <2>2. Command(past, r) = none
    BY <1>1, <1>7, <2>1 DEF Command
  <2>3. b[Start(r) + 0] = NUL /\ \A p \in 0..(0 - 1) : b[Start(r) + p] # NUL
    BY <1>4, <1>5, <2>1
  <2>4. Row(b, r) \in Seq(Chars) /\ Len(Row(b, r)) = 0
    BY <1>3, <1>5, <2>1, <2>3, RowIs
  <2>5. Row(b, r) = none
    BY <2>4, EmptySeq
  <2> QED
    BY <1>1, <2>2, <2>5
<1>10. Neat(con.commandBuffer)
  <2> SUFFICES ASSUME NEW r \in 0..(Rows - 1), NEW p \in 1..(Columns - 1)
               PROVE  b[r * Columns + p] = NUL
    BY <1>1 DEF Neat
  <2>1. p \in Cols
    BY <1>2 DEF Cols
  <2> QED
    BY <1>4, <2>1 DEF Start
<1>11. Ended(con)
  BY <1>1, <1>4, <1>5 DEF Ended, Here
<1> HIDE DEF none
<1>12. History
  BY <1>1, <1>7, <1>9 DEF History, Kept
<1> QED
  BY <1>1, <1>8, <1>10, <1>11, <1>12 DEF Inv, Tidy, Marks

\* The smaller of two numbers.
LEMMA LeastOfTwo ==
  ASSUME NEW a \in Nat, NEW b \in Nat
  PROVE  /\ Min({a, b}) \in Nat /\ Min({a, b}) <= a /\ Min({a, b}) <= b
         /\ Min({a, b}) = a \/ Min({a, b}) = b
<1> DEFINE S == {a, b}
<1>1. S \in SUBSET Int /\ a \in S /\ b \in S /\ \A x \in S : x = a \/ x = b
  OBVIOUS
<1> HIDE DEF S
<1>2. CASE a <= b
  <2>1. \A x \in S : a <= x
    BY <1>1, <1>2
  <2>2. Min(S) = a
    BY <1>1, <2>1, LeastIs
  <2> QED
    BY <1>2, <2>2 DEF S
<1>3. CASE b <= a
  <2>1. \A x \in S : b <= x
    BY <1>1, <1>3
  <2>2. Min(S) = b
    BY <1>1, <2>1, LeastIs
  <2> QED
    BY <1>3, <2>2 DEF S
<1> QED
  BY <1>2, <1>3

\* the commands executed, of which the oldest is forgotten
LEMMA PastIs ==
  ASSUME NEW h \in Seq(Seq(Letters)), NEW t \in Seq(Letters)
  PROVE  LET g == <<t>> \o SubSeq(h, 1, Min({Len(h), Rows - 2})) IN
         /\ g \in Seq(Seq(Letters)) /\ g # << >> /\ Head(g) = t
         /\ Command(g, 1) = t
         /\ \A r \in 1..(Rows - 2) : Command(g, r + 1) = Command(h, r)
<1> DEFINE m == Min({Len(h), Rows - 2})
           kept == SubSeq(h, 1, m)
           T == Seq(Letters)
           one == <<t>>
           g == one \o kept
           l == Len(h)
           y == Rows - 2
<1>1. l \in Nat /\ y \in Nat /\ Rows \in Nat
  BY LenProperties, Sizes
<1>2. m \in Nat /\ m <= l /\ m <= y /\ (m = l \/ m = y)
  <2> HIDE DEF l, y
  <2>1. /\ Min({l, y}) \in Nat /\ Min({l, y}) <= l /\ Min({l, y}) <= y
        /\ Min({l, y}) = l \/ Min({l, y}) = y
    BY <1>1, LeastOfTwo
  <2> QED
    BY <2>1 DEF l, y
<1> HIDE DEF m
<1>3. kept \in Seq(T) /\ Len(kept) = m /\ \A k \in 1..m : kept[k] = h[k]
  <2>1. \A k \in 1..l : h[k] \in T
    BY ElementOfSeq
  <2> HIDE DEF T, l
  <2>2. \A k \in 1..m : h[k] \in T
    BY <1>1, <1>2, <2>1
  <2>3. /\ SubSeq(h, 1, m) \in Seq(T)
        /\ Len(SubSeq(h, 1, m)) = IF 1 <= m THEN m - 1 + 1 ELSE 0
        /\ \A k \in 1..(m - 1 + 1) : SubSeq(h, 1, m)[k] = h[1 + k - 1]
    BY <1>2, <2>2, SubSeqProperties
  <2> QED
    BY <1>2, <2>3
<1> HIDE DEF kept
<1>4. one \in Seq(T) /\ Len(one) = 1 /\ one[1] = t
  OBVIOUS
<1> HIDE DEF T, one, l
<1>5. /\ g \in Seq(T) /\ Len(g) = 1 + m
      /\ \A k \in 1..(1 + m) : g[k] = IF k <= 1 THEN t ELSE kept[k - 1]
  <2>1. /\ one \o kept \in Seq(T) /\ Len(one \o kept) = Len(one) + Len(kept)
        /\ \A k \in 1..(Len(one) + Len(kept)) :
             (one \o kept)[k] = IF k <= Len(one) THEN one[k] ELSE kept[k - Len(one)]
    BY <1>3, <1>4, ConcatProperties
  <2>2. ASSUME NEW k \in 1..(1 + m) PROVE g[k] = IF k <= 1 THEN t ELSE kept[k - 1]
    <3>1. k <= 1 => k = 1
      BY <1>2
    <3> QED
      BY <1>3, <1>4, <2>1, <3>1
  <2> QED
    BY <1>3, <1>4, <2>1, <2>2
<1> HIDE DEF g
<1>6. g[1] = t /\ g # << >> /\ Head(g) = t
  <2>1. 1 \in 1..(1 + m) /\ Len(g) # 0
    BY <1>2, <1>5
  <2>2. g[1] = t
    BY <1>5, <2>1
  <2>3. g # << >>
    BY <1>5, <2>1, EmptySeq
  <2>4. Head(g) = g[1]
    BY <1>5, <2>3
  <2> QED
    BY <2>2, <2>3, <2>4
<1>7. Command(g, 1) = t
  BY <1>2, <1>5, <1>6 DEF Command
<1>8. ASSUME NEW r \in 1..(Rows - 2) PROVE Command(g, r + 1) = Command(h, r)
  <2> DEFINE o == r + 1
  <2>1. /\ o \in Nat /\ ~(o <= 1) /\ o - 1 = r /\ r \in Nat
        /\ (o <= 1 + m <=> r <= l) /\ (r <= l => o \in 1..(1 + m) /\ r \in 1..m)
    BY <1>1, <1>2
  <2> HIDE DEF o
  <2>2. CASE r <= l
    <3>1. g[o] = h[r]
      BY <1>3, <1>5, <2>1, <2>2
    <3> QED
      BY <1>5, <2>1, <2>2, <3>1 DEF Command, l, o
  <2>3. CASE ~(r <= l)
    <3>1. ~(o <= Len(g)) /\ ~(r <= Len(h))
      BY <1>5, <2>1, <2>3 DEF l
    <3> QED
      BY <3>1 DEF Command, o
  <2> QED
    BY <2>2, <2>3
<1> QED
  BY <1>5, <1>6, <1>7, <1>8 DEF g, one, kept, m, T

\* a carriage return puts the command in front of the history
LEMMA EnterInv ==
  ASSUME Inv, Key("CR"), con.mode = 0
  PROVE  /\ Inv'
         /\ ~lost => /\ IsPrefix(screen.line, Head(past'))
                     /\ ~shortened => Trimmed(Head(past')) = screen.line
<1> DEFINE a == Enter(con)
           t == From(con, 0)
           none == << >>
<1>1. PICK w : Editing(con, w) /\ (~lost => Follows(con, screen, w))
  BY DEF Inv, Agrees
<1>2. /\ Fine(con) /\ w \in Seq(Letters) /\ Rows \in Nat /\ Rows >= 2
  BY <1>1, EditingFacts, Sizes
<1>3. /\ t \in Seq(Letters) /\ Row(Pushed(con), 0) = t
      /\ Len(w) <= Len(t) /\ \A k \in 1..Len(w) : t[k] = w[k]
      /\ Ended(con) => t = w
  BY <1>1, WholeIs
<1> HIDE DEF t
<1>4. /\ Editing(a.con, none) /\ Ended(a.con) /\ a.con.cursor = 0
      /\ a.out = <<"PROMPT">>
      /\ a.con.commandBuffer = a.con.commandBufferShadow
      /\ Row(a.con.commandBufferShadow, 1) = t
      /\ \A r \in 1..(Rows - 2) :
           Row(a.con.commandBufferShadow, r + 1) = Row(con.commandBufferShadow, r)
  BY <1>2, <1>3, EnterIs
<1>5. onCharacterReception(con, "CR") = a
  BY DEF onCharacterReception
<1> HIDE DEF a
<1>6. /\ con' = a.con /\ lost' = FALSE /\ edited' = {}
      /\ screen' = Display(screen, <<"PROMPT">>)
      /\ past' = <<t>> \o SubSeq(past, 1, Min({Len(past), Rows - 2}))
      /\ shortened' = ~Neat(a.con.commandBuffer)
  <2>1. /\ con' = onCharacterReception(con, "CR").con
        /\ lost' = (~("CR" = "CR" /\ con.mode = 0) /\ (lost \/ Misleads(con, "CR")))
        /\ screen' = IF lost' THEN Blank
                     ELSE Display(screen, onCharacterReception(con, "CR").out)
        /\ past' = IF "CR" = "CR" /\ con.mode = 0
                     THEN <<Row(Pushed(con), 0)>> \o SubSeq(past, 1, Min({Len(past), Rows - 2}))
                     ELSE past
        /\ edited' = IF "CR" = "CR" /\ con.mode = 0 THEN {}
                     ELSE edited \union EditedRows(con.commandBuffer, con'.commandBuffer)
        /\ shortened' = IF "CR" = "CR" /\ con.mode = 0 THEN ~Neat(con'.commandBuffer)
                        ELSE shortened \/ ErasesTheEnd(con, "CR")
    BY Zenon DEF Key
  <2>2. con' = a.con
    BY <1>5, <2>1
  <2>3. lost' = FALSE
    BY <2>1
  <2>4. screen' = Display(screen, <<"PROMPT">>)
    BY <1>4, <1>5, <2>1, <2>3
  <2>5. past' = <<t>> \o SubSeq(past, 1, Min({Len(past), Rows - 2}))
    BY <1>3, <2>1
  <2>6. edited' = {} /\ shortened' = ~Neat(a.con.commandBuffer)
    BY <2>1, <2>2
  <2> QED
    BY <2>2, <2>3, <2>4, <2>5, <2>6
<1>7. past \in Seq(Seq(Letters)) /\ Kept(con, past, edited)
  BY DEF Inv, History
<1>8. /\ past' \in Seq(Seq(Letters)) /\ Head(past') = t
      /\ Command(past', 1) = t
      /\ \A r \in 1..(Rows - 2) : Command(past', r + 1) = Command(past, r)
  <2> DEFINE g == <<t>> \o SubSeq(past, 1, Min({Len(past), Rows - 2}))
  <2>1. /\ g \in Seq(Seq(Letters)) /\ Head(g) = t
        /\ Command(g, 1) = t
        /\ \A r \in 1..(Rows - 2) : Command(g, r + 1) = Command(past, r)
    BY <1>3, <1>7, PastIs
  <2>2. past' = g
    BY <1>6
  <2> HIDE DEF g
  <2> QED
    BY <2>1, <2>2
<1>9. ASSUME NEW r \in 1..(Rows - 1)
      PROVE  Row(a.con.commandBufferShadow, r) = Command(past', r)
  <2>1. CASE r = 1
    BY <1>4, <1>8, <2>1
  <2>2. CASE r # 1
    <3> DEFINE o == r - 1
    <3>1. o \in 1..(Rows - 2) /\ o \in 1..(Rows - 1) /\ o + 1 = r
      BY <1>2, <2>2
    <3> HIDE DEF o
    <3>2. Row(a.con.commandBufferShadow, o + 1) = Row(con.commandBufferShadow, o)
      BY <1>4, <3>1
    <3>3. Row(con.commandBufferShadow, o) = Command(past, o)
      BY <1>7, <3>1 DEF Kept
    <3> QED
      BY <1>8, <3>1, <3>2, <3>3
  <2> QED
    BY <2>1, <2>2
<1>10. History'
  <2>1. Kept(a.con, past', {})
    BY <1>4, <1>9 DEF Kept
  <2>2. Kept(con', past', edited')
    BY <1>6, <2>1
  <2> QED
    BY <1>8, <2>2 DEF History
<1>11. Agrees'
  <2>1. Follows(a.con, screen', none)
    <3>1. screen' = Picture(none, 0)
      BY <1>6, PromptIs
    <3>2. 0 <= Len(none)
      OBVIOUS
    <3> HIDE DEF none
    <3> QED
      BY <1>4, <3>1, <3>2 DEF Follows
  <2>2. Editing(con', none) /\ Follows(con', screen', none)
    BY <1>4, <1>6, <2>1
  <2> HIDE DEF none
  <2> QED
    BY <2>2 DEF Agrees
<1>12. Tidy' /\ Marks'
  <2>1. Ended(con') /\ (~shortened' => Neat(con'.commandBuffer))
    BY <1>4, <1>6
  <2>2. lost' \in BOOLEAN /\ shortened' \in BOOLEAN
    BY <1>6 DEF Neat
  <2> QED
    BY <2>1, <2>2 DEF Tidy, Marks
<1>13. ASSUME ~lost
       PROVE  /\ IsPrefix(screen.line, Head(past'))
              /\ ~shortened => Trimmed(Head(past')) = screen.line
  <2>1. screen.line = Trimmed(w)
    BY <1>1, <1>13 DEF Follows, Picture
  <2>2. IsPrefix(Trimmed(w), t)
    BY <1>2, <1>3, PrefixIs
  <2>3. ~shortened => t = w
    BY <1>3, <1>13 DEF Inv, Tidy
  <2> QED
    BY <1>8, <2>1, <2>2, <2>3
<1> QED
  BY <1>10, <1>11, <1>12, <1>13 DEF Inv

\* any other key leaves the history alone, or edits a row of it
LEMMA KeyInv ==
  ASSUME Inv, NEW ch \in Typed, Key(ch), ~(ch = "CR" /\ con.mode = 0)
  PROVE  Inv' /\ past' = past
<1> DEFINE a == onCharacterReception(con, ch)
           m == Misleads(con, ch)
           e == ErasesTheEnd(con, ch)
<1>1. PICK w : Editing(con, w) /\ (~lost => Follows(con, screen, w))
  BY DEF Inv, Agrees
<1>2. m \in BOOLEAN /\ e \in BOOLEAN /\ lost \in BOOLEAN /\ shortened \in BOOLEAN
  BY DEF Misleads, ErasesTheEnd, Inv, Marks
<1>3. /\ con' = a.con /\ past' = past
      /\ lost' = (lost \/ m) /\ shortened' = (shortened \/ e)
      /\ screen' = IF lost' THEN Blank ELSE Display(screen, a.out)
      /\ edited' = edited \union EditedRows(con.commandBuffer, a.con.commandBuffer)
      /\ ~Overruns(con, ch)
  <2> DEFINE x == ch = "CR" /\ con.mode = 0
  <2>1. /\ ~Overruns(con, ch) /\ con' = a.con
        /\ lost' = (~x /\ (lost \/ m))
        /\ screen' = IF lost' THEN Blank ELSE Display(screen, a.out)
        /\ past' = IF x
                     THEN <<Row(Pushed(con), 0)>> \o SubSeq(past, 1, Min({Len(past), Rows - 2}))
                     ELSE past
        /\ edited' = IF x THEN {}
                     ELSE edited \union EditedRows(con.commandBuffer, con'.commandBuffer)
        /\ shortened' = IF x THEN ~Neat(con'.commandBuffer) ELSE shortened \/ e
    BY Zenon DEF Key
  <2>2. x = FALSE
    OBVIOUS
  <2> HIDE DEF a, m, e, x
  <2>3. lost' = (lost \/ m)
    BY <1>2, <2>1, <2>2
  <2> QED
    BY <1>2, <2>1, <2>2, <2>3
<1>4. PICK v : Answered(con, w, a, v, m, e)
  <2>1. \E v : Answered(con, w, onCharacterReception(con, ch), v,
                        Misleads(con, ch), ErasesTheEnd(con, ch))
    BY <1>1, <1>3, KeyIs
  <2> QED
    BY <2>1
<1> HIDE DEF a, m, e
<1>5. /\ Editing(a.con, v) /\ a.con.commandBufferShadow = con.commandBufferShadow
      /\ ~m /\ Follows(con, screen, w) => Follows(a.con, Display(screen, a.out), v)
      /\ ~e /\ Neat(con.commandBuffer) => Neat(a.con.commandBuffer)
      /\ ~e /\ ~m /\ Neat(con.commandBuffer) /\ Ended(con) => Ended(a.con)
  BY <1>4, Zenon DEF Answered
<1>6. Agrees'
  <2>1. ASSUME ~lost' PROVE Follows(con', screen', v)
    <3>1. ~lost /\ ~m
      BY <1>2, <1>3, <2>1
    <3> QED
      BY <1>1, <1>3, <1>5, <2>1, <3>1
  <2>2. Editing(con', v) /\ (~lost' => Follows(con', screen', v))
    BY <1>3, <1>5, <2>1
  <2> QED
    BY <2>2 DEF Agrees
<1>7. History'
  <2>1. past \in Seq(Seq(Letters)) /\ Kept(con, past, edited)
    BY DEF Inv, History
  <2>2. ASSUME NEW r \in 1..(Rows - 1), r \notin edited', NEW q \in Cols
        PROVE  a.con.commandBuffer[Start(r) + q] = con.commandBufferShadow[Start(r) + q]
    <3>1. r \notin edited /\ r \notin EditedRows(con.commandBuffer, a.con.commandBuffer)
      BY <1>3, <2>2
    <3>2. con.commandBuffer[r * Columns + q] = a.con.commandBuffer[r * Columns + q]
      BY <2>2, <3>1 DEF EditedRows, Cols
    <3>3. con.commandBuffer[Start(r) + q] = con.commandBufferShadow[Start(r) + q]
      BY <2>1, <2>2, <3>1 DEF Kept
    <3> QED
      BY <3>2, <3>3 DEF Start
  <2>3. Kept(a.con, past, edited')
    <3>1. ASSUME NEW r \in 1..(Rows - 1)
          PROVE  Row(a.con.commandBufferShadow, r) = Command(past, r)
      BY <1>5, <2>1 DEF Kept
    <3> QED
      BY <1>5, <2>2, <3>1 DEF Kept
  <2>4. Kept(con', past', edited')
    BY <1>3, <2>3
  <2> QED
    BY <1>3, <2>1, <2>4 DEF History
<1>8. Tidy' /\ Marks'
  <2>1. ASSUME ~shortened'
        PROVE  Neat(a.con.commandBuffer) /\ (~lost' => Ended(a.con))
    <3>1. ~shortened /\ ~e
      BY <1>2, <1>3, <2>1
    <3>2. Neat(con.commandBuffer) /\ (~lost => Ended(con))
      BY <3>1 DEF Inv, Tidy
    <3>3. ~lost' => ~lost /\ ~m
      BY <1>2, <1>3
    <3> QED
      BY <1>5, <3>1, <3>2, <3>3
  <2>2. lost' \in BOOLEAN /\ shortened' \in BOOLEAN
    BY <1>2, <1>3
  <2> QED
    BY <1>3, <2>1, <2>2 DEF Tidy, Marks
<1> QED
  BY <1>3, <1>6, <1>7, <1>8 DEF Inv

LEMMA StutterInv ==
  ASSUME Inv, UNCHANGED vars
  PROVE  Inv'
BY DEF Inv, Agrees, History, Kept, Tidy, Marks, vars

LEMMA NextInv ==
  ASSUME Inv, [Next]_vars
  PROVE  /\ Inv'
         /\ past' # past /\ ~lost => /\ IsPrefix(screen.line, Head(past'))
                                     /\ ~shortened => Trimmed(Head(past')) = screen.line
<1>1. CASE UNCHANGED vars
  <2>1. Inv'
    BY <1>1, StutterInv
  <2> QED
    BY <1>1, <2>1 DEF vars
<1>2. CASE Next
  <2>1. PICK ch \in Typed : Key(ch)
    BY <1>2 DEF Next
  <2>2. CASE ch = "CR" /\ con.mode = 0
    BY <2>1, <2>2, EnterInv
  <2>3. CASE ~(ch = "CR" /\ con.mode = 0)
    BY <2>1, <2>3, KeyInv
  <2> QED
    BY <2>2, <2>3
<1> QED
  BY <1>1, <1>2

LEMMA InvTypes ==
  ASSUME Inv
  PROVE  TypeOK
<1>1. PICK w : Editing(con, w) /\ (~lost => Follows(con, screen, w))
  BY DEF Inv, Agrees
<1>2. con \in ConType /\ con.cbfCnt = Len(w)
  BY <1>1, EditingFacts
<1>3. ~lost => con.cursor <= con.cbfCnt
  BY <1>1, <1>2 DEF Follows
<1> QED
  BY <1>2, <1>3 DEF TypeOK, ConType, Chars, Cols

LEMMA InvShown ==
  ASSUME Inv
  PROVE  WhatYouSee
<1>1. PICK w : Editing(con, w) /\ (~lost => Follows(con, screen, w))
  BY DEF Inv, Agrees
<1>2. /\ con \in ConType /\ w \in Seq(Letters) /\ Len(w) \in Nat /\ con.cbfCnt = Len(w)
      /\ \A q : con.commandBuffer[At(con, q)] = Here(con, q)
      /\ \A k \in 1..Len(w) : Here(con, k - 1) = w[k] /\ w[k] \in Letters
  <2>1. con \in ConType
    BY <1>1, EditingFacts
  <2> QED
    BY <1>1, <2>1, EditingFacts, HereIs DEF Editing
<1> DEFINE n == Len(w)
           text == [k \in 1..n |-> con.commandBuffer[At(con, k - 1)]]
<1>3. Line(con) = text
  BY <1>2 DEF Line
<1>4. text = w
  <2>1. ASSUME NEW k \in 1..n PROVE text[k] = w[k] /\ text[k] \in Letters
    BY <1>2
  <2> HIDE DEF n
  <2>2. text \in [1..n -> Letters]
    BY <2>1
  <2> HIDE DEF text
  <2>3. text \in Seq(Letters) /\ Len(text) = n
    <3>1. \A f \in [1..n -> Letters] : f \in Seq(Letters) /\ Len(f) = n
      BY <1>2 DEF n
    <3> QED
      BY <2>2, <3>1
  <2> QED
    BY <1>2, <2>1, <2>3, SeqEqual DEF n
<1> QED
  BY <1>1, <1>3, <1>4 DEF WhatYouSee, Follows, Picture

LEMMA InvHistory ==
  ASSUME Inv
  PROVE  HistoryKept
<1> SUFFICES ASSUME NEW r \in 1..(Rows - 1)
             PROVE  /\ Row(con.commandBufferShadow, r) = Command(past, r)
                    /\ r \notin edited => Row(con.commandBuffer, r) = Command(past, r)
  BY DEF HistoryKept, Command
<1>1. /\ Row(con.commandBufferShadow, r) = Command(past, r)
      /\ r \notin edited =>
           \A q \in Cols : con.commandBuffer[Start(r) + q] = con.commandBufferShadow[Start(r) + q]
  BY DEF Inv, History, Kept
<1>2. r \in Nat
  OBVIOUS
<1>3. r \notin edited => Row(con.commandBuffer, r) = Row(con.commandBufferShadow, r)
  BY <1>1, <1>2, SameRow
<1> QED
  BY <1>1, <1>3

LEMMA InvCorrect ==
  Spec => []Inv
<1>1. Init => Inv
  BY InitInv
<1>2. Inv /\ [Next]_vars => Inv'
  BY NextInv
<1> QED
  BY <1>1, <1>2, PTL DEF Spec

\* The length of the command stays within one row of the buffer and the cursor
\* an uint8_t, and the cursor stays within the command until a key misleads the
\* terminal, whatever is typed, erased, browsed and executed, for every size of
\* the row and of the history.
THEOREM TypeCorrect ==
  Spec => []TypeOK
<1>1. Inv => TypeOK
  BY InvTypes
<1> QED
  BY <1>1, InvCorrect, PTL

\* Until one of the keys named in Misleads, and again after the next carriage
\* return, the terminal shows the command in the row that is edited, and its
\* cursor stands where the next character goes.
THEOREM WhatYouSeeTheorem ==
  Spec => []WhatYouSee
<1>1. Inv => WhatYouSee
  BY InvShown
<1> QED
  BY <1>1, InvCorrect, PTL

\* The shadow rows are the last commands executed, in their order, and what was
\* edited in the history is back in its old state after the next command,
\* whatever keys came before, those the editor answers wrongly as well.
THEOREM HistoryKeptTheorem ==
  Spec => []HistoryKept
<1>1. Inv => HistoryKept
  BY InvHistory
<1> QED
  BY <1>1, InvCorrect, PTL

\* A carriage return executes a command that begins with what is on the screen,
\* and just that if no command was erased from its end since the one before.
THEOREM ExecutesWhatIsEditedTheorem ==
  Spec => ExecutesWhatIsEdited
<1>1. Inv /\ [Next]_vars =>
        [past' # past /\ ~lost =>
           /\ IsPrefix(screen.line, Head(past'))
           /\ ~shortened => Trimmed(Head(past')) = screen.line]_vars
  BY NextInv
<1> QED
  BY <1>1, InvCorrect, PTL DEF Spec, ExecutesWhatIsEdited
=============================================================================
