----------------------------- MODULE ApiProofs -----------------------------
(***************************************************************************)
(* Proofs about Api and Commands, for every size of the buffer, every      *)
(* number of lamps and every set of requests: what is executed is what was *)
(* sent, and what a line leads to is acceptable.  The second needs what    *)
(* each conversion returns, and that the insertion of lamps keeps a list   *)
(* in order.                                                               *)
(***************************************************************************)
EXTENDS Api, InductionLemmas

-----------------------------------------------------------------------------
(* Folds over a sequence, stage by stage.                                  *)

KeptBy(seq, T, g) ==
  \A s \in SUBSET DOMAIN seq :
    g[s] = IF s = {} THEN << >>
           ELSE IF seq[Max(s)] \in T THEN Append(g[s \ {Max(s)}], seq[Max(s)])
                ELSE g[s \ {Max(s)}]

KeptStages(seq, T, h) ==
  /\ h \in [0..Len(seq) -> Seq(T)] /\ h[0] = << >>
  /\ \A m \in 1..Len(seq) :
       h[m] = IF seq[m] \in T THEN Append(h[m - 1], seq[m]) ELSE h[m - 1]

LEMMA KeptExists ==
  ASSUME NEW C, NEW seq \in Seq(C), NEW T
  PROVE  \E g \in [SUBSET DOMAIN seq -> Seq(C)] : KeptBy(seq, T, g)
<1> DEFINE step == [x \in Seq(C) \X C |-> IF x[2] \in T THEN Append(x[1], x[2]) ELSE x[1]]
<1>1. step \in [Seq(C) \X C -> Seq(C)]
  <2>1. \A x \in Seq(C) \X C : x[1] \in Seq(C) /\ x[2] \in C /\ Append(x[1], x[2]) \in Seq(C)
    OBVIOUS
  <2> QED
    BY <2>1
<1>2. \A r \in Seq(C), c \in C : step[r, c] = IF c \in T THEN Append(r, c) ELSE r
  OBVIOUS
<1> HIDE DEF step
<1>3. << >> \in Seq(C)
  OBVIOUS
<1>4. PICK g \in [SUBSET DOMAIN seq -> Seq(C)] : IsFold(Len(seq), seq, << >>, step, g)
  BY <1>1, <1>3, FoldExists
<1>5. DOMAIN seq = 1..Len(seq) /\ Len(seq) \in Nat
  BY LenProperties
<1>6. ASSUME NEW s \in SUBSET DOMAIN seq
      PROVE  g[s] = IF s = {} THEN << >>
                    ELSE IF seq[Max(s)] \in T THEN Append(g[s \ {Max(s)}], seq[Max(s)])
                         ELSE g[s \ {Max(s)}]
  <2>1. g[s] = IF s = {} THEN << >> ELSE step[g[s \ {Max(s)}], seq[Max(s)]]
    BY <1>4, <1>5, Zenon DEF IsFold
  <2>2. s # {} => g[s \ {Max(s)}] \in Seq(C) /\ seq[Max(s)] \in C
    <3>1. s # {} => Max(s) \in s
      BY <1>5, GreatestOfPlaces
    <3>2. s \ {Max(s)} \in SUBSET DOMAIN seq
      OBVIOUS
    <3> QED
      BY <1>5, <3>1, <3>2, ElementOfSeq
  <2> QED
    BY <1>2, <2>1, <2>2
<1> QED
  BY <1>6, Zenon DEF KeptBy

LEMMA KeptIs ==
  ASSUME NEW C, NEW seq \in Seq(C), NEW T, NEW g, KeptBy(seq, T, g)
  PROVE  \E h : KeptStages(seq, T, h) /\ h[Len(seq)] = g[DOMAIN seq]
<1> DEFINE step == [x \in Seq(T) \X C |-> IF x[2] \in T THEN Append(x[1], x[2]) ELSE x[1]]
<1>1. step \in [Seq(T) \X C -> Seq(T)]
  <2>1. \A x \in Seq(T) \X C :
          x[1] \in Seq(T) /\ (x[2] \in T => Append(x[1], x[2]) \in Seq(T))
    OBVIOUS
  <2> QED
    BY <2>1
<1>2. \A r \in Seq(T), c \in C : step[r, c] = IF c \in T THEN Append(r, c) ELSE r
  OBVIOUS
<1>3. << >> \in Seq(T) /\ DOMAIN seq = 1..Len(seq) /\ Len(seq) \in Nat
  BY LenProperties
<1> HIDE DEF step
<1>4. FoldBy(seq, Seq(T), << >>, step, g)
  <2> SUFFICES ASSUME NEW s \in SUBSET DOMAIN seq
               PROVE  IF s = {} THEN g[s] = << >>
                      ELSE g[s \ {Max(s)}] \in Seq(T) =>
                             g[s] = step[g[s \ {Max(s)}], seq[Max(s)]]
    BY Zenon DEF FoldBy
  <2>1. g[s] = IF s = {} THEN << >>
               ELSE IF seq[Max(s)] \in T THEN Append(g[s \ {Max(s)}], seq[Max(s)])
                    ELSE g[s \ {Max(s)}]
    BY Zenon DEF KeptBy
  <2>2. s # {} => seq[Max(s)] \in C
    BY <1>3, GreatestOfPlaces, ElementOfSeq
  <2> QED
    BY <1>2, <2>1, <2>2
<1>5. PICK h : Staged(seq, Seq(T), << >>, step, g[DOMAIN seq], h)
  BY <1>1, <1>3, <1>4, FoldStages, Zenon
<1>6. ASSUME NEW m \in 1..Len(seq)
      PROVE  h[m] = IF seq[m] \in T THEN Append(h[m - 1], seq[m]) ELSE h[m - 1]
  <2>1. h[m - 1] \in Seq(T) /\ seq[m] \in C
    <3>1. h \in [0..Len(seq) -> Seq(T)]
      BY <1>5, Zenon DEF Staged
    <3>2. m - 1 \in 0..Len(seq)
      BY <1>3
    <3> QED
      BY <3>1, <3>2, ElementOfSeq
  <2> QED
    BY <1>2, <1>5, <2>1 DEF Staged
<1> QED
  BY <1>5, <1>6, Zenon DEF KeptStages, Staged

-----------------------------------------------------------------------------
(* Numbers.                                                                *)

LEMMA DigitsAre == \A c : c \in ToSet(Digits) <=> \E i \in 1..10 : c = Digits[i]
BY DEF ToSet, Digits

LEMMA DigitCharacters ==
  ASSUME NEW i \in 1..10
  PROVE  Digits[i] \notin {"-", ",", "(", ")", " "}
<1>1. Digits[i] \in {"0", "1", "2", "3", "4", "5", "6", "7", "8", "9"}
  BY DEF Digits
<1> QED
  BY <1>1

LEMMA DigitsDiffer == \A i, j \in 1..10 : Digits[i] = Digits[j] => i = j
<1> SUFFICES ASSUME NEW i \in 1..10, NEW j \in 1..10, Digits[i] = Digits[j] PROVE i = j
  OBVIOUS
<1>1. \/ i = 1 \/ i = 2 \/ i = 3 \/ i = 4 \/ i = 5
      \/ i = 6 \/ i = 7 \/ i = 8 \/ i = 9 \/ i = 10
  OBVIOUS
<1>2. \/ j = 1 \/ j = 2 \/ j = 3 \/ j = 4 \/ j = 5
      \/ j = 6 \/ j = 7 \/ j = 8 \/ j = 9 \/ j = 10
  OBVIOUS
<1> QED
  BY <1>1, <1>2 DEF Digits

LEMMA DigitValue ==
  ASSUME NEW d \in 0..9
  PROVE  Digits[d + 1] \in ToSet(Digits) /\ Value(Digits[d + 1]) = d
<1> DEFINE c == Digits[d + 1]
<1>1. d + 1 \in 1..10
  OBVIOUS
<1>2. c \in ToSet(Digits)
  BY <1>1, DigitsAre
<1>3. c # "-" /\ c # "," /\ c # "(" /\ c # " "
  BY <1>1, DigitCharacters
<1>4. \A e \in 0..9 : Digits[e + 1] = c => e = d
  <2> TAKE e \in 0..9
  <2>1. e + 1 \in 1..10 /\ (e + 1 = d + 1 => e = d)
    OBVIOUS
  <2> QED
    BY <1>1, <2>1, DigitsDiffer
<1>5. (CHOOSE e \in 0..9 : Digits[e + 1] = c) = d
  BY <1>4
<1> HIDE DEF c
<1>6. Value(c) = CHOOSE e \in 0..9 : Digits[e + 1] = c
  BY <1>2, <1>3 DEF Value
<1> QED
  BY <1>2, <1>5, <1>6 DEF c

LEMMA ValueType == \A c \in Known : Value(c) \in Int
<1> SUFFICES ASSUME NEW c \in Known PROVE Value(c) \in Int
  OBVIOUS
<1>1. CASE c \in ToSet(Digits)
  <2>1. PICK i \in 1..10 : c = Digits[i]
    BY <1>1, DigitsAre
  <2>2. i - 1 \in 0..9 /\ (i - 1) + 1 = i
    OBVIOUS
  <2>3. Value(Digits[(i - 1) + 1]) = i - 1
    BY <2>2, DigitValue
  <2> QED
    BY <2>1, <2>2, <2>3
<1>2. CASE c \notin ToSet(Digits)
  <2>0. -3 \in Int /\ -4 \in Int /\ -8 \in Int /\ -16 \in Int
    OBVIOUS
  <2>1. CASE c = "-"
    <3>1. c # "," /\ c # "(" /\ c # " "
      BY <2>1
    <3> QED
      BY <1>2, <2>0, <2>1, <3>1, Zenon DEF Value
  <2>2. CASE c = ","
    <3>1. c # "-" /\ c # "(" /\ c # " "
      BY <2>2
    <3> QED
      BY <1>2, <2>0, <2>2, <3>1, Zenon DEF Value
  <2>3. CASE c = "("
    <3>1. c # "-" /\ c # "," /\ c # " "
      BY <2>3
    <3> QED
      BY <1>2, <2>0, <2>3, <3>1, Zenon DEF Value
  <2>4. CASE c = " "
    <3>1. c # "-" /\ c # "," /\ c # "("
      BY <2>4
    <3> QED
      BY <1>2, <2>0, <2>4, <3>1, Zenon DEF Value
  <2> QED
    BY <1>2, <2>1, <2>2, <2>3, <2>4 DEF Known
<1> QED
  BY <1>1, <1>2

IsToUInt(text, range, g) ==
  g = [s \in SUBSET DOMAIN text |->
         IF s = {} THEN 0 ELSE (10 * g[s \ {Max(s)}] + Value(text[Max(s)])) % range]

\* The number after each of the characters.
LEMMA ToUIntStages ==
  ASSUME NEW text \in Seq(Known), NEW range \in Nat \ {0}
  PROVE  \E h \in [0..Len(text) -> 0..(range - 1)] :
           /\ h[0] = 0 /\ h[Len(text)] = ToUInt(text, range)
           /\ \A m \in 1..Len(text) : h[m] = (10 * h[m - 1] + Value(text[m])) % range
<1> DEFINE R == 0..(range - 1)
           step == [x \in R \X Known |-> (10 * x[1] + Value(x[2])) % range]
           g == CHOOSE g : IsToUInt(text, range, g)
<1>1. \A r \in R, c \in Known : (10 * r + Value(c)) % range \in R
  BY ValueType
<1>2. step \in [R \X Known -> R] /\ 0 \in R
  BY <1>1
<1>3. \A r \in R, c \in Known : step[r, c] = (10 * r + Value(c)) % range
  OBVIOUS
<1>4. DOMAIN text = 1..Len(text) /\ Len(text) \in Nat
  BY LenProperties
<1> HIDE DEF step, R
<1>5. \A s \in SUBSET DOMAIN text : s # {} => text[Max(s)] \in Known
  BY <1>4, GreatestOfPlaces, ElementOfSeq
<1>6. IsToUInt(text, range, g)
  <2>1. PICK f \in [SUBSET DOMAIN text -> R] : IsFold(Len(text), text, 0, step, f)
    BY <1>2, FoldExists
  <2>2. ASSUME NEW s \in SUBSET DOMAIN text
        PROVE  f[s] = IF s = {} THEN 0 ELSE (10 * f[s \ {Max(s)}] + Value(text[Max(s)])) % range
    <3>1. f[s] = IF s = {} THEN 0 ELSE step[f[s \ {Max(s)}], text[Max(s)]]
      BY <1>4, <2>1, Zenon DEF IsFold
    <3>2. f[s \ {Max(s)}] \in R
      <4>1. s \ {Max(s)} \in SUBSET DOMAIN text
        OBVIOUS
      <4> QED
        BY <4>1
    <3> QED
      BY <1>3, <1>5, <3>1, <3>2
  <2>3. f = [s \in SUBSET DOMAIN text |-> f[s]]
    OBVIOUS
  <2>4. IsToUInt(text, range, f)
    BY <2>2, <2>3, Zenon DEF IsToUInt
  <2> QED
    BY <2>4, Zenon
<1>7. ToUInt(text, range) = g[DOMAIN text]
  BY Zenon DEF ToUInt, FoldLeft, MapThenFoldSet, IsToUInt
<1> HIDE DEF g
<1>8. FoldBy(text, R, 0, step, g)
  <2> SUFFICES ASSUME NEW s \in SUBSET DOMAIN text
               PROVE  IF s = {} THEN g[s] = 0
                      ELSE g[s \ {Max(s)}] \in R => g[s] = step[g[s \ {Max(s)}], text[Max(s)]]
    BY Zenon DEF FoldBy
  <2>1. g[s] = IF s = {} THEN 0 ELSE (10 * g[s \ {Max(s)}] + Value(text[Max(s)])) % range
    <3> DEFINE f == [r \in SUBSET DOMAIN text |->
                       IF r = {} THEN 0 ELSE (10 * g[r \ {Max(r)}] + Value(text[Max(r)])) % range]
    <3>1. f[s] = IF s = {} THEN 0 ELSE (10 * g[s \ {Max(s)}] + Value(text[Max(s)])) % range
      BY Zenon
    <3>2. g = f
      BY <1>6, Zenon DEF IsToUInt
    <3> HIDE DEF f
    <3> QED
      BY <3>1, <3>2
  <2> QED
    BY <1>3, <1>5, <2>1
<1>9. PICK h : Staged(text, R, 0, step, g[DOMAIN text], h)
  BY <1>2, <1>8, FoldStages, Zenon
<1>10. ASSUME NEW m \in 1..Len(text) PROVE h[m] = (10 * h[m - 1] + Value(text[m])) % range
  <2>1. h[m - 1] \in R /\ text[m] \in Known
    <3>1. h \in [0..Len(text) -> R]
      BY <1>9, Zenon DEF Staged
    <3>2. m - 1 \in 0..Len(text)
      BY <1>4
    <3> QED
      BY <3>1, <3>2, ElementOfSeq
  <2> QED
    BY <1>3, <1>9, <2>1 DEF Staged
<1> QED
  BY <1>7, <1>9, <1>10, Zenon DEF R, Staged

LEMMA ToUIntType ==
  ASSUME NEW text \in Seq(Known), NEW range \in Nat \ {0}
  PROVE  ToUInt(text, range) \in 0..(range - 1)
<1>1. PICK h \in [0..Len(text) -> 0..(range - 1)] : h[Len(text)] = ToUInt(text, range)
  BY ToUIntStages
<1>2. Len(text) \in 0..Len(text)
  BY LenProperties
<1> QED
  BY <1>1, <1>2

-----------------------------------------------------------------------------
(* What is between the brackets, without blanks.                           *)

AllBut(seq, e, g) ==
  g = [s \in SUBSET DOMAIN seq |->
         IF s = {} THEN << >>
         ELSE IF seq[Max(s)] # e THEN Append(g[s \ {Max(s)}], seq[Max(s)])
              ELSE g[s \ {Max(s)}]]

LEMMA AllButIs ==
  ASSUME NEW C, NEW seq \in Seq(C), NEW e
  PROVE  \E h : /\ KeptStages(seq, C \ {e}, h)
               /\ h[Len(seq)] = (CHOOSE g : AllBut(seq, e, g))[DOMAIN seq]
<1> DEFINE g == CHOOSE f : AllBut(seq, e, f)
           T == C \ {e}
<1>1. \A s \in SUBSET DOMAIN seq : s # {} => (seq[Max(s)] # e <=> seq[Max(s)] \in T)
  <2> TAKE s \in SUBSET DOMAIN seq
  <2>1. DOMAIN seq = 1..Len(seq) /\ Len(seq) \in Nat
    BY LenProperties
  <2>2. s # {} => seq[Max(s)] \in C
    BY <2>1, GreatestOfPlaces, ElementOfSeq
  <2> QED
    BY <2>2
<1>2. AllBut(seq, e, g)
  <2>1. PICK f \in [SUBSET DOMAIN seq -> Seq(C)] : KeptBy(seq, T, f)
    BY KeptExists
  <2>2. \A s \in SUBSET DOMAIN seq :
          f[s] = IF s = {} THEN << >>
                 ELSE IF seq[Max(s)] # e THEN Append(f[s \ {Max(s)}], seq[Max(s)])
                      ELSE f[s \ {Max(s)}]
    <3> HIDE DEF T
    <3> QED
      BY <1>1, <2>1, Zenon DEF KeptBy
  <2>3. f = [s \in SUBSET DOMAIN seq |-> f[s]]
    OBVIOUS
  <2>4. AllBut(seq, e, f)
    BY <2>2, <2>3, Zenon DEF AllBut
  <2> QED
    BY <2>4, Zenon
<1> HIDE DEF g, T
<1>3. KeptBy(seq, T, g)
  <2> SUFFICES ASSUME NEW s \in SUBSET DOMAIN seq
               PROVE  g[s] = IF s = {} THEN << >>
                             ELSE IF seq[Max(s)] \in T THEN Append(g[s \ {Max(s)}], seq[Max(s)])
                                  ELSE g[s \ {Max(s)}]
    BY Zenon DEF KeptBy
  <2> DEFINE f == [r \in SUBSET DOMAIN seq |->
                     IF r = {} THEN << >>
                     ELSE IF seq[Max(r)] # e THEN Append(g[r \ {Max(r)}], seq[Max(r)])
                          ELSE g[r \ {Max(r)}]]
  <2>1. f[s] = IF s = {} THEN << >>
               ELSE IF seq[Max(s)] # e THEN Append(g[s \ {Max(s)}], seq[Max(s)])
                    ELSE g[s \ {Max(s)}]
    BY Zenon
  <2>2. g = f
    BY <1>2, Zenon DEF AllBut
  <2> HIDE DEF f
  <2> QED
    BY <1>1, <2>1, <2>2, Zenon
<1> QED
  BY <1>3, KeptIs, Zenon DEF g, T

LEMMA StripIs ==
  ASSUME NEW C, NEW text \in Seq(C)
  PROVE  \E h : KeptStages(text, C \ {" "}, h) /\ h[Len(text)] = stripWhitespaces(text)
<1>1. stripWhitespaces(text) = (CHOOSE g : AllBut(text, " ", g))[DOMAIN text]
  BY Zenon DEF stripWhitespaces, Kept, FoldLeft, MapThenFoldSet, AllBut
<1>2. PICK h : /\ KeptStages(text, C \ {" "}, h)
               /\ h[Len(text)] = (CHOOSE g : AllBut(text, " ", g))[DOMAIN text]
  BY AllButIs
<1> QED
  BY <1>1, <1>2, Zenon

LEMMA StripType ==
  ASSUME NEW C, NEW text \in Seq(C)
  PROVE  stripWhitespaces(text) \in Seq(C \ {" "})
<1>1. PICK h : KeptStages(text, C \ {" "}, h) /\ h[Len(text)] = stripWhitespaces(text)
  BY StripIs
<1>2. Len(text) \in 0..Len(text)
  BY LenProperties
<1> QED
  BY <1>1, <1>2, Zenon DEF KeptStages

\* the first place of an element
First(seq, e) == SelectInSeq(seq, LAMBDA c : c = e)

LEMMA FirstIs ==
  ASSUME NEW C, NEW seq \in Seq(C), NEW e
  PROVE  /\ First(seq, e) \in 0..Len(seq)
         /\ First(seq, e) # 0 => /\ seq[First(seq, e)] = e
                                /\ \A k \in 1..(First(seq, e) - 1) : seq[k] # e
         /\ First(seq, e) = 0 => \A k \in 1..Len(seq) : seq[k] # e
<1> DEFINE I == {i \in 1..Len(seq) : seq[i] = e}
           first == First(seq, e)
<1>1. first = IF I # {} THEN Min(I) ELSE 0
  BY Zenon DEF First, SelectInSeq
<1>2. Len(seq) \in Nat
  BY LenProperties
<1>3. I # {} => \E m \in I : \A k \in I : m <= k
  <2>1. I \in SUBSET Nat
    BY <1>2
  <2> HIDE DEF I
  <2> QED
    BY <2>1, LeastElement
<1>4. I # {} => Min(I) \in I /\ \A k \in I : Min(I) <= k
  <2> HIDE DEF I
  <2> QED
    BY <1>3 DEF Min
<1>5. CASE I = {}
  BY <1>1, <1>2, <1>5
<1>6. CASE I # {}
  <2> HIDE DEF first
  <2>1. first \in I /\ \A k \in I : first <= k
    BY <1>1, <1>4, <1>6
  <2>2. \A k \in 1..(first - 1) : seq[k] # e
    <3> TAKE k \in 1..(first - 1)
    <3>1. k \in 1..Len(seq) /\ ~(first <= k)
      BY <1>2, <2>1
    <3> QED
      BY <2>1, <3>1
  <2>3. first \in 0..Len(seq) /\ first # 0 /\ seq[first] = e
    BY <1>2, <2>1
  <2> QED
    BY <2>2, <2>3 DEF first
<1> QED
  BY <1>5, <1>6

Opening(cmd) == First(cmd, "(")
Behind(cmd) == SubSeq(cmd, Opening(cmd) + 1, Len(cmd))

LEMMA ContentIs ==
  ASSUME NEW C, NEW cmd \in Seq(C)
  PROVE  /\ Opening(cmd) = 0 => getBracketContent(cmd) = << >>
         /\ Behind(cmd) \in Seq(C)
         /\ Opening(cmd) # 0 =>
              \E h : /\ KeptStages(Behind(cmd), C \ {")"}, h)
                    /\ h[Len(Behind(cmd))] = getBracketContent(cmd)
<1>1. Opening(cmd) \in 0..Len(cmd) /\ Len(cmd) \in Nat
  BY FirstIs, LenProperties DEF Opening
<1>2. Behind(cmd) \in Seq(C)
  <2>1. \A i \in (Opening(cmd) + 1)..Len(cmd) : cmd[i] \in C
    BY <1>1, ElementOfSeq
  <2> QED
    BY <1>1, <2>1, SubSeqProperties DEF Behind
<1>3. getBracketContent(cmd) =
        IF Opening(cmd) = 0 THEN << >>
        ELSE (CHOOSE g : AllBut(Behind(cmd), ")", g))[DOMAIN Behind(cmd)]
  BY Zenon DEF getBracketContent, Kept, FoldLeft, MapThenFoldSet, AllBut, Opening, First, Behind
<1>4. \E h : /\ KeptStages(Behind(cmd), C \ {")"}, h)
            /\ h[Len(Behind(cmd))] = (CHOOSE g : AllBut(Behind(cmd), ")", g))[DOMAIN Behind(cmd)]
  BY <1>2, AllButIs
<1> QED
  BY <1>2, <1>3, <1>4, Zenon

LEMMA ContentType ==
  ASSUME NEW C, NEW cmd \in Seq(C)
  PROVE  getBracketContent(cmd) \in Seq(C)
<1>1. CASE Opening(cmd) = 0
  BY <1>1, ContentIs, EmptySeq
<1>2. CASE Opening(cmd) # 0
  <2>1. PICK h : /\ KeptStages(Behind(cmd), C \ {")"}, h)
                 /\ h[Len(Behind(cmd))] = getBracketContent(cmd)
    BY <1>2, ContentIs
  <2>2. Len(Behind(cmd)) \in 0..Len(Behind(cmd))
    BY ContentIs, LenProperties
  <2>3. getBracketContent(cmd) \in Seq(C \ {")"})
    BY <2>1, <2>2, Zenon DEF KeptStages
  <2> QED
    BY <2>3, SeqMonotonic
<1> QED
  BY <1>1, <1>2

-----------------------------------------------------------------------------
(* The fields between the commas.                                          *)

WithCharacter(fields, c) ==
  IF c = "," THEN Append(fields, << >>)
  ELSE [fields EXCEPT ![Len(fields)] = Append(@, c)]

IsSplit(text, g) ==
  g = [s \in SUBSET DOMAIN text |->
         IF s = {} THEN << << >> >> ELSE WithCharacter(g[s \ {Max(s)}], text[Max(s)])]

Split(text) == (CHOOSE g : IsSplit(text, g))[DOMAIN text]

FieldLists(C) == {f \in Seq(Seq(C \ {","})) : Len(f) >= 1}

LEMMA WithCharacterType ==
  ASSUME NEW C, NEW f \in FieldLists(C), NEW c \in C
  PROVE  /\ WithCharacter(f, c) \in FieldLists(C)
         /\ Len(WithCharacter(f, c)) = IF c = "," THEN Len(f) + 1 ELSE Len(f)
         /\ \A k \in 1..Len(f) :
              WithCharacter(f, c)[k] =
                IF c # "," /\ k = Len(f) THEN Append(f[k], c) ELSE f[k]
         /\ c = "," => WithCharacter(f, c)[Len(f) + 1] = << >>
<1> DEFINE E == Seq(C \ {","})
           n == Len(f)
<1>1. f \in Seq(E) /\ n >= 1
  BY DEF FieldLists
<1>2. \A r \in Seq(E) : Len(r) >= 1 => r \in FieldLists(C)
  BY DEF FieldLists
<1>3. << >> \in E /\ (c # "," => \A r \in E : Append(r, c) \in E)
  <2>1. << >> \in E
    OBVIOUS
  <2>2. ASSUME c # ",", NEW r \in E PROVE Append(r, c) \in E
    <3>1. r \in Seq(C \ {","}) /\ c \in C \ {","}
      BY <2>2
    <3> QED
      BY <3>1, AppendProperties
  <2> HIDE DEF E
  <2> QED
    BY <2>1, <2>2
<1> HIDE DEF E
<1>4. n \in Nat
  BY <1>1, LenProperties
<1> HIDE DEF n
<1>5. n \in 1..n
  BY <1>1, <1>4
<1>6. CASE c = ","
  <2>0. ASSUME NEW z \in E
        PROVE  /\ Append(f, z) \in Seq(E) /\ Len(Append(f, z)) = n + 1
               /\ \A k \in 1..n : Append(f, z)[k] = f[k]
               /\ Append(f, z)[n + 1] = z
    BY <1>1, AppendProperties DEF n
  <2>1. /\ Append(f, << >>) \in Seq(E) /\ Len(Append(f, << >>)) = n + 1
        /\ \A k \in 1..n : Append(f, << >>)[k] = f[k]
        /\ Append(f, << >>)[n + 1] = << >>
    BY <1>3, <2>0, Zenon
  <2>2. WithCharacter(f, c) = Append(f, << >>)
    BY <1>6 DEF WithCharacter
  <2>3. Append(f, << >>) \in FieldLists(C)
    <3>1. n + 1 >= 1
      BY <1>4
    <3> QED
      BY <1>2, <2>1, <3>1, Zenon
  <2> QED
    BY <1>6, <2>1, <2>2, <2>3 DEF n
<1>7. CASE c # ","
  <2>1. f[n] \in E
    BY <1>1, <1>5, ElementOfSeq DEF n
  <2> DEFINE e == Append(f[n], c)
             r == [f EXCEPT ![n] = e]
  <2>2. e \in E
    BY <1>3, <1>7, <2>1
  <2>3. WithCharacter(f, c) = r
    BY <1>7 DEF WithCharacter, n
  <2>4. r \in Seq(E) /\ Len(r) = n /\ \A k \in 1..n : r[k] = IF k = n THEN e ELSE f[k]
    <3> HIDE DEF e
    <3> QED
      BY <1>1, <1>5, <2>2, ExceptSeq DEF n
  <2>5. r \in FieldLists(C)
    BY <1>1, <1>2, <2>4
  <2>6. \A k \in 1..n : r[k] = IF k = n THEN Append(f[k], c) ELSE f[k]
    BY <2>4
  <2> HIDE DEF r
  <2> QED
    BY <1>7, <2>3, <2>4, <2>5, <2>6 DEF n
<1> QED
  BY <1>6, <1>7

SplitStages(text, C, h) ==
  /\ h \in [0..Len(text) -> FieldLists(C)] /\ h[0] = << << >> >>
  /\ \A m \in 1..Len(text) : h[m] = WithCharacter(h[m - 1], text[m])

LEMMA SplitIs ==
  ASSUME NEW C, NEW text \in Seq(C)
  PROVE  \E h : SplitStages(text, C, h) /\ h[Len(text)] = Split(text)
<1> DEFINE S == FieldLists(C)
           step == [x \in S \X C |-> WithCharacter(x[1], x[2])]
           base == << << >> >>
           g == CHOOSE f : IsSplit(text, f)
<1>1. step \in [S \X C -> S]
  <2>1. \A x \in S \X C : x[1] \in S /\ x[2] \in C
    OBVIOUS
  <2>2. \A x \in S \X C : WithCharacter(x[1], x[2]) \in S
    BY <2>1, WithCharacterType
  <2> HIDE DEF S
  <2> QED
    BY <2>2
<1>2. \A r \in S, c \in C : step[r, c] = WithCharacter(r, c)
  OBVIOUS
<1>3. base \in S /\ DOMAIN text = 1..Len(text) /\ Len(text) \in Nat
  <2>1. base \in Seq(Seq(C \ {","})) /\ Len(base) = 1
    OBVIOUS
  <2> QED
    BY <2>1, LenProperties DEF FieldLists
<1> HIDE DEF step, S, base
<1>4. \A s \in SUBSET DOMAIN text : s # {} => text[Max(s)] \in C
  BY <1>3, GreatestOfPlaces, ElementOfSeq
<1>5. IsSplit(text, g)
  <2>1. PICK f \in [SUBSET DOMAIN text -> S] : IsFold(Len(text), text, base, step, f)
    BY <1>1, <1>3, FoldExists
  <2>2. ASSUME NEW s \in SUBSET DOMAIN text
        PROVE  f[s] = IF s = {} THEN << << >> >> ELSE WithCharacter(f[s \ {Max(s)}], text[Max(s)])
    <3>1. f[s] = IF s = {} THEN base ELSE step[f[s \ {Max(s)}], text[Max(s)]]
      BY <1>3, <2>1, Zenon DEF IsFold
    <3>2. f[s \ {Max(s)}] \in S
      <4>1. s \ {Max(s)} \in SUBSET DOMAIN text
        OBVIOUS
      <4> QED
        BY <4>1
    <3> QED
      BY <1>2, <1>4, <3>1, <3>2, Zenon DEF base
  <2>3. f = [s \in SUBSET DOMAIN text |-> f[s]]
    OBVIOUS
  <2>4. IsSplit(text, f)
    BY <2>2, <2>3, Zenon DEF IsSplit
  <2> QED
    BY <2>4, Zenon
<1> HIDE DEF g
<1>6. FoldBy(text, S, base, step, g)
  <2> SUFFICES ASSUME NEW s \in SUBSET DOMAIN text
               PROVE  IF s = {} THEN g[s] = base
                      ELSE g[s \ {Max(s)}] \in S => g[s] = step[g[s \ {Max(s)}], text[Max(s)]]
    BY Zenon DEF FoldBy
  <2> DEFINE f == [r \in SUBSET DOMAIN text |->
                     IF r = {} THEN << << >> >> ELSE WithCharacter(g[r \ {Max(r)}], text[Max(r)])]
  <2>1. f[s] = IF s = {} THEN << << >> >> ELSE WithCharacter(g[s \ {Max(s)}], text[Max(s)])
    BY Zenon
  <2>2. g = f
    BY <1>5, Zenon DEF IsSplit
  <2> HIDE DEF f
  <2> QED
    BY <1>2, <1>4, <2>1, <2>2, Zenon DEF base
<1>7. PICK h : Staged(text, S, base, step, g[DOMAIN text], h)
  BY <1>1, <1>3, <1>6, FoldStages, Zenon
<1>8. h \in [0..Len(text) -> S] /\ h[0] = base /\ h[Len(text)] = g[DOMAIN text]
  BY <1>7, Zenon DEF Staged
<1>9. ASSUME NEW m \in 1..Len(text) PROVE h[m] = WithCharacter(h[m - 1], text[m])
  <2>1. m - 1 \in 0..Len(text)
    BY <1>3
  <2>2. h[m - 1] \in S /\ text[m] \in C
    BY <1>8, <2>1, ElementOfSeq
  <2>3. h[m] = step[h[m - 1], text[m]]
    BY <1>7, Zenon DEF Staged
  <2> QED
    BY <1>2, <2>2, <2>3
<1> QED
  BY <1>8, <1>9, Zenon DEF SplitStages, Split, S, base, g

LEMMA FieldsIs ==
  ASSUME NEW C, NEW text \in Seq(C)
  PROVE  /\ Split(text) \in FieldLists(C)
         /\ \E h : /\ KeptStages(Split(text), Seq(C \ {","}) \ {<< >>}, h)
                  /\ h[Len(Split(text))] = Fields(text)
<1>1. Split(text) \in FieldLists(C)
  <2>1. PICK h : SplitStages(text, C, h) /\ h[Len(text)] = Split(text)
    BY SplitIs
  <2>2. Len(text) \in 0..Len(text)
    BY LenProperties
  <2> QED
    BY <2>1, <2>2, Zenon DEF SplitStages
<1>2. Split(text) \in Seq(Seq(C \ {","}))
  BY <1>1 DEF FieldLists
<1>3. Fields(text) = (CHOOSE g : AllBut(Split(text), << >>, g))[DOMAIN Split(text)]
  BY Zenon DEF Fields, Kept, FoldLeft, MapThenFoldSet, AllBut, Split, IsSplit, WithCharacter
<1>4. PICK h : /\ KeptStages(Split(text), Seq(C \ {","}) \ {<< >>}, h)
               /\ h[Len(Split(text))] = (CHOOSE g : AllBut(Split(text), << >>, g))[DOMAIN Split(text)]
  BY <1>2, AllButIs
<1> QED
  BY <1>1, <1>3, <1>4, Zenon

LEMMA FieldsType ==
  ASSUME NEW C, NEW text \in Seq(C)
  PROVE  Fields(text) \in Seq(Seq(C \ {","}) \ {<< >>})
<1>1. PICK h : /\ KeptStages(Split(text), Seq(C \ {","}) \ {<< >>}, h)
               /\ h[Len(Split(text))] = Fields(text)
  BY FieldsIs
<1>2. Len(Split(text)) \in 0..Len(Split(text))
  <2>1. Split(text) \in Seq(Seq(C \ {","}))
    BY FieldsIs DEF FieldLists
  <2>2. Len(Split(text)) \in Nat
    BY <2>1, LenProperties
  <2> QED
    BY <2>2
<1> QED
  BY <1>1, <1>2, Zenon DEF KeptStages

\* What is left after some fields is still text.
LEMMA AfterFieldsType ==
  ASSUME NEW C, NEW text \in Seq(C), NEW k
  PROVE  AfterFields(text, k) \in Seq(C)
<1> DEFINE ends == {p \in DOMAIN text :
                      text[p] = "," /\ Len(Fields(SubSeq(text, 1, p - 1))) = k}
<1>1. AfterFields(text, k) =
        IF ends = {} THEN << >> ELSE SubSeq(text, Min(ends) + 1, Len(text))
  BY Zenon DEF AfterFields
<1>2. Len(text) \in Nat /\ DOMAIN text = 1..Len(text)
  BY LenProperties
<1>3. ends \in SUBSET (1..Len(text))
  BY <1>2
<1> HIDE DEF ends
<1>4. CASE ends = {}
  BY <1>1, <1>4, EmptySeq
<1>5. CASE ends # {}
  <2>1. \E m \in ends : \A p \in ends : m <= p
    <3>1. ends \in SUBSET Nat
      BY <1>3
    <3> QED
      BY <1>5, <3>1, LeastElement
  <2>2. Min(ends) \in 1..Len(text)
    BY <1>3, <2>1 DEF Min
  <2>3. \A i \in (Min(ends) + 1)..Len(text) : text[i] \in C
    BY <1>2, <2>2, ElementOfSeq
  <2>4. SubSeq(text, Min(ends) + 1, Len(text)) \in Seq(C)
    BY <1>2, <2>2, <2>3, SubSeqProperties
  <2> QED
    BY <1>1, <1>5, <2>4
<1> QED
  BY <1>4, <1>5

-----------------------------------------------------------------------------
(* Lists of lamps.                                                         *)

Ascending(s) == \A i, j \in DOMAIN s : i < j => s[i] < s[j]

LEMMA FunctionIsSeq ==
  ASSUME NEW S, NEW n \in Nat, NEW f \in [1..n -> S]
  PROVE  f \in Seq(S)
BY SeqDef

LEMMA IntervalIs ==
  ASSUME NEW l \in Nat, NEW u \in Nat
  PROVE  [c \in 1..(u - l + 1) |-> l + c - 1] \in Seq(l..u)
<1> DEFINE s == [c \in 1..(u - l + 1) |-> l + c - 1]
<1>1. CASE l <= u
  <2>1. u - l + 1 \in Nat /\ \A c \in 1..(u - l + 1) : l + c - 1 \in l..u
    BY <1>1
  <2> DEFINE k == u - l + 1
  <2>2. s = [c \in 1..k |-> l + c - 1]
    OBVIOUS
  <2>3. k \in Nat /\ \A c \in 1..k : l + c - 1 \in l..u
    BY <2>1
  <2> HIDE DEF k
  <2> QED
    BY <2>2, <2>3
<1>2. CASE ~(l <= u)
  <2>1. 1..(u - l + 1) = {}
    BY <1>2
  <2>2. s = << >>
    BY <2>1
  <2> HIDE DEF s
  <2> QED
    BY <2>2, EmptySeq DEF s
<1> QED
  BY <1>1, <1>2

LEMMA ExpandRangeIs ==
  ASSUME NEW text \in Seq(Known)
  PROVE  /\ First(text, "-") = 0 => expandRange(text) = <<toUInt8(text)>>
         /\ First(text, "-") # 0 =>
              LET lowerBound == toUInt8(SubSeq(text, 1, First(text, "-") - 1))
                  upperBound == toUInt8(SubSeq(text, First(text, "-") + 1, Len(text)))
              IN expandRange(text) =
                   [c \in 1..(upperBound - lowerBound + 1) |-> lowerBound + c - 1]
BY Zenon DEF expandRange, First

LEMMA NumberType ==
  ASSUME NEW s \in Seq(Known)
  PROVE  toUInt8(s) \in 0..255
<1>1. 256 \in Nat \ {0}
  OBVIOUS
<1>2. ToUInt(s, 256) \in 0..(256 - 1)
  BY <1>1, ToUIntType
<1> QED
  BY <1>2 DEF toUInt8

LEMMA ExpandRangeType ==
  ASSUME NEW text \in Seq(Known)
  PROVE  expandRange(text) \in Seq(0..255)
<1> DEFINE dash == First(text, "-")
<1>1. dash \in 0..Len(text) /\ Len(text) \in Nat
  BY FirstIs, LenProperties
<1>2. \A s \in Seq(Known) : toUInt8(s) \in 0..255
  BY NumberType
<1>3. CASE dash = 0
  <2>1. toUInt8(text) \in 0..255
    BY <1>2
  <2>2. <<toUInt8(text)>> \in Seq(0..255)
    BY <2>1
  <2> QED
    BY <1>3, <2>2, ExpandRangeIs
<1>4. CASE dash # 0
  <2> DEFINE l == toUInt8(SubSeq(text, 1, dash - 1))
             u == toUInt8(SubSeq(text, dash + 1, Len(text)))
             s == [c \in 1..(u - l + 1) |-> l + c - 1]
  <2> HIDE DEF dash
  <2>1. \A i \in 1..Len(text) : text[i] \in Known
    BY ElementOfSeq
  <2>2. SubSeq(text, 1, dash - 1) \in Seq(Known)
    BY <1>1, <2>1, SubSeqProperties
  <2>3. SubSeq(text, dash + 1, Len(text)) \in Seq(Known)
    BY <1>1, <2>1, SubSeqProperties
  <2>4. l \in 0..255 /\ u \in 0..255
    BY <1>2, <2>2, <2>3
  <2>5. expandRange(text) = s
    BY <1>4, ExpandRangeIs, Zenon DEF dash
  <2> HIDE DEF l, u
  <2>6. s \in Seq(l..u)
    BY <2>4, IntervalIs
  <2>7. l..u \subseteq 0..255
    BY <2>4
  <2> HIDE DEF s
  <2>8. s \in Seq(0..255)
    <3>1. Len(s) \in Nat /\ s = [i \in 1..Len(s) |-> s[i]]
      BY <2>6
    <3>2. \A i \in 1..Len(s) : s[i] \in 0..255
      BY <2>6, <2>7, ElementOfSeq
    <3> DEFINE n == Len(s)
    <3> HIDE DEF n
    <3>3. n \in Nat /\ s = [i \in 1..n |-> s[i]] /\ \A i \in 1..n : s[i] \in 0..255
      BY <3>1, <3>2 DEF n
    <3>4. [i \in 1..n |-> s[i]] \in [1..n -> 0..255]
      BY <3>3
    <3>5. [i \in 1..n |-> s[i]] \in Seq(0..255)
      BY <3>3, <3>4, FunctionIsSeq, Zenon
    <3> QED
      BY <3>3, <3>5
  <2> QED
    BY <2>5, <2>8
<1> QED
  BY <1>3, <1>4

-----------------------------------------------------------------------------
(* The search by halves.                                                   *)

IsHalf(res, v, half) ==
  half = [part \in (1..(Len(res) + 1)) \X (0..Len(res)) |->
            LET mid == (part[1] + part[2]) \div 2
            IN /\ part[1] <= part[2]
               /\ \/ res[mid] = v
                  \/ res[mid] < v /\ half[<<mid + 1, part[2]>>]
                  \/ res[mid] > v /\ half[<<part[1], mid - 1>>]]

Between(res, v, a, b) == \E i \in a..b : res[i] = v

LEMMA Trichotomy ==
  ASSUME NEW x \in Int, NEW y \in Int
  PROVE  y < x \/ y = x \/ y > x
OBVIOUS

LEMMA Halves ==
  ASSUME NEW res \in Seq(Int), Ascending(res), NEW v \in Int,
         NEW a \in 1..(Len(res) + 1), NEW b \in 0..Len(res), a <= b
  PROVE  LET mid == (a + b) \div 2 IN
         /\ mid \in a..b /\ res[mid] \in Int
         /\ mid + 1 \in 1..(Len(res) + 1) /\ mid - 1 \in 0..Len(res)
         /\ res[mid] = v => Between(res, v, a, b)
         /\ res[mid] < v => (Between(res, v, a, b) <=> Between(res, v, mid + 1, b))
         /\ res[mid] > v => (Between(res, v, a, b) <=> Between(res, v, a, mid - 1))
<1> DEFINE mid == (a + b) \div 2
<1>1. Len(res) \in Nat /\ DOMAIN res = 1..Len(res)
  BY LenProperties
<1>0. \A x, y \in Int : ~(x < y /\ y < x) /\ ~(x < y /\ x = y) /\ ~(x > y /\ x = y)
                        /\ (x < y <=> y > x)
  OBVIOUS
<1>2. mid \in a..b
  BY <1>1
<1> HIDE DEF mid
<1>3. a..b \subseteq 1..Len(res)
  BY <1>1
<1>4. \A i \in a..b : res[i] \in Int
  BY <1>3, ElementOfSeq
<1>5. \A i, j \in a..b : i < j => res[i] < res[j]
  BY <1>1, <1>3 DEF Ascending
<1>6. mid + 1 \in 1..(Len(res) + 1) /\ mid - 1 \in 0..Len(res)
  BY <1>1, <1>2
<1>7. ASSUME res[mid] < v PROVE Between(res, v, a, b) <=> Between(res, v, mid + 1, b)
  <2>1. ASSUME NEW i \in a..b, res[i] = v PROVE i \in (mid + 1)..b
    <3>1. i = mid \/ i < mid \/ i > mid
      BY <1>1, <1>2
    <3>2. ~(i = mid)
      BY <1>2, <1>4, <1>7, <2>1
    <3>3. ~(i < mid)
      BY <1>2, <1>4, <1>5, <1>7, <2>1
    <3> QED
      BY <1>1, <1>2, <3>1, <3>2, <3>3
  <2>2. (mid + 1)..b \subseteq a..b
    BY <1>1, <1>2
  <2> QED
    BY <2>1, <2>2 DEF Between
<1>8. ASSUME res[mid] > v PROVE Between(res, v, a, b) <=> Between(res, v, a, mid - 1)
  <2>1. ASSUME NEW i \in a..b, res[i] = v PROVE i \in a..(mid - 1)
    <3>1. i = mid \/ i < mid \/ i > mid
      BY <1>1, <1>2
    <3>2. ~(i = mid)
      BY <1>2, <1>4, <1>8, <2>1
    <3>3. ~(i > mid)
      BY <1>2, <1>4, <1>5, <1>8, <2>1
    <3> QED
      BY <1>1, <1>2, <3>1, <3>2, <3>3
  <2>2. a..(mid - 1) \subseteq a..b
    BY <1>1, <1>2
  <2> QED
    BY <2>1, <2>2 DEF Between
<1>9. res[mid] = v => Between(res, v, a, b)
  BY <1>2 DEF Between
<1> QED
  BY <1>2, <1>4, <1>6, <1>7, <1>8, <1>9 DEF mid

\* In a list in order the search finds what is there, and nothing else.
LEMMA BsearchIs ==
  ASSUME NEW res \in Seq(Int), Ascending(res), NEW v \in Int
  PROVE  Bsearch(res, v) <=> v \in ToSet(res)
<1> DEFINE n == Len(res)
           D == (1..(n + 1)) \X (0..n)
           mid(part) == (part[1] + part[2]) \div 2
           body(f, part) ==
             /\ part[1] <= part[2]
             /\ \/ res[mid(part)] = v
                \/ res[mid(part)] < v /\ f[<<mid(part) + 1, part[2]>>]
                \/ res[mid(part)] > v /\ f[<<part[1], mid(part) - 1>>]
           half == CHOOSE f : IsHalf(res, v, f)
<1>1. n \in Nat /\ DOMAIN res = 1..n
  BY LenProperties
<1>2. Bsearch(res, v) = half[<<1, n>>]
  BY Zenon DEF Bsearch, IsHalf
<1>3. ASSUME NEW part \in D, ~(part[1] <= part[2])
      PROVE  ~Between(res, v, part[1], part[2])
  BY <1>1, <1>3 DEF Between
<1>4. ASSUME NEW part \in D, part[1] <= part[2]
      PROVE  /\ mid(part) \in part[1]..part[2] /\ res[mid(part)] \in Int
             /\ <<mid(part) + 1, part[2]>> \in D /\ <<part[1], mid(part) - 1>> \in D
             /\ res[mid(part)] = v => Between(res, v, part[1], part[2])
             /\ res[mid(part)] < v => (Between(res, v, part[1], part[2])
                                       <=> Between(res, v, mid(part) + 1, part[2]))
             /\ res[mid(part)] > v => (Between(res, v, part[1], part[2])
                                       <=> Between(res, v, part[1], mid(part) - 1))
  <2>1. part[1] \in 1..(n + 1) /\ part[2] \in 0..n
    OBVIOUS
  <2> QED
    BY <1>4, <2>1, Halves
<1> HIDE DEF mid
<1>5. IsHalf(res, v, half)
  <2> DEFINE f == [part \in D |-> Between(res, v, part[1], part[2])]
  <2>1. ASSUME NEW part \in D PROVE f[part] = body(f, part)
    <3>1. f[part] = Between(res, v, part[1], part[2])
      OBVIOUS
    <3>2. CASE ~(part[1] <= part[2])
      BY <1>3, <3>1, <3>2 DEF Between
    <3>3. CASE part[1] <= part[2]
      <4>1. /\ f[<<mid(part) + 1, part[2]>>] = Between(res, v, mid(part) + 1, part[2])
            /\ f[<<part[1], mid(part) - 1>>] = Between(res, v, part[1], mid(part) - 1)
        BY <1>4, <3>3
      <4>2. v < res[mid(part)] \/ v = res[mid(part)] \/ v > res[mid(part)]
        BY <1>4, <3>3, Trichotomy, Zenon
      <4> HIDE DEF f, D
      <4>3. f[part] <=> body(f, part)
        BY <1>4, <3>1, <3>3, <4>1, <4>2
      <4>4. f[part] \in BOOLEAN /\ body(f, part) \in BOOLEAN
        BY <3>1 DEF Between
      <4> QED
        BY <4>3, <4>4
    <3> QED
      BY <3>2, <3>3
  <2>2. f = [part \in D |-> f[part]]
    OBVIOUS
  <2> HIDE DEF f
  <2>3. f = [part \in D |-> body(f, part)]
    BY <2>1, <2>2, Zenon
  <2>4. IsHalf(res, v, f)
    BY <2>3, Zenon DEF IsHalf, mid
  <2> QED
    BY <2>4, Zenon
<1> HIDE DEF half
<1>6. ASSUME NEW part \in D PROVE half[part] = body(half, part)
  <2> DEFINE f == [q \in D |-> body(half, q)]
  <2>1. f[part] = body(half, part)
    BY Zenon
  <2>2. half = f
    BY <1>5, Zenon DEF IsHalf, mid
  <2> HIDE DEF f
  <2> QED
    BY <2>1, <2>2, Zenon
<1> DEFINE P == {k \in Nat : \A part \in D :
                   part[2] - part[1] < k => (half[part] <=> Between(res, v, part[1], part[2]))}
<1>7. 0 \in P
  <2> SUFFICES ASSUME NEW part \in D, part[2] - part[1] < 0
               PROVE  half[part] <=> Between(res, v, part[1], part[2])
    OBVIOUS
  <2>1. ~(part[1] <= part[2])
    BY <1>1
  <2> QED
    BY <1>3, <1>6, <2>1
<1>8. ASSUME NEW k \in Nat, k \in P PROVE k + 1 \in P
  <2> SUFFICES ASSUME NEW part \in D, part[2] - part[1] < k + 1
               PROVE  half[part] <=> Between(res, v, part[1], part[2])
    OBVIOUS
  <2>1. CASE ~(part[1] <= part[2])
    BY <1>3, <1>6, <2>1
  <2>2. CASE part[1] <= part[2]
    <3> DEFINE up == <<mid(part) + 1, part[2]>>
               down == <<part[1], mid(part) - 1>>
    <3>1. up \in D /\ down \in D /\ mid(part) \in part[1]..part[2]
      BY <1>4, <2>2
    <3>2. part[1] \in Int /\ part[2] \in Int /\ mid(part) \in Int
      BY <1>1, <3>1
    <3>3. up[2] - up[1] < k /\ down[2] - down[1] < k
      <4>1. /\ up[1] = mid(part) + 1 /\ up[2] = part[2]
            /\ down[1] = part[1] /\ down[2] = mid(part) - 1
        OBVIOUS
      <4>2. mid(part) >= part[1] /\ mid(part) <= part[2]
        BY <3>1, <3>2
      <4> QED
        BY <1>8, <3>2, <4>1, <4>2
    <3>4. half[up] <=> Between(res, v, up[1], up[2])
      BY <1>8, <3>1, <3>3
    <3>5. half[down] <=> Between(res, v, down[1], down[2])
      BY <1>8, <3>1, <3>3
    <3>6. v < res[mid(part)] \/ v = res[mid(part)] \/ v > res[mid(part)]
      BY <1>4, <2>2, Trichotomy, Zenon
    <3> QED
      BY <1>4, <1>6, <2>2, <3>4, <3>5, <3>6
  <2> QED
    BY <2>1, <2>2
<1>9. half[<<1, n>>] <=> Between(res, v, 1, n)
  <2> HIDE DEF P
  <2>1. n + 1 \in P
    BY <1>1, <1>7, <1>8, SetInduction
  <2>2. <<1, n>> \in D /\ n - 1 < n + 1
    BY <1>1
  <2> QED
    BY <2>1, <2>2 DEF P
<1>10. Between(res, v, 1, n) <=> v \in ToSet(res)
  BY <1>1 DEF Between, ToSet
<1> QED
  BY <1>2, <1>9, <1>10

-----------------------------------------------------------------------------
(* A list is kept in order while it is put together.                       *)

Exchanged(r, c) ==
  IF r[c - 1] > r[c] THEN [r EXCEPT ![c - 1] = r[c], ![c] = r[c - 1]] ELSE r

Downward(n) == Reverse([c \in 1..(n - 1) |-> c + 1])

LEMMA DownwardIs ==
  ASSUME NEW n \in Nat \ {0}
  PROVE  /\ Downward(n) \in Seq(2..n) /\ Len(Downward(n)) = n - 1
         /\ \A m \in 1..(n - 1) : Downward(n)[m] = n - m + 1
<1> DEFINE up == [c \in 1..(n - 1) |-> c + 1]
           k == n - 1
           down == [i \in 1..k |-> up[(k - i) + 1]]
<1>1. k \in Nat /\ DOMAIN up = 1..k /\ up = [c \in 1..k |-> c + 1]
  OBVIOUS
<1>2. up \in [1..k -> Nat]
  BY <1>1
<1>3. \A i \in 1..k : up[(k - i) + 1] = n - i + 1 /\ up[(k - i) + 1] \in 2..n
  OBVIOUS
<1> HIDE DEF up, k
<1>4. up \in Seq(Nat)
  BY <1>1, <1>2, FunctionIsSeq
<1>5. Len(up) = k
  BY <1>1, <1>4, LenProperties
<1>6. Downward(n) = down
  <2>1. Downward(n) = [i \in 1..Len(up) |-> up[(Len(up) - i) + 1]]
    BY Zenon DEF Downward, Reverse, up
  <2> QED
    BY <1>5, <2>1
<1>7. down \in [1..k -> 2..n] /\ \A i \in 1..k : down[i] = n - i + 1
  BY <1>3
<1> HIDE DEF down
<1>8. down \in Seq(2..n) /\ Len(down) = k
  BY <1>1, <1>7, FunctionIsSeq, LenProperties
<1> QED
  BY <1>6, <1>7, <1>8 DEF k

IsSettled(seq, res, g) ==
  g = [s \in SUBSET DOMAIN seq |->
         IF s = {} THEN res ELSE Exchanged(g[s \ {Max(s)}], seq[Max(s)])]

LEMMA ExchangedType ==
  ASSUME NEW n \in Nat, NEW V \in SUBSET Int, NEW r \in [1..n -> V], NEW c \in 2..n
  PROVE  /\ Exchanged(r, c) \in [1..n -> V]
         /\ ~(r[c - 1] > r[c]) => Exchanged(r, c) = r
<1>1. c - 1 \in 1..n /\ c \in 1..n /\ c # c - 1
  OBVIOUS
<1>2. r[c - 1] \in V /\ r[c] \in V
  BY <1>1
<1> DEFINE e == [r EXCEPT ![c - 1] = r[c], ![c] = r[c - 1]]
<1>3. e \in [1..n -> V]
  BY <1>1, <1>2
<1> QED
  BY <1>3, Zenon DEF Exchanged

SettledStages(res, n, V, h) ==
  /\ h \in [0..(n - 1) -> [1..n -> V]] /\ h[0] = res
  /\ \A m \in 1..(n - 1) : h[m] = Exchanged(h[m - 1], n - m + 1)

LEMMA SettledIs ==
  ASSUME NEW n \in Nat \ {0}, NEW V \in SUBSET Int, NEW res \in [1..n -> V]
  PROVE  \E h : SettledStages(res, n, V, h) /\ h[n - 1] = Settled(res)
<1> DEFINE S == [1..n -> V]
           C == 2..n
           seq == Downward(n)
           step == [x \in S \X C |-> Exchanged(x[1], x[2])]
           g == CHOOSE f : IsSettled(seq, res, f)
<1>1. step \in [S \X C -> S]
  <2>1. \A x \in S \X C : x[1] \in S /\ x[2] \in C
    OBVIOUS
  <2>2. \A x \in S \X C : Exchanged(x[1], x[2]) \in S
    BY <2>1, ExchangedType
  <2> HIDE DEF S
  <2> QED
    BY <2>2
<1>2. \A r \in S, c \in C : step[r, c] = Exchanged(r, c)
  OBVIOUS
<1>3. /\ seq \in Seq(C) /\ Len(seq) = n - 1 /\ n - 1 \in Nat
      /\ \A m \in 1..(n - 1) : seq[m] = n - m + 1
  BY DownwardIs
<1>4. Len(res) = n
  <2>1. res \in Seq(V)
    BY FunctionIsSeq
  <2> QED
    BY <2>1, LenProperties
<1>5. Settled(res) = g[DOMAIN seq]
  <2>1. Settled(res) = (CHOOSE f : IsSettled(Downward(Len(res)), res, f))[DOMAIN Downward(Len(res))]
    BY Zenon DEF Settled, FoldLeft, MapThenFoldSet, IsSettled, Exchanged, Downward
  <2> QED
    BY <1>4, <2>1, Zenon
<1> HIDE DEF step, S, C, seq
<1>6. DOMAIN seq = 1..Len(seq)
  BY <1>3, LenProperties
<1>7. \A s \in SUBSET DOMAIN seq : s # {} => seq[Max(s)] \in C
  BY <1>3, <1>6, GreatestOfPlaces, ElementOfSeq
<1>8. res \in S
  BY DEF S
<1>9. IsSettled(seq, res, g)
  <2>1. PICK f \in [SUBSET DOMAIN seq -> S] : IsFold(Len(seq), seq, res, step, f)
    BY <1>1, <1>3, <1>8, FoldExists
  <2>2. ASSUME NEW s \in SUBSET DOMAIN seq
        PROVE  f[s] = IF s = {} THEN res ELSE Exchanged(f[s \ {Max(s)}], seq[Max(s)])
    <3>1. f[s] = IF s = {} THEN res ELSE step[f[s \ {Max(s)}], seq[Max(s)]]
      BY <1>6, <2>1, Zenon DEF IsFold
    <3>2. f[s \ {Max(s)}] \in S
      <4>1. s \ {Max(s)} \in SUBSET DOMAIN seq
        OBVIOUS
      <4> QED
        BY <4>1
    <3> QED
      BY <1>2, <1>7, <3>1, <3>2, Zenon
  <2>3. f = [s \in SUBSET DOMAIN seq |-> f[s]]
    OBVIOUS
  <2>4. IsSettled(seq, res, f)
    BY <2>2, <2>3, Zenon DEF IsSettled
  <2> QED
    BY <2>4, Zenon
<1> HIDE DEF g
<1>10. FoldBy(seq, S, res, step, g)
  <2> SUFFICES ASSUME NEW s \in SUBSET DOMAIN seq
               PROVE  IF s = {} THEN g[s] = res
                      ELSE g[s \ {Max(s)}] \in S => g[s] = step[g[s \ {Max(s)}], seq[Max(s)]]
    BY Zenon DEF FoldBy
  <2> DEFINE f == [r \in SUBSET DOMAIN seq |->
                     IF r = {} THEN res ELSE Exchanged(g[r \ {Max(r)}], seq[Max(r)])]
  <2>1. f[s] = IF s = {} THEN res ELSE Exchanged(g[s \ {Max(s)}], seq[Max(s)])
    BY Zenon
  <2>2. g = f
    BY <1>9, Zenon DEF IsSettled
  <2> HIDE DEF f
  <2> QED
    BY <1>2, <1>7, <2>1, <2>2, Zenon
<1>11. PICK h : Staged(seq, S, res, step, g[DOMAIN seq], h)
  BY <1>1, <1>3, <1>8, <1>10, FoldStages, Zenon
<1>12. h \in [0..(n - 1) -> S] /\ h[0] = res /\ h[n - 1] = g[DOMAIN seq]
  BY <1>3, <1>11, Zenon DEF Staged
<1>13. ASSUME NEW m \in 1..(n - 1) PROVE h[m] = Exchanged(h[m - 1], n - m + 1)
  <2>1. m - 1 \in 0..(n - 1) /\ m \in 1..Len(seq)
    BY <1>3
  <2>2. h[m - 1] \in S /\ seq[m] \in C
    BY <1>3, <1>12, <2>1, ElementOfSeq
  <2>3. h[m] = step[h[m - 1], seq[m]]
    BY <1>11, <2>1, Zenon DEF Staged
  <2> QED
    BY <1>2, <1>3, <2>2, <2>3
<1> QED
  BY <1>5, <1>12, <1>13, Zenon DEF SettledStages, S

\* in order, but for the element at place p
ButOne(r, n, p) ==
  /\ \A i, j \in 1..n : (i < j /\ j # p) => r[i] < r[j]
  /\ \A i, j \in 1..n : i # j => r[i] # r[j]

\* Exchanging with the neighbour moves the place down.
LEMMA ExchangedOrder ==
  ASSUME NEW n \in Nat, NEW V \in SUBSET Int, NEW r \in [1..n -> V], NEW p \in 2..n,
         ButOne(r, n, p)
  PROVE  ButOne(Exchanged(r, p), n, p - 1)
<1> DEFINE e == Exchanged(r, p)
<1>1. p - 1 \in 1..n /\ p \in 1..n /\ p - 1 < p
  OBVIOUS
<1>2. \A i \in 1..n : r[i] \in Int
  OBVIOUS
<1>3. r[p - 1] # r[p]
  BY <1>1 DEF ButOne
<1>4. CASE r[p - 1] > r[p]
  <2>1. \A i \in 1..n : e[i] = IF i = p THEN r[p - 1] ELSE IF i = p - 1 THEN r[p] ELSE r[i]
    <3>1. e = [r EXCEPT ![p - 1] = r[p], ![p] = r[p - 1]]
      BY <1>4 DEF Exchanged
    <3> HIDE DEF e
    <3> QED
      BY <1>1, <3>1
  <2> HIDE DEF e
  <2>2. ASSUME NEW i \in 1..n, NEW j \in 1..n, i < j, j # p - 1 PROVE e[i] < e[j]
    <3>1. CASE j = p /\ i = p - 1
      BY <1>1, <1>2, <1>4, <2>1, <3>1
    <3>2. CASE j = p /\ i # p - 1
      <4>1. i < p - 1 /\ i # p /\ p - 1 # p
        BY <2>2, <3>2
      <4>2. r[i] < r[p - 1]
        BY <1>1, <4>1 DEF ButOne
      <4> QED
        BY <1>1, <2>1, <3>2, <4>1, <4>2
    <3>3. CASE j # p
      <4>1. e[j] = r[j]
        BY <2>1, <2>2, <3>3
      <4>2. CASE i = p
        <5>1. p - 1 < j
          BY <2>2, <4>2
        <5>2. r[p - 1] < r[j]
          BY <1>1, <3>3, <5>1 DEF ButOne
        <5> QED
          BY <2>1, <4>1, <4>2, <5>2
      <4>3. CASE i = p - 1
        <5>1. p < j
          BY <2>2, <3>3, <4>3
        <5>2. r[p] < r[j]
          BY <1>1, <3>3, <5>1 DEF ButOne
        <5> QED
          BY <1>1, <2>1, <4>1, <4>3, <5>2
      <4>4. CASE i # p /\ i # p - 1
        BY <2>1, <2>2, <3>3, <4>1, <4>4 DEF ButOne
      <4> QED
        BY <4>2, <4>3, <4>4
    <3> QED
      BY <3>1, <3>2, <3>3
  <2>3. ASSUME NEW i \in 1..n, NEW j \in 1..n, i # j PROVE e[i] # e[j]
    <3> DEFINE at(k) == IF k = p THEN p - 1 ELSE IF k = p - 1 THEN p ELSE k
    <3>1. at(i) \in 1..n /\ at(j) \in 1..n /\ at(i) # at(j)
      BY <1>1, <2>3
    <3>2. e[i] = r[at(i)] /\ e[j] = r[at(j)]
      BY <2>1
    <3> HIDE DEF at
    <3> QED
      BY <3>1, <3>2 DEF ButOne
  <2> QED
    BY <2>2, <2>3 DEF ButOne, e
<1>5. CASE ~(r[p - 1] > r[p])
  <2>1. e = r
    BY <1>5, ExchangedType
  <2> HIDE DEF e
  <2>2. r[p - 1] < r[p]
    BY <1>1, <1>2, <1>3, <1>5
  <2>3. ASSUME NEW i \in 1..n, NEW j \in 1..n, i < j PROVE r[i] < r[j]
    <3>1. CASE j # p
      BY <2>3, <3>1 DEF ButOne
    <3>2. CASE j = p /\ i = p - 1
      BY <2>2, <3>2
    <3>3. CASE j = p /\ i # p - 1
      <4>1. i < p - 1 /\ p - 1 # p
        BY <2>3, <3>3
      <4>2. r[i] < r[p - 1]
        BY <1>1, <4>1 DEF ButOne
      <4> QED
        BY <1>1, <1>2, <2>2, <3>3, <4>2
    <3> QED
      BY <3>1, <3>2, <3>3
  <2> QED
    BY <2>1, <2>3 DEF ButOne, e
<1> QED
  BY <1>4, <1>5

\* Whatever is added to a list in order at its end settles down to its place.
LEMMA SettledOrder ==
  ASSUME NEW n \in Nat \ {0}, NEW V \in SUBSET Int, NEW res \in [1..n -> V], ButOne(res, n, n)
  PROVE  Settled(res) \in [1..n -> V] /\ \A i, j \in 1..n : i < j => Settled(res)[i] < Settled(res)[j]
<1>1. PICK h : SettledStages(res, n, V, h) /\ h[n - 1] = Settled(res)
  BY SettledIs
<1>2. /\ h \in [0..(n - 1) -> [1..n -> V]] /\ h[0] = res
      /\ \A m \in 1..(n - 1) : h[m] = Exchanged(h[m - 1], n - m + 1)
  BY <1>1, Zenon DEF SettledStages
<1> DEFINE P == {m \in Nat : m <= n - 1 => ButOne(h[m], n, n - m)}
<1>3. 0 \in P
  BY <1>2
<1>4. ASSUME NEW m \in Nat, m \in P PROVE m + 1 \in P
  <2> SUFFICES ASSUME m + 1 <= n - 1 PROVE ButOne(h[m + 1], n, n - (m + 1))
    OBVIOUS
  <2> DEFINE k == m + 1
             p == n - m
  <2>1. k \in 1..(n - 1) /\ k - 1 = m /\ p \in 2..n /\ n - k + 1 = p /\ n - k = p - 1
    OBVIOUS
  <2>2. m \in 0..(n - 1) /\ ButOne(h[m], n, p)
    BY <1>4
  <2> HIDE DEF k, p
  <2>3. h[k] = Exchanged(h[m], p)
    BY <1>2, <2>1
  <2>4. h[m] \in [1..n -> V]
    BY <1>2, <2>2
  <2>5. ButOne(Exchanged(h[m], p), n, p - 1)
    BY <2>1, <2>2, <2>4, ExchangedOrder
  <2> QED
    BY <2>1, <2>3, <2>5 DEF k
<1>5. n - 1 \in P
  <2> HIDE DEF P
  <2> QED
    BY <1>3, <1>4, SetInduction
<1>6. ButOne(h[n - 1], n, 1)
  BY <1>5
<1>7. h[n - 1] \in [1..n -> V]
  BY <1>2
<1>8. \A i, j \in 1..n : i < j => h[n - 1][i] < h[n - 1][j]
  <2> SUFFICES ASSUME NEW i \in 1..n, NEW j \in 1..n, i < j PROVE h[n - 1][i] < h[n - 1][j]
    OBVIOUS
  <2>1. j # 1
    OBVIOUS
  <2> QED
    BY <1>6, <2>1 DEF ButOne
<1> QED
  BY <1>1, <1>7, <1>8

LampLists == {r \in Seq(0..255) : Ascending(r)}

LEMMA InsertedType ==
  ASSUME NEW res \in LampLists, NEW v \in 0..255
  PROVE  Inserted(res, v) \in LampLists
<1>1. res \in Seq(0..255) /\ Ascending(res) /\ res \in Seq(Int) /\ v \in Int
  <2>1. 0..255 \subseteq Int
    OBVIOUS
  <2>2. res \in Seq(0..255) /\ Ascending(res)
    BY DEF LampLists
  <2> QED
    BY <2>1, <2>2, SeqMonotonic
<1>2. CASE v \in ToSet(res)
  <2>1. Bsearch(res, v)
    BY <1>1, <1>2, BsearchIs
  <2> QED
    BY <2>1 DEF Inserted
<1>3. CASE v \notin ToSet(res)
  <2> DEFINE k == Len(res)
             n == k + 1
             a == Append(res, v)
  <2>1. k \in Nat /\ DOMAIN res = 1..k /\ n \in Nat \ {0}
    BY <1>1, LenProperties
  <2>2. /\ a \in Seq(0..255) /\ Len(a) = n /\ a[n] = v
        /\ \A i \in 1..k : a[i] = res[i]
    BY <1>1, AppendProperties
  <2> HIDE DEF a, k
  <2>3. a \in [1..n -> 0..255]
    <3>1. a \in [1..Len(a) -> 0..255]
      BY <2>2, LenProperties
    <3> QED
      BY <2>2, <3>1
  <2>4. \A i \in 1..k : res[i] # v
    BY <1>3, <2>1 DEF ToSet
  <2>5. \A i, j \in 1..k : i < j => res[i] < res[j]
    BY <1>1, <2>1 DEF Ascending
  <2>6. \A i, j \in 1..k : i # j => res[i] # res[j]
    <3> SUFFICES ASSUME NEW i \in 1..k, NEW j \in 1..k, i # j PROVE res[i] # res[j]
      OBVIOUS
    <3>1. i < j \/ j < i
      OBVIOUS
    <3>2. res[i] \in Int /\ res[j] \in Int
      BY <1>1, ElementOfSeq DEF k
    <3> QED
      BY <2>5, <3>1, <3>2
  <2>7. ButOne(a, n, n)
    <3>1. \A i \in 1..n : i = n \/ i \in 1..k
      BY <2>1
    <3>2. ASSUME NEW i \in 1..n, NEW j \in 1..n, i < j, j # n PROVE a[i] < a[j]
      <4>1. i \in 1..k /\ j \in 1..k
        BY <2>1, <3>2
      <4> QED
        BY <2>2, <2>5, <3>2, <4>1
    <3>3. ASSUME NEW i \in 1..n, NEW j \in 1..n, i # j PROVE a[i] # a[j]
      BY <2>2, <2>4, <2>6, <3>1, <3>3
    <3> QED
      BY <3>2, <3>3 DEF ButOne
  <2>8. /\ Settled(a) \in [1..n -> 0..255]
        /\ \A i, j \in 1..n : i < j => Settled(a)[i] < Settled(a)[j]
    <3>1. 0..255 \in SUBSET Int
      OBVIOUS
    <3> QED
      BY <2>1, <2>3, <2>7, <3>1, SettledOrder
  <2>9. Settled(a) \in Seq(0..255)
    BY <2>1, <2>8, FunctionIsSeq
  <2>10. DOMAIN Settled(a) = 1..n
    BY <2>8
  <2>11. Settled(a) \in LampLists
    BY <2>8, <2>9, <2>10 DEF LampLists, Ascending
  <2>12. ~Bsearch(res, v)
    BY <1>1, <1>3, BsearchIs
  <2> QED
    BY <2>11, <2>12 DEF Inserted, a
<1> QED
  BY <1>2, <1>3

IsPutTogether(seq, g) ==
  g = [s \in SUBSET DOMAIN seq |->
         IF s = {} THEN << >> ELSE Inserted(g[s \ {Max(s)}], seq[Max(s)])]

LEMMA PutTogetherIs ==
  ASSUME NEW seq \in Seq(0..255)
  PROVE  (CHOOSE g : IsPutTogether(seq, g))[DOMAIN seq] \in LampLists
<1> DEFINE S == LampLists
           C == 0..255
           base == << >>
           step == [x \in S \X C |-> Inserted(x[1], x[2])]
           g == CHOOSE f : IsPutTogether(seq, f)
<1>1. step \in [S \X C -> S]
  <2>1. \A x \in S \X C : x[1] \in S /\ x[2] \in C
    OBVIOUS
  <2>2. \A x \in S \X C : Inserted(x[1], x[2]) \in S
    BY <2>1, InsertedType
  <2> HIDE DEF S
  <2> QED
    BY <2>2
<1>2. \A r \in S, c \in C : step[r, c] = Inserted(r, c)
  OBVIOUS
<1>3. base \in S
  <2>1. base \in Seq(0..255) /\ DOMAIN base = {}
    OBVIOUS
  <2> QED
    BY <2>1 DEF LampLists, Ascending
<1> HIDE DEF step, S, C, base
<1>4. seq \in Seq(C)
  BY DEF C
<1>5. DOMAIN seq = 1..Len(seq) /\ Len(seq) \in Nat
  BY LenProperties
<1>6. \A s \in SUBSET DOMAIN seq : s # {} => seq[Max(s)] \in C
  BY <1>4, <1>5, GreatestOfPlaces, ElementOfSeq
<1>7. IsPutTogether(seq, g)
  <2>1. PICK f \in [SUBSET DOMAIN seq -> S] : IsFold(Len(seq), seq, base, step, f)
    BY <1>1, <1>3, <1>4, FoldExists
  <2>2. ASSUME NEW s \in SUBSET DOMAIN seq
        PROVE  f[s] = IF s = {} THEN << >> ELSE Inserted(f[s \ {Max(s)}], seq[Max(s)])
    <3>1. f[s] = IF s = {} THEN base ELSE step[f[s \ {Max(s)}], seq[Max(s)]]
      BY <1>5, <2>1, Zenon DEF IsFold
    <3>2. f[s \ {Max(s)}] \in S
      <4>1. s \ {Max(s)} \in SUBSET DOMAIN seq
        OBVIOUS
      <4> QED
        BY <4>1
    <3> QED
      BY <1>2, <1>6, <3>1, <3>2, Zenon DEF base
  <2>3. f = [s \in SUBSET DOMAIN seq |-> f[s]]
    OBVIOUS
  <2>4. IsPutTogether(seq, f)
    BY <2>2, <2>3, Zenon DEF IsPutTogether
  <2> QED
    BY <2>4, Zenon
<1> HIDE DEF g
<1>8. FoldBy(seq, S, base, step, g)
  <2> SUFFICES ASSUME NEW s \in SUBSET DOMAIN seq
               PROVE  IF s = {} THEN g[s] = base
                      ELSE g[s \ {Max(s)}] \in S => g[s] = step[g[s \ {Max(s)}], seq[Max(s)]]
    BY Zenon DEF FoldBy
  <2> DEFINE f == [r \in SUBSET DOMAIN seq |->
                     IF r = {} THEN << >> ELSE Inserted(g[r \ {Max(r)}], seq[Max(r)])]
  <2>1. f[s] = IF s = {} THEN << >> ELSE Inserted(g[s \ {Max(s)}], seq[Max(s)])
    BY Zenon
  <2>2. g = f
    BY <1>7, Zenon DEF IsPutTogether
  <2> HIDE DEF f
  <2> QED
    BY <1>2, <1>6, <2>1, <2>2, Zenon DEF base
<1>9. PICK h : Staged(seq, S, base, step, g[DOMAIN seq], h)
  BY <1>1, <1>3, <1>4, <1>8, FoldStages, Zenon
<1>10. h \in [0..Len(seq) -> S] /\ h[Len(seq)] = g[DOMAIN seq]
  BY <1>9, Zenon DEF Staged
<1>11. Len(seq) \in 0..Len(seq)
  BY <1>5
<1> QED
  BY <1>10, <1>11 DEF S, g

\* The numbers a list of lamps names, one after the other.
Named(description) ==
  FlattenSeq([k \in DOMAIN Fields(stripWhitespaces(description)) |->
                expandRange(Fields(stripWhitespaces(description))[k])])

LEMMA NamedType ==
  ASSUME NEW text \in Seq(Known)
  PROVE  Named(text) \in Seq(0..255)
<1> DEFINE C == Known \ {" "}
           fields == Fields(stripWhitespaces(text))
           n == Len(fields)
           ranges == [k \in DOMAIN fields |-> expandRange(fields[k])]
<1>1. stripWhitespaces(text) \in Seq(C)
  BY StripType
<1>2. fields \in Seq(Seq(C \ {","}) \ {<< >>})
  BY <1>1, FieldsType
<1>3. n \in Nat /\ DOMAIN fields = 1..n
  BY <1>2, LenProperties
<1>4. ASSUME NEW k \in 1..n PROVE fields[k] \in Seq(Known)
  <2>1. fields[k] \in Seq(C \ {","})
    BY <1>2, ElementOfSeq
  <2>2. C \ {","} \subseteq Known
    OBVIOUS
  <2> QED
    BY <2>1, <2>2, SeqMonotonic
<1> HIDE DEF fields
<1>5. \A k \in 1..n : expandRange(fields[k]) \in Seq(0..255)
  BY <1>4, ExpandRangeType
<1> DEFINE V == Seq(0..255)
<1> HIDE DEF n, V
<1>6. ranges \in [1..n -> V]
  BY <1>3, <1>5 DEF V
<1>7. ranges \in Seq(V)
  BY <1>3, <1>6, FunctionIsSeq
<1>8. FlattenSeq(ranges) \in Seq(0..255)
  BY <1>7, FlattenType, Zenon DEF V
<1> QED
  BY <1>8, Zenon DEF Named, fields

LEMMA ExpandLampDescriptionType ==
  ASSUME NEW text \in Seq(Known)
  PROVE  expandLampDescription(text) \in LampLists
<1> DEFINE seq == Named(text)
<1>1. seq \in Seq(0..255)
  BY NamedType
<1>2. expandLampDescription(text) = (CHOOSE g : IsPutTogether(seq, g))[DOMAIN seq]
  BY Zenon DEF expandLampDescription, FoldLeft, MapThenFoldSet, IsPutTogether, Named
<1> HIDE DEF seq
<1> QED
  BY <1>1, <1>2, PutTogetherIs

LEMMA FewLamps ==
  ASSUME NEW res \in LampLists, ToSet(res) \subseteq Lamps
  PROVE  Len(res) <= N /\ AllLamps \notin ToSet(res)
<1>1. /\ Len(res) \in Nat /\ DOMAIN res = 1..Len(res) /\ Ascending(res)
      /\ res \in [1..Len(res) -> 0..255]
  BY LenProperties DEF LampLists
<1>2. AllLamps \notin ToSet(res)
  BY NAssumption DEF Lamps, AllLamps
<1>3. res \in [1..Len(res) -> 0..(N - 1)]
  BY <1>1 DEF ToSet, Lamps
<1>4. \A i, j \in 1..Len(res) : i < j => res[i] < res[j]
  BY <1>1 DEF Ascending
<1>5. N \in Nat
  BY NAssumption
<1>6. Len(res) <= N
  BY <1>1, <1>3, <1>4, <1>5, IncreasingFits, Zenon
<1> QED
  BY <1>2, <1>6

\* A list that names existing lamps only, however often and in whatever order,
\* fits into lampnrs, which expandLampDescription fills without a test.
THEOREM ExistingLampsFit ==
  ASSUME NEW description \in Seq(Known),
         ToSet(expandLampDescription(description)) \subseteq Lamps
  PROVE  Fits(description)
BY ExpandLampDescriptionType, FewLamps, Zenon DEF Fits

-----------------------------------------------------------------------------
(* The lamps that pass the check.                                          *)

InRange == {l \in 0..255 : checkLampRange(l)}

LEMMA InRangeIs ==
  InRange \in SUBSET Int /\ \A l \in InRange : l # AllLamps => l \in Lamps
BY NAssumption DEF InRange, checkLampRange, Lamps

IsChecked(seq, g) ==
  g = [s \in SUBSET DOMAIN seq |->
         IF s = {} THEN << >>
         ELSE IF checkLampRange(seq[Max(s)]) THEN Append(g[s \ {Max(s)}], seq[Max(s)])
              ELSE g[s \ {Max(s)}]]

LEMMA CheckedIs ==
  ASSUME NEW seq \in Seq(0..255)
  PROVE  \E h : KeptStages(seq, InRange, h) /\ h[Len(seq)] = Kept(seq, checkLampRange)
<1> DEFINE g == CHOOSE f : IsChecked(seq, f)
           T == InRange
<1>0. Kept(seq, checkLampRange) = g[DOMAIN seq]
  BY Zenon DEF Kept, FoldLeft, MapThenFoldSet, IsChecked
<1>1. \A s \in SUBSET DOMAIN seq : s # {} => (checkLampRange(seq[Max(s)]) <=> seq[Max(s)] \in T)
  <2> TAKE s \in SUBSET DOMAIN seq
  <2>1. DOMAIN seq = 1..Len(seq) /\ Len(seq) \in Nat
    BY LenProperties
  <2>2. s # {} => seq[Max(s)] \in 0..255
    BY <2>1, GreatestOfPlaces, ElementOfSeq
  <2> QED
    BY <2>2 DEF InRange
<1>2. IsChecked(seq, g)
  <2>1. PICK f \in [SUBSET DOMAIN seq -> Seq(0..255)] : KeptBy(seq, T, f)
    BY KeptExists
  <2>2. \A s \in SUBSET DOMAIN seq :
          f[s] = IF s = {} THEN << >>
                 ELSE IF checkLampRange(seq[Max(s)]) THEN Append(f[s \ {Max(s)}], seq[Max(s)])
                      ELSE f[s \ {Max(s)}]
    <3> HIDE DEF T
    <3> QED
      BY <1>1, <2>1, Zenon DEF KeptBy
  <2>3. f = [s \in SUBSET DOMAIN seq |-> f[s]]
    OBVIOUS
  <2>4. IsChecked(seq, f)
    BY <2>2, <2>3, Zenon DEF IsChecked
  <2> QED
    BY <2>4, Zenon
<1> HIDE DEF g, T
<1>3. KeptBy(seq, T, g)
  <2> SUFFICES ASSUME NEW s \in SUBSET DOMAIN seq
               PROVE  g[s] = IF s = {} THEN << >>
                             ELSE IF seq[Max(s)] \in T THEN Append(g[s \ {Max(s)}], seq[Max(s)])
                                  ELSE g[s \ {Max(s)}]
    BY Zenon DEF KeptBy
  <2> DEFINE f == [r \in SUBSET DOMAIN seq |->
                     IF r = {} THEN << >>
                     ELSE IF checkLampRange(seq[Max(r)]) THEN Append(g[r \ {Max(r)}], seq[Max(r)])
                          ELSE g[r \ {Max(r)}]]
  <2>1. f[s] = IF s = {} THEN << >>
               ELSE IF checkLampRange(seq[Max(s)]) THEN Append(g[s \ {Max(s)}], seq[Max(s)])
                    ELSE g[s \ {Max(s)}]
    BY Zenon
  <2>2. g = f
    BY <1>2, Zenon DEF IsChecked
  <2> HIDE DEF f
  <2> QED
    BY <1>1, <2>1, <2>2, Zenon
<1> QED
  BY <1>0, <1>3, KeptIs, Zenon DEF g, T

\* What is kept of a list in order is in order, and part of the list.
LEMMA KeptOrder ==
  ASSUME NEW seq \in LampLists, NEW T \in SUBSET Int, NEW h, KeptStages(seq, T, h)
  PROVE  /\ h[Len(seq)] \in Seq(T) /\ Ascending(h[Len(seq)])
         /\ ToSet(h[Len(seq)]) \subseteq ToSet(seq)
<1> DEFINE n == Len(seq)
           Part(m) == /\ Ascending(h[m])
                      /\ \A i \in 1..Len(h[m]) : \E k \in 1..m : h[m][i] = seq[k]
           P == {m \in Nat : m <= n => Part(m)}
<1>1. seq \in Seq(0..255) /\ Ascending(seq) /\ n \in Nat /\ DOMAIN seq = 1..n
  BY LenProperties DEF LampLists
<1>2. /\ h \in [0..n -> Seq(T)] /\ h[0] = << >>
      /\ \A m \in 1..n : h[m] = IF seq[m] \in T THEN Append(h[m - 1], seq[m]) ELSE h[m - 1]
  BY Zenon DEF KeptStages
<1> HIDE DEF n
<1>3. 0 \in P
  <2>1. Len(<< >>) = 0 /\ DOMAIN << >> = {}
    OBVIOUS
  <2> QED
    BY <1>2, <2>1 DEF Ascending
<1>4. ASSUME NEW m \in Nat, m \in P PROVE m + 1 \in P
  <2> SUFFICES ASSUME m + 1 <= n PROVE Part(m + 1)
    OBVIOUS
  <2> DEFINE k == m + 1
  <2>1. k \in 1..n /\ k - 1 = m /\ m \in 0..n /\ m < k
    BY <1>1
  <2>2. Part(m)
    BY <1>1, <1>4, <2>1
  <2> HIDE DEF k
  <2>3. h[k] = IF seq[k] \in T THEN Append(h[m], seq[k]) ELSE h[m]
    BY <1>2, <2>1
  <2>4. h[m] \in Seq(T)
    BY <1>2, <2>1
  <2> DEFINE r == h[m]
             l == Len(r)
  <2>5. l \in Nat /\ DOMAIN r = 1..l
    BY <2>4, LenProperties
  <2>6. Ascending(r) /\ \A i \in 1..l : \E j \in 1..m : r[i] = seq[j]
    BY <2>2
  <2> HIDE DEF r, l
  <2>7. \A i \in 1..l : \E j \in 1..k : r[i] = seq[j]
    <3>1. 1..m \subseteq 1..k
      BY <2>1
    <3> QED
      BY <2>6, <3>1
  <2>8. CASE seq[k] \notin T
    <3>1. h[k] = r /\ Len(h[k]) = l
      BY <2>3, <2>8 DEF r, l
    <3>2. Part(k)
      BY <2>6, <2>7, <3>1
    <3> QED
      BY <3>2 DEF k
  <2>9. CASE seq[k] \in T
    <3> DEFINE a == Append(r, seq[k])
    <3>1. /\ a \in Seq(T) /\ Len(a) = l + 1 /\ a[l + 1] = seq[k]
          /\ \A i \in 1..l : a[i] = r[i]
      BY <2>4, <2>9, AppendProperties DEF r, l
    <3>2. h[k] = a
      BY <2>3, <2>9 DEF r
    <3> HIDE DEF a
    <3>3. DOMAIN a = 1..(l + 1)
      <4>1. DOMAIN a = 1..Len(a)
        BY <3>1, LenProperties
      <4> QED
        BY <3>1, <4>1
    <3>4. \A i \in 1..(l + 1) : i = l + 1 \/ i \in 1..l
      BY <2>5
    <3>5. \A i \in 1..l : r[i] < seq[k]
      <4> TAKE i \in 1..l
      <4>1. PICK j \in 1..m : r[i] = seq[j]
        BY <2>6
      <4>2. j \in 1..n /\ j < k
        BY <1>1, <2>1
      <4> QED
        BY <1>1, <2>1, <4>1, <4>2 DEF Ascending
    <3>6. ASSUME NEW i \in 1..(l + 1), NEW j \in 1..(l + 1), i < j PROVE a[i] < a[j]
      <4>1. i \in 1..l
        BY <2>5, <3>6
      <4>2. CASE j = l + 1
        BY <3>1, <3>5, <4>1, <4>2
      <4>3. CASE j # l + 1
        <5>1. j \in 1..l
          BY <3>4, <4>3
        <5>2. r[i] < r[j]
          BY <2>5, <2>6, <3>6, <4>1, <5>1 DEF Ascending
        <5> QED
          BY <3>1, <4>1, <5>1, <5>2
      <4> QED
        BY <4>2, <4>3
    <3>7. ASSUME NEW i \in 1..(l + 1) PROVE \E j \in 1..k : a[i] = seq[j]
      <4>1. CASE i = l + 1
        <5>1. k \in 1..k
          BY <2>1
        <5> QED
          BY <3>1, <4>1, <5>1
      <4>2. CASE i # l + 1
        <5>1. i \in 1..l
          BY <3>4, <4>2
        <5> QED
          BY <2>7, <3>1, <5>1
      <4> QED
        BY <4>1, <4>2
    <3>8. Ascending(a)
      BY <3>3, <3>6 DEF Ascending
    <3>9. Part(k)
      BY <3>1, <3>2, <3>7, <3>8
    <3> QED
      BY <3>9 DEF k
  <2> QED
    BY <2>8, <2>9
<1>5. n \in P
  <2> HIDE DEF P
  <2> QED
    BY <1>1, <1>3, <1>4, SetInduction
<1>6. n \in 0..n
  BY <1>1
<1>7. h[n] \in Seq(T) /\ DOMAIN h[n] = 1..Len(h[n])
  BY <1>2, <1>6, LenProperties
<1>8. Part(n)
  BY <1>1, <1>5
<1>9. ToSet(h[n]) \subseteq ToSet(seq)
  <2> SUFFICES ASSUME NEW i \in 1..Len(h[n]) PROVE h[n][i] \in ToSet(seq)
    BY <1>7 DEF ToSet
  <2>1. PICK k \in 1..n : h[n][i] = seq[k]
    BY <1>8
  <2> QED
    BY <1>1, <2>1 DEF ToSet
<1> QED
  BY <1>7, <1>8, <1>9 DEF n


\* The lamps that are painted: indices of the lamps, unless 255 is listed, and
\* none twice.
LEMMA PaintedLamps ==
  ASSUME NEW text \in Seq(Known), AllLamps \notin ToSet(expandLampDescription(text)),
         NEW lamps, lamps = Kept(expandLampDescription(text), checkLampRange)
  PROVE  ToSet(lamps) \subseteq Lamps /\ IsInjective(lamps)
<1> DEFINE seq == expandLampDescription(text)
<1>1. seq \in LampLists /\ seq \in Seq(0..255)
  BY ExpandLampDescriptionType DEF LampLists
<1>2. lamps = Kept(seq, checkLampRange)
  BY Zenon
<1> HIDE DEF seq
<1>3. PICK h : KeptStages(seq, InRange, h) /\ h[Len(seq)] = Kept(seq, checkLampRange)
  BY <1>1, CheckedIs
<1>4. InRange \in SUBSET Int
  BY InRangeIs, Zenon
<1>5. lamps \in Seq(InRange) /\ Ascending(lamps) /\ ToSet(lamps) \subseteq ToSet(seq)
  BY <1>1, <1>2, <1>3, <1>4, KeptOrder
<1>6. DOMAIN lamps = 1..Len(lamps) /\ Len(lamps) \in Nat
  BY <1>5, LenProperties
<1>7. \A i \in 1..Len(lamps) : lamps[i] \in InRange
  BY <1>5, ElementOfSeq
<1>8. \A l \in InRange : l # AllLamps => l \in Lamps
  BY InRangeIs, Zenon
<1>9. ToSet(lamps) \subseteq Lamps
  <2>1. \A i \in 1..Len(lamps) : lamps[i] # AllLamps
    BY <1>5, <1>6 DEF ToSet, seq
  <2> QED
    BY <1>6, <1>7, <1>8, <2>1 DEF ToSet
<1>10. IsInjective(lamps)
  <2> SUFFICES ASSUME NEW i \in 1..Len(lamps), NEW j \in 1..Len(lamps), lamps[i] = lamps[j]
               PROVE  i = j
    BY <1>6 DEF IsInjective
  <2>1. lamps[i] \in Int /\ lamps[j] \in Int
    BY <1>4, <1>7
  <2>2. ~(i < j) /\ ~(j < i)
    BY <1>5, <1>6, <2>1 DEF Ascending
  <2> QED
    BY <2>2
<1> QED
  BY <1>9, <1>10

-----------------------------------------------------------------------------
(* What the commands may ask for.                                          *)

LEMMA ColorCommandsAre == DOMAIN colorCommands = 1..16 /\ Len(colorCommands) = 16
BY DEF colorCommands

OtherFcts == {"rgb", "engine", "start", "stop", "save", "load", "interp", "istep", "desci",
              "destroy", "api", "console", "setupbt", "sysinfo", "help"}

LEMMA OtherCommandsAre ==
  /\ Len(otherCommands) = 15 /\ otherCommands = [k \in 1..15 |-> otherCommands[k]]
  /\ \A k \in 1..15 : otherCommands[k].fct \in OtherFcts
BY DEF otherCommands, OtherFcts

LEMMA MinIs ==
  ASSUME NEW S \in SUBSET Nat, S # {}
  PROVE  Min(S) \in S
<1>1. \E m \in S : \A k \in S : m <= k
  BY LeastElement
<1> QED
  BY <1>1 DEF Min

LEMMA MaxIs ==
  ASSUME NEW n \in Nat, NEW S \in SUBSET (1..n), S # {}
  PROVE  Max(S) \in S
BY GreatestOfPlaces

LEMMA UserCommandsAre ==
  /\ DOMAIN userCommands = 1..31
  /\ \A k \in 1..31 : IF k <= 16 THEN userCommands[k] = [name |-> colorCommands[k], fct |-> "color"]
                      ELSE userCommands[k] = otherCommands[k - 16]
<1> DEFINE colors == [k \in DOMAIN colorCommands |-> [name |-> colorCommands[k], fct |-> "color"]]
<1>1. Len(colors) = 16 /\ DOMAIN colors = 1..16
  BY ColorCommandsAre
<1>2. \A k \in 1..16 : colors[k] = [name |-> colorCommands[k], fct |-> "color"]
  BY ColorCommandsAre
<1>3. userCommands = colors \o otherCommands
  BY Zenon DEF userCommands
<1> DEFINE S == {colors[k] : k \in 1..16} \union {otherCommands[k] : k \in 1..15}
<1>4. colors \in Seq(S) /\ otherCommands \in Seq(S)
  <2>1. colors = [k \in 1..16 |-> colors[k]]
    BY <1>1
  <2> HIDE DEF colors
  <2>2. colors \in [1..16 -> S] /\ otherCommands \in [1..15 -> S]
    BY <2>1, OtherCommandsAre
  <2> HIDE DEF S
  <2> QED
    BY <2>2, FunctionIsSeq
<1> HIDE DEF colors, S
<1> DEFINE all == colors \o otherCommands
<1>5. /\ all \in Seq(S) /\ Len(all) = Len(colors) + Len(otherCommands)
      /\ \A k \in 1..(Len(colors) + Len(otherCommands)) :
           all[k] = IF k <= Len(colors) THEN colors[k] ELSE otherCommands[k - Len(colors)]
  BY <1>4, ConcatProperties, Zenon
<1> HIDE DEF all
<1>6. Len(colors) = 16 /\ Len(otherCommands) = 15 /\ 16 + 15 = 31
  BY <1>1, OtherCommandsAre
<1>7. DOMAIN all = 1..31
  <2>1. DOMAIN all = 1..Len(all)
    BY <1>5, LenProperties
  <2> QED
    BY <1>5, <1>6, <2>1
<1>8. \A k \in 1..31 : all[k] = IF k <= 16 THEN colors[k] ELSE otherCommands[k - 16]
  BY <1>5, <1>6
<1>9. userCommands = all
  BY <1>3 DEF all
<1> QED
  BY <1>2, <1>7, <1>8, <1>9

LEMMA CalledIs ==
  ASSUME NEW cmd, Matching(cmd) # {}
  PROVE  Called(cmd) \in OtherFcts \union {"color"}
<1>1. Matching(cmd) \in SUBSET (1..31) /\ Matching(cmd) \in SUBSET Nat
  BY UserCommandsAre DEF Matching
<1>2. PICK m \in 1..31 : Called(cmd) = userCommands[m].fct
  BY <1>1, MinIs DEF Called
<1>3. CASE m <= 16
  BY <1>2, <1>3, UserCommandsAre
<1>4. CASE ~(m <= 16)
  <2>1. m - 16 \in 1..15 /\ userCommands[m] = otherCommands[m - 16]
    BY <1>4, UserCommandsAre
  <2> QED
    BY <1>2, <2>1, OtherCommandsAre
<1> QED
  BY <1>3, <1>4

\* The color of a color command is one of the palette.
LEMMA ColorIndexIs ==
  ASSUME NEW cmd, Matching(cmd) # {}, Called(cmd) = "color"
  PROVE  colorIndex(cmd) \in 1..16
<1> DEFINE m == Min(Matching(cmd))
           S == {k \in DOMAIN colorCommands : startsWith(cmd, colorCommands[k])}
<1>1. Matching(cmd) \in SUBSET (1..31) /\ Matching(cmd) \in SUBSET Nat
  BY UserCommandsAre DEF Matching
<1>2. m \in Matching(cmd)
  BY <1>1, MinIs
<1>3. m \in 1..31 /\ startsWith(cmd, userCommands[m].name) /\ userCommands[m].fct = "color"
  BY <1>1, <1>2 DEF Matching, Called
<1> HIDE DEF m
<1>4. m <= 16
  <2> SUFFICES ASSUME ~(m <= 16) PROVE FALSE
    OBVIOUS
  <2>1. m - 16 \in 1..15 /\ userCommands[m] = otherCommands[m - 16]
    BY <1>3, UserCommandsAre
  <2>2. otherCommands[m - 16].fct \in OtherFcts
    BY <2>1, OtherCommandsAre
  <2>3. "color" \notin OtherFcts
    BY DEF OtherFcts
  <2> QED
    BY <1>3, <2>1, <2>2, <2>3
<1>5. m \in 1..16 /\ userCommands[m].name = colorCommands[m]
  BY <1>3, <1>4, UserCommandsAre
<1>6. m \in S
  BY <1>3, <1>5, ColorCommandsAre
<1>7. S \in SUBSET (1..16)
  BY ColorCommandsAre
<1>8. colorIndex(cmd) = Max(S)
  BY Zenon DEF colorIndex
<1> HIDE DEF S
<1> QED
  BY <1>6, <1>7, <1>8, MaxIs

LEMMA SelectedType ==
  ASSUME NEW l \in Nat, checkLampRange(l)
  PROVE  Selected(l) \in {{k} : k \in Lamps} \union {Lamps}
BY NAssumption DEF Selected, checkLampRange, Lamps

LEMMA PaintedAccepted ==
  ASSUME NEW color \in {<<k>> : k \in 1..16} \union [1..3 -> 0..255],
         NEW text \in Seq(Known), Fits(text)
  PROVE  Accepted(Painted(color, text))
<1> DEFINE lamps == Kept(expandLampDescription(text), checkLampRange)
<1>1. Painted(color, text) = PaintCall(color, lamps)
  BY Zenon DEF Painted
<1>2. ToSet(lamps) \subseteq Lamps /\ IsInjective(lamps)
  BY PaintedLamps, Zenon DEF Fits
<1> HIDE DEF lamps
<1>3. PaintCall(color, lamps) = [fn |-> "paint", color |-> color, lamps |-> lamps]
  BY Zenon DEF PaintCall
<1>4. /\ PaintCall(color, lamps).fn = "paint" /\ PaintCall(color, lamps).color = color
      /\ PaintCall(color, lamps).lamps = lamps
  BY <1>3
<1> QED
  BY <1>1, <1>2, <1>4 DEF Accepted

LEMMA FieldNumbers ==
  ASSUME NEW content \in Seq(Known), NEW k \in 1..Len(Fields(content))
  PROVE  toUInt8(Fields(content)[k]) \in 0..255
<1>1. Fields(content) \in Seq(Seq(Known \ {","}) \ {<< >>})
  BY FieldsType
<1>2. Fields(content)[k] \in Seq(Known \ {","})
  BY <1>1, ElementOfSeq
<1>3. Fields(content)[k] \in Seq(Known)
  BY <1>2, SeqMonotonic
<1> QED
  BY <1>3, NumberType

LEMMA ErrorAccepted == Accepted(Error)
BY DEF Accepted, Error

LEMMA RgbAccepted ==
  ASSUME NEW cmd, getBracketContent(cmd) \in Seq(Known),
         Fits(AfterFields(getBracketContent(cmd), 3))
  PROVE  Accepted(rgbCommand(cmd))
<1> DEFINE content == getBracketContent(cmd)
           var == Fields(content)
           color == [k \in 1..3 |-> toUInt8(var[k])]
<1>1. rgbCommand(cmd) = IF Len(var) < 3 \/ AfterFields(content, 3) = << >> THEN Error
                        ELSE Painted(color, AfterFields(content, 3))
  BY Zenon DEF rgbCommand
<1>2. AfterFields(content, 3) \in Seq(Known)
  BY AfterFieldsType
<1>3. Len(var) \in Nat
  BY FieldsType, LenProperties
<1>4. ASSUME ~(Len(var) < 3) PROVE color \in [1..3 -> 0..255]
  <2>1. \A k \in 1..3 : k \in 1..Len(var)
    BY <1>3, <1>4
  <2>2. \A k \in 1..3 : toUInt8(var[k]) \in 0..255
    BY <2>1, FieldNumbers
  <2> HIDE DEF var
  <2> QED
    BY <2>2
<1> HIDE DEF content, var, color
<1>5. ASSUME ~(Len(var) < 3) PROVE Accepted(Painted(color, AfterFields(content, 3)))
  BY <1>2, <1>4, <1>5, PaintedAccepted DEF content
<1> QED
  BY <1>1, <1>5, ErrorAccepted, Zenon

LEMMA InterpAccepted ==
  ASSUME NEW cmd, getBracketContent(cmd) \in Seq(Known)
  PROVE  Accepted(interpCommand(cmd))
<1> DEFINE var == Fields(getBracketContent(cmd))
           lampnr == toUInt8(var[1])
           nsteps == toUInt8(var[2])
           repeating == toUInt8(var[3])
           bad == \/ Len(var) < 3
                  \/ ~checkLampRange(lampnr)
                  \/ repeating > 1
                  \/ repeating = 1 /\ nsteps = 1
<1>1. interpCommand(cmd) = IF bad THEN Error ELSE InterpCall(lampnr, nsteps, repeating = 1)
  BY Zenon DEF interpCommand
<1>2. Len(var) \in Nat
  BY FieldsType, LenProperties
<1>3. ~(Len(var) < 3) => lampnr \in 0..255
  <2>1. ~(Len(var) < 3) => 1 \in 1..Len(var)
    BY <1>2
  <2> QED
    BY <2>1, FieldNumbers, Zenon
<1> HIDE DEF var, lampnr, nsteps, repeating
<1>4. ASSUME ~bad PROVE Accepted(InterpCall(lampnr, nsteps, repeating = 1))
  <2>1. Selected(lampnr) \in {{k} : k \in Lamps} \union {Lamps}
    <3>1. lampnr \in 0..255 /\ checkLampRange(lampnr)
      BY <1>3, <1>4, Zenon
    <3>2. lampnr \in Nat
      BY <3>1
    <3> QED
      BY <3>1, <3>2, SelectedType, Zenon
  <2> DEFINE r == (repeating = 1)
             s == Selected(lampnr)
             call == [fn |-> "interp", lamps |-> s, nsteps |-> nsteps, repeating |-> r]
  <2>2. InterpCall(lampnr, nsteps, r) = call
    BY Zenon DEF InterpCall
  <2>3. ~(r /\ nsteps = 1)
    BY <1>4
  <2> HIDE DEF r, s
  <2>4. call.fn = "interp" /\ call.lamps = s /\ call.nsteps = nsteps /\ call.repeating = r
    OBVIOUS
  <2> HIDE DEF call
  <2>5. Accepted(call)
    BY <2>1, <2>3, <2>4 DEF Accepted, s
  <2> QED
    BY <2>2, <2>5, Zenon DEF r
<1> QED
  BY <1>1, <1>4, ErrorAccepted, Zenon

LEMMA IstepAccepted ==
  ASSUME NEW cmd, getBracketContent(cmd) \in Seq(Known)
  PROVE  Accepted(istepCommand(cmd))
<1> DEFINE var == Fields(getBracketContent(cmd))
           interpolation == toUInt8(var[5])
           lampnr == toUInt8(var[6])
           bad == Len(var) < 7 \/ interpolation > 1 \/ ~checkLampRange(lampnr)
           color == [k \in 1..3 |-> toUInt8(var[k])]
           frames == toUInt32(var[4])
           step == toUInt8(var[7])
           fade == (interpolation = 1)
           s == Selected(lampnr)
           call == [fn |-> "istep", color |-> color, frames |-> frames, fade |-> fade,
                    lamps |-> s, step |-> step]
<1>1. istepCommand(cmd) = IF bad THEN Error ELSE call
  BY Zenon DEF istepCommand, IstepCall
<1>2. Len(var) \in Nat
  BY FieldsType, LenProperties
<1>3. ~(Len(var) < 7) => lampnr \in 0..255
  <2>1. ~(Len(var) < 7) => 6 \in 1..Len(var)
    BY <1>2
  <2> QED
    BY <2>1, FieldNumbers, Zenon
<1> HIDE DEF var, lampnr, interpolation, color, frames, step, fade
<1>4. ASSUME ~bad PROVE Accepted(call)
  <2>1. s \in {{k} : k \in Lamps} \union {Lamps}
    <3>1. lampnr \in 0..255 /\ checkLampRange(lampnr)
      BY <1>3, <1>4, Zenon
    <3>2. lampnr \in Nat
      BY <3>1
    <3> QED
      BY <3>1, <3>2, SelectedType, Zenon
  <2> HIDE DEF s
  <2>2. call.fn = "istep" /\ call.lamps = s
    OBVIOUS
  <2> HIDE DEF call
  <2> QED
    BY <2>1, <2>2 DEF Accepted
<1> QED
  BY <1>1, <1>4, ErrorAccepted, Zenon

LEMMA DestroyAccepted ==
  ASSUME NEW cmd, getBracketContent(cmd) \in Seq(Known)
  PROVE  Accepted(destroyCommand(cmd))
<1> DEFINE lampnr == toUInt8(getBracketContent(cmd))
           s == Selected(lampnr)
           call == [fn |-> "destroy", lamps |-> s]
<1>1. destroyCommand(cmd) = IF checkLampRange(lampnr) THEN call ELSE Error
  BY Zenon DEF destroyCommand
<1>2. lampnr \in 0..255
  BY NumberType
<1> HIDE DEF lampnr
<1>3. ASSUME checkLampRange(lampnr) PROVE Accepted(call)
  <2>1. lampnr \in Nat
    BY <1>2
  <2>2. s \in {{k} : k \in Lamps} \union {Lamps}
    BY <1>3, <2>1, SelectedType
  <2> HIDE DEF s
  <2>3. call.fn = "destroy" /\ call.lamps = s
    OBVIOUS
  <2> HIDE DEF call
  <2> QED
    BY <2>2, <2>3 DEF Accepted
<1> QED
  BY <1>1, <1>3, ErrorAccepted, Zenon

LEMMA EngineAccepted ==
  ASSUME NEW cmd
  PROVE  Accepted(npEngineCommand(cmd))
<1> DEFINE engineflag == toUInt8(getBracketContent(cmd))
           on == (engineflag = 1)
           call == [fn |-> "engine", on |-> on]
<1>1. npEngineCommand(cmd) = IF engineflag <= 1 THEN call ELSE Error
  BY Zenon DEF npEngineCommand
<1> HIDE DEF on
<1>2. call.fn = "engine"
  OBVIOUS
<1> HIDE DEF call, engineflag
<1>3. Accepted(call)
  BY <1>2 DEF Accepted
<1> QED
  BY <1>1, <1>3, ErrorAccepted, Zenon

LEMMA PlainAccepted ==
  ASSUME NEW f \in OtherFcts \ {"rgb", "interp", "istep", "destroy", "engine"}
  PROVE  Accepted([fn |-> f])
<1> DEFINE call == [fn |-> f]
<1>1. call.fn = f /\ f \notin {"paint", "interp", "istep", "destroy"}
  BY DEF OtherFcts
<1> HIDE DEF call
<1>2. Accepted(call)
  BY <1>1 DEF Accepted
<1> QED
  BY <1>2 DEF call

\* Whatever a text the commands cope with asks for is acceptable.
LEMMA HandleCommandAccepted ==
  ASSUME NEW C, NEW cmd \in Seq(C), Copes(cmd)
  PROVE  Accepted(handleCommand(cmd))
<1> DEFINE content == getBracketContent(cmd)
           fct == Called(cmd)
<1>1. content \in Seq(Known)
  <2>1. content \in Seq(C) /\ ToSet(content) \subseteq Known
    BY ContentType DEF Copes
  <2> HIDE DEF content
  <2>2. Len(content) \in Nat /\ DOMAIN content = 1..Len(content)
        /\ content \in [1..Len(content) -> C]
    BY <2>1, LenProperties
  <2>3. \A i \in 1..Len(content) : content[i] \in Known
    BY <2>1, <2>2 DEF ToSet
  <2>4. content \in [1..Len(content) -> Known]
    BY <2>2, <2>3
  <2> QED
    BY <2>2, <2>4, FunctionIsSeq
<1>2. CASE cmd = << >>
  <2>1. handleCommand(cmd) = [fn |-> "nothing"]
    BY <1>2, Zenon DEF handleCommand
  <2>2. Accepted([fn |-> "nothing"])
    BY DEF Accepted
  <2> QED
    BY <2>1, <2>2
<1>3. CASE cmd # << >> /\ Matching(cmd) = {}
  <2>1. handleCommand(cmd) = Error
    BY <1>3, Zenon DEF handleCommand
  <2> QED
    BY <2>1, ErrorAccepted
<1>4. CASE cmd # << >> /\ Matching(cmd) # {}
  <2>1. handleCommand(cmd) = callUserFunction(fct, cmd)
    BY <1>4, Zenon DEF handleCommand
  <2>2. fct \in OtherFcts \union {"color"}
    BY <1>4, CalledIs
  <2>3. fct = "color" => colorIndex(cmd) \in 1..16 /\ Fits(content)
    BY <1>4, ColorIndexIs DEF Copes
  <2>4. fct = "rgb" => Fits(AfterFields(content, 3))
    BY <1>4 DEF Copes
  <2> HIDE DEF fct
  <2>5. CASE fct = "color"
    <3>1. <<colorIndex(cmd)>> \in {<<k>> : k \in 1..16} \union [1..3 -> 0..255]
      BY <2>3, <2>5
    <3>2. Accepted(colorCommand(cmd))
      BY <1>1, <2>3, <2>5, <3>1, PaintedAccepted DEF colorCommand
    <3>3. callUserFunction(fct, cmd) = colorCommand(cmd)
      BY <2>5, Zenon DEF callUserFunction
    <3> QED
      BY <2>1, <3>2, <3>3
  <2>6. CASE fct = "rgb"
    <3>1. callUserFunction(fct, cmd) = rgbCommand(cmd)
      BY <2>6 DEF callUserFunction
    <3> QED
      BY <1>1, <2>1, <2>4, <2>6, <3>1, RgbAccepted
  <2>7. CASE fct = "interp"
    <3>1. callUserFunction(fct, cmd) = interpCommand(cmd)
      BY <2>7 DEF callUserFunction
    <3> QED
      BY <1>1, <2>1, <3>1, InterpAccepted
  <2>8. CASE fct = "istep"
    <3>1. callUserFunction(fct, cmd) = istepCommand(cmd)
      BY <2>8 DEF callUserFunction
    <3> QED
      BY <1>1, <2>1, <3>1, IstepAccepted
  <2>9. CASE fct = "destroy"
    <3>1. callUserFunction(fct, cmd) = destroyCommand(cmd)
      BY <2>9 DEF callUserFunction
    <3> QED
      BY <1>1, <2>1, <3>1, DestroyAccepted
  <2>10. CASE fct = "engine"
    <3>1. callUserFunction(fct, cmd) = npEngineCommand(cmd)
      BY <2>10 DEF callUserFunction
    <3> QED
      BY <2>1, <3>1, EngineAccepted
  <2>11. CASE fct \notin {"color", "rgb", "interp", "istep", "destroy", "engine"}
    <3>1. callUserFunction(fct, cmd) = [fn |-> fct]
      BY <2>11 DEF callUserFunction
    <3>2. fct \in OtherFcts \ {"rgb", "interp", "istep", "destroy", "engine"}
      BY <2>2, <2>11
    <3> QED
      BY <2>1, <3>1, <3>2, PlainAccepted
  <2> QED
    BY <2>5, <2>6, <2>7, <2>8, <2>9, <2>10, <2>11
<1> QED
  BY <1>2, <1>3, <1>4

-----------------------------------------------------------------------------
(* The buffer.                                                             *)

\* The buffer holds what was sent as long as it fits; from then on its last slot
\* holds the last character.
Collected ==
  /\ sent < Size => ibidx = sent /\ answer = NUL
  /\ sent >= Size => /\ ibidx = Size - 1 /\ answer = "1"
                     /\ inputBuffer[Size - 1] = request.text[sent]
  /\ \A z \in Slots : (z < sent /\ z < Size - 1) => inputBuffer[z] = request.text[z + 1]
  /\ \A z \in Slots : (z < sent => inputBuffer[z] # NUL) /\ (z >= sent => inputBuffer[z] = NUL)
  /\ interfaceType = "console" => sent = 0

BufferInv == TypeOK /\ Collected

-----------------------------------------------------------------------------
LEMMA SlotsNonEmpty == Size \in Nat /\ Size >= 1 /\ 0 \in Slots /\ Size - 1 \in Slots
BY SizeAssumption DEF Slots

LEMMA TextType ==
  ASSUME NEW r \in Requests \union {Nobody}
  PROVE  r.text \in Seq(Bytes)
<1>1. CASE r \in Requests
  BY <1>1, RequestsAssumption
<1>2. CASE r = Nobody
  <2>1. r.text = << >>
    BY <1>2 DEF Nobody
  <2> QED BY <2>1
<1> QED BY <1>1, <1>2

LEMMA MinOfInterval ==
  ASSUME NEW a \in Nat, NEW S \in SUBSET Nat, a \in S, \A b \in S : a <= b
  PROVE  Min(S) = a
<1>1. \A x \in S : (\A y \in S : x <= y) => x = a
  OBVIOUS
<1> QED BY <1>1 DEF Min

LEMMA SwitchType ==
  ASSUME TypeOK, NEW call
  PROVE  SwitchedBy(call) \in {"api", "console"}
BY DEF SwitchedBy, TypeOK

\* What the handler reads is what was sent.
LEMMA TextIsLine ==
  ASSUME BufferInv, sent = Len(request.text), sent < Size
  PROVE  Text = request.text
<1>1. request.text \in Seq(Bytes) /\ sent \in Nat
  BY TextType DEF BufferInv, TypeOK
<1> DEFINE zeros == {z \in Slots : inputBuffer[z] = NUL}
<1>2. sent \in Slots /\ Size \in Nat
  BY <1>1, SizeAssumption DEF Slots
<1>3. sent \in zeros /\ (\A z \in zeros : sent <= z) /\ zeros \in SUBSET Nat
  BY <1>1, <1>2 DEF BufferInv, Collected, Slots
<1>4. Min(zeros) = sent
  BY <1>1, <1>3, MinOfInterval
<1>5. Text = [i \in 1..sent |-> inputBuffer[i - 1]]
  BY <1>3, <1>4 DEF Text
<1>6. \A i \in 1..sent : inputBuffer[i - 1] = request.text[i]
  <2> TAKE i \in 1..sent
  <2>1. i - 1 \in Slots /\ i - 1 < sent /\ i - 1 < Size - 1 /\ (i - 1) + 1 = i
    BY <1>1, <1>2 DEF Slots
  <2> QED BY <2>1 DEF BufferInv, Collected
<1>7. request.text = [i \in 1..sent |-> request.text[i]]
  BY <1>1
<1> QED BY <1>5, <1>6, <1>7

\* A line that does not fit is read as Overfull says.
LEMMA TextIsCut ==
  ASSUME BufferInv, sent = Len(request.text), sent >= Size
  PROVE  Text = Overfull(request.text)
<1>1. request.text \in Seq(Bytes) /\ sent \in Nat /\ Size \in Nat \ {0}
  BY TextType, SizeAssumption DEF BufferInv, TypeOK
<1>2. {z \in Slots : inputBuffer[z] = NUL} = {}
  BY <1>1 DEF BufferInv, Collected, Slots
<1>3. Text = [i \in 1..(Size + 1) |-> IF i <= Size THEN inputBuffer[i - 1] ELSE "1"]
  BY <1>2, Zenon DEF Text
<1>4. ASSUME NEW i \in 1..(Size + 1)
      PROVE  (IF i <= Size THEN inputBuffer[i - 1] ELSE "1") =
               IF i < Size THEN request.text[i]
               ELSE IF i = Size THEN request.text[Len(request.text)] ELSE "1"
  <2>1. CASE i < Size
    <3>1. i - 1 \in Slots /\ i - 1 < sent /\ i - 1 < Size - 1 /\ (i - 1) + 1 = i /\ i <= Size
      BY <1>1, <2>1 DEF Slots
    <3>2. inputBuffer[i - 1] = request.text[i]
      BY <3>1 DEF BufferInv, Collected
    <3> QED
      BY <2>1, <3>1, <3>2
  <2>2. CASE i = Size
    <3>1. inputBuffer[Size - 1] = request.text[Len(request.text)]
      BY DEF BufferInv, Collected
    <3> QED
      BY <1>1, <2>2, <3>1
  <2>3. CASE i > Size
    BY <1>1, <2>3
  <2> QED
    BY <1>1, <2>1, <2>2, <2>3
<1> QED BY <1>3, <1>4 DEF Overfull

\* Every line executed is a text the commands cope with.
LEMMA LineAccepted ==
  ASSUME BufferInv, request # Nobody, NEW text, NEW told,
         \/ text = request.text
         \/ Len(request.text) >= Size /\ text = Overfull(request.text)
  PROVE  Accepted(Executed(text, told).call)
<1> DEFINE C == Bytes \union {"1"}
<1>1. request \in Requests /\ request.text \in Seq(Bytes)
  BY TextType DEF BufferInv, TypeOK
<1>2. Copes(text)
  BY <1>1, CopesAssumption
<1>3. text \in Seq(C)
  <2>1. CASE text = request.text
    BY <1>1, <2>1, SeqMonotonic
  <2>2. CASE Len(request.text) >= Size /\ text = Overfull(request.text)
    <3>1. Size \in Nat \ {0} /\ Len(request.text) \in Nat /\ Size + 1 \in Nat
      BY <1>1, SizeAssumption, LenProperties
    <3>2. \A i \in 1..Len(request.text) : request.text[i] \in Bytes
      BY <1>1, ElementOfSeq
    <3> DEFINE t == request.text
               n == Size + 1
               f == [i \in 1..n |-> IF i < Size THEN t[i] ELSE IF i = Size THEN t[Len(t)] ELSE "1"]
    <3>3. \A i \in 1..n : (IF i < Size THEN t[i] ELSE IF i = Size THEN t[Len(t)] ELSE "1") \in C
      BY <2>2, <3>1, <3>2
    <3> HIDE DEF C, t
    <3>4. f \in [1..n -> C]
      BY <3>3
    <3>5. text = f
      BY <2>2 DEF Overfull, t
    <3> HIDE DEF f, n
    <3>6. n \in Nat
      BY <3>1 DEF n
    <3> QED
      BY <3>4, <3>5, <3>6, FunctionIsSeq
  <2> QED
    BY <2>1, <2>2
<1> HIDE DEF C
<1>4. Accepted(handleCommand(text))
  BY <1>2, <1>3, HandleCommandAccepted
<1>5. Executed(text, told).call = handleCommand(text)
  BY DEF Executed
<1> QED BY <1>4, <1>5

-----------------------------------------------------------------------------
LEMMA InitInv == Init => BufferInv /\ ExecutesTheLine /\ AcceptedOnly
<1> SUFFICES ASSUME Init PROVE BufferInv /\ ExecutesTheLine /\ AcceptedOnly
  OBVIOUS
<1>1. Nobody.text = << >> /\ Len(Nobody.text) = 0
  BY DEF Nobody
<1>2. TypeOK
  BY <1>1, SlotsNonEmpty DEF Init, TypeOK, Zeroed
<1>3. Collected
  BY SlotsNonEmpty DEF Init, Collected, Zeroed, Slots
<1>4. ExecutesTheLine /\ AcceptedOnly
  BY DEF Init, ExecutesTheLine, AcceptedOnly, NotDone
<1> QED BY <1>2, <1>3, <1>4 DEF BufferInv

LEMMA AskInv == BufferInv /\ Ask => BufferInv'
<1> SUFFICES ASSUME BufferInv, Ask PROVE BufferInv'
  OBVIOUS
<1>1. sent = 0
  BY DEF BufferInv, TypeOK, Ask, Nobody
<1>2. request' \in Requests /\ Len(request'.text) \in Nat
  BY TextType DEF Ask
<1>3. TypeOK'
  BY <1>1, <1>2 DEF BufferInv, TypeOK, Ask
<1>4. Collected'
  BY <1>1, SlotsNonEmpty DEF BufferInv, Collected, Ask, Slots
<1> QED BY <1>3, <1>4 DEF BufferInv

LEMMA ByteInv == BufferInv /\ Byte => BufferInv'
<1> SUFFICES ASSUME BufferInv, Byte PROVE BufferInv'
  OBVIOUS
<1>1. /\ request \in Requests /\ request.text \in Seq(Bytes)
      /\ sent \in Nat /\ sent + 1 \in 1..Len(request.text)
  BY TextType DEF BufferInv, TypeOK, Byte
<1>2. request.text[sent + 1] \in Bytes /\ request.text[sent + 1] # NUL
  BY <1>1, NulAssumption
<1>3. /\ ibidx \in Slots /\ inputBuffer \in [Slots -> Bytes \union {NUL}]
      /\ Size \in Nat \ {0}
  BY SizeAssumption DEF BufferInv, TypeOK
<1>4. sent < Size => ibidx = sent
  BY DEF BufferInv, Collected
<1>5. sent >= Size => ibidx = Size - 1
  BY DEF BufferInv, Collected
<1>6. TypeOK'
  <2>1. ibidx' \in Slots
    BY <1>3 DEF Byte, AtLimit, Slots
  <2>2. inputBuffer' \in [Slots -> Bytes \union {NUL}]
    BY <1>2, <1>3 DEF Byte
  <2> QED BY <1>1, <2>1, <2>2 DEF BufferInv, TypeOK, Byte
<1>7. Collected'
  <2>1. sent' < Size => ibidx' = sent' /\ answer' = NUL
    BY <1>1, <1>3, <1>4 DEF Byte, AtLimit
  <2>2. \A z \in Slots : (z < sent' /\ z < Size - 1) => inputBuffer'[z] = request'.text[z + 1]
    BY <1>1, <1>3, <1>4, <1>5 DEF Byte, BufferInv, Collected, Slots
  <2>3. sent' >= Size => /\ ibidx' = Size - 1 /\ answer' = "1"
                         /\ inputBuffer'[Size - 1] = request'.text[sent']
    <3>1. sent' >= Size => ibidx = Size - 1
      BY <1>1, <1>3, <1>4, <1>5 DEF Byte
    <3>2. Size - 1 \in Slots
      BY SlotsNonEmpty
    <3> QED BY <1>1, <1>3, <3>1, <3>2 DEF Byte, AtLimit
  <2>4. \A z \in Slots : z < sent' => inputBuffer'[z] # NUL
    BY <1>1, <1>2, <1>3, <1>4, <1>5 DEF Byte, BufferInv, Collected, Slots
  <2>5. \A z \in Slots : z >= sent' => inputBuffer'[z] = NUL
    BY <1>1, <1>3, <1>4, <1>5 DEF Byte, BufferInv, Collected, Slots
  <2>6. interfaceType' = "api"
    BY DEF Byte
  <2> QED BY <2>1, <2>2, <2>3, <2>4, <2>5, <2>6 DEF Collected
<1> QED BY <1>6, <1>7 DEF BufferInv

LEMMA ReturnInv == BufferInv /\ CarriageReturn => BufferInv' /\ ExecutesTheLine' /\ AcceptedOnly'
<1> SUFFICES ASSUME BufferInv, CarriageReturn
             PROVE  BufferInv' /\ ExecutesTheLine' /\ AcceptedOnly'
  OBVIOUS
<1>1. interfaceType' \in {"api", "console"}
  BY SwitchType DEF BufferInv, CarriageReturn
<1>2. TypeOK'
  <2>1. Nobody.text = << >> /\ Len(Nobody.text) = 0
    BY DEF Nobody
  <2> QED BY <1>1, <2>1, SlotsNonEmpty DEF CarriageReturn, TypeOK, Cleared, Zeroed
<1>3. Collected'
  BY SlotsNonEmpty DEF CarriageReturn, Collected, Cleared, Zeroed, Slots
<1>4. done' = Executed(Text, answer = "1") /\ sent = Len(request.text) /\ sent \in Nat
  BY TextType DEF CarriageReturn, BufferInv, TypeOK
<1>5. /\ done'.fn = "line" /\ done'.text = Text /\ done'.sent = request.text
      /\ done'.told = (answer = "1")
  BY <1>4 DEF Executed
<1>6. CASE sent < Size
  <2>1. Text = request.text /\ answer # "1"
    BY <1>4, <1>6, TextIsLine, NulAssumption DEF BufferInv, Collected
  <2>2. Accepted(done'.call)
    BY <1>4, <2>1, LineAccepted DEF CarriageReturn
  <2> QED BY <1>2, <1>3, <1>5, <2>1, <2>2 DEF BufferInv, ExecutesTheLine, AcceptedOnly
<1>7. CASE sent >= Size
  <2>1. answer = "1"
    BY <1>7 DEF BufferInv, Collected
  <2>2. Accepted(done'.call)
    BY <1>4, <1>7, TextIsCut, LineAccepted DEF CarriageReturn
  <2> QED BY <1>2, <1>3, <1>4, <1>5, <1>7, <2>1, <2>2
          DEF BufferInv, ExecutesTheLine, AcceptedOnly
<1> QED BY <1>4, <1>6, <1>7, SizeAssumption

LEMMA ConsoleInv == BufferInv /\ ConsoleLine => BufferInv' /\ ExecutesTheLine' /\ AcceptedOnly'
<1> SUFFICES ASSUME BufferInv, ConsoleLine PROVE BufferInv' /\ ExecutesTheLine' /\ AcceptedOnly'
  OBVIOUS
<1>1. sent = 0 /\ sent' = 0
  BY DEF BufferInv, Collected, ConsoleLine
<1>2. interfaceType' \in {"api", "console"}
  BY SwitchType DEF BufferInv, ConsoleLine
<1>3. TypeOK'
  BY <1>1, <1>2 DEF BufferInv, TypeOK, ConsoleLine, Nobody
<1>4. Collected'
  BY <1>1, SlotsNonEmpty DEF BufferInv, Collected, ConsoleLine, Slots
<1>5. /\ done'.text = request.text /\ done'.sent = request.text
      /\ done'.told = FALSE
  BY DEF ConsoleLine, Executed
<1>6. ExecutesTheLine'
  BY <1>5 DEF ExecutesTheLine
<1>7. AcceptedOnly'
  BY LineAccepted DEF ConsoleLine, AcceptedOnly
<1> QED BY <1>3, <1>4, <1>6, <1>7 DEF BufferInv

LineInv == BufferInv /\ ExecutesTheLine /\ AcceptedOnly

LEMMA NextInv == LineInv /\ [Next]_vars => LineInv'
<1> SUFFICES ASSUME BufferInv, ExecutesTheLine, AcceptedOnly, [Next]_vars
             PROVE  BufferInv' /\ ExecutesTheLine' /\ AcceptedOnly'
  BY DEF LineInv
<1>1. CASE Ask
  BY <1>1, AskInv DEF Ask, NotDone, ExecutesTheLine, AcceptedOnly
<1>2. CASE Byte
  BY <1>2, ByteInv DEF Byte, ExecutesTheLine, AcceptedOnly
<1>3. CASE CarriageReturn
  BY <1>3, ReturnInv
<1>4. CASE ConsoleLine
  BY <1>4, ConsoleInv
<1>5. CASE UNCHANGED vars
  BY <1>5 DEF vars, BufferInv, TypeOK, Collected, ExecutesTheLine, AcceptedOnly
<1> QED BY <1>1, <1>2, <1>3, <1>4, <1>5 DEF Next

LEMMA Always == Spec => []LineInv
<1>1. Init => LineInv
  BY InitInv DEF LineInv
<1> QED BY <1>1, NextInv, PTL DEF Spec

\* The buffer, its index and the flag keep their types: no line is long
\* enough to write behind the buffer.
THEOREM TypeCorrect == Spec => []TypeOK
<1>1. LineInv => TypeOK
  BY DEF LineInv, BufferInv
<1> QED BY Always, <1>1, PTL

\* A line is executed as sent, or its sender has been told, and rightly.
THEOREM ExecutesTheLineTheorem == Spec => []ExecutesTheLine
<1>1. LineInv => ExecutesTheLine
  BY DEF LineInv
<1> QED BY Always, <1>1, PTL

\* Whatever texts are sent that the commands cope with (Copes: a list that fits
\* into lampnrs, above all), cut off or not, the animations and the lamps are
\* given nothing but what they are made for: the lamps of a list are in order, so
\* that none is painted twice (bsearch in expandLampDescription only finds what
\* is there because they are), and all of them have passed checkLampRange.
THEOREM AcceptedOnlyTheorem == Spec => []AcceptedOnly
<1>1. LineInv => AcceptedOnly
  BY DEF LineInv
<1> QED BY Always, <1>1, PTL
=============================================================================
