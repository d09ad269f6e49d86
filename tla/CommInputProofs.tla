-------------------------- MODULE CommInputProofs ---------------------------
(***************************************************************************)
(* Proofs about the input buffers, for every size of the buffer, every     *)
(* number of characters and every placement of the switching commands.     *)
(***************************************************************************)
EXTENDS CommInput, SequenceTheorems, TLAPS

-----------------------------------------------------------------------------
(* The types of the variables, also when the buffer overflows.             *)

\* The types by what they constrain: the characters, main, and the history.
CharTypes ==
  /\ inputBuffer \in [Interfaces -> [0..(Size - 1) -> 0..Arrivals]]
  /\ inputBufferCnt \in [Interfaces -> 0..(Range8 - 1)]
  /\ received \in [Interfaces -> 0..Arrivals]
  /\ char \in 0..Arrivals
  /\ reg \in 0..(Range8 - 1)

MainTypes ==
  /\ task \subseteq Interfaces
  /\ interfaceType \in [Interfaces -> Types]
  /\ pc \in {"rest", "poll", "while", "handle", "load", "store", "loadTask", "storeTask"}
  /\ cur \in Interfaces
  /\ loop \in Types

HistTypes ==
  /\ handled \in [Interfaces -> Seq(0..Arrivals)]
  /\ misrouted \in BOOLEAN /\ spaced \in BOOLEAN

\* the counter is a byte
ByteTypes == CharTypes /\ MainTypes /\ HistTypes

-----------------------------------------------------------------------------
(* Whatever arrives when: what the buffer and the local state of main hold. *)

\* main has seen a character it has not yet taken off the counter
Pending == {"handle", "load", "store"}

\* the slots below the counter hold received characters
Filled ==
  \A i \in Interfaces : \A k \in 0..(inputBufferCnt[i] - 1) :
    inputBuffer[i][k] \in 1..received[i]

\* the counter is below the limit the sender observes, and not behind main
CntBounded ==
  /\ \A i \in Interfaces : inputBufferCnt[i] <= MaxPending
  /\ pc \in Pending => inputBufferCnt[cur] >= 1
  /\ pc = "store" => reg >= 1 /\ reg <= inputBufferCnt[cur]

HandledReceived ==
  /\ \A i \in Interfaces : \A n \in 1..Len(handled[i]) : handled[i][n] \in 1..received[i]
  /\ pc = "handle" => char \in 1..received[cur]

PendingInv == ByteTypes /\ Filled /\ CntBounded /\ HandledReceived

-----------------------------------------------------------------------------
(* Characters that come one by one.                                        *)

\* the characters of an interface that have been handled
Done(i) ==
  IF i = cur /\ pc \in {"load", "store"} THEN received[i]
                                         ELSE received[i] - inputBufferCnt[i]

OneByOne ==
  /\ \A i \in Interfaces : inputBufferCnt[i] \in {0, 1}
  /\ \A i \in Interfaces : inputBufferCnt[i] = 1 => inputBuffer[i][0] = received[i]
  /\ \A i \in Interfaces : Len(handled[i]) = Done(i)
  /\ \A i \in Interfaces : \A k \in 1..Len(handled[i]) : handled[i][k] = k
  /\ pc \in Pending => inputBufferCnt[cur] = 1
  /\ pc = "handle" => char = received[cur]
  /\ pc = "store" => reg = 1
  /\ pc = "loadTask" => inputBufferCnt[cur] = 0
  /\ pc = "handle" \/ (pc = "while" /\ inputBufferCnt[cur] = 1) => loop = interfaceType[cur]
  /\ ~misrouted

SpacedInv == ByteTypes /\ (spaced => OneByOne)

-----------------------------------------------------------------------------
(* Types.                                                                  *)

\* The counter stays in its range, whether it advances, wraps or falls below 0.
LEMMA CntRange ==
  /\ \A k \in Nat : Advance(k) \in 0..(Size - 1)
  /\ \A k \in 0..(Range8 - 1) : Decremented(k) \in 0..(Range8 - 1)
BY SizeAssumption, RangeAssumption DEF Advance, Decremented

LEMMA CntExact ==
  /\ \A k \in Nat : k + 1 < Size => Advance(k) = k + 1
  /\ \A k \in 1..(Range8 - 1) : Decremented(k) = k - 1
<1>1. ASSUME NEW k \in Nat, k + 1 < Size
      PROVE  Advance(k) = k + 1
  BY <1>1, SizeAssumption DEF Advance
<1>2. ASSUME NEW k \in 1..(Range8 - 1)
      PROVE  Decremented(k) = k - 1
  BY <1>2, RangeAssumption DEF Decremented
<1> QED
  BY <1>1, <1>2

LEMMA TypeInit == Init => ByteTypes
<1> SUFFICES ASSUME Init PROVE ByteTypes
  OBVIOUS
<1>1. inputBuffer \in [Interfaces -> [0..(Size - 1) -> 0..Arrivals]]
  BY SizeAssumption, ArrivalsAssumption DEF Init
<1>2. handled \in [Interfaces -> Seq(0..Arrivals)]
  BY EmptySeq DEF Init
<1>3. misrouted \in BOOLEAN /\ spaced \in BOOLEAN
  BY Zenon DEF Init
<1>4. /\ inputBufferCnt \in [Interfaces -> 0..(Range8 - 1)]
      /\ received \in [Interfaces -> 0..Arrivals]
      /\ char \in 0..Arrivals /\ reg \in 0..(Range8 - 1)
  BY SizeAssumption, RangeAssumption, ArrivalsAssumption DEF Init
<1>5. /\ task \subseteq Interfaces /\ interfaceType \in [Interfaces -> Types]
      /\ cur \in Interfaces /\ loop \in Types
      /\ pc = "rest"
  BY DEF Init, Interfaces, Types
<1> QED
  BY <1>1, <1>2, <1>3, <1>4, <1>5 DEF ByteTypes, CharTypes, MainTypes, HistTypes

LEMMA TypeParts == ByteTypes <=> CharTypes /\ MainTypes /\ HistTypes
BY Zenon DEF ByteTypes

LEMMA TypePartsPrime == ByteTypes' <=> CharTypes' /\ MainTypes' /\ HistTypes'
BY Zenon DEF ByteTypes

\* the effect of an interrupt but for spaced
LEMMA ReceiveEffect ==
  ASSUME NEW i \in Interfaces, Receive(i)
  PROVE  /\ received[i] < Arrivals
         /\ inputBufferCnt[i] < MaxPending \/ MaxPending = Size
         /\ received' = [received EXCEPT ![i] = received[i] + 1]
         /\ inputBuffer' = IF inputBufferCnt[i] < Size
              THEN [inputBuffer EXCEPT ![i] =
                     [inputBuffer[i] EXCEPT ![inputBufferCnt[i]] = received[i] + 1]]
              ELSE inputBuffer
         /\ inputBufferCnt' = [inputBufferCnt EXCEPT ![i] = Advance(inputBufferCnt[i])]
         /\ task' = task \union {i}
         /\ UNCHANGED <<interfaceType, handled, misrouted, pc, cur, loop, char, reg>>
BY DEF Receive

LEMMA CharTypesStep == CharTypes /\ MainTypes /\ [Next]_vars => CharTypes'
<1> SUFFICES ASSUME CharTypes, MainTypes, [Next]_vars PROVE CharTypes'
  OBVIOUS
<1> USE SizeAssumption, RangeAssumption, ArrivalsAssumption DEF CharTypes
<1>1. ASSUME NEW i \in Interfaces, Receive(i)
      PROVE  CharTypes'
  <2> DEFINE k == inputBufferCnt[i]
             c == received[i] + 1
             Row == [0..(Size - 1) -> 0..Arrivals]
  <2>1. c \in 0..Arrivals
    <3>1. received[i] < Arrivals
      BY <1>1, ReceiveEffect
    <3> QED
      BY <3>1
  <2>2. Advance(k) \in 0..(Range8 - 1)
    BY CntRange
  <2>3. inputBuffer' \in [Interfaces -> Row]
    <3>1. CASE k < Size
      <4>1. [inputBuffer[i] EXCEPT ![k] = c] \in Row
        BY <2>1
      <4>2. inputBuffer' = [inputBuffer EXCEPT ![i] = [inputBuffer[i] EXCEPT ![k] = c]]
        BY <1>1, <3>1, ReceiveEffect
      <4> QED
        BY <4>1, <4>2
    <3>2. CASE ~(k < Size)
      BY <1>1, <3>2, ReceiveEffect
    <3> QED
      BY <3>1, <3>2
  <2>4. /\ received' = [received EXCEPT ![i] = c]
        /\ inputBufferCnt' = [inputBufferCnt EXCEPT ![i] = Advance(k)]
        /\ char' = char /\ reg' = reg
    BY <1>1, ReceiveEffect
  <2> QED
    BY <2>1, <2>2, <2>3, <2>4
<1>2. CASE Rest
  BY <1>2 DEF Rest, ringVars, histVars
<1>3. CASE Poll
  BY <1>3 DEF Poll, ringVars, histVars
<1>4. CASE While
  <2>1. inputBufferCnt[cur] > 0 => Last(inputBufferCnt[cur]) \in Nat
    BY DEF Last, MainTypes
  <2>2. char' \in 0..Arrivals
    BY <1>4, <2>1 DEF While, MainTypes
  <2> QED
    BY <1>4, <2>2 DEF While, ringVars, histVars
<1>5. CASE Handle
  BY <1>5 DEF Handle, ringVars
<1>6. CASE LoadCnt
  BY <1>6 DEF LoadCnt, ringVars, histVars, MainTypes
<1>7. CASE StoreCnt
  <2>1. inputBufferCnt' \in [Interfaces -> 0..(Range8 - 1)]
    BY <1>7, CntRange DEF StoreCnt, MainTypes
  <2> QED
    BY <1>7, <2>1 DEF StoreCnt, histVars
<1>8. CASE LoadTask
  <2>1. reg' \in 0..1
    BY <1>8 DEF LoadTask
  <2> QED
    BY <1>8, <2>1 DEF LoadTask, ringVars, histVars
<1>9. CASE StoreTask
  BY <1>9 DEF StoreTask, ringVars, histVars
<1>10. CASE UNCHANGED vars
  BY <1>10 DEF vars, ringVars, histVars
<1> QED
  BY <1>1, <1>2, <1>3, <1>4, <1>5, <1>6, <1>7, <1>8, <1>9, <1>10 DEF Next, Main

LEMMA MainTypesStep == MainTypes /\ [Next]_vars => MainTypes'
<1> SUFFICES ASSUME MainTypes, [Next]_vars PROVE MainTypes'
  OBVIOUS
<1> USE DEF MainTypes
<1>1. ASSUME NEW i \in Interfaces, Receive(i)
      PROVE  MainTypes'
  BY <1>1, ReceiveEffect
<1>2. CASE Rest
  BY <1>2 DEF Rest, Interfaces
<1>3. CASE Poll
  BY <1>3 DEF Poll, Proceed, SelectLoop, Interfaces
<1>4. CASE While
  BY <1>4 DEF While
<1>5. CASE Handle
  BY <1>5 DEF Handle, SwitchType, Other, Types
<1>6. CASE LoadCnt
  BY <1>6 DEF LoadCnt
<1>7. CASE StoreCnt
  BY <1>7 DEF StoreCnt
<1>8. CASE LoadTask
  BY <1>8 DEF LoadTask
<1>9. CASE StoreTask
  <2>1. task' \subseteq Interfaces
    BY <1>9 DEF StoreTask, TaskAfter
  <2>2. pc' \in {"poll", "rest"} /\ cur' \in Interfaces
    BY <1>9 DEF StoreTask, Proceed, Interfaces
  <2> QED
    BY <1>9, <2>1, <2>2 DEF StoreTask
<1>10. CASE UNCHANGED vars
  BY <1>10 DEF vars
<1> QED
  BY <1>1, <1>2, <1>3, <1>4, <1>5, <1>6, <1>7, <1>8, <1>9, <1>10 DEF Next, Main

LEMMA HistTypesStep == CharTypes /\ MainTypes /\ HistTypes /\ [Next]_vars => HistTypes'
<1> SUFFICES ASSUME CharTypes, MainTypes, HistTypes, [Next]_vars PROVE HistTypes'
  OBVIOUS
<1>1. ASSUME NEW i \in Interfaces, Receive(i)
      PROVE  HistTypes'
  <2>1. spaced' \in BOOLEAN
    BY <1>1, Zenon DEF Receive
  <2> QED
    BY <1>1, <2>1, ReceiveEffect DEF HistTypes
<1>2. CASE Handle
  <2>1. handled' \in [Interfaces -> Seq(0..Arrivals)]
    <3>1. Append(handled[cur], char) \in Seq(0..Arrivals)
      BY AppendProperties DEF CharTypes, MainTypes, HistTypes
    <3> QED
      BY <1>2, <3>1 DEF Handle, HistTypes
  <2>2. misrouted' \in BOOLEAN
    BY <1>2, Zenon DEF Handle
  <2>3. spaced' = spaced
    BY <1>2 DEF Handle
  <2> QED
    BY <2>1, <2>2, <2>3 DEF HistTypes
<1>3. CASE UNCHANGED histVars
  BY <1>3 DEF HistTypes, histVars
<1>4. \/ \E i \in Interfaces : Receive(i)
      \/ Handle
      \/ UNCHANGED histVars
  BY DEF Next, Main, Rest, Poll, While, LoadCnt, StoreCnt, LoadTask, StoreTask, vars, histVars
<1> QED
  BY <1>1, <1>2, <1>3, <1>4

LEMMA TypeStep == ByteTypes /\ [Next]_vars => ByteTypes'
BY TypeParts, TypePartsPrime, CharTypesStep, MainTypesStep, HistTypesStep, Zenon

-----------------------------------------------------------------------------
(* Nothing is invented.                                                    *)

LEMMA PendingInit == Init => PendingInv
<1> SUFFICES ASSUME Init PROVE PendingInv
  OBVIOUS
<1>1. Filled
  BY DEF Init, Filled
<1>2. CntBounded
  BY PendingAssumption DEF Init, CntBounded, Pending
<1>3. HandledReceived
  BY DEF Init, HandledReceived
<1> QED
  BY <1>1, <1>2, <1>3, TypeInit DEF PendingInv

\* a character that arrives goes to the slot behind the ones that wait
LEMMA ReceivePending ==
  ASSUME PendingInv, MaxPending < Size, NEW i \in Interfaces, Receive(i)
  PROVE  Filled' /\ CntBounded' /\ HandledReceived'
<1> USE SizeAssumption, RangeAssumption, PendingAssumption
<1> DEFINE k == inputBufferCnt[i]
           c == received[i] + 1
<1>0. CharTypes /\ MainTypes /\ HistTypes
  BY TypeParts DEF PendingInv
<1>1. k \in Nat /\ k < MaxPending /\ k + 1 < Size
  BY <1>0, ReceiveEffect DEF CharTypes
<1>2. inputBufferCnt' = [inputBufferCnt EXCEPT ![i] = k + 1]
  BY <1>1, CntExact, ReceiveEffect
<1>3. /\ inputBuffer' = [inputBuffer EXCEPT ![i] = [inputBuffer[i] EXCEPT ![k] = c]]
      /\ received' = [received EXCEPT ![i] = c]
      /\ UNCHANGED <<handled, pc, cur, char, reg>>
  BY <1>1, ReceiveEffect
<1>4. Filled'
  <2> SUFFICES ASSUME NEW j \in Interfaces, NEW m \in 0..(inputBufferCnt'[j] - 1)
               PROVE  inputBuffer'[j][m] \in 1..received'[j]
    BY DEF Filled
  <2>1. CASE j = i
    <3>1. inputBuffer'[i] = [inputBuffer[i] EXCEPT ![k] = c] /\ received'[i] = c
      BY <1>0, <1>3 DEF CharTypes
    <3>2. m \in 0..k
      BY <2>1, <1>0, <1>2 DEF CharTypes
    <3>3. CASE m = k
      BY <2>1, <3>1, <3>3, <1>0, <1>1 DEF CharTypes
    <3>4. CASE m # k
      <4>1. inputBuffer[i][m] \in 1..received[i]
        BY <3>2, <3>4, <1>1 DEF PendingInv, Filled
      <4>2. inputBuffer'[i][m] = inputBuffer[i][m]
        BY <3>1, <3>2, <3>4, <1>0, <1>1 DEF CharTypes
      <4>3. received[i] \in Nat
        BY <1>0 DEF CharTypes
      <4> QED
        BY <2>1, <3>1, <4>1, <4>2, <4>3
    <3> QED
      BY <3>3, <3>4
  <2>2. CASE j # i
    <3>1. /\ inputBuffer'[j] = inputBuffer[j] /\ received'[j] = received[j]
          /\ inputBufferCnt'[j] = inputBufferCnt[j]
      BY <2>2, <1>0, <1>2, <1>3 DEF CharTypes
    <3> QED
      BY <3>1 DEF PendingInv, Filled
  <2> QED
    BY <2>1, <2>2
<1>5. CntBounded'
  <2>1. \A j \in Interfaces :
          inputBufferCnt'[j] >= inputBufferCnt[j] /\ inputBufferCnt'[j] <= MaxPending
    <3> TAKE j \in Interfaces
    <3>1. inputBufferCnt[j] \in Int /\ inputBufferCnt[j] <= MaxPending
      BY <1>0 DEF CharTypes, PendingInv, CntBounded
    <3>2. CASE j = i
      BY <3>2, <1>0, <1>1, <1>2 DEF CharTypes
    <3>3. CASE j # i
      BY <3>1, <3>3, <1>0, <1>2 DEF CharTypes
    <3> QED
      BY <3>2, <3>3
  <2>2. \A j \in Interfaces : inputBufferCnt[j] \in Int /\ inputBufferCnt'[j] \in Int
    BY <1>0, <1>1, <1>2 DEF CharTypes
  <2>3. reg \in Int /\ cur \in Interfaces
    BY <1>0 DEF CharTypes, MainTypes
  <2> QED
    BY <1>3, <2>1, <2>2, <2>3 DEF PendingInv, CntBounded
<1>6. HandledReceived'
  <2>1. \A j \in Interfaces : received'[j] \in Nat /\ received'[j] >= received[j]
    BY <1>0, <1>3 DEF CharTypes
  <2>2. \A j \in Interfaces : received[j] \in Nat
    BY <1>0 DEF CharTypes
  <2> QED
    BY <2>1, <2>2, <1>0, <1>3 DEF MainTypes, PendingInv, HandledReceived
<1> QED
  BY <1>4, <1>5, <1>6

LEMMA MainPending ==
  ASSUME PendingInv, MaxPending < Size, Main
  PROVE  Filled' /\ CntBounded' /\ HandledReceived'
<1> USE SizeAssumption, RangeAssumption, PendingAssumption
<1>0. CharTypes /\ MainTypes /\ HistTypes /\ Filled /\ CntBounded /\ HandledReceived
  BY TypeParts DEF PendingInv
<1>1. ASSUME UNCHANGED <<ringVars, handled, received>>,
             pc' \notin Pending
      PROVE  Filled' /\ CntBounded' /\ HandledReceived'
  BY <1>0, <1>1 DEF Filled, CntBounded, HandledReceived, ringVars, Pending
<1>2. CASE Rest \/ Poll \/ LoadTask \/ StoreTask
  BY <1>1, <1>2 DEF Rest, Poll, LoadTask, StoreTask, Proceed, histVars, Pending
<1>3. CASE While
  <2>1. CASE inputBufferCnt[cur] > 0
    <3>1. /\ char' = inputBuffer[cur][inputBufferCnt[cur] - 1]
          /\ pc' = "handle"
          /\ UNCHANGED <<inputBuffer, inputBufferCnt, handled, received, cur, reg>>
      BY <1>0, <1>3, <2>1 DEF While, Last, CharTypes, MainTypes, CntBounded, ringVars, histVars
    <3>2. inputBuffer[cur][inputBufferCnt[cur] - 1] \in 1..received[cur]
      BY <1>0, <2>1 DEF Filled, CharTypes, MainTypes
    <3> QED
      BY <1>0, <2>1, <3>1, <3>2
         DEF Filled, CntBounded, HandledReceived, Pending, CharTypes, MainTypes
  <2>2. CASE ~(inputBufferCnt[cur] > 0)
    BY <1>1, <1>3, <2>2 DEF While, histVars, Pending
  <2> QED
    BY <2>1, <2>2
<1>4. CASE Handle
  <2>1. /\ pc = "handle" /\ pc' = "load"
        /\ handled' = [handled EXCEPT ![cur] = Append(@, char)]
        /\ UNCHANGED <<inputBuffer, inputBufferCnt, received, cur, reg>>
    BY <1>4 DEF Handle, ringVars
  <2>2. Filled' /\ CntBounded'
    BY <1>0, <2>1 DEF Filled, CntBounded, Pending
  <2>3. ASSUME NEW i \in Interfaces, NEW n \in 1..Len(handled'[i])
        PROVE  handled'[i][n] \in 1..received[i]
    <3>1. CASE i = cur
      <4>1. handled'[cur] = Append(handled[cur], char)
        BY <1>0, <2>1 DEF MainTypes, HistTypes
      <4>2. handled[cur] \in Seq(0..Arrivals) /\ char \in 0..Arrivals
        BY <1>0 DEF CharTypes, MainTypes, HistTypes
      <4>3. n \in 1..(Len(handled[cur]) + 1)
        BY <2>3, <3>1, <4>1, <4>2, AppendProperties
      <4>4. CASE n = Len(handled[cur]) + 1
        <5>1. handled'[cur][n] = char
          BY <4>1, <4>2, <4>4, AppendProperties
        <5> QED
          BY <1>0, <2>1, <3>1, <5>1 DEF HandledReceived
      <4>5. CASE n \in 1..Len(handled[cur])
        <5>1. handled'[cur][n] = handled[cur][n]
          BY <4>1, <4>2, <4>5, AppendProperties
        <5> QED
          BY <1>0, <3>1, <4>5, <5>1 DEF HandledReceived, MainTypes
      <4>6. Len(handled[cur]) \in Nat
        BY <4>2, LenProperties
      <4> QED
        BY <4>3, <4>4, <4>5, <4>6
    <3>2. CASE i # cur
      <4>1. handled'[i] = handled[i]
        BY <1>0, <2>1, <3>2 DEF HistTypes
      <4> QED
        BY <1>0, <2>3, <4>1 DEF HandledReceived
    <3> QED
      BY <3>1, <3>2
  <2>4. HandledReceived'
    BY <2>1, <2>3 DEF HandledReceived
  <2> QED
    BY <2>2, <2>4
<1>5. CASE LoadCnt
  BY <1>0, <1>5
     DEF LoadCnt, ringVars, histVars, Filled, CntBounded, HandledReceived, Pending,
         CharTypes, MainTypes
<1>6. CASE StoreCnt
  <2>1. /\ pc = "store" /\ pc' = "while"
        /\ UNCHANGED <<inputBuffer, handled, received, cur>>
    BY <1>6 DEF StoreCnt, histVars
  <2>2. reg \in 1..(Range8 - 1) /\ reg <= inputBufferCnt[cur]
    BY <1>0, <2>1 DEF CntBounded, CharTypes
  <2>3. inputBufferCnt' = [inputBufferCnt EXCEPT ![cur] = reg - 1]
    BY <1>6, <2>2, CntExact DEF StoreCnt
  <2>4. \A i \in Interfaces : inputBufferCnt'[i] <= inputBufferCnt[i]
    BY <1>0, <2>2, <2>3 DEF CharTypes, MainTypes
  <2>5. \A i \in Interfaces : inputBufferCnt[i] \in Nat /\ inputBufferCnt'[i] \in Int
    BY <1>0, <2>2, <2>3 DEF CharTypes, MainTypes
  <2> QED
    BY <1>0, <2>1, <2>4, <2>5 DEF Filled, CntBounded, HandledReceived, Pending
<1> QED
  BY <1>2, <1>3, <1>4, <1>5, <1>6 DEF Main

LEMMA PendingStep == MaxPending < Size /\ PendingInv /\ [Next]_vars => PendingInv'
<1> SUFFICES ASSUME MaxPending < Size, PendingInv, [Next]_vars PROVE PendingInv'
  OBVIOUS
<1>1. ByteTypes'
  BY TypeStep DEF PendingInv
<1>2. CASE \E i \in Interfaces : Receive(i)
  BY <1>1, <1>2, ReceivePending DEF PendingInv
<1>3. CASE Main
  BY <1>1, <1>3, MainPending DEF PendingInv
<1>4. CASE UNCHANGED vars
  BY <1>1, <1>4
     DEF PendingInv, Filled, CntBounded, HandledReceived, Pending, vars, ringVars, histVars
<1> QED
  BY <1>2, <1>3, <1>4 DEF Next

LEMMA PendingCorrect ==
  ASSUME MaxPending < Size
  PROVE  Spec => []PendingInv
<1>1. PendingInv /\ [Next]_vars => PendingInv'
  BY PendingStep
<1> QED
  BY <1>1, PendingInit, PTL DEF Spec

\* If the sender never lets the buffer fill up, the counter stays an index of
\* the buffer, for every size of the buffer and wherever the interrupts fall
\* between the load and the store with which main decrements it.
THEOREM TypeCorrect ==
  ASSUME MaxPending < Size
  PROVE  Spec => []TypeOK
<1>1. PendingInv => TypeOK
  <2> SUFFICES ASSUME PendingInv PROVE TypeOK
    OBVIOUS
  <2>1. CharTypes /\ MainTypes /\ HistTypes /\ CntBounded
    BY TypeParts DEF PendingInv
  <2>2. inputBufferCnt \in [Interfaces -> 0..(Size - 1)]
    BY <2>1, SizeAssumption, PendingAssumption DEF CharTypes, CntBounded
  <2> QED
    BY <2>1, <2>2, Zenon DEF TypeOK, CharTypes, MainTypes, HistTypes
<1> QED
  BY <1>1, PendingCorrect, PTL

\* ... and nothing but received characters is handled.
THEOREM NothingInventedTheorem ==
  ASSUME MaxPending < Size
  PROVE  Spec => []NothingInvented
<1>1. PendingInv => NothingInvented
  <2> SUFFICES ASSUME PendingInv PROVE NothingInvented
    OBVIOUS
  <2>1. CharTypes
    BY TypeParts DEF PendingInv
  <2> QED
    BY <2>1, SizeAssumption, PendingAssumption
       DEF PendingInv, CntBounded, HandledReceived, NothingInvented, CharTypes
<1> QED
  BY <1>1, PendingCorrect, PTL

-----------------------------------------------------------------------------
(* Characters that come one by one are handled in order, by the right      *)
(* handler.                                                                *)

LEMMA SpacedInit == Init => SpacedInv
<1> SUFFICES ASSUME Init PROVE OneByOne
  BY TypeInit DEF SpacedInv
<1>1. \A i \in Interfaces : handled[i] = << >> /\ received[i] = 0 /\ inputBufferCnt[i] = 0
  BY DEF Init
<1>2. pc = "rest" /\ ~misrouted
  BY DEF Init
<1> QED
  BY <1>1, <1>2 DEF OneByOne, Done, Pending

\* the interrupt that keeps spaced finds an empty buffer and main at rest
LEMMA ReceiveSpaced ==
  ASSUME ByteTypes, OneByOne, NEW i \in Interfaces, Receive(i),
         pc = "rest", inputBufferCnt[i] = 0
  PROVE  OneByOne'
<1>0. CharTypes /\ MainTypes /\ HistTypes
  BY TypeParts
<1>1. inputBufferCnt' = [inputBufferCnt EXCEPT ![i] = 1]
  BY CntExact, ReceiveEffect, SizeAssumption
<1>2. /\ inputBuffer' = [inputBuffer EXCEPT ![i] = [inputBuffer[i] EXCEPT ![0] = received[i] + 1]]
      /\ received' = [received EXCEPT ![i] = received[i] + 1]
      /\ UNCHANGED <<interfaceType, handled, misrouted, pc, cur, loop, char, reg>>
  BY ReceiveEffect, SizeAssumption
<1>3. inputBuffer'[i][0] = received'[i]
  BY <1>0, <1>2, SizeAssumption DEF CharTypes
<1>4. \A j \in Interfaces : inputBufferCnt'[j] \in {0, 1}
  BY <1>0, <1>1 DEF CharTypes, OneByOne
<1>5. \A j \in Interfaces : inputBufferCnt'[j] = 1 => inputBuffer'[j][0] = received'[j]
  <2> TAKE j \in Interfaces
  <2>1. CASE j = i
    BY <1>3, <2>1
  <2>2. CASE j # i
    BY <2>2, <1>0, <1>1, <1>2 DEF CharTypes, OneByOne
  <2> QED
    BY <2>1, <2>2
<1>6. \A j \in Interfaces : Len(handled'[j]) = Done(j)'
  BY <1>0, <1>1, <1>2 DEF CharTypes, OneByOne, Done
<1> QED
  BY <1>2, <1>4, <1>5, <1>6 DEF OneByOne, Pending

LEMMA MainSpaced ==
  ASSUME ByteTypes, OneByOne, Main
  PROVE  OneByOne'
<1>0. CharTypes /\ MainTypes /\ HistTypes
  BY TypeParts
<1>1. ASSUME UNCHANGED <<inputBuffer, inputBufferCnt, handled, received, interfaceType, misrouted>>,
             pc \notin Pending, pc' \notin Pending,
             pc' = "loadTask" => inputBufferCnt[cur'] = 0,
             pc' = "while" => loop' = interfaceType[cur']
      PROVE  OneByOne'
  BY <1>1 DEF OneByOne, Done, Pending
<1>2. CASE Rest
  BY <1>1, <1>2 DEF Rest, ringVars, histVars, Pending
<1>3. CASE Poll
  BY <1>1, <1>3 DEF Poll, Proceed, SelectLoop, ringVars, histVars, Pending
<1>4. CASE LoadTask
  BY <1>1, <1>4 DEF LoadTask, ringVars, histVars, Pending
<1>5. CASE StoreTask
  BY <1>1, <1>5 DEF StoreTask, Proceed, ringVars, histVars, Pending
<1>6. CASE While
  <2>1. CASE inputBufferCnt[cur] > 0
    <3>1. inputBufferCnt[cur] = 1
      BY <1>0, <2>1 DEF OneByOne, MainTypes
    <3>2. /\ pc = "while" /\ pc' = "handle"
          /\ UNCHANGED <<inputBuffer, inputBufferCnt, handled, received, interfaceType, misrouted,
                         cur, loop>>
      BY <1>6, <2>1 DEF While, ringVars, histVars
    <3>3. char' = inputBuffer[cur][0]
      BY <1>6, <2>1, <3>1, SizeAssumption DEF While, Last
    <3>4. char' = received[cur]
      BY <1>0, <3>1, <3>3 DEF OneByOne, MainTypes
    <3> QED
      BY <3>1, <3>2, <3>4 DEF OneByOne, Done, Pending
  <2>2. CASE ~(inputBufferCnt[cur] > 0)
    <3>1. /\ inputBufferCnt[cur] = 0
          /\ pc = "while" /\ pc' = "loadTask"
          /\ UNCHANGED <<inputBuffer, inputBufferCnt, handled, received, interfaceType, misrouted,
                         cur, loop>>
      BY <1>0, <1>6, <2>2 DEF While, ringVars, histVars, OneByOne, MainTypes
    <3> QED
      BY <1>1, <3>1 DEF Pending
  <2> QED
    BY <2>1, <2>2
<1>7. CASE Handle
  <2>1. /\ pc = "handle" /\ pc' = "load"
        /\ handled' = [handled EXCEPT ![cur] = Append(@, char)]
        /\ UNCHANGED <<inputBuffer, inputBufferCnt, received, cur>>
    BY <1>7 DEF Handle, ringVars
  <2>2. inputBufferCnt[cur] = 1 /\ char = received[cur] /\ loop = interfaceType[cur] /\ ~misrouted
    BY <2>1 DEF OneByOne, Pending
  <2>3. ~misrouted'
    BY <1>7, <2>2 DEF Handle
  <2>4. /\ handled[cur] \in Seq(0..Arrivals) /\ char \in 0..Arrivals
        /\ Len(handled[cur]) = char - 1
    BY <1>0, <2>1, <2>2 DEF CharTypes, MainTypes, HistTypes, OneByOne, Done
  <2>5. handled'[cur] = Append(handled[cur], char)
    BY <1>0, <2>1 DEF MainTypes, HistTypes
  <2>6. \A i \in Interfaces : i # cur => handled'[i] = handled[i]
    BY <1>0, <2>1 DEF HistTypes
  <2>7. /\ Len(handled'[cur]) = char
        /\ \A k \in 1..Len(handled'[cur]) : handled'[cur][k] = k
    <3>1. /\ Len(handled'[cur]) = Len(handled[cur]) + 1
          /\ \A k \in 1..Len(handled[cur]) : handled'[cur][k] = handled[cur][k]
          /\ handled'[cur][Len(handled[cur]) + 1] = char
      BY <2>4, <2>5, AppendProperties
    <3>2. \A k \in 1..Len(handled[cur]) : handled[cur][k] = k
      BY <1>0 DEF OneByOne, MainTypes
    <3> QED
      BY <2>4, <3>1, <3>2
  <2>8. \A i \in Interfaces : Len(handled'[i]) = Done(i)'
    BY <2>1, <2>2, <2>6, <2>7 DEF OneByOne, Done
  <2>9. \A i \in Interfaces : \A k \in 1..Len(handled'[i]) : handled'[i][k] = k
    BY <2>6, <2>7 DEF OneByOne
  <2> QED
    BY <2>1, <2>2, <2>3, <2>8, <2>9 DEF OneByOne, Pending
<1>8. CASE LoadCnt
  BY <1>8 DEF LoadCnt, ringVars, histVars, OneByOne, Done, Pending
<1>9. CASE StoreCnt
  <2>1. /\ pc = "store" /\ pc' = "while" /\ reg = 1
        /\ UNCHANGED <<inputBuffer, handled, received, interfaceType, misrouted, cur, loop>>
    BY <1>9 DEF StoreCnt, histVars, OneByOne
  <2>2. inputBufferCnt' = [inputBufferCnt EXCEPT ![cur] = 0]
    <3>1. Decremented(1) = 0
      BY CntExact, SizeAssumption, RangeAssumption
    <3> QED
      BY <1>9, <2>1, <3>1 DEF StoreCnt
  <2>3. inputBufferCnt'[cur] = 0 /\ \A i \in Interfaces : i # cur => inputBufferCnt'[i] = inputBufferCnt[i]
    BY <1>0, <2>2 DEF CharTypes, MainTypes
  <2>4. \A i \in Interfaces : Len(handled'[i]) = Done(i)'
    BY <1>0, <2>1, <2>3 DEF OneByOne, Done, CharTypes
  <2> QED
    BY <2>1, <2>3, <2>4 DEF OneByOne, Pending
<1> QED
  BY <1>2, <1>3, <1>4, <1>5, <1>6, <1>7, <1>8, <1>9 DEF Main

LEMMA SpacedStep == SpacedInv /\ [Next]_vars => SpacedInv'
<1> SUFFICES ASSUME SpacedInv, [Next]_vars, spaced' PROVE OneByOne'
  BY TypeStep DEF SpacedInv
<1>1. ASSUME NEW i \in Interfaces, Receive(i)
      PROVE  OneByOne'
  <2>1. spaced /\ pc = "rest" /\ inputBufferCnt[i] = 0
    BY <1>1, Zenon DEF Receive
  <2> QED
    BY <1>1, <2>1, ReceiveSpaced DEF SpacedInv
<1>2. CASE Main
  <2>1. spaced
    BY <1>2 DEF Main, Rest, Poll, While, Handle, LoadCnt, StoreCnt, LoadTask, StoreTask, histVars
  <2> QED
    BY <1>2, <2>1, MainSpaced DEF SpacedInv
<1>3. CASE UNCHANGED vars
  BY <1>3 DEF SpacedInv, OneByOne, Done, Pending, vars, ringVars, histVars
<1> QED
  BY <1>1, <1>2, <1>3 DEF Next

LEMMA SpacedCorrect == Spec => []SpacedInv
BY SpacedInit, SpacedStep, PTL DEF Spec

\* Characters that come one by one are handled once each and in the order of
\* their arrival, for any number of them on either interface, although the
\* buffer is emptied from its end.
THEOREM InOrderTheorem == Spec => []InOrder
<1>1. SpacedInv => InOrder
  BY DEF SpacedInv, OneByOne, InOrder
<1> QED
  BY <1>1, SpacedCorrect, PTL

\* The handler of such a character is the one that is selected when it is
\* handled, whichever characters switch between the two.
THEOREM RoutedByTypeTheorem == Spec => []RoutedByType
<1>1. SpacedInv => RoutedByType
  BY DEF SpacedInv, OneByOne, RoutedByType
<1> QED
  BY <1>1, SpacedCorrect, PTL
=============================================================================
