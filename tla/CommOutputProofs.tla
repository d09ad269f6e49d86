------------------------- MODULE CommOutputProofs --------------------------
(***************************************************************************)
(* Proofs that the two output buffers implement byte queues, for every     *)
(* buffer size and every string length.                                    *)
(***************************************************************************)
EXTENDS CommOutput, SequenceTheorems, TLAPS

\* The character that printf is about to store is one that was printed.
FetchedChar == pc \in {"putUsb", "putBt", "flushUsb"} => cur_data \in Byte

FifoInv == TypeOK /\ RoomForNext /\ FetchedChar

-----------------------------------------------------------------------------
(* The window of a buffer between the two counters, as a sequence.         *)

Window(f, w, r) == [k \in 1..(r - w) |-> f[w + k - 1]]
Values(f, g) == {f[k] : k \in Int} \union {g[k] : k \in Int}

LEMMA IntervalBound ==
  ASSUME NEW a \in Nat, NEW b \in Nat, 1..a = 1..b
  PROVE  a = b
<1>1. a >= 1 => a \in 1..b
  OBVIOUS
<1>2. b >= 1 => b \in 1..a
  OBVIOUS
<1> QED
  BY <1>1, <1>2

IsWindow(f, S, w, r) ==
  Window(f, w, r) \in Seq(S) /\ Len(Window(f, w, r)) = r - w

LEMMA WindowIsSeq ==
  ASSUME NEW f, NEW g, NEW w \in Nat, NEW r \in Nat, w <= r
  PROVE  IsWindow(f, Values(f, g), w, r)
<1> DEFINE S == Values(f, g)
<1>1. r - w \in Nat
  OBVIOUS
<1>2. \A k \in 1..(r - w) : f[w + k - 1] \in S
  BY DEF Values
<1>3. Window(f, w, r) \in [1..(r - w) -> S]
  BY <1>2 DEF Window
<1>4. Window(f, w, r) \in Seq(S)
  BY <1>1, <1>3
<1>5. DOMAIN Window(f, w, r) = 1..(r - w)
  BY DEF Window
<1>6. DOMAIN Window(f, w, r) = 1..Len(Window(f, w, r)) /\ Len(Window(f, w, r)) \in Nat
  BY <1>4, LenProperties
<1>7. 1..Len(Window(f, w, r)) = 1..(r - w)
  BY <1>5, <1>6
<1>8. Len(Window(f, w, r)) = r - w
  BY <1>1, <1>6, <1>7, IntervalBound, Zenon
<1> QED
  BY <1>4, <1>8 DEF IsWindow

\* Storing a byte at the end of the window appends it to the sequence.
LEMMA WindowAppend ==
  ASSUME NEW f, NEW g, NEW w \in Nat, NEW r \in Nat, w <= r,
         \A k \in w..(r - 1) : g[k] = f[k]
  PROVE  Window(g, w, r + 1) = Append(Window(f, w, r), g[r])
<1>1. g[r] \in Values(f, g)
  BY DEF Values
<1>2. IsWindow(f, Values(f, g), w, r)
  BY WindowIsSeq
<1>3. IsWindow(g, Values(f, g), w, r + 1)
  <2>1. IsWindow(g, Values(g, f), w, r + 1)
    BY WindowIsSeq
  <2>2. Values(g, f) = Values(f, g)
    BY DEF Values
  <2> QED
    BY <2>1, <2>2
<1>4. /\ Append(Window(f, w, r), g[r]) \in Seq(Values(f, g))
      /\ Len(Append(Window(f, w, r), g[r])) = r + 1 - w
      /\ \A k \in 1..(r - w) : Append(Window(f, w, r), g[r])[k] = Window(f, w, r)[k]
      /\ Append(Window(f, w, r), g[r])[r - w + 1] = g[r]
  BY <1>1, <1>2, AppendProperties DEF IsWindow
<1>5. \A k \in 1..(r + 1 - w) : Window(g, w, r + 1)[k] = g[w + k - 1]
  BY DEF Window
<1>6. \A k \in 1..(r - w) : Window(f, w, r)[k] = f[w + k - 1]
  BY DEF Window
<1>7. ASSUME NEW k \in 1..(r + 1 - w)
      PROVE  Window(g, w, r + 1)[k] = Append(Window(f, w, r), g[r])[k]
  <2>1. CASE k = r - w + 1
    BY <2>1, <1>4, <1>5
  <2>2. CASE k \in 1..(r - w)
    <3>1. g[w + k - 1] = f[w + k - 1]
      BY <2>2
    <3>2. Window(g, w, r + 1)[k] = g[w + k - 1]
      BY <1>5
    <3>3. Append(Window(f, w, r), g[r])[k] = f[w + k - 1]
      BY <2>2, <1>4, <1>6
    <3> QED
      BY <3>1, <3>2, <3>3
  <2>3. k = r - w + 1 \/ k \in 1..(r - w)
    OBVIOUS
  <2> QED
    BY <2>1, <2>2, <2>3, Zenon
<1> QED
  BY <1>3, <1>4, <1>7, SeqEqual DEF IsWindow

\* Advancing the sender by one removes the head of the sequence.
LEMMA WindowTail ==
  ASSUME NEW f, NEW w \in Nat, NEW r \in Nat, w < r
  PROVE  /\ Window(f, w, r) # << >>
         /\ Head(Window(f, w, r)) = f[w]
         /\ Window(f, w + 1, r) = Tail(Window(f, w, r))
<1>1. IsWindow(f, Values(f, f), w, r)
  BY WindowIsSeq
<1>2. IsWindow(f, Values(f, f), w + 1, r)
  BY WindowIsSeq
<1>3. Window(f, w, r) # << >>
  BY <1>1 DEF IsWindow
<1>4. /\ Tail(Window(f, w, r)) \in Seq(Values(f, f))
      /\ Len(Tail(Window(f, w, r))) = r - w - 1
      /\ \A k \in 1..(r - w - 1) : Tail(Window(f, w, r))[k] = Window(f, w, r)[k + 1]
  BY <1>1, <1>3, HeadTailProperties DEF IsWindow
<1>5. \A k \in 1..(r - w) : Window(f, w, r)[k] = f[w + k - 1]
  BY DEF Window
<1>6. \A k \in 1..(r - (w + 1)) : Window(f, w + 1, r)[k] = f[w + 1 + k - 1]
  BY DEF Window
<1>7. \A k \in 1..(r - (w + 1)) : Window(f, w + 1, r)[k] = Tail(Window(f, w, r))[k]
  BY <1>4, <1>5, <1>6
<1>8. Window(f, w + 1, r) = Tail(Window(f, w, r))
  BY <1>2, <1>4, <1>7, SeqEqual DEF IsWindow
<1>9. Head(Window(f, w, r)) = f[w]
  BY <1>1, <1>3, <1>5 DEF IsWindow
<1> QED
  BY <1>3, <1>8, <1>9

-----------------------------------------------------------------------------
(* The invariant.                                                          *)

LEMMA InvInit == Init => FifoInv
BY ByteAssumption, SizeAssumption, MaxTextAssumption
   DEF Init, FifoInv, TypeOK, RoomForNext, FetchedChar, Interfaces

LEMMA ModSmall ==
  ASSUME NEW a \in Nat, a + 1 < Size
  PROVE  (a + 1) % Size = a + 1
BY SizeAssumption

LEMMA PutInv ==
  ASSUME FifoInv, NEW i \in Interfaces, NEW next, NEW flush,
         \/ i = "usb" /\ pc = "putUsb" /\ next = "putBt" /\ flush = "flushUsb"
         \/ i = "bt" /\ pc = "putBt" /\ next = "fetch" /\ flush = "flushBt",
         PutByte(i, next, flush)
  PROVE  FifoInv'
<1> USE SizeAssumption DEF FifoInv, TypeOK, RoomForNext, FetchedChar, Interfaces
<1>1. CASE i \in context
  <2>1. outputBufferReadCnt[i] \in Nat /\ outputBufferReadCnt[i] < Size - 1
    OBVIOUS
  <2>2. (outputBufferReadCnt[i] + 1) % Size = outputBufferReadCnt[i] + 1
    BY <2>1, ModSmall
  <2>3. /\ outputBufferReadCnt' =
             [outputBufferReadCnt EXCEPT ![i] = outputBufferReadCnt[i] + 1]
        /\ pc' = IF outputBufferReadCnt[i] + 1 = Size - 1 THEN flush ELSE next
        /\ UNCHANGED <<outputBufferWriteCnt, ready, out, context, caller, cur_data, left>>
    BY <1>1, <2>2 DEF PutByte, IsFull, hwVars
  <2>4. outputBuffer' \in [Interfaces -> [0..(Size - 1) -> Byte \union {"none"}]]
    <3> DEFINE Row == [0..(Size - 1) -> Byte \union {"none"}]
               row == [outputBuffer[i] EXCEPT ![outputBufferReadCnt[i]] = cur_data]
    <3>1. cur_data \in Byte
      OBVIOUS
    <3>2. outputBuffer[i] \in Row
      OBVIOUS
    <3>3. row \in Row
      BY <2>1, <3>1, <3>2
    <3>4. outputBuffer' = [outputBuffer EXCEPT ![i] = row]
      BY <1>1 DEF PutByte
    <3> HIDE DEF Row, row
    <3>5. outputBuffer \in [Interfaces -> Row]
      BY DEF Row
    <3>6. outputBuffer' \in [Interfaces -> Row]
      BY <3>3, <3>4, <3>5
    <3> QED
      BY <3>6 DEF Row
  <2>5. TypeOK'
    BY <2>1, <2>3, <2>4
  <2>6. RoomForNext'
    BY <2>1, <2>3
  <2>7. FetchedChar'
    BY <2>3
  <2> QED
    BY <2>5, <2>6, <2>7
<1>2. CASE i \notin context
  BY <1>2 DEF PutByte, bufferVars, hwVars
<1> QED
  BY <1>1, <1>2

LEMMA SendInv ==
  ASSUME FifoInv, NEW i \in Interfaces, NEW sent, NEW pending,
         \/ i = "usb" /\ pc = "flushUsb" /\ sent = "putBt" /\ pending = "flushUsb"
         \/ i = "bt" /\ pc = "flushBt" /\ sent = "fetch" /\ pending = "flushBt"
         \/ i = "usb" /\ pc = "sendUsb" /\ sent = "sendBt" /\ pending = "sendBt"
         \/ i = "bt" /\ pc = "sendBt" /\ sent = "consoleUsb" /\ pending = "consoleUsb",
         SendCharAsync(i, sent, pending)
  PROVE  FifoInv'
<1> USE SizeAssumption
    DEF FifoInv, TypeOK, RoomForNext, FetchedChar, Interfaces, SendCharAsync, AfterSend
<1>1. CASE CanSend(i)
  BY <1>1 DEF CanSend, hwVars
<1>2. CASE ~CanSend(i)
  BY <1>2 DEF hwVars
<1> QED
  BY <1>1, <1>2

LEMMA InvStep == FifoInv /\ [Next]_vars => FifoInv'
<1> SUFFICES ASSUME FifoInv, [Next]_vars PROVE FifoInv'
  OBVIOUS
<1> USE DEF FifoInv, TypeOK, RoomForNext, FetchedChar, Interfaces
<1>1. CASE ConsoleUsb
  BY <1>1, MaxTextAssumption DEF ConsoleUsb, Call, bufferVars, hwVars
<1>2. CASE ConsoleBt
  BY <1>2, MaxTextAssumption DEF ConsoleBt, Call, bufferVars, hwVars
<1>3. CASE Report
  BY <1>3, MaxTextAssumption DEF Report, Call, bufferVars, hwVars
<1>4. CASE Fetch
  BY <1>4, MaxTextAssumption DEF Fetch, bufferVars, hwVars
<1>5. CASE PutUsb
  BY <1>5, PutInv DEF PutUsb
<1>6. CASE PutBt
  BY <1>6, PutInv DEF PutBt
<1>7. CASE FlushUsb
  BY <1>7, SendInv DEF FlushUsb
<1>8. CASE FlushBt
  BY <1>8, SendInv DEF FlushBt
<1>9. CASE SendUsb
  BY <1>9, SendInv DEF SendUsb
<1>10. CASE SendBt
  BY <1>10, SendInv DEF SendBt
<1>11. ASSUME NEW i \in Interfaces, Transmitted(i)
       PROVE  FifoInv'
  BY <1>11 DEF Transmitted, bufferVars, mainVars
<1>12. CASE UNCHANGED vars
  BY <1>12 DEF vars, bufferVars, hwVars, mainVars
<1> QED
  BY <1>1, <1>2, <1>3, <1>4, <1>5, <1>6, <1>7, <1>8, <1>9, <1>10, <1>11, <1>12
     DEF Next, Main

LEMMA InvCorrect == Spec => []FifoInv
BY InvInit, InvStep, PTL DEF Spec

\* The counters and buffers of both interfaces stay in their types.
THEOREM TypeCorrect == Spec => []TypeOK
<1>1. FifoInv => TypeOK
  BY DEF FifoInv
<1> QED
  BY <1>1, InvCorrect, PTL

\* printf finds a free slot for every character, for every buffer size: the
\* buffer is full only while printf itself empties it.
THEOREM RoomForNextTheorem == Spec => []RoomForNext
<1>1. FifoInv => RoomForNext
  BY DEF FifoInv
<1> QED
  BY <1>1, InvCorrect, PTL

-----------------------------------------------------------------------------
(* Every step is a step of both queues, or leaves them alone.              *)

Appended(i) ==
  /\ Len(Pending(i)) < Size - 1
  /\ Pending(i)' = Append(Pending(i), cur_data)
  /\ out'[i] = out[i]

Taken(i) ==
  /\ Pending(i) # << >>
  /\ out'[i] = Head(Pending(i))
  /\ Pending(i)' = Tail(Pending(i))

Unmoved(i) == Pending(i)' = Pending(i) /\ out'[i] = out[i]

\* the byte offered is used up, kept, or a new one
Consumed(i) == cur_data \in Byte /\ Offered(i) = cur_data /\ Offered(i)' = "none"
Kept(i) == Offered(i)' = Offered(i)
Begun(i) == Offered(i) = "none" /\ Offered(i)' \in Byte

QueueStep(i) ==
  \/ Appended(i) /\ Consumed(i)
  \/ Taken(i) /\ Kept(i)
  \/ Unmoved(i) /\ (Kept(i) \/ Begun(i))

LEMMA PendingIsWindow ==
  ASSUME NEW i \in Interfaces
  PROVE  /\ Pending(i) = Window(outputBuffer[i], outputBufferWriteCnt[i],
                                outputBufferReadCnt[i])
         /\ Pending(i)' = Window(outputBuffer'[i], outputBufferWriteCnt'[i],
                                 outputBufferReadCnt'[i])
BY DEF Pending, Window

\* Nothing happens to a queue whose buffer and counters do not change.
LEMMA SameQueue ==
  ASSUME NEW i \in Interfaces,
         outputBuffer'[i] = outputBuffer[i],
         outputBufferWriteCnt'[i] = outputBufferWriteCnt[i],
         outputBufferReadCnt'[i] = outputBufferReadCnt[i],
         out'[i] = out[i],
         Kept(i) \/ Begun(i)
  PROVE  QueueStep(i)
BY DEF QueueStep, Unmoved, Pending

\* where printf is when it puts a character into the buffer of i
AtPut(i, next, flush) ==
  \/ i = "usb" /\ pc = "putUsb" /\ next = "putBt" /\ flush = "flushUsb"
  \/ i = "bt" /\ pc = "putBt" /\ next = "fetch" /\ flush = "flushBt"

\* where main is when it hands a byte of i to the hardware
AtSend(i, sent, pending) ==
  \/ i = "usb" /\ pc = "flushUsb" /\ sent = "putBt" /\ pending = "flushUsb"
  \/ i = "bt" /\ pc = "flushBt" /\ sent = "fetch" /\ pending = "flushBt"
  \/ i = "usb" /\ pc = "sendUsb" /\ sent = "sendBt" /\ pending = "sendBt"
  \/ i = "bt" /\ pc = "sendBt" /\ sent = "consoleUsb" /\ pending = "consoleUsb"

\* The character is consumed by the queue it is put into, and then offered
\* to the other one.
LEMMA PutOffer ==
  ASSUME FifoInv, NEW i \in Interfaces, NEW next, NEW flush, AtPut(i, next, flush),
         PutByte(i, next, flush), NEW j \in Interfaces
  PROVE  IF j = i /\ i \in context THEN Consumed(j) ELSE Kept(j) \/ Begun(j)
<1>1. cur_data \in Byte /\ context' = context /\ cur_data' = cur_data
  BY DEF PutByte, FifoInv, FetchedChar, AtPut
<1>2. pc' \in {next, flush}
  BY DEF PutByte
<1> QED
  BY <1>1, <1>2 DEF AtPut, Consumed, Kept, Begun, Offered, Interfaces

LEMMA SendOffer ==
  ASSUME FifoInv, NEW i \in Interfaces, NEW sent, NEW pending, AtSend(i, sent, pending),
         SendCharAsync(i, sent, pending), NEW j \in Interfaces
  PROVE  IF j = i THEN Kept(j) ELSE Kept(j) \/ Begun(j)
<1>1. context' = context /\ cur_data' = cur_data /\ pc' \in {sent, pending}
  BY DEF SendCharAsync
<1>2. pc = "flushUsb" => cur_data \in Byte
  BY DEF FifoInv, FetchedChar
<1> QED
  BY <1>1, <1>2 DEF AtSend, Kept, Begun, Offered, Interfaces

LEMMA PutQueue ==
  ASSUME FifoInv, NEW i \in Interfaces, NEW next, NEW flush, AtPut(i, next, flush),
         PutByte(i, next, flush), NEW j \in Interfaces
  PROVE  QueueStep(j)
<1> DEFINE w == outputBufferWriteCnt[i]
           r == outputBufferReadCnt[i]
           f == outputBuffer[i]
           g == [f EXCEPT ![r] = cur_data]
<1>1. CASE i \in context /\ j = i
  <2>1. w \in Nat /\ r \in Nat /\ w <= r /\ r < Size - 1 /\ cur_data \in Byte
    BY SizeAssumption DEF FifoInv, TypeOK, RoomForNext, FetchedChar, AtPut, Interfaces
  <2>2. (r + 1) % Size = r + 1
    BY <2>1, SizeAssumption, ModSmall
  <2>3. /\ outputBuffer'[i] = g
        /\ outputBufferWriteCnt'[i] = w
        /\ outputBufferReadCnt'[i] = r + 1
        /\ out'[i] = out[i]
    BY <1>1, <2>2 DEF PutByte, hwVars, FifoInv, TypeOK
  <2>4. g[r] = cur_data /\ \A k \in w..(r - 1) : g[k] = f[k]
    BY <2>1, SizeAssumption DEF FifoInv, TypeOK
  <2>5. IsWindow(f, Values(f, f), w, r)
    BY <2>1, WindowIsSeq
  <2> HIDE DEF w, r, f, g
  <2>6. Window(g, w, r + 1) = Append(Window(f, w, r), cur_data)
    <3>1. Window(g, w, r + 1) = Append(Window(f, w, r), g[r])
      BY <2>1, <2>4, WindowAppend
    <3> QED
      BY <3>1, <2>4
  <2>7. Pending(i) = Window(f, w, r) /\ Pending(i)' = Window(g, w, r + 1)
    BY <2>3, PendingIsWindow DEF w, r, f
  <2>8. Len(Pending(i)) < Size - 1
    BY <2>1, <2>5, <2>7, SizeAssumption DEF IsWindow
  <2>9. Consumed(i)
    BY <1>1, PutOffer
  <2> QED
    BY <1>1, <2>3, <2>6, <2>7, <2>8, <2>9 DEF QueueStep, Appended
<1>2. CASE i \notin context
  <2>1. Kept(j) \/ Begun(j)
    BY <1>2, PutOffer
  <2> QED
    BY <1>2, <2>1, SameQueue DEF PutByte, bufferVars, hwVars
<1>3. CASE i \in context /\ j # i
  <2>1. Kept(j) \/ Begun(j)
    BY <1>3, PutOffer
  <2> QED
    BY <1>3, <2>1, SameQueue DEF PutByte, hwVars, FifoInv, TypeOK
<1> QED
  BY <1>1, <1>2, <1>3

LEMMA SendQueue ==
  ASSUME FifoInv, NEW i \in Interfaces, NEW sent, NEW pending, AtSend(i, sent, pending),
         SendCharAsync(i, sent, pending), NEW j \in Interfaces
  PROVE  QueueStep(j)
<1> DEFINE w == outputBufferWriteCnt[i]
           r == outputBufferReadCnt[i]
           f == outputBuffer[i]
           written == IF CanSend(i) THEN w + 1 ELSE w
<1>1. w \in Nat /\ r \in Nat /\ w <= r
  BY SizeAssumption DEF FifoInv, TypeOK, RoomForNext
<1>2. AfterSend(i, written) /\ outputBuffer' = outputBuffer
  BY DEF SendCharAsync
<1>3. CASE j # i
  <2>1. out'[j] = out[j]
    BY <1>3 DEF SendCharAsync, hwVars, FifoInv, TypeOK
  <2>2. /\ outputBufferWriteCnt'[j] = outputBufferWriteCnt[j]
        /\ outputBufferReadCnt'[j] = outputBufferReadCnt[j]
    BY <1>2, <1>3 DEF AfterSend, FifoInv, TypeOK
  <2>3. Kept(j) \/ Begun(j)
    BY <1>3, SendOffer
  <2> QED
    BY <1>2, <2>1, <2>2, <2>3, SameQueue
<1>4. Window(f, 0, 0) = << >>
  BY DEF Window
<1>5. written \in Nat /\ written <= r
  BY <1>1 DEF CanSend
\* resetting both counters of an empty buffer leaves it empty
<1>6. Pending(i)' = Window(f, written, r)
  <2>1. CASE written = r
    <3>1. outputBufferWriteCnt'[i] = 0 /\ outputBufferReadCnt'[i] = 0
      BY <1>2, <2>1 DEF AfterSend, FifoInv, TypeOK
    <3>2. Pending(i)' = << >>
      BY <1>2, <1>4, <3>1, PendingIsWindow
    <3>3. Window(f, written, r) = << >>
      <4>1. r - written = 0
        BY <1>5, <2>1
      <4> HIDE DEF written, f, r
      <4> QED
        BY <4>1 DEF Window
    <3> QED
      BY <3>2, <3>3
  <2>2. CASE written # r
    <3>1. outputBufferWriteCnt'[i] = written /\ outputBufferReadCnt'[i] = r
      BY <1>2, <2>2 DEF AfterSend, FifoInv, TypeOK
    <3> QED
      BY <1>2, <3>1, PendingIsWindow
  <2> QED
    BY <2>1, <2>2
<1>7. CASE j = i /\ CanSend(i)
  <2>1. w < r /\ out'[i] = f[w]
    BY <1>7 DEF CanSend, SendCharAsync, FifoInv, TypeOK
  <2>2. /\ Window(f, w, r) # << >>
        /\ Head(Window(f, w, r)) = f[w]
        /\ Window(f, w + 1, r) = Tail(Window(f, w, r))
    <3> HIDE DEF f, w, r
    <3> QED
      BY <1>1, <2>1, WindowTail
  <2>3. Pending(i) = Window(f, w, r)
    BY PendingIsWindow
  <2>4. Kept(j)
    BY <1>7, SendOffer
  <2> QED
    BY <1>6, <1>7, <2>1, <2>2, <2>3, <2>4 DEF QueueStep, Taken
<1>8. CASE j = i /\ ~CanSend(i)
  <2>1. Pending(i)' = Pending(i)
    BY <1>6, <1>8, PendingIsWindow
  <2>2. out'[i] = out[i]
    BY <1>8 DEF SendCharAsync, hwVars
  <2>3. Kept(j)
    BY <1>8, SendOffer
  <2> QED
    BY <1>8, <2>1, <2>2, <2>3 DEF QueueStep, Unmoved
<1> QED
  BY <1>3, <1>7, <1>8

LEMMA QueueSteps ==
  ASSUME FifoInv, [Next]_vars, NEW j \in Interfaces
  PROVE  QueueStep(j)
<1>1. ASSUME NEW i \in Interfaces, NEW next, NEW flush, AtPut(i, next, flush),
             PutByte(i, next, flush)
      PROVE  QueueStep(j)
  BY <1>1, PutQueue
<1>2. CASE PutUsb \/ PutBt
  BY <1>1, <1>2 DEF PutUsb, PutBt, AtPut, Interfaces
<1>3. ASSUME NEW i \in Interfaces, NEW sent, NEW pending, AtSend(i, sent, pending),
             SendCharAsync(i, sent, pending)
      PROVE  QueueStep(j)
  BY <1>3, SendQueue
<1>4. CASE FlushUsb \/ FlushBt \/ SendUsb \/ SendBt
  BY <1>3, <1>4 DEF FlushUsb, FlushBt, SendUsb, SendBt, AtSend, Interfaces
<1>5. CASE ConsoleUsb \/ ConsoleBt \/ Report \/ Fetch
  <2>1. Kept(j) \/ Begun(j)
    BY <1>5 DEF Kept, Begun, Offered, ConsoleUsb, ConsoleBt, Report, Fetch, Call,
                FifoInv, TypeOK, Interfaces
  <2> QED
    BY <1>5, <2>1, SameQueue
       DEF ConsoleUsb, ConsoleBt, Report, Fetch, Call, bufferVars, hwVars
<1>6. ASSUME NEW i \in Interfaces, Transmitted(i)
      PROVE  QueueStep(j)
  <2>1. Kept(j)
    BY <1>6 DEF Kept, Offered, Transmitted, mainVars
  <2> QED
    BY <1>6, <2>1, SameQueue DEF Transmitted, bufferVars
<1>7. CASE UNCHANGED vars
  <2>1. Kept(j)
    BY <1>7 DEF Kept, Offered, vars, mainVars
  <2> QED
    BY <1>7, <2>1, SameQueue DEF vars, bufferVars, hwVars
<1> QED
  BY <1>2, <1>4, <1>5, <1>6, <1>7 DEF Next, Main

\* printf and sendCharAsync implement a byte queue for each interface: no
\* byte is lost, repeated or reordered, for every buffer size.
THEOREM AreFifosTheorem == Spec => AreFifos
<1>1. Init => Usb!Init /\ Bt!Init
  BY DEF Init, Usb!Init, Bt!Init, Pending, Offered, Interfaces
<1>2. FifoInv /\ [Next]_vars => [Usb!Next]_(Usb!fifoVars)
  <2> SUFFICES ASSUME FifoInv, [Next]_vars PROVE [Usb!Next]_(Usb!fifoVars)
    OBVIOUS
  <2>1. QueueStep("usb")
    BY QueueSteps DEF Interfaces
  <2> QED
    BY <2>1, ByteAssumption
       DEF QueueStep, Appended, Taken, Unmoved, Consumed, Kept, Begun,
           Usb!Next, Usb!Offer, Usb!Put, Usb!Take, Usb!fifoVars
<1>3. FifoInv /\ [Next]_vars => [Bt!Next]_(Bt!fifoVars)
  <2> SUFFICES ASSUME FifoInv, [Next]_vars PROVE [Bt!Next]_(Bt!fifoVars)
    OBVIOUS
  <2>1. QueueStep("bt")
    BY QueueSteps DEF Interfaces
  <2> QED
    BY <2>1, ByteAssumption
       DEF QueueStep, Appended, Taken, Unmoved, Consumed, Kept, Begun,
           Bt!Next, Bt!Offer, Bt!Put, Bt!Take, Bt!fifoVars
<1> QED
  BY <1>1, <1>2, <1>3, InvCorrect, PTL DEF Spec, AreFifos, Usb!Safety, Bt!Safety
=============================================================================
