----------------------------- MODULE CommOutput -----------------------------
(***************************************************************************)
(* The output side of the two serial interfaces (Src/rp2040/uart.c:        *)
(* printf, sendCharAsyncUsb, sendCharAsyncBt) driven by the main loop of   *)
(* Src/common/main.c.  Everything here is called from main only; the one   *)
(* other actor is the transmitter of each UART, which becomes ready again  *)
(* some time after it was given a byte.                                    *)
(*                                                                         *)
(* The code's names are kept although they mislead: outputBufferReadCnt is *)
(* where printf writes, outputBufferWriteCnt where the sender reads.       *)
(***************************************************************************)
EXTENDS Integers, Sequences

CONSTANTS
  Byte,      \* the characters that are printed
  Size,      \* OUTPUT_BUFFER_SIZE, a power of two
  MaxText    \* bound: longest string given to one call of printf

ASSUME ByteAssumption == Byte # {} /\ "none" \notin Byte
ASSUME SizeAssumption == Size \in Nat /\ Size > 1
ASSUME MaxTextAssumption == MaxText \in Nat

Interfaces == {"usb", "bt"}

VARIABLES
  outputBuffer,          \* per interface
  outputBufferReadCnt,   \* per interface: next free slot
  outputBufferWriteCnt,  \* per interface: next byte to send
  ready,                 \* per interface: the transmitter accepts a byte
  out,                   \* per interface: the byte last sent
  context,               \* the interfaces printf writes to
  pc,                    \* where main is
  caller,                \* where main continues when printf returns
  cur_data,              \* the character printf works on
  left                   \* characters of the string not yet fetched

bufferVars == <<outputBuffer, outputBufferReadCnt, outputBufferWriteCnt>>
hwVars == <<ready, out>>
mainVars == <<context, pc, caller, cur_data, left>>
vars == <<bufferVars, hwVars, mainVars>>

(***************************************************************************)
(* main() sets both context bits and prints its greeting before the loop:  *)
(* a call of printf like that of the underrun report.                      *)
(***************************************************************************)
Init ==
  /\ outputBuffer = [i \in Interfaces |-> [k \in 0..(Size - 1) |-> "none"]]
  /\ outputBufferReadCnt = [i \in Interfaces |-> 0]
  /\ outputBufferWriteCnt = [i \in Interfaces |-> 0]
  /\ ready = [i \in Interfaces |-> 1]
  /\ out = [i \in Interfaces |-> "none"]
  /\ context = Interfaces
  /\ pc = "report"
  /\ caller = "sendUsb"
  /\ cur_data = "none"
  /\ left = 0

-----------------------------------------------------------------------------
(* The main loop: consoles, underrun report, one byte to each interface.   *)

Call(ctx, return) ==
  /\ context' = ctx
  /\ caller' = return
  /\ left' \in 0..MaxText
  /\ pc' = "fetch"
  /\ UNCHANGED <<bufferVars, hwVars, cur_data>>

ConsoleUsb == pc = "consoleUsb" /\ Call({"usb"}, "consoleBt")
ConsoleBt  == pc = "consoleBt" /\ Call({"bt"}, "report")

\* Without an underrun nothing is printed: the empty string.
Report == pc = "report" /\ Call(context \union Interfaces, "sendUsb")

-----------------------------------------------------------------------------
(* printf                                                                  *)

\* while (cur_data != 0)
Fetch ==
  /\ pc = "fetch"
  /\ IF left = 0
       THEN /\ pc' = caller
            /\ cur_data' = "none"
            /\ left' = left
       ELSE /\ cur_data' \in Byte
            /\ left' = left - 1
            /\ pc' = "putUsb"
  /\ UNCHANGED <<bufferVars, hwVars, context, caller>>

IsFull_tooLate(slot) == slot = Size
\* if (outputBufferReadCnt==(OUTPUT_BUFFER_SIZE-1))
IsFull(slot) == slot = Size - 1

\* the body for one interface; "flush" if the buffer has become full
PutByte(i, next, flush) ==
  IF i \in context
    THEN LET r == (outputBufferReadCnt[i] + 1) % Size IN
         /\ outputBuffer' = [outputBuffer EXCEPT
                               ![i] = [@ EXCEPT ![outputBufferReadCnt[i]] = cur_data]]
         /\ outputBufferReadCnt' = [outputBufferReadCnt EXCEPT ![i] = r]
         /\ pc' = IF IsFull(r) THEN flush ELSE next
         /\ UNCHANGED <<outputBufferWriteCnt, hwVars, context, caller, cur_data, left>>
    ELSE /\ pc' = next
         /\ UNCHANGED <<bufferVars, hwVars, context, caller, cur_data, left>>

PutUsb == pc = "putUsb" /\ PutByte("usb", "putBt", "flushUsb")
PutBt  == pc = "putBt" /\ PutByte("bt", "fetch", "flushBt")

-----------------------------------------------------------------------------
(* sendCharAsyncUsb and sendCharAsyncBt: the counters after the call.      *)

CanSend_alsoEmpty(i) ==
  outputBufferWriteCnt[i] <= outputBufferReadCnt[i] /\ ready[i] = 1
CanSend_keepsLast(i) ==
  outputBufferWriteCnt[i] + 1 < outputBufferReadCnt[i] /\ ready[i] = 1

CanSend(i) == outputBufferWriteCnt[i] < outputBufferReadCnt[i] /\ ready[i] = 1

AfterSend_resetsOne(i, written) ==
  /\ outputBufferWriteCnt' = [outputBufferWriteCnt EXCEPT ![i] = written]
  /\ outputBufferReadCnt' =
       [outputBufferReadCnt EXCEPT ![i] = IF written = @ THEN 0 ELSE @]

\* both counters start again at 0 once everything is sent
AfterSend(i, written) ==
  IF written = outputBufferReadCnt[i]
    THEN /\ outputBufferWriteCnt' = [outputBufferWriteCnt EXCEPT ![i] = 0]
         /\ outputBufferReadCnt' = [outputBufferReadCnt EXCEPT ![i] = 0]
    ELSE /\ outputBufferWriteCnt' = [outputBufferWriteCnt EXCEPT ![i] = written]
         /\ outputBufferReadCnt' = outputBufferReadCnt

SendCharAsync(i, sent, pending) ==
  LET written == IF CanSend(i) THEN outputBufferWriteCnt[i] + 1
                               ELSE outputBufferWriteCnt[i] IN
  /\ IF CanSend(i)
       THEN /\ out' = [out EXCEPT ![i] = outputBuffer[i][outputBufferWriteCnt[i]]]
            /\ ready' = [ready EXCEPT ![i] = 0]
       ELSE UNCHANGED hwVars
  /\ AfterSend(i, written)
  /\ pc' = IF written = outputBufferReadCnt[i] THEN sent ELSE pending
  /\ UNCHANGED <<outputBuffer, context, caller, cur_data, left>>

\* printf waits until the full buffer is sent
FlushUsb == pc = "flushUsb" /\ SendCharAsync("usb", "putBt", "flushUsb")
FlushBt  == pc = "flushBt" /\ SendCharAsync("bt", "fetch", "flushBt")

\* the main loop does not wait
SendUsb == pc = "sendUsb" /\ SendCharAsync("usb", "sendBt", "sendBt")
SendBt  == pc = "sendBt" /\ SendCharAsync("bt", "consoleUsb", "consoleUsb")

Main ==
  \/ ConsoleUsb \/ ConsoleBt \/ Report \/ Fetch \/ PutUsb \/ PutBt
  \/ FlushUsb \/ FlushBt \/ SendUsb \/ SendBt

\* The transmitter has shifted out its byte.
Transmitted(i) ==
  /\ ready[i] = 0
  /\ ready' = [ready EXCEPT ![i] = 1]
  /\ UNCHANGED <<bufferVars, out, mainVars>>

Next == Main \/ \E i \in Interfaces : Transmitted(i)

Spec == Init /\ [][Next]_vars

\* main runs, and both transmitters work at their baud rate
FairSpec ==
  /\ Spec
  /\ WF_vars(Main)
  /\ \A i \in Interfaces : WF_vars(Transmitted(i))

-----------------------------------------------------------------------------
TypeOK ==
  /\ outputBuffer \in [Interfaces -> [0..(Size - 1) -> Byte \union {"none"}]]
  /\ outputBufferReadCnt \in [Interfaces -> 0..(Size - 1)]
  /\ outputBufferWriteCnt \in [Interfaces -> 0..(Size - 1)]
  /\ ready \in [Interfaces -> {0, 1}]
  /\ out \in [Interfaces -> Byte \union {"none"}]
  /\ context \subseteq Interfaces
  /\ pc \in {"consoleUsb", "consoleBt", "report", "fetch", "putUsb", "putBt",
             "flushUsb", "flushBt", "sendUsb", "sendBt"}
  /\ caller \in {"consoleBt", "report", "sendUsb"}
  /\ cur_data \in Byte \union {"none"}
  /\ left \in 0..MaxText

\* Outside the waiting loop of printf neither buffer is full, so the next
\* byte printed has a slot, and the sender never overtakes the writer.
RoomForNext ==
  \A i \in Interfaces :
    /\ outputBufferWriteCnt[i] <= outputBufferReadCnt[i]
    /\ outputBufferReadCnt[i] = Size - 1 =>
         pc = IF i = "usb" THEN "flushUsb" ELSE "flushBt"

\* The bytes that wait for interface i, oldest first.
Pending(i) ==
  [k \in 1..(outputBufferReadCnt[i] - outputBufferWriteCnt[i]) |->
     outputBuffer[i][outputBufferWriteCnt[i] + k - 1]]

\* The byte printf is about to put into the buffer of interface i.
Offered(i) ==
  IF pc = (IF i = "usb" THEN "putUsb" ELSE "putBt") /\ i \in context
    THEN cur_data ELSE "none"

Usb == INSTANCE ByteFifo WITH offered <- Offered("usb"), pending <- Pending("usb"),
                              out <- out["usb"], Capacity <- Size - 1
Bt  == INSTANCE ByteFifo WITH offered <- Offered("bt"), pending <- Pending("bt"),
                              out <- out["bt"], Capacity <- Size - 1

\* Each interface implements the byte queue: no byte is lost, repeated or
\* reordered by the reset of the counters or by the flush in mid-string.
AreFifos == Usb!Safety /\ Bt!Safety

\* Every byte printed is eventually sent.
AreDrained == Usb!Spec /\ Bt!Spec

\* printf always returns: waiting for a full buffer does not stop the lamps.
MainLoopTurns == []<>(pc = "consoleUsb")
=============================================================================
