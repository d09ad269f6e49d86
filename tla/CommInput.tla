----------------------------- MODULE CommInput ------------------------------
(***************************************************************************)
(* The input side of the two serial interfaces: the receive interrupts of  *)
(* Src/rp2040/uart.c put characters into inputBuffer and set a bit of the  *)
(* global task; the main loop of Src/common/main.c tests the bit, calls    *)
(* processInputBuffer (Src/common/bufferedInputHandler.c) and clears it.   *)
(*                                                                         *)
(* Nothing masks the interrupts, so main is interrupted between any two of *)
(* its accesses; inputBufferCnt-- and task &= ~bit are a load and a store. *)
(* A character is represented by its number on its interface, 0 stands     *)
(* for memory that holds no received character.                            *)
(***************************************************************************)
EXTENDS Integers, Sequences

CONSTANTS
  Size,       \* INPUT_BUFFER_SIZE, a power of two
  Range8,     \* 2^8: values of the uint8_t inputBufferCnt
  Arrivals,   \* bound: characters sent to each interface
  Switching,  \* numbers of the characters that complete "API" or "CONSOLE"
  MaxPending  \* environment: characters the sender lets wait in the buffer

ASSUME SizeAssumption == Size \in Nat /\ Size > 1
ASSUME RangeAssumption == Range8 \in Nat /\ Range8 > Size
ASSUME ArrivalsAssumption == Arrivals \in Nat /\ Switching \subseteq 1..Arrivals
ASSUME PendingAssumption == MaxPending \in 1..Size

Interfaces == {"usb", "bt"}
Types == {"console", "api"}
Other(t) == IF t = "console" THEN "api" ELSE "console"

VARIABLES
  inputBuffer,     \* per interface
  inputBufferCnt,  \* per interface
  task,            \* the interfaces whose bit is set
  interfaceType,   \* per interface: who handles characters
  received,        \* per interface: how many characters have arrived
  handled,         \* history, per interface: the characters handled
  misrouted,       \* history: a character went to the handler not selected
  spaced,          \* history: characters came one by one, none while main
                   \* handled another
  pc,              \* where main is
  cur,             \* the interface main looks at
  loop,            \* which of the two loops of processInputBuffer runs
  char,            \* argument of the handler
  reg              \* register between load and store: a count, or a task

ringVars == <<inputBuffer, inputBufferCnt>>
histVars == <<received, handled, misrouted, spaced>>
vars == <<ringVars, task, interfaceType, histVars, pc, cur, loop, char, reg>>

Init ==
  /\ inputBuffer = [i \in Interfaces |-> [k \in 0..(Size - 1) |-> 0]]
  /\ inputBufferCnt = [i \in Interfaces |-> 0]
  /\ task = {}
  /\ interfaceType = [i \in Interfaces |-> "console"]
  /\ received = [i \in Interfaces |-> 0]
  /\ handled = [i \in Interfaces |-> << >>]
  /\ misrouted = FALSE
  /\ spaced = TRUE
  /\ pc = "rest"
  /\ cur = "usb"
  /\ loop = "console"
  /\ char = 0
  /\ reg = 0

-----------------------------------------------------------------------------
(* The receive interrupts.                                                 *)

\* inputBufferCnt++; inputBufferCnt &= INPUT_BUFFER_SIZE-1
Advance(k) == (k + 1) % Size

\* A store beyond the array leaves the array alone (it hits other data).
Receive(i) ==
  LET k == inputBufferCnt[i]
      c == received[i] + 1
  IN
  /\ received[i] < Arrivals
  /\ k < MaxPending \/ MaxPending = Size
  /\ spaced' = (spaced /\ pc = "rest" /\ k = 0)
  /\ received' = [received EXCEPT ![i] = c]
  /\ inputBuffer' = IF k < Size THEN [inputBuffer EXCEPT ![i][k] = c] ELSE inputBuffer
  /\ inputBufferCnt' = [inputBufferCnt EXCEPT ![i] = Advance(k)]
  /\ task' = task \union {i}
  /\ UNCHANGED <<interfaceType, handled, misrouted, pc, cur, loop, char, reg>>

-----------------------------------------------------------------------------
(* The main loop.                                                          *)

\* the rest of an iteration: animations, frame, output
Rest ==
  /\ pc = "rest"
  /\ pc' = "poll"
  /\ cur' = "usb"
  /\ UNCHANGED <<ringVars, task, interfaceType, histVars, loop, char, reg>>

Proceed_endless == pc' = "poll" /\ cur' = IF cur = "usb" THEN "bt" ELSE "usb"

\* USB first, then Bluetooth, then the rest of the iteration
Proceed ==
  IF cur = "usb" THEN pc' = "poll" /\ cur' = "bt"
                 ELSE pc' = "rest" /\ cur' = cur

SelectLoop_stale == loop
SelectLoop == interfaceType[cur]

\* if ((task & bit) == bit): processInputBuffer selects its loop
Poll ==
  /\ pc = "poll"
  /\ IF cur \in task
       THEN pc' = "while" /\ loop' = SelectLoop /\ cur' = cur
       ELSE Proceed /\ loop' = loop
  /\ UNCHANGED <<ringVars, task, interfaceType, histVars, char, reg>>

\* while (inputBufferCnt > 0): fetch the argument of the handler
Last_offByOne(k) == k
Last(k) == k - 1

While ==
  /\ pc = "while"
  /\ IF inputBufferCnt[cur] > 0
       THEN LET k == Last(inputBufferCnt[cur]) IN
            /\ char' = IF k < Size THEN inputBuffer[cur][k] ELSE 0
            /\ pc' = "handle"
       ELSE char' = 0 /\ pc' = "loadTask"
  /\ UNCHANGED <<ringVars, task, interfaceType, histVars, cur, loop, reg>>

\* the command API or CONSOLE, executed by the handler
SwitchType ==
  IF char \in Switching THEN [interfaceType EXCEPT ![cur] = Other(@)] ELSE interfaceType

\* onCharacterReception or onByteReception
Handle ==
  /\ pc = "handle"
  /\ handled' = [handled EXCEPT ![cur] = Append(@, char)]
  /\ misrouted' = (misrouted \/ loop # interfaceType[cur])
  /\ interfaceType' = SwitchType
  /\ pc' = "load"
  /\ UNCHANGED <<ringVars, task, received, spaced, cur, loop, char, reg>>

\* inputBufferCnt--, the load
LoadCnt ==
  /\ pc = "load"
  /\ reg' = inputBufferCnt[cur]
  /\ pc' = "store"
  /\ UNCHANGED <<ringVars, task, interfaceType, histVars, cur, loop, char>>

Decremented_not(k) == k
Decremented_twice(k) == k - 2
Decremented(k) == (k - 1 + Range8) % Range8

\* inputBufferCnt--, the store; printf of the answer
StoreCnt ==
  /\ pc = "store"
  /\ inputBufferCnt' = [inputBufferCnt EXCEPT ![cur] = Decremented(reg)]
  /\ reg' = 0
  /\ char' = 0
  /\ pc' = "while"
  /\ UNCHANGED <<inputBuffer, task, interfaceType, histVars, cur, loop>>

\* task &= ~bit, the load: the other bit is all that matters of it
LoadTask ==
  /\ pc = "loadTask"
  /\ reg' = IF task \ {cur} = {} THEN 0 ELSE 1
  /\ pc' = "storeTask"
  /\ UNCHANGED <<ringVars, task, interfaceType, histVars, cur, loop, char>>

TaskAfter_clearsAll(others) == {}
TaskAfter(others) == others

\* task &= ~bit, the store
StoreTask ==
  /\ pc = "storeTask"
  /\ task' = TaskAfter(IF reg = 1 THEN Interfaces \ {cur} ELSE {})
  /\ reg' = 0
  /\ Proceed
  /\ UNCHANGED <<ringVars, interfaceType, histVars, loop, char>>

Main ==
  \/ Rest \/ Poll \/ While \/ Handle \/ LoadCnt \/ StoreCnt \/ LoadTask \/ StoreTask

Next == Main \/ \E i \in Interfaces : Receive(i)

Spec == Init /\ [][Next]_vars

\* main runs; nobody has to type
FairSpec == Spec /\ WF_vars(Main)

-----------------------------------------------------------------------------
\* As long as the sender does not let the buffer fill up, the counter stays an
\* index of the buffer: it neither wraps to 0 nor below it, wherever the
\* interrupts fall into its decrement.
TypeOK ==
  /\ inputBuffer \in [Interfaces -> [0..(Size - 1) -> 0..Arrivals]]
  /\ inputBufferCnt \in [Interfaces -> 0..(Size - 1)]
  /\ task \subseteq Interfaces
  /\ interfaceType \in [Interfaces -> Types]
  /\ received \in [Interfaces -> 0..Arrivals]
  /\ handled \in [Interfaces -> Seq(0..Arrivals)]
  /\ misrouted \in BOOLEAN /\ spaced \in BOOLEAN
  /\ pc \in {"rest", "poll", "while", "handle", "load", "store", "loadTask", "storeTask"}
  /\ cur \in Interfaces
  /\ loop \in Types
  /\ char \in 0..Arrivals
  /\ reg \in 0..(Range8 - 1)

\* As long as characters come one by one, on whatever interface, the handlers
\* see those of an interface in the order of their arrival, each exactly once.
InOrder ==
  spaced => \A i \in Interfaces : \A k \in 1..Len(handled[i]) : handled[i][k] = k

\* After the command API or CONSOLE the next of them goes to the new handler.
RoutedByType == spaced => ~misrouted

\* Each of them is handled.
AllHandled ==
  \A i \in Interfaces : \A k \in 1..Arrivals :
    received[i] >= k ~> ~spaced \/ \E n \in 1..Len(handled[i]) : handled[i][n] = k

\* Even if characters arrive at any moment: as long as the buffer does not
\* fill up, nothing but received characters is handled.
NothingInvented ==
  \A i \in Interfaces : \A n \in 1..Len(handled[i]) : handled[i][n] \in 1..received[i]

\* processInputBuffer returns once the sender pauses.
MainReturns == []<>(pc = "rest")

\* "calls onCharacterReception for each element of the input buffer": no
\* element is handled twice.
ForEachElement ==
  \A i \in Interfaces : \A m, n \in 1..Len(handled[i]) :
    handled[i][m] = handled[i][n] => m = n
=============================================================================
