---------------------------- MODULE FrameEngine ----------------------------
(***************************************************************************)
(* The frame pipeline of the lamp firmware (Src/rp2040/neopixelDriver.c    *)
(* and the endless loop of Src/common/main.c).  Three actors share the     *)
(* byte sendState and the array rawdata:                                   *)
(*                                                                         *)
(*   - the main loop, which starts transfers, runs the color tasks and     *)
(*     copies ("decompresses") lamps into rawdata;                         *)
(*   - the frame timer interrupt, isr_pio0_irq0_irq7;                      *)
(*   - the DMA channel, which reads rawdata word by word and ends with     *)
(*     isr_dma_irq0_irq11.                                                 *)
(*                                                                         *)
(* The contents of a lamp are abstracted to the number of task updates     *)
(* they contain, modulo Versions: that is all the properties tell apart.   *)
(* The four bytes of one lamp are written and read as one word.  The two   *)
(* interrupts have one priority and do not preempt each other, so each     *)
(* handler is one atomic step; the main loop is interrupted anywhere.      *)
(***************************************************************************)
EXTENDS Integers, Sequences

CONSTANTS
  N,                \* N_LAMPS
  Versions,         \* period of the update counters
  TicksPerTransfer, \* see Tick: frame ticks that fall into one transfer
  Slack             \* iterations of main between two events if it is prompt

ASSUME NAssumption == N \in Nat \ {0}
ASSUME VersionsAssumption == Versions \in Nat /\ Versions > 2
ASSUME SlackAssumption == Slack \in Nat
ASSUME TicksAssumption == TicksPerTransfer \in Nat

Lamps == 1..N
Version == 0..(Versions - 1)
Succ(v) == (v + 1) % Versions

SendStates == {"RTS", "SENDING", "SENT", "UNDERRUN", "DATA_READY"}
MainPC == {"top", "store", "enable", "console", "update",
           "test", "retest", "fill", "publish", "end"}

VARIABLES
  sendState,  \* the volatile byte shared by main and both interrupts
  rawdata,    \* the words the DMA reads, by the updates they contain
  lamps,      \* number of updates contained in the array lamps
  tasksDone,  \* local variable of main
  timer,      \* 1 while the frame timer runs (engineState)
  dma,        \* enable bit of the DMA channel
  wire,       \* the words put on the wire by the current transfer
  pc,         \* where main is
  cnt,        \* loop variable of decompressRgbArray
  shown,      \* history: version at which the last transfer was started
  loops,      \* environment: iterations of main since the last event
  ticks,      \* environment: frame ticks since sendToLed was entered
  owed,       \* history: frame ticks not yet answered by a task update
  prompt      \* history: so far main had its Slack before every tick, and no tick
              \* fell into a transfer

vars == <<sendState, rawdata, lamps, tasksDone, timer, dma, wire, pc, cnt,
          shown, loops, ticks, owed, prompt>>

Sending == dma = 1 \/ pc = "enable"

(***************************************************************************)
(* main() reaches its loop after setSendState(SEND_STATE_RTS) and with     *)
(* rawdata still zero: the blank boot frame counts as version 0.           *)
(***************************************************************************)
Init ==
  /\ sendState = "RTS"
  /\ rawdata = [l \in Lamps |-> 0]
  /\ lamps = 0
  /\ tasksDone = 1
  /\ timer = 1
  /\ dma = 0
  /\ wire = << >>
  /\ pc = "top"
  /\ cnt = 1
  /\ shown = Versions - 1
  /\ loops = 0
  /\ ticks = 0
  /\ owed = 1
  /\ prompt = TRUE

-----------------------------------------------------------------------------
(* The main loop, one action between two accesses to shared state.         *)

\* if (getSendState()==SEND_STATE_RTS)
CheckRts ==
  /\ pc = "top"
  /\ pc' = IF sendState = "RTS" THEN "store" ELSE "console"
  /\ UNCHANGED <<sendState, rawdata, lamps, tasksDone, timer, dma, wire, cnt,
                 shown, loops, ticks, owed, prompt>>

\* sendToLed: sendState = SEND_STATE_SENDING
StoreSending ==
  /\ pc = "store"
  /\ sendState' = "SENDING"
  /\ ticks' = 0
  /\ pc' = "enable"
  /\ UNCHANGED <<rawdata, lamps, tasksDone, timer, dma, wire, cnt, shown, loops, owed, prompt>>

TasksPending_forgotten == tasksDone
TasksPending == 0

\* sendToLed: reset the DMA address and count, enable the channel; tasksDone=0
EnableDma ==
  /\ pc = "enable"
  /\ dma' = 1
  /\ wire' = << >>
  /\ shown' = rawdata[1]
  /\ tasksDone' = TasksPending
  /\ pc' = "console"
  /\ UNCHANGED <<sendState, rawdata, lamps, timer, cnt, loops, ticks, owed, prompt>>

\* Both consoles.  Of all the commands only NPENGINE touches the pipeline.
Console ==
  /\ pc = "console"
  /\ timer' \in {0, 1}
  /\ pc' = "update"
  /\ UNCHANGED <<sendState, rawdata, lamps, tasksDone, dma, wire, cnt, shown,
                 loops, ticks, owed, prompt>>

TasksFinished_forgotten == tasksDone
TasksFinished == 1

\* updateTask on every task that is not stopped, once per transfer
UpdateTasks ==
  /\ pc = "update"
  /\ lamps' = IF tasksDone = 0 THEN Succ(lamps) ELSE lamps
  /\ tasksDone' = TasksFinished
  /\ owed' = IF tasksDone = 0 THEN owed - 1 ELSE owed
  /\ pc' = "test"
  /\ UNCHANGED <<sendState, rawdata, timer, dma, wire, cnt, shown, loops, ticks, prompt>>

MayRefill_sending == sendState \in {"SENT", "SENDING"}

\* getSendState()==SEND_STATE_SENT || ...: two separate reads
MayRefill == sendState = "SENT"

TestSent ==
  /\ pc = "test"
  /\ IF MayRefill
       THEN pc' = "fill" /\ cnt' = 1
       ELSE pc' = "retest" /\ cnt' = cnt
  /\ UNCHANGED <<sendState, rawdata, lamps, tasksDone, timer, dma, wire, shown,
                 loops, ticks, owed, prompt>>

MustRefill_ignored == FALSE
MustRefill == sendState = "UNDERRUN"

TestUnderrun ==
  /\ pc = "retest"
  /\ IF MustRefill
       THEN pc' = "fill" /\ cnt' = 1
       ELSE pc' = "end" /\ cnt' = cnt
  /\ UNCHANGED <<sendState, rawdata, lamps, tasksDone, timer, dma, wire, shown,
                 loops, ticks, owed, prompt>>

LastLamp_beyond == cnt > N
\* decompressRgbArray, one lamp
LastLamp == cnt = N

FillLamp ==
  /\ pc = "fill"
  /\ rawdata' = [rawdata EXCEPT ![cnt] = lamps]
  /\ IF LastLamp
       THEN pc' = "publish" /\ cnt' = cnt
       ELSE pc' = "fill" /\ cnt' = cnt + 1
  /\ UNCHANGED <<sendState, lamps, tasksDone, timer, dma, wire, shown, loops,
                 ticks, owed, prompt>>

Filled_forgotten == sendState
Filled == "DATA_READY"

\* decompressRgbArray: sendState = SEND_STATE_DATA_READY
Publish ==
  /\ pc = "publish"
  /\ sendState' = Filled
  /\ pc' = "end"
  /\ UNCHANGED <<rawdata, lamps, tasksDone, timer, dma, wire, cnt, shown, loops,
                 ticks, owed, prompt>>

\* sendCharAsyncUsb, sendCharAsyncBt (module CommOutput), and around
EndLoop ==
  /\ pc = "end"
  /\ loops' = IF loops < Slack THEN loops + 1 ELSE loops
  /\ pc' = "top"
  /\ UNCHANGED <<sendState, rawdata, lamps, tasksDone, timer, dma, wire, cnt,
                 shown, ticks, owed, prompt>>

Main ==
  \/ CheckRts \/ StoreSending \/ EnableDma \/ Console \/ UpdateTasks
  \/ TestSent \/ TestUnderrun \/ FillLamp \/ Publish \/ EndLoop

-----------------------------------------------------------------------------
AfterTick_unconditional == "RTS"
AfterTick_onlyIfSent == IF sendState = "SENT" THEN "RTS" ELSE "UNDERRUN"

\* what the frame timer interrupt makes of sendState
AfterTick == IF sendState # "DATA_READY" THEN "UNDERRUN" ELSE "RTS"

(***************************************************************************)
(* isr_pio0_irq0_irq7.  The guard is the timing of the hardware:           *)
(*   - a transfer is shorter than a frame (N words at 800 kbit/s against   *)
(*     33 ms), so at most TicksPerTransfer = 1 ticks fall into one; 0 says *)
(*     that main is never late enough for that to happen;                  *)
(*   - main completes at least Slack iterations after a tick or the end of *)
(*     a transfer before the next tick; 0 says nothing about its speed.    *)
(***************************************************************************)
Tick ==
  /\ timer = 1
  /\ Sending => ticks < TicksPerTransfer
  /\ sendState' = AfterTick
  /\ owed' = IF owed < 2 THEN owed + 1 ELSE owed
  /\ ticks' = IF Sending THEN ticks + 1 ELSE ticks
  /\ loops' = 0
  /\ prompt' = (prompt /\ loops >= Slack /\ ~Sending)
  /\ UNCHANGED <<rawdata, lamps, tasksDone, timer, dma, wire, pc, cnt, shown>>

\* The DMA channel moves the next word to the transmit FIFO.
DmaWord ==
  /\ dma = 1
  /\ Len(wire) < N
  /\ wire' = Append(wire, rawdata[Len(wire) + 1])
  /\ UNCHANGED <<sendState, rawdata, lamps, tasksDone, timer, dma, pc, cnt,
                 shown, loops, ticks, owed, prompt>>

\* isr_dma_irq0_irq11: the last word is moved, disable the channel
DmaDone ==
  /\ dma = 1
  /\ Len(wire) = N
  /\ dma' = 0
  /\ sendState' = "SENT"
  /\ loops' = 0
  /\ UNCHANGED <<rawdata, lamps, tasksDone, timer, wire, pc, cnt, shown, ticks, owed, prompt>>

Next == Main \/ Tick \/ DmaWord \/ DmaDone

Spec == Init /\ [][Next]_vars

\* main never blocks, the DMA is fed by the PIO at its own clock, and a
\* running frame timer keeps firing.
Fairness == WF_vars(Main) /\ WF_vars(DmaWord \/ DmaDone) /\ WF_vars(Tick)

FairSpec == Spec /\ Fairness

-----------------------------------------------------------------------------
TypeOK ==
  /\ sendState \in SendStates
  /\ rawdata \in [Lamps -> Version]
  /\ lamps \in Version
  /\ tasksDone \in {0, 1}
  /\ timer \in {0, 1}
  /\ dma \in {0, 1}
  /\ wire \in Seq(Version)
  /\ Len(wire) <= N
  /\ pc \in MainPC
  /\ cnt \in Lamps
  /\ shown \in Version
  /\ loops \in 0..Slack
  /\ ticks \in 0..TicksPerTransfer
  /\ owed \in Int /\ owed <= 2
  /\ prompt \in BOOLEAN

\* However late main is: a transfer is never started while the DMA still reads
\* for the previous one.  sendToLed does not test for that; the order of the
\* stores to sendState has to exclude it.
NoOverlap == pc \in {"store", "enable"} => dma = 0

\* No update is lost or sent twice, although ticks may be overwritten and
\* the DMA interrupt may overwrite DATA_READY: when main is about to enable
\* the DMA, every word of rawdata contains exactly one update more than the
\* words of the previous transfer.
ConsecutiveFrames ==
  pc \in {"store", "enable"} => \A l \in Lamps : rawdata[l] = Succ(shown)

\* However late main is: only a tick that falls into a transfer can tear its
\* frame.  All words that any other transfer puts on the wire belong to the
\* update it was started with ("rawdata should not be modified as long as the
\* data transfer is ongoing"), the one after a torn frame included.
UntornFrame ==
  pc # "enable" /\ ticks = 0 => \A i \in 1..Len(wire) : wire[i] = shown

\* As long as main is prompt, no tick finds the pipeline without a frame.
NoUnderrun == prompt => sendState # "UNDERRUN"

\* updateTask is called "once at each frame tick" (colorInterpolator.c):
\* however late ticks are answered, no update is made without a tick of its
\* own, and as long as main is prompt no tick passes without an update.
OneUpdatePerTick == owed >= 0 /\ (prompt => owed <= 1)

\* A command that stops the timer leaves the pipeline at rest with a frame
\* ready, from every state, so that the tick after NPENGINE(1) finds it.
StoppedComesToRest == <>[](timer = 0) => <>[](sendState = "DATA_READY")

\* While the timer runs and main is prompt the lamps keep being refreshed.
KeepsRefreshing == <>[](timer = 1) /\ []prompt => []<>(dma = 1 /\ Len(wire) = N)
=============================================================================
