------------------------- MODULE FrameEngineProofs -------------------------
(***************************************************************************)
(* Proofs about FrameEngine, for every number of lamps.  LateInv is the    *)
(* inductive invariant that needs no assumption on the speed of main,      *)
(* PromptInv adds what holds as long as main is prompt.                    *)
(***************************************************************************)
EXTENDS FrameEngine, TLAPS

AllWords(v) == \A l \in Lamps : rawdata[l] = v

\* What each value of sendState tells about the DMA and about main.
StateVsActors ==
  /\ sendState \in {"RTS", "SENT"} => dma = 0
  /\ sendState = "SENDING" => dma = 1 \/ pc = "enable"
  /\ pc \in {"store", "enable"} => dma = 0
  /\ pc = "enable" => sendState \in {"SENDING", "UNDERRUN"}
  /\ pc \in {"fill", "publish"} => sendState \in {"SENT", "UNDERRUN"}
  /\ dma = 1 /\ sendState # "SENDING" => ticks >= 1
  /\ pc = "enable" /\ sendState # "SENDING" => ticks >= 1

\* Which updates lamps and rawdata contain.
Contents ==
  /\ tasksDone = 0 => lamps = shown /\ pc \in {"console", "update"}
  /\ tasksDone = 1 => lamps = Succ(shown)
  /\ sendState \in {"RTS", "DATA_READY"} \/ pc \in {"store", "enable", "publish"}
       => AllWords(lamps) /\ tasksDone = 1
  /\ pc = "fill" => \A l \in 1..(cnt - 1) : rawdata[l] = lamps

\* A transfer into which no tick has fallen finds the words it was started
\* with, and has sent no others.
WireAndWords ==
  /\ dma = 1 /\ ticks = 0 => AllWords(shown)
  /\ UntornFrame

\* A tick that has not been answered by an update yet, and how many there are.
Owing == sendState = "RTS" \/ pc \in {"store", "enable"} \/ tasksDone = 0
Account == owed >= 0 /\ (Owing => owed >= 1)

LateInv == TypeOK /\ StateVsActors /\ Contents /\ WireAndWords /\ Account

\* How far main is when it has slack: the frame that a tick asks for is
\* started in the next iteration, the one after the transfer refills rawdata.
Progress ==
  /\ sendState # "UNDERRUN"
  /\ sendState = "RTS" => loops = 0 \/ (loops = 1 /\ pc \in {"top", "store"})
  /\ pc = "store" => sendState = "RTS"
  /\ sendState = "SENT" =>
       \/ loops = 0
       \/ loops = 1 /\ pc \in {"top", "console", "update", "test", "fill", "publish"}
  /\ dma = 1 => sendState = "SENDING"
  /\ pc = "enable" => sendState = "SENDING"

ExactAccount == owed = IF Owing THEN 1 ELSE 0

PromptInv == LateInv /\ (prompt => Progress /\ ExactAccount)

-----------------------------------------------------------------------------
LEMMA SuccType == \A v \in Version : Succ(v) \in Version
BY VersionsAssumption DEF Version, Succ

LEMMA SuccWraps == Succ(Versions - 1) = 0
BY VersionsAssumption DEF Succ

LEMMA TypeInit == Init => TypeOK
<1> USE NAssumption, VersionsAssumption, SlackAssumption, TicksAssumption
<1> SUFFICES ASSUME Init PROVE TypeOK
  OBVIOUS
<1>1. wire \in Seq(Version) /\ Len(wire) <= N
  BY DEF Init
<1>2. Versions - 1 \in Version /\ 0 \in Version /\ 1 \in Lamps
  BY DEF Version, Lamps
<1> QED
  BY <1>1, <1>2 DEF Init, TypeOK, SendStates, MainPC

LEMMA TypeStep == TypeOK /\ [Next]_vars => TypeOK'
<1> USE NAssumption, VersionsAssumption, SlackAssumption, TicksAssumption
<1> SUFFICES ASSUME TypeOK, [Next]_vars PROVE TypeOK'
  OBVIOUS
<1>1. CASE CheckRts
  BY <1>1 DEF CheckRts, TypeOK, MainPC
<1>2. CASE StoreSending
  BY <1>2 DEF StoreSending, TypeOK, MainPC, SendStates
<1>3. CASE EnableDma
  BY <1>3 DEF EnableDma, TypeOK, MainPC, TasksPending, Lamps
<1>4. CASE Console
  BY <1>4 DEF Console, TypeOK, MainPC
<1>5. CASE UpdateTasks
  BY <1>5, SuccType DEF UpdateTasks, TypeOK, MainPC, TasksFinished
<1>6. CASE TestSent
  BY <1>6 DEF TestSent, TypeOK, MainPC, Lamps
<1>7. CASE TestUnderrun
  BY <1>7 DEF TestUnderrun, TypeOK, MainPC, Lamps
<1>8. CASE FillLamp
  BY <1>8 DEF FillLamp, TypeOK, MainPC, Lamps, LastLamp
<1>9. CASE Publish
  BY <1>9 DEF Publish, TypeOK, MainPC, SendStates, Filled
<1>10. CASE EndLoop
  BY <1>10 DEF EndLoop, TypeOK, MainPC
<1>11. CASE Tick
  BY <1>11 DEF Tick, TypeOK, SendStates, AfterTick, Sending
<1>12. CASE DmaWord
  <2>1. rawdata[Len(wire) + 1] \in Version
    BY <1>12 DEF DmaWord, TypeOK, Lamps
  <2>2. wire' \in Seq(Version) /\ Len(wire') <= N
    BY <1>12, <2>1 DEF DmaWord, TypeOK
  <2> QED
    BY <1>12, <2>2 DEF DmaWord, TypeOK
<1>13. CASE DmaDone
  BY <1>13 DEF DmaDone, TypeOK, SendStates
<1>14. CASE UNCHANGED vars
  BY <1>14 DEF vars, TypeOK
<1> QED
  BY <1>1, <1>2, <1>3, <1>4, <1>5, <1>6, <1>7, <1>8, <1>9, <1>10, <1>11,
     <1>12, <1>13, <1>14 DEF Next, Main

\* Every step keeps the variables in their types: in particular the loop of
\* decompressRgbArray never leaves rawdata.
THEOREM TypeCorrect == Spec => []TypeOK
BY TypeInit, TypeStep, PTL DEF Spec

-----------------------------------------------------------------------------
LEMMA LateInit == Init => LateInv
BY TypeInit, SuccWraps
   DEF Init, LateInv, StateVsActors, Contents, WireAndWords, UntornFrame, AllWords,
       Lamps, Account, Owing

LEMMA StateVsActorsStep ==
  ASSUME TicksPerTransfer <= 1, LateInv, [Next]_vars
  PROVE  StateVsActors'
<1> USE TicksAssumption DEF LateInv, TypeOK
<1>1. CASE CheckRts
  BY <1>1 DEF CheckRts, StateVsActors
<1>2. CASE StoreSending
  BY <1>2 DEF StoreSending, StateVsActors
<1>3. CASE EnableDma
  BY <1>3 DEF EnableDma, TasksPending, Lamps, StateVsActors
<1>4. CASE Console
  BY <1>4 DEF Console, StateVsActors
<1>5. CASE UpdateTasks
  BY <1>5 DEF UpdateTasks, TasksFinished, StateVsActors
<1>6. CASE TestSent
  BY <1>6 DEF TestSent, MayRefill, StateVsActors
<1>7. CASE TestUnderrun
  BY <1>7 DEF TestUnderrun, MustRefill, StateVsActors
<1>8. CASE FillLamp
  BY <1>8 DEF FillLamp, LastLamp, StateVsActors
<1>9. CASE Publish
  BY <1>9 DEF Publish, Filled, StateVsActors
<1>10. CASE EndLoop
  BY <1>10 DEF EndLoop, StateVsActors
<1>11. CASE Tick
  BY <1>11 DEF Tick, AfterTick, Sending, StateVsActors
<1>12. CASE DmaWord
  BY <1>12 DEF DmaWord, StateVsActors
<1>13. CASE DmaDone
  BY <1>13 DEF DmaDone, StateVsActors
<1>14. CASE UNCHANGED vars
  BY <1>14 DEF vars, StateVsActors
<1> QED
  BY <1>1, <1>2, <1>3, <1>4, <1>5, <1>6, <1>7,
     <1>8, <1>9, <1>10, <1>11, <1>12, <1>13, <1>14 DEF Next, Main

LEMMA ContentsStep ==
  ASSUME LateInv, [Next]_vars
  PROVE  Contents'
<1> USE NAssumption DEF LateInv, TypeOK, Lamps, AllWords
<1>1. CASE CheckRts
  BY <1>1 DEF CheckRts, StateVsActors, Contents
<1>2. CASE StoreSending
  BY <1>2 DEF StoreSending, StateVsActors, Contents
<1>3. CASE EnableDma
  BY <1>3 DEF EnableDma, TasksPending, Lamps, StateVsActors, Contents
<1>4. CASE Console
  BY <1>4 DEF Console, StateVsActors, Contents
<1>5. CASE UpdateTasks
  BY <1>5 DEF UpdateTasks, TasksFinished, StateVsActors, Contents
<1>6. CASE TestSent
  BY <1>6 DEF TestSent, MayRefill, StateVsActors, Contents
<1>7. CASE TestUnderrun
  BY <1>7 DEF TestUnderrun, MustRefill, StateVsActors, Contents
<1>8. CASE FillLamp
  BY <1>8 DEF FillLamp, LastLamp, StateVsActors, Contents
<1>9. CASE Publish
  BY <1>9 DEF Publish, Filled, StateVsActors, Contents
<1>10. CASE EndLoop
  BY <1>10 DEF EndLoop, StateVsActors, Contents
<1>11. CASE Tick
  BY <1>11 DEF Tick, AfterTick, Sending, StateVsActors, Contents
<1>12. CASE DmaWord
  BY <1>12 DEF DmaWord, StateVsActors, Contents
<1>13. CASE DmaDone
  BY <1>13 DEF DmaDone, StateVsActors, Contents
<1>14. CASE UNCHANGED vars
  BY <1>14 DEF vars, StateVsActors, Contents
<1> QED
  BY <1>1, <1>2, <1>3, <1>4, <1>5, <1>6, <1>7,
     <1>8, <1>9, <1>10, <1>11, <1>12, <1>13, <1>14 DEF Next, Main

LEMMA WireAndWordsStep ==
  ASSUME LateInv, [Next]_vars
  PROVE  WireAndWords'
<1> USE NAssumption
    DEF LateInv, TypeOK, StateVsActors, WireAndWords, UntornFrame, AllWords,
        Lamps, Sending
<1>1. CASE CheckRts
  BY <1>1 DEF CheckRts
<1>2. CASE StoreSending
  BY <1>2 DEF StoreSending
<1>3. CASE EnableDma
  BY <1>3 DEF EnableDma, Contents, TasksPending, Lamps
<1>4. CASE Console
  BY <1>4 DEF Console
<1>5. CASE UpdateTasks
  BY <1>5 DEF UpdateTasks, TasksFinished
<1>6. CASE TestSent
  BY <1>6 DEF TestSent, MayRefill
<1>7. CASE TestUnderrun
  BY <1>7 DEF TestUnderrun, MustRefill
<1>8. CASE FillLamp
  BY <1>8 DEF FillLamp, LastLamp
<1>9. CASE Publish
  BY <1>9 DEF Publish, Filled
<1>10. CASE EndLoop
  BY <1>10 DEF EndLoop
<1>11. CASE Tick
  BY <1>11 DEF Tick, AfterTick
<1>12. CASE DmaWord
  BY <1>12 DEF DmaWord
<1>13. CASE DmaDone
  BY <1>13 DEF DmaDone
<1>14. CASE UNCHANGED vars
  BY <1>14 DEF vars
<1> QED
  BY <1>1, <1>2, <1>3, <1>4, <1>5, <1>6, <1>7,
     <1>8, <1>9, <1>10, <1>11, <1>12, <1>13, <1>14 DEF Next, Main

LEMMA AccountStep ==
  ASSUME LateInv, [Next]_vars
  PROVE  Account'
<1> USE DEF LateInv, TypeOK, StateVsActors, Contents, Account, Owing
<1>1. CASE CheckRts
  BY <1>1 DEF CheckRts
<1>2. CASE StoreSending
  BY <1>2 DEF StoreSending
<1>3. CASE EnableDma
  BY <1>3 DEF EnableDma, TasksPending, Lamps
<1>4. CASE Console
  BY <1>4 DEF Console
<1>5. CASE UpdateTasks
  BY <1>5 DEF UpdateTasks, TasksFinished
<1>6. CASE TestSent
  BY <1>6 DEF TestSent, MayRefill
<1>7. CASE TestUnderrun
  BY <1>7 DEF TestUnderrun, MustRefill
<1>8. CASE FillLamp
  BY <1>8 DEF FillLamp, LastLamp
<1>9. CASE Publish
  BY <1>9 DEF Publish, Filled
<1>10. CASE EndLoop
  BY <1>10 DEF EndLoop
<1>11. CASE Tick
  BY <1>11 DEF Tick, AfterTick, Sending
<1>12. CASE DmaWord
  BY <1>12 DEF DmaWord
<1>13. CASE DmaDone
  BY <1>13 DEF DmaDone
<1>14. CASE UNCHANGED vars
  BY <1>14 DEF vars
<1> QED
  BY <1>1, <1>2, <1>3, <1>4, <1>5, <1>6, <1>7,
     <1>8, <1>9, <1>10, <1>11, <1>12, <1>13, <1>14 DEF Next, Main

LEMMA LateStep ==
  ASSUME TicksPerTransfer <= 1
  PROVE  LateInv /\ [Next]_vars => LateInv'
BY TypeStep, StateVsActorsStep, ContentsStep, WireAndWordsStep, AccountStep
   DEF LateInv

LEMMA LateCorrect ==
  ASSUME TicksPerTransfer <= 1
  PROVE  Spec => []LateInv
BY LateInit, LateStep, PTL DEF Spec

\* However late main is, a transfer is never started into a running one.
THEOREM NoOverlapTheorem ==
  ASSUME TicksPerTransfer <= 1
  PROVE  Spec => []NoOverlap
<1>1. LateInv => NoOverlap
  BY DEF LateInv, StateVsActors, NoOverlap
<1> QED
  BY <1>1, LateCorrect, PTL

\* However late main is, the frames that are sent are consecutive: no update
\* of the animations is skipped and none is sent twice.
THEOREM ConsecutiveFramesTheorem ==
  ASSUME TicksPerTransfer <= 1
  PROVE  Spec => []ConsecutiveFrames
<1>1. LateInv => ConsecutiveFrames
  BY DEF LateInv, Contents, AllWords, ConsecutiveFrames
<1> QED
  BY <1>1, LateCorrect, PTL

-----------------------------------------------------------------------------
LEMMA PromptInit == Init => PromptInv
BY LateInit
   DEF Init, PromptInv, Progress, ExactAccount, Owing

LEMMA TickFindsReady ==
  ASSUME TicksPerTransfer <= 1, Slack >= 2, PromptInv, Tick, prompt'
  PROVE  sendState = "DATA_READY" /\ ~Sending
<1>1. prompt /\ loops >= Slack /\ ~Sending
  BY DEF Tick
<1>2. loops >= 2
  BY <1>1, SlackAssumption DEF PromptInv, LateInv, TypeOK
<1> QED
  BY <1>1, <1>2
     DEF PromptInv, LateInv, TypeOK, StateVsActors, Progress, SendStates, Sending

LEMMA ProgressStep ==
  ASSUME TicksPerTransfer <= 1, Slack >= 2, PromptInv, [Next]_vars
  PROVE  prompt' => Progress'
<1> USE SlackAssumption DEF PromptInv, LateInv, TypeOK, StateVsActors, Progress
<1>1. CASE CheckRts
  BY <1>1 DEF CheckRts
<1>2. CASE StoreSending
  BY <1>2 DEF StoreSending
<1>3. CASE EnableDma
  BY <1>3 DEF EnableDma, TasksPending, Lamps
<1>4. CASE Console
  BY <1>4 DEF Console
<1>5. CASE UpdateTasks
  BY <1>5 DEF UpdateTasks, TasksFinished
<1>6. CASE TestSent
  BY <1>6 DEF TestSent, MayRefill
<1>7. CASE TestUnderrun
  BY <1>7 DEF TestUnderrun, MustRefill
<1>8. CASE FillLamp
  BY <1>8 DEF FillLamp, LastLamp
<1>9. CASE Publish
  BY <1>9 DEF Publish, Filled
<1>10. CASE EndLoop
  BY <1>10 DEF EndLoop
<1>11. CASE Tick
  BY <1>11, TickFindsReady DEF Tick, AfterTick, Sending
<1>12. CASE DmaWord
  BY <1>12 DEF DmaWord
<1>13. CASE DmaDone
  BY <1>13 DEF DmaDone
<1>14. CASE UNCHANGED vars
  BY <1>14 DEF vars
<1> QED
  BY <1>1, <1>2, <1>3, <1>4, <1>5, <1>6, <1>7,
     <1>8, <1>9, <1>10, <1>11, <1>12, <1>13, <1>14 DEF Next, Main

LEMMA ExactStep ==
  ASSUME TicksPerTransfer <= 1, Slack >= 2, PromptInv, [Next]_vars
  PROVE  prompt' => ExactAccount'
<1> USE SlackAssumption
    DEF PromptInv, LateInv, TypeOK, StateVsActors, Contents, Progress,
        ExactAccount, Owing
<1>1. CASE CheckRts
  BY <1>1 DEF CheckRts
<1>2. CASE StoreSending
  BY <1>2 DEF StoreSending
<1>3. CASE EnableDma
  BY <1>3 DEF EnableDma, TasksPending, Lamps
<1>4. CASE Console
  BY <1>4 DEF Console
<1>5. CASE UpdateTasks
  BY <1>5 DEF UpdateTasks, TasksFinished
<1>6. CASE TestSent
  BY <1>6 DEF TestSent, MayRefill
<1>7. CASE TestUnderrun
  BY <1>7 DEF TestUnderrun, MustRefill
<1>8. CASE FillLamp
  BY <1>8 DEF FillLamp, LastLamp
<1>9. CASE Publish
  BY <1>9 DEF Publish, Filled
<1>10. CASE EndLoop
  BY <1>10 DEF EndLoop
<1>11. CASE Tick
  BY <1>11, TickFindsReady DEF Tick, AfterTick, Sending
<1>12. CASE DmaWord
  BY <1>12 DEF DmaWord
<1>13. CASE DmaDone
  BY <1>13 DEF DmaDone
<1>14. CASE UNCHANGED vars
  BY <1>14 DEF vars
<1> QED
  BY <1>1, <1>2, <1>3, <1>4, <1>5, <1>6, <1>7,
     <1>8, <1>9, <1>10, <1>11, <1>12, <1>13, <1>14 DEF Next, Main

LEMMA PromptCorrect ==
  ASSUME TicksPerTransfer <= 1, Slack >= 2
  PROVE  Spec => []PromptInv
<1>1. PromptInv /\ [Next]_vars => PromptInv'
  BY LateStep, ProgressStep, ExactStep DEF PromptInv
<1> QED
  BY <1>1, PromptInit, PTL DEF Spec

\* However late main is, only a tick that falls into a transfer tears its
\* frame: all words of any other transfer belong to one update.
THEOREM UntornFrameTheorem ==
  ASSUME TicksPerTransfer <= 1
  PROVE  Spec => []UntornFrame
<1>1. LateInv => UntornFrame
  BY DEF LateInv, WireAndWords
<1> QED
  BY <1>1, LateCorrect, PTL

\* As long as main completes two iterations between the events of a frame, no
\* frame tick finds the pipeline unprepared.
THEOREM NoUnderrunTheorem ==
  ASSUME TicksPerTransfer <= 1, Slack >= 2
  PROVE  Spec => []NoUnderrun
<1>1. PromptInv => NoUnderrun
  BY DEF PromptInv, Progress, NoUnderrun
<1> QED
  BY <1>1, PromptCorrect, PTL

\* However late main is, no update of the animations is made without a frame
\* tick of its own; as long as main is prompt, no tick passes without one.
THEOREM OneUpdatePerTickTheorem ==
  ASSUME TicksPerTransfer <= 1, Slack >= 2
  PROVE  Spec => []OneUpdatePerTick
<1>1. PromptInv => OneUpdatePerTick
  BY DEF PromptInv, LateInv, Account, ExactAccount, OneUpdatePerTick
<1> QED
  BY <1>1, PromptCorrect, PTL
=============================================================================
