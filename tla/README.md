# BallLamp: a specification of the firmware and its app

BallLamp is a ball of 20 RGB lamps (neopixels) driven by an RP2040
microcontroller. It refreshes the lamps 30 times per second, plays an animation
on each of them, and takes commands over two serial interfaces, USB and
Bluetooth; an Android app speaks the Bluetooth side. This directory holds TLA+
modules of the firmware and of the core of the app, the TLC configurations that check them, and TLAPS
proofs. Paths below are relative to the repository; `src/` in `PROJECT.json`
stands for its root.

To repeat a check: `tlc -config FrameEngine.cfg MCFrameEngine.tla`; to
repeat a proof: `tlapm FrameEngineProofs.tla`. `PROJECT.json` lists the runs with
their properties, the source lines of every definition, and for each checked
property one plausible mistake in the code that the property detects
(`mutants`, the operators with a suffix such as `AfterTick_unconditional`).

## 1. Inventory

There is one thread of control, the endless loop of `main()`
(`Src/common/main.c:296`), and four interrupt handlers: the frame timer, the end
of a DMA transfer, and one receiver per UART. No handler masks another one and
`main` masks none, so all sharing is by volatile bytes. Hardware that acts on its
own: the DMA channel, which reads `rawdata` while `main` runs, and the UART
transmitters.

| Component | State | Operations | Talks to |
|---|---|---|---|
| Frame pipeline: `rp2040/neopixelDriver.c`, `main.c` | `sendState`, `rawdata`, `lamps`, `tasksDone`, DMA enable bit, timer | `sendToLed`, `decompressRgbArray`, frame timer and DMA interrupts, `NPENGINE` | color animations (one update per frame), DMA |
| Color animations: `interpolators.c`, `colorInterpolator.c` | `taskArray` of one entry per lamp, each with its steps, position, state and fixed point color | `setLampInterpolator`, `defineColorStep` with `setColor`/`setFrames`, `start`, `stop`, `updateTask`, `destroyTask`, `toStream`, `fromStream` | commands, frame pipeline, storage |
| Serial input: receive interrupts of `rp2040/uart.c`, `bufferedInputHandler.c` | `inputBuffer`, `inputBufferCnt`, the word `task`, `interfaceType` | receive, `processInputBuffer`, clearing a task bit, switching between console and API | line editor, API handler |
| Serial output: `rp2040/uart.c` | `outputBuffer` with two counters per interface, `context` | `printf`, `sendCharAsyncUsb`, `sendCharAsyncBt` | everything that prints |
| Line editor: `consoleHandler.c` | current lines, shadow of the history, cursor, escape mode | one handler for every character | commands, terminal |
| API handler: `apiHandler.c` | a line of 256 bytes | one handler for every byte | commands |
| Commands: `taskManager.c`, `taskManagerUtils.c`, `stringFunctions.c` | none of their own | parsing, 31 commands, error messages | animations, pipeline, storage |
| Persistent storage: `memoryAccess.c`, `flash.c` of each port | flash pages | `saveHeader`, `saveData`, `SAVE`, `LOAD` | animations, Bluetooth set-up |
| SD card: `rp2040/spi_sdcard.c`, `fatLib.c` | card state, FAT | init, read, write of blocks | nothing calls it yet |
| Bluetooth set-up: `rp2040/bluetoothATConfig.c` | none | AT commands, empty on this hardware | commands |
| Android app: `BallLampApp` | animations, dispatcher threads, socket, connector and receiver threads | command lists, dispatch, connect, disconnect, pause, resume | firmware over Bluetooth |

Clock, timer and C runtime set-up, the STM32 port, mocks, tests and vendored
tools have no behaviour of interest or duplicate the above.

What is hard here, and what makes each part correct:

- *Frame pipeline.* Three actors change `sendState` without a lock, and several of
  its values can be overwritten before anybody reads them. Correct means: a
  transfer is never started into a running one, no update of the animations is
  lost or shown twice, no frame is torn but that of a late tick, and the pipeline
  never gets stuck.
- *Serial input.* A buffer with a single counter is filled by an interrupt and
  emptied from its end by `main`, with two read-modify-write races. Correct means
  each character handled once, in order, by the handler that is selected.
- *Serial output.* `printf` wraps one counter, the sender resets both, and a full
  buffer makes `printf` wait. Correct means a byte queue that loses nothing, and
  a main loop that comes back.
- *Color animations.* Commands in any order work on shared entries; deltas
  are derived data that several fields determine; fixed point steps accumulate.
  Correct means each lamp plays what was defined for it.
- *Line editor.* The command buffer, its counter, the cursor and the terminal hold
  one fact four times over; the history exists twice. Correct means what you see
  is what is executed, and edits of the history are undone. The first is not true
  of erased characters (section 5).
- *Commands and API.* Abbreviations match, numbers wrap at their width, missing
  brackets pass, and the line buffer is reused. Correct means: what `HELP` explains
  does what it says, every other line gives the lamps and animations nothing out of
  range, and each line is executed as it was sent or its sender told.
- *Storage.* Pages are copied, erased and programmed; header and animation share
  the first one; the power may fail in between. Correct means that what was saved
  is there, and a failure costs one page at most.
- *App.* Every request is a thread that sends line by line; requests, the
  connection, pausing and the frames of the lamp interleave. Correct means that a
  request that has the lamp for itself ends in what the user asked for.

`PROJECT.json` lists the hazards at their lines with the properties that cover
them; those without a property say why.

## 2. Modules

| Module | What it is |
|---|---|
| `FrameEngine` | main loop, frame timer, DMA: one action between two accesses to shared state |
| `FrameEngineProofs` | its two inductive invariants and six theorems |
| `ByteFifo` | abstract: a bounded byte queue with one producer and one consumer |
| `CommOutput` | `printf` and both senders; implements two `ByteFifo`s |
| `CommOutputProofs` | type, room and refinement theorems for every size and alphabet |
| `CommInput` | receive interrupts, task bits, `processInputBuffer` |
| `CommInputProofs` | its two inductive invariants and four theorems, for every size and number of characters |
| `Player` | abstract: per lamp, a program of steps that is played frame by frame |
| `Durations` | how many frames a sequence of steps takes; for both `Player` and `Interpolators` |
| `Interpolators` | the array of tasks and the commands on it; implements `Player` |
| `InterpolatorsProofs` | its inductive invariants and five theorems, the refinement of `Player` among them, for every number of lamps, colors and steps |
| `InductionLemmas` | induction over the natural numbers, least and greatest elements, as theorems about sets; folds and concatenations stage by stage; the order of products |
| `Console` | the line editor together with the terminal that displays its answers |
| `ConsoleProofs` | its inductive invariant and four theorems, for every alphabet, length of line and history |
| `Commands` | what a line makes the firmware do: table of commands and parsing, as operators |
| `Manual` | the command language as `HELP` explains it: how a request is written, what it means |
| `Api` | one interface: the line buffer of the API, whole lines of the console, the effect on the mode |
| `ApiProofs` | what each conversion of `Commands` returns; the inductive invariant of `Api` and four theorems, for every size of the buffer and number of lamps |
| `Storage` | `SAVE`, `LOAD`, the header and the flash memory, halfword by halfword, with power failures |
| `StorageProofs` | its two inductive invariants and six theorems, for every layout of the memory and every set of animations |
| `App` | the app, its connection and the lamp; contains `Interpolators` |
| `MC...` | the instances for TLC |

### FrameEngine

`sendState`, `rawdata`, `tasksDone` are the variables of that name. `pc` names the
places where `main` can be interrupted with a difference: the test for RTS
(`CheckRts`), the store of SENDING and the start of the DMA inside `sendToLed`
(`StoreSending`, `EnableDma`), the consoles (`Console`), the update of the tasks
(`UpdateTasks`), the two reads in the condition at `main.c:346` (`TestSent`,
`TestUnderrun`), each lamp of `decompressRgbArray` (`FillLamp`) and its final
store (`Publish`). `Tick` is `isr_pio0_irq0_irq7`, `DmaDone` is
`isr_dma_irq0_irq11`, `DmaWord` one transfer of the channel. The contents of a
lamp are abstracted to the number of updates they contain modulo `Versions`:
this tells apart frames that are missing, repeated or mixed. The underrun report
between `UpdateTasks` and `TestSent` only prints; it belongs to `CommOutput`.
`NPENGINE` is the assignment to `timer` in `Console`.

`shown`, `owed` and `prompt` are history variables; `ticks` bounds the
environment, at most `TicksPerTransfer` ticks fall into one transfer, and `loops`
counts the iterations of main since the last event. A frame lasts 33 ms and a
transfer 20 x 24 bits at 800 kbit/s, 0.6 ms, so one tick per transfer is what
can really happen. Nothing is assumed of the speed of main: any number of ticks may
pass in one of its iterations. `prompt` says that so far it was the intended main
loop, which turns `Slack` times between two events and lets no tick fall into a
transfer. `NoUnderrun`, half of `OneUpdatePerTick` and `KeepsRefreshing` speak of such
behaviours; the others of all. `UntornFrame` says which frames main can tear: those
of a transfer a tick fell into, and no other one.

### CommOutput and ByteFifo

The counters keep their misleading names: `outputBufferReadCnt` is where `printf`
writes. `main` is reduced to its calls of `printf` (each of any text up to
`MaxText` characters, to the interfaces in `context`) and to one call of each
sender per iteration. `PutByte` is the body of the loop in `printf`,
`FlushUsb`/`FlushBt` its waiting loops, `SendCharAsync` both senders, which differ
only in the register they poll; `Transmitted` is that register becoming ready.
The refinement maps the bytes between the two counters to `pending` and the
character in `printf`'s hand to `offered`.

### CommInput

`Receive` is a receive interrupt, enabled between any two actions of `main`.
`While`, `Handle`, `LoadCnt`, `StoreCnt` split one turn of `processInputBuffer` at
its accesses to the counter, `LoadTask`, `StoreTask` split `task &= ~bit`. A
character is its number of arrival on its interface, so a lost, doubled or
reordered character is visible. Members of `Switching` stand for the characters
that complete the command `API` or `CONSOLE`. `MaxPending` characters may wait:
with a full buffer of 8 the counter wraps to 0 and all of them are dropped, which
is a limit of the design and not a question of interleaving. `spaced` records
that no character arrived while another one waited or was handled: an iteration
of main is then shorter than a character on the line (170 microseconds at 57600
baud), which holds while keys are typed and not while main waits in `printf`. Only under that condition can a buffer that is read from its end keep
the order, and `InOrder`, `RoutedByType` and `AllHandled` depend on it.

### Interpolators and Player

One record per entry of `taskArray`, one color channel instead of three. `Interp`,
`Istep`, `Destroy`, `Start`, `Stop`, `Paint` are the commands with their effect on
all the lamps selected, `Frame` is the update of all tasks in `main`. `Scale` and
`Depth` replace 2^23 and 256. `Player` says, per lamp and without entries, deltas
or fixed point, what has to be seen: each step for exactly its number of frames,
a fade less than two shades from the exact line and never outside its two
colors, a one-shot ending on its last color. Steps of 0 frames (division by zero)
and animations of 0 steps (a null pointer) are excluded by assumption and
listed as hazards. Commands come in any order. `defined` is a history variable: how
many steps of a lamp were defined in their order while it did not run, or `Disorder`
from the first `ISTEP` that came otherwise. A lamp in disorder is `Loose` in `Player`:
of the light it shows nothing is promised until it is defined anew or destroyed, while the
others play on. `progression` wraps at `Range32`, since a step that is shortened while it
plays is past its end until then.

### Console

`con` is the structure of the code with `commandBuffer` as the flat array it is;
each key is one call of `onCharacterReception`, whose chain of conditions is kept
in order. The answer (`outBfr`) is a sequence of characters and cursor
movements, and `Display` is the terminal. Any key may follow any other. Two history variables say
when the editor does not cope with one. `lost`: the terminal does not show the
command any more, since a key was browsing from inside a line or beyond either end of the
history, or an edit inside a line that printed characters erased before (`Misleads`); a
carriage return repairs it. `shortened`: characters were erased at the end of a
command, which may still be in the buffer (`ErasesTheEnd`). `past` and `edited` keep
what was executed and which old commands were edited. One key ends the model, an
insertion that would leave the row (`Overruns`, section 5). A typed space is one of the
`Letters`; as a terminal shows it as nothing, buffer and screen are compared up to the
spaces a line ends in (`Trimmed`), while the cursor has to agree.

### Commands, Manual and Api

`Commands` turns a text into a call, `[fn |-> ...]` with its arguments: what
function of the animations, the pipeline or the storage runs with what. Digits,
commas, dashes, spaces and brackets are characters of their own, since the
conversions work on them; the names are split only where one differs from
another (`"R", "ED"` and `"R", "GB"`), which keeps every prefix relation of the
table. `startsWith`, `toUInt8` modulo 256, `getBracketContent` without its
ineffective error, `expandRange`, the insertion sort with its binary search, the
first match in the table and the last one among the colors are the code's. `Manual` is
the other side: requests with their meaning, given without parsing anything; it leaves out
the one entry of `HELP` that names no command (section 5).
`Api` lets an environment choose requests, documented or not, and sends them byte
by byte (`Byte`, `CarriageReturn`) or as a console line. `Text` reads on behind a full buffer into the output buffer as the code
does. Not in the domain of `Commands` (listed at its head): letters between
brackets, numbers of more than three digits in a list, contents longer than the
local buffers, reversed ranges, lists of more lamps than there are, which the code writes
into an array of `N_LAMPS` bytes without a test, and 255 in a color
command, which indexes the lamps with 255. `Copes` says which texts those are as far as the proofs
need it: characters that have a value between the brackets, and a list of a color command that
`Fits`; `Api` assumes it of
the requests, as they are sent and as they are read when they are cut off (`CopesAssumption`), and
TLC evaluates it. A line that fills the buffer of 256
bytes is longer than the 8 bit index of `getBracketContent` can count
(`stringFunctions.c:320`): with a color name or a command with arguments in it,
it never returns; the instance knows the limit but not this end.

### Storage

The memory is in halfwords (`flash`), each a tuple that says what it holds, so
that a misplaced or half-written word cannot be mistaken for data. `job` is the
local state of `saveData` or `saveHeader`; `ErasePage` copies the page and erases
it, `ProgramWord`, `NextPage`, `Saved`, `SavedHeader` program a halfword each,
`Cut` can come before any of them. `Size` is in bytes where halfwords are meant,
as in the code: a stream is followed by as many words of whatever the RAM holds
(`Unknown`). `Load` adds the size of the header twice. Fields of tasks and steps
take one word each. The memory behaves as in the simulation and the STM32
(`mock/flashMockup.c`, `stm32/flash.c`), where errors are ignored: `saveData`
returns 0 whatever happens. On the RP2040, `programHalfword` is empty and
`erasePage` addresses the flash from its beginning: there SAVE and LOAD do
nothing useful, as `main.c:84` announces. The header is saved by `ATSetBaud` of the STM32 port.

### App

`threads` are the `CommandDispatcher`s, each with its place in its list; the list
of a saved animation belongs to its view, grows with every tap and may be shared
(`savedLists`). `SwitchOn`, `SwitchOff` and `Launch` start dispatchers;
`SendString` writes a line to `queue`, from which `Execute` takes it: the lamp,
an instance of `Interpolators`, runs the command. `toCommandList` is there in
full, with its merging of equal colors. The connection: `Connected` is the only
run of `connectorThread`, `Greet` what it posts, `ReceiverEnds` the receiver, and
`Lose`, `Disconnect`, `onPause`, `onResume` what happens to it. Exceptions that nobody catches are actions that
end the app (`ListHasGrown`, `ConnectAgain`, `WriteFails`, `GreetElsewhere`,
`Connect`, `RestartReceiver`); the user may start it again (`Restart`), while the
lamp has gone on. `clean` is a history variable: the
last request found no other dispatcher at work and nothing of it was lost.
`Obeys` speaks of such requests only, but of any state their predecessors
left the lamp in: half defined when the connection was lost, mingled, or past the end of a step
that was shortened. It compares the
light of each frame, not the steps, since the app merges steps. `Edit`ing an animation is the choice of
`Own`. Two things the app lets the user send are excluded, as in `Interpolators`: steps of
zero frames (`ColorSelect.kt:155`), and the switch of an empty list, which makes
`toCommandList` send `INTERP(l,1,0)` and an `ISTEP` of 0 frames (`AnimationList.kt:132`,
`Animation.kt:90-101`). The lamp divides by zero then.

## 3. Runs

| Run | Instance | Shows |
|---|---|---|
| `FrameEngine` | N=3, 1 tick per transfer, Slack=2; 11 406 states | `NoOverlap`, `ConsecutiveFrames`, `UntornFrame`, `StoppedComesToRest` however late main is; `NoUnderrun`, `OneUpdatePerTick`, `KeepsRefreshing` while it is prompt |
| `CommOutput` | 2 bytes, buffer of 4, texts up to 2; 1.2 M states | `RoomForNext`, `AreDrained` (both queues, with liveness), `MainLoopTurns` |
| `CommInput` | 4 characters per interface, two of them switching, buffer of 4; 583 k states | `TypeOK` (the counter stays an index) and `NothingInvented` always; `InOrder`, `RoutedByType`, `AllHandled` for spaced characters; `MainReturns` |
| `CommInputTwice` | 2 characters | *violated*: `ForEachElement` |
| `InterpolatorsSlots` | 2 lamps, one color, two steps, durations 1 and 2, counter to 4; 52 645 states | `OneTaskPerLamp`, `OnlyIstepOverruns`, `PlaysPrograms`, `Advances` for several lamps sharing the array |
| `InterpolatorsFade` | 1 lamp, 3 colors, Scale 4, durations 1 and 3; 57 144 states | `DeltasAreCurrent`, `PlaysPrograms` with fading and truncated deltas |
| `Console` | a letter and a space, lines of 3 characters, 2 rows; 1 385 k states | `WhatYouSee`, `ExecutesWhatIsEdited`, `HistoryKept` |
| `ConsoleErase` | the same | *violated*: `ExecutesWhatIsShown` |
| `Api` | 4 lamps, buffer of 26, some 1 200 documented requests, some 35 others; 21 862 states | `ExecutesTheLine`, `AsDocumented`, `AcceptedOnly` for lines in any order |
| `Storage` | 2 lamps with up to 2 steps, pages of 4 words, 2 failures; 443 k states | `Recoverable`, `RateKept`, `WrittenSoFar`, `OnePageAtRisk` |
| `StorageLoad` | the same | *violated*: `LoadRestores` |
| `App` | 1 lamp, an animation of three steps of which two are merged and one of a single, longer step, 3 requests or breaks; 715 k states | `Obeys`, `Answers` |

Why these bounds: two lamps are enough to tear a frame, three make a mixture with
a correct end and a correct beginning possible; three versions tell the update
before, the same and the next apart. A buffer of 4 with texts of up to 2
characters reaches full buffers, the flush in mid-string and the reset of both
counters on either interface, with the other at any level. Four characters per
interface allow three to wait and cover both directions of switching. With two
lamps the array has free, owned, stale and full configurations; Scale 4 with a
duration of 3 makes every quotient inexact, and the two durations and three
colors make deltas of both signs. With one color and two durations, `InterpolatorsSlots` is
about time: a step of 2 frames shortened to 1 in its second frame is past its end, and
a counter of 4 values wraps soon after. Lines of three characters have a beginning, an
inside and an end, can be full, and can be edited inside with an erased end behind; two rows
are the current one and the history, whose last command drops out. Of the two
characters typed one is visible and one is a space, at the end of a line or before a letter. The API buffer of 26 takes the longest documented request and is
overrun by one of the others; the requests have every command, every separator, numbers
that wrap, lists with doubles, ranges, abbreviations, and faults. A stream of the
storage needs up to 15 words behind a header of 2, four or five pages of 4: a first one with
the header, full ones, and a last one that is partly copied. Three events are enough
for the app to leave the lamp half defined (a request, a loss), or mingled or past the end of a step
(two requests), and to ask again, after a restart if it has ended; the same saved animation twice
occurs as well. Equal colors are merged before a step of another color, into a
step whose duration is longer or shorter than what the lamp may be playing. Bounds of
`App`: `MaxEvents`, `Together` (dispatchers at a time), `Queued`. Deadlock is checked in
all runs but `App`, where the user may be out of requests.

Fairness. `WF_vars(Main)`: the loop never blocks but in the waiting loops of
`printf`, which are actions of their own. `WF_vars(DmaWord \/ DmaDone)`: the PIO
takes words from the DMA at its own clock. `WF_vars(Tick)`: a running timer keeps
firing. `WF_vars(Transmitted(i))`: a transmitter shifts out its byte at the baud
rate. `WF_vars(Frame)`: frames follow each other, which is `KeepsRefreshing` of
`FrameEngine`. In `App`, `WF_vars` of the dispatchers, which the scheduler of
Android runs, and of `Execute`, the main loop of the lamp; nothing is assumed of the user,
the connection or the frames. No run assumes that anybody types or that a command is sent.

## 4. Proofs

All theorems hold for every value of the constants under the named assumptions
of the modules (1 to 255 lamps, more than two versions, a buffer of more than
one slot, "none" not a byte, steps of at least one frame, a stream that fits into the file system). Where
a theorem needs more than that, its statement says so.

*FrameEngineProofs.* The properties are not inductive: `NoOverlap` says nothing
about the DMA while main is elsewhere. `LateInv` adds what each value of
`sendState` tells about the other actors (`StateVsActors`: `RTS` and `SENT` only
with the DMA idle; if it runs under another value than `SENDING`, the one tick a
transfer can contain has been used up), which update `lamps` and
`rawdata` contain (`Contents`), the words on the wire (`WireAndWords`) and the account of ticks.
From it follow `NoOverlapTheorem`,
`ConsecutiveFramesTheorem` and `UntornFrameTheorem`, under `TicksPerTransfer <= 1`. The assumption is
needed: with a second tick in a transfer, main can refill, see DATA_READY turned
to RTS, and start into the running transfer. `PromptInv` adds, for prompt behaviours, how far main has
come since the last event (`Progress`) and the exact account of
ticks; from it follow `NoUnderrunTheorem` and
`OneUpdatePerTickTheorem`, under `Slack >= 2`. Each
part of the invariants has a lemma with one step per action.

*CommOutputProofs.* `FifoInv` is the type invariant with `RoomForNext` and the
fact that `printf` holds a real character at its two put steps. It gives
`TypeCorrect` and `RoomForNextTheorem`. Lemmas on the window between two indices
of an array (`WindowIsSeq` and those after it) show that a put appends to it, a
send takes its head and the reset leaves it empty; with them every step of
`CommOutput` is a step of `ByteFifo` or leaves its variables alone:
`AreFifosTheorem`, the safety part of `AreDrained`.

*ApiProofs.* `ExecutesTheLine` looks at one moment, the execution; what makes it true
is what the buffer holds until then. `Collected` says so: as long as the line fits,
the buffer holds exactly the characters sent and zeros behind, the index is their
number and the answer is empty; from the limit on, the index stays at the last slot, no
zero is left, and the answer is "1". With the types this is inductive, for every
`Size` and every set of requests (`TypeCorrect`, `ExecutesTheLineTheorem`), whatever
`handleCommand` does. `AcceptedOnlyTheorem` is about what it does, for lines that fit and for
those that do not: `TextIsCut` says what is read then (`Overfull`), since a part of
`Collected` follows the last slot. The rest is bottom-up, one lemma per function: the contents
of the brackets and the fields are texts of known characters, a number is below its range, a
range is a list of bytes. The lamps of a list are painted once each because the list is in order:
`BsearchIs` (the search by halves finds exactly what is there, if the list is in order) is what makes
every inserted number new, and `SettledOrder` (exchanging downwards, all but the element on its
way is in order, `ButOne`) is what makes the list stay in order; the two need each other at every
element. The conversions are folds; each is opened with the
function its definition chooses, which `FoldExists` shows to exist, and then stepped through
(`FoldStages`). The theorem assumes `CopesAssumption`; without it letters have no value, 255
passes the check of a color command, and a list may be longer than the array it is written into.
`ExistingLampsFit` says how far that reaches: a list of lamps that exist always fits, because
the list is increasing.

*CommInputProofs.* Two invariants. `PendingInv` holds whatever arrives when: slots below the
counter hold received characters, and main, between its test of the counter and its
decrement, still finds at least one character there (`CntBounded`; in "store" the register
is not above the counter, since interrupts only add). With it no interleaving of the
decrement with an interrupt takes the counter below 0 or hands over a stale slot:
`TypeCorrect` and `NothingInventedTheorem`. Both assume `MaxPending < Size`: with as many characters waiting as there
are slots, the counter wraps to 0, which is a hazard listed in `PROJECT.json`.
`SpacedInv` says where the single character of a `spaced` history is at each place of main; from
it follow `InOrderTheorem` and `RoutedByTypeTheorem`, of which the latter is a statement
about the moment of switching, when the handler selected and the one main is in differ.

*InterpolatorsProofs.* `OneTaskPerLamp` and `TypeOK` follow from `ArrayInv`: every entry is
`WellFormed` (it has steps exactly if a lamp owns it) and no lamp owns two (`Unshared`). That
a lamp without an entry finds a free one is `FreeEntry`, a pigeonhole argument: were all N entries
owned, by N lamps without sharing, the owner would be a function onto the lamps. A command for all
lamps is a loop over them, a recursive function in `ForEachLamp`; `LoopExists` and `ForEachLampGood`
carry the invariant through it by induction. `OnlyIstepOverruns` and `DeltasAreCurrent` need `OrderInv`,
how far a task may have come in each state (`WithinStep`; it excepts tasks that are past the
end of their step already) and that the first `defined` steps of a lamp
have the delta the current colors ask for, the others being as `initTask` left them
(`DeltasMatch`). Lamps in disorder are left out lamp by lamp, so that no order of commands has to be
assumed. The proof showed an error of the model: `updateTask` was a CASE with overlapping
arms, of which TLC takes the first while the semantics leaves the choice open, so
that nothing about it could be proved; it is now the IF chain of the code.
`PlaysProgramsTheorem` is the refinement: every step of the array is, at each lamp, a step of
`Player` or a stutter. `PlayInv` adds to `OrderInv` what the lamps show (`ColorKept`): a task
that starts stands on step 0, and one that runs has the color its step began with plus a
delta for each frame since, where the last step of a one-shot has delta 0. `Until` counts
frames with a recursive function; `UntilGrows` makes it strictly increasing, so that
`StepAtIs` can tell from the frames alone which step is shown. `FadeIs` is the arithmetic:
deltas are quotients rounded towards 0, so after k of f frames a fade is less than f off in the
scale of f, never past its end, and `Fades` follows when the color is rounded in turn. `ShowsProgram`
puts them together for one task, `PlaysOn` is one call of `updateTask`. Each command has a
lemma that says what `Player` sees of it at one lamp (`EditPlays`, `RemovePlays`, `PaintPlays`,
`RewindPlays`, `InterpPlays`), for which `TaskInIs` finds the entry of a lamp again after
the entries have changed. A lamp in disorder is only followed as far as its
colors go, since a fade with a stale delta ends on another color than its program says.

*StorageProofs.* The properties speak of whole pages and whole jobs; the invariant says what
holds between two halfwords. `JobInv`: as a page begins, the counter of the data is the
number of words that fit in front of it (`Before`). `BufferInv`: each word of the buffer is the right one
for its place, and the page is programmed up to `word` and erased behind it, so that
programming never meets a word that is not erased. `WrittenInv`: the pages before are done. `RateInv`: while page 0
is between erasing and its end, the header is in the buffer. `FlashInv`: a word that
starts a stream occurs at `HeaderWords` only. Filling the buffer is a recursive function, and
`FilledData` proves by induction over its words what it contains. From the invariant follow
`TypeCorrect`, `WrittenSoFarTheorem`, `RateKeptTheorem`, `OnePageAtRiskTheorem`, and
`LoadFails`: for no layout of the memory and in no reachable state does LOAD restore an animation.
It is the general form of what the run `StorageLoad` shows in one behaviour.
`RecoverableTheorem` is the way back. `ReadsBack` proves that `fromStream` inverts `toStream` wherever
the stream is: `FlattenPlaces` says where each task is found in the concatenation, and an induction over
the tasks shows that the lengths read so far lead `fromStream` there. `StoredInv` carries the stream
from the end of SAVE through everything that follows: the words of what was saved last are in
the memory or, while the header is rewritten, in the buffer (`Content`), until a later SAVE begins
to erase. It assumes `HeaderWords >= 2`: `saveHeader` announces two words, and TLC finds the
counterexample for a header of one word, whose second lands in the stream. In the code it has 16.

*ConsoleProofs.* `WhatYouSee` relates two things that never meet in the code: what a key does to the
buffer, and what the characters it answers with do to the terminal. `Inv` has four parts.
`Agrees`: the row that is edited begins with a command w of as many characters as the
editor counts (`Editing`), every row has a zero in its last column (`Zeroed`), and unless `lost` the
screen is the picture of w with the cursor at its place (`Follows`). `Tidy`: as long as nothing was erased
at an end, a zero follows w and nothing but zeros follow a zero, without which an
insertion, which writes none, would uncover what stood there before. `History`: the shadow rows are the last
commands, and rows not edited equal them. For each kind of key a
lemma says what becomes of w (`InsertInside`, `InsertAtEnd`, `EraseInside`, `EraseAtEnd`, `BrowseIs`,
`LeftIs`, `RightIs`, `EnterIs`), and `KeyIs` puts them together:
on the side of the buffer by `WrittenIs`, on that of the terminal by the trace of its states after each
character (`ShownTrace`), of which `ShownParts` puts two together. `Cell`, what a column
shows, makes lines comparable that differ in trailing spaces. A line of text is followed by
`ShowText`, the way back by `ShowLefts`, rubbing out by `ShowRubouts`, each by induction over the characters.
Erasing at an end leaves a w that is shorter than the string in its row, which is why the invariant speaks
of what the editor counts and not of strings; `PrefixIs` then gives what a carriage return
executes. `PushedIs` and `ClearedIs` carry the history through it. From `Inv` follow `TypeCorrect`, `WhatYouSeeTheorem`,
`HistoryKeptTheorem` and `ExecutesWhatIsEditedTheorem`, for all keys in all orders short of
`Overruns`. The proof found a case TLC had never met, as none of the
letters of its run was a space: after a typed space the screen shows less than
the buffer holds. The properties now say what is meant, equality up to the spaces at the end
(`TrimmedAlike`: lines that show the same in every column are the same when trimmed), and the run
types spaces.

*InductionLemmas.* The induction theorems of the library take an operator as a parameter,
which the provers here cannot instantiate. The same facts as statements about sets
(`SetInduction`: a set with 0 and every successor of its elements contains `Nat`)
follow from the well-foundedness of the natural numbers and serve the proofs above:
the loop over lamps, the loop over the words of a page, the concatenation of a stream, the
characters of an answer. The folds of the community modules take operators as well; `FoldExists`
and `FoldStages` speak of their step as a function.

Only model-checked, and why:

- all liveness properties (`StoppedComesToRest`, `KeepsRefreshing`, `MainLoopTurns`,
  `AllHandled`, `MainReturns`, `Advances`, `Answers` and the liveness in `AreDrained`): the
  prover does not reason about fairness and ENABLED;
- `AsDocumented` of `Api`: it compares `Manual` with the parser request by
  request, over a finite list; `Obeys` of `App`: it composes the app with `Interpolators`, and says what the
  entries look like after a whole request, so it needs an invariant for each prefix of its lines.

## 5. Where code and documentation disagree

Shown by the three runs that are expected to fail:

1. `ForEachElement`: a character that arrives between the fetch and the decrement
   in `processInputBuffer` (`bufferedInputHandler.c:31`) is dropped, and the one
   before it handled twice.
2. `LoadRestores`: LOAD starts to read 32 bytes behind the place where SAVE starts to
   write (`taskManager.c:544` and `:520`), and takes for lengths what it finds there.
3. `ExecutesWhatIsShown`: erasing at the end of a line writes the zero behind the erased
   character (`consoleHandler.c:143`): it vanishes from the screen, stays in the buffer, and is
   executed, although line 56 says that the key "deletes parts of the currently entered content".
   `ExecutesWhatIsEdited` says what remains true.

Met while modelling and not kept as runs:

- After an underrun main rewrites `rawdata` under the running DMA (`main.c:346`),
  against the comment at `neopixelDriver.c:220`. The frame on the wire is torn; the
  sequence of frames is not disturbed (`ConsecutiveFrames`). Without slack a tick may
  pass with no update of the animations.
- A character that arrives after the last test of the counter loses its task bit
  (`main.c:311`) and waits for the next one. Two characters that wait are handled in
  reverse order (`bufferedInputHandler.c:30`), and those behind the command `API` by the console
  (`:26`). A burst of eight characters wraps the
  counter of the input buffer. `InOrder`, `RoutedByType` and `AllHandled` claim nothing of
  characters that wait; what holds for those as well is `NothingInvented`.
- Changing the color of step 0 of a repeating animation leaves the delta of the
  last step as it was (`colorInterpolator.c:92`), so the fade ends on another
  color and jumps. `DeltasAreCurrent` holds as long as steps are defined in order.
- An `ISTEP` that shortens the step that is playing lets its counter pass the end, which is tested
  with `==` (`colorInterpolator.c:206`), although it "goes from 0 to the length of frames"
  (`colorInterpolator.h:53`): the animation stands still until the counter has wrapped, for years.
  `OnlyIstepOverruns` says that nothing else leads there, `Advances` that it then goes on.
- `HELP` explains `NGENGINE(<f>)` (`taskManager.c:236`), but the table of commands has
  `NPENGINE` (`:680`): the line `HELP` asks for is an unknown command. `Manual` leaves the entry out,
  so that `AsDocumented` does not speak of it; both words are among the requests sent.
- A list of more than `N_LAMPS` different numbers is written beyond the local array
  `lampnrs[N_LAMPS]` of the color commands (`taskManager.c:96`, `taskManagerUtils.c:140`); the check of
  their range comes after that.
- An `ISTEP` for all lamps with a step that does not exist adds up error codes to 0
  modulo 256 and reports success (`taskManager.c:385`).
- Browsing beyond either end of the history rubs out the line but keeps the
  row and the cursor (`consoleHandler.c:186`); after that, or after browsing from inside a line, the
  terminal is wrong until the next carriage return, and `WhatYouSee` claims nothing until then.
  Characters erased at the end come back when the line is edited further inside, and a character
  inserted there may push them into the next row (`:239`). Rubbing out 43 or more characters
  exceeds the 128 bytes of `outBfr`.
- SAVE of a lamp with more than 12 steps does not end (`interpolators.c:234`);
  `saveData` copies what is behind the data from a few words too far on (`memoryAccess.c:94`) and always
  reports success.
- The app: connecting a second time, resuming after the receiver has ended, tapping a saved animation
  that is being sent, failing to write while the connection view is displayed, and
  getting connected while it is not, all end in an exception nobody catches; no property forbids
  that, `Answers` counts it as an end of the request. Two
  toggles in quick succession mingle their lines, which may freeze the
  animation until the next request.

## 6. Not modelled

- Register set-up, abstracted to an enable bit per device. About 55 000 of the
  64 000 lines of the repository's source are register headers of the RP2040 and of
  the STM32 (`src/Inc/RpiPico/hardware/regs` and others): constants without
  behaviour. What the modules map is most of what remains that computes anything.
- Texts and layout of messages, `DESCI`, `SYSINFO`, `HELP`, and the conversions of
  numbers to text they use.
- What the firmware does not call: the SD card driver and `fatLib.c`, `pause`,
  `resume`, `setLampNr`, the AT commands on the RP2040 (empty).
- The STM32 port but for its flash memory: the RP2040 versions of the same roles are
  modelled.
- Of the app: layouts, colors and their picker, the color sliders (one `RGB` line
  each), files of saved animations, dialogs, discovery and pairing of the lamp
  (`BallLampBTInterface.kt`: the lamp is bonded from the start).
- `CommInput` does not know what a command is: the handlers are one action. `Console`
  and `Api` assume characters that arrive once and in order, which `InOrder`
  establishes for spaced characters only; the app sends faster than that, and
  `App` assumes that lines arrive whole or not at all, as the Bluetooth module buffers them.

## 7. Plan

Done, in this order: `FrameEngine`, `CommOutput`, `CommInput`, `Interpolators` with
`Player`, `Console`; proofs for the first two; `Commands` with `Manual` and `Api`,
`Storage`, `App` with the lamp; proofs for `Api`; proofs for `CommInput`, `Interpolators`,
`Storage` and `Console`; the proof that `Interpolators` implements `Player`; proofs about the
conversions of `Commands`.

Next:

1. Proofs: `AsDocumented` of `Api`, text by text; `Obeys` of `App`.
2. Compositions: `CommInput` with the API handler, and bursts that wrap the counter.
3. The discovery and pairing of the app, and its color sliders as further writers to
   the socket.
