-------------------------------- MODULE App --------------------------------
(***************************************************************************)
(* The Android app and the lamp it plays on: an animation of the user is   *)
(* turned into a list of commands (backend/Animation.kt), sent line by     *)
(* line by a thread of its own (backend/CommandDispatcher.kt) over the     *)
(* Bluetooth socket (MainActivity.kt) and executed by the lamp, whose      *)
(* animations are those of module Interpolators.  Threads, the connection, *)
(* the user and the frames of the lamp go on independently.                *)
(*                                                                         *)
(* A line is a call as in module Commands; the lamp reads it as it was     *)
(* written (module Api).  The numbers of the lamps on the screen are those *)
(* of the hardware.  As the list fragment makes them, all lamps of an      *)
(* animation have equally many steps, all are linear, and it repeats.      *)
(*                                                                         *)
(* Assumed, though the app does not see to it: an animation has at least   *)
(* one step, and each lasts at least a frame.  The switch of an empty list *)
(* sends INTERP(l,1,0) and an ISTEP of 0 frames, and the color fragment    *)
(* accepts a duration of 0: the lamp divides by it, see Interpolators.     *)
(***************************************************************************)
EXTENDS Integers, Sequences, SequencesExt

CONSTANTS
  N, Depth, Scale, Range32,  \* see Interpolators
  \* animations, per lamp a sequence of steps [color, frames, fade]:
  Own,              \* what the user puts together in the list fragment
  Saved,            \* saved before
  MaxEvents,        \* bound: how often the user asks for something, or the
                    \* connection is lost, closed or suspended
  Together,         \* bound: dispatchers at a time
  Queued            \* bound: lines on their way to the lamp

VARIABLES
  \* the lamp
  taskArray, lamps, defined,
  \* the app
  savedLists,  \* per saved animation, the commands its view holds
  threads,     \* dispatchers: [list, saved, size, at], see below
  connector,   \* connectorThread: "alive", "ended"
  socket,      \* "null", "open", "lost" (by the lamp), "closed" (by the app)
  receiver,    \* btReceiverThread: "none", "running", "stopping", "ended"
  greet,       \* posted to the handler: start the receiver, send API
  paused,
  crashed,     \* ended by an uncaught exception
  \* in between
  queue,       \* lines sent and not yet executed
  \* history
  wanted,      \* what the user asked for last
  clean,       \* its dispatcher is alone and none of its lines was lost
  events

lamp == <<taskArray, lamps, defined>>
link == <<connector, socket, receiver, greet>>
ui == <<savedLists, paused, wanted, events>>
vars == <<lamp, link, ui, threads, crashed, queue, clean>>

Lamps == 0..(N - 1)
Steps == UNION {ToSet(a[l]) : a \in Own \union Saved, l \in Lamps}
Longest == Max({Len(a[l]) : a \in Own \union Saved, l \in Lamps})

Firmware == INSTANCE Interpolators WITH
  Frames <- {s.frames : s \in Steps}, StepCounts <- 1..Longest,
  Fading <- BOOLEAN

-----------------------------------------------------------------------------
(* The commands of an animation (toCommandList).                           *)

\* variables of the loop; out is preliminaryStepList
Run0 == [out |-> << >>, color |-> 0, sum |-> 0, last |-> 0, fade |-> FALSE, same |-> 0]

NewRun(run, s) ==
  [run EXCEPT !.color = s.color, !.sum = s.frames, !.last = s.frames, !.fade = s.fade, !.same = 0]

\* a run of equal colors: a constant step and, with the interpolation of the
\* first, the last one
RunSteps_short(run) == <<[color |-> run.color, frames |-> run.last, fade |-> run.fade]>>
RunSteps(run) ==
  (IF run.same > 0
     THEN <<[color |-> run.color, frames |-> run.sum - run.last, fade |-> FALSE]>>
     ELSE << >>)
  \o <<[color |-> run.color, frames |-> run.last, fade |-> run.fade]>>

EndRun(run) == [run EXCEPT !.out = @ \o RunSteps(run)]

AddStep(run, s) ==
  IF s.color # run.color THEN NewRun(EndRun(run), s)
  ELSE [run EXCEPT !.sum = @ + s.frames, !.last = s.frames, !.same = @ + 1]

LampSteps(steps) == EndRun(FoldLeft(AddStep, NewRun(Run0, Head(steps)), Tail(steps))).out

STOP == [fn |-> "stop"]
START == [fn |-> "start"]

LampCommands(l, steps) ==
  <<[fn |-> "interp", lamp |-> l, nsteps |-> Len(steps), repeating |-> Len(steps) > 1]>>
  \o [j \in DOMAIN steps |-> [fn |-> "istep", lamp |-> l, step |-> j, is |-> steps[j]]]

toCommandList(a) == FlattenSeq([k \in 1..N |-> LampCommands(k - 1, LampSteps(a[k - 1]))])

Playing(a) == <<STOP>> \o toCommandList(a) \o <<START>>

-----------------------------------------------------------------------------
\* onCreate has started the connector; the lamp is bonded
Init ==
  /\ Firmware!Init
  /\ savedLists = [a \in Saved |-> << >>]
  /\ threads = << >>
  /\ connector = "alive" /\ socket = "null" /\ receiver = "none" /\ greet = FALSE
  /\ paused = FALSE /\ crashed = FALSE
  /\ queue = << >>
  /\ wanted = [fn |-> "nothing"] /\ clean = FALSE /\ events = 0

\* an exception nobody catches, in whichever thread, ends them all
Crash ==
  /\ crashed' = TRUE /\ clean' = FALSE
  /\ threads' = << >>
  /\ connector' = "ended" /\ socket' = "closed" /\ receiver' = "ended" /\ greet' = FALSE
  /\ savedLists' = [a \in Saved |-> << >>] /\ paused' = FALSE
  /\ UNCHANGED <<lamp, wanted, events, queue>>

\* the user starts the app again; of the lines on their way some may be lost
Restart ==
  /\ crashed /\ crashed' = FALSE
  /\ connector' = "alive" /\ socket' = "null" /\ receiver' = "none"
  /\ \E n \in 0..Len(queue) : queue' = SubSeq(queue, 1, n)
  /\ UNCHANGED <<ui, lamp, greet, threads, clean>>

-----------------------------------------------------------------------------
(* The user.  A dispatcher goes through its list; the iterator remembers   *)
(* the size it found at the beginning (-1 until then).  The list is its    *)
(* own, or that of the view of a saved animation.                          *)

Play(a) == [fn |-> "play", of |-> a]

Dispatch(thread, asked) ==
  /\ ~crashed /\ ~paused /\ events < MaxEvents /\ Len(threads) < Together
  /\ threads' = Append(threads, thread)
  /\ wanted' = asked
  /\ clean' = (threads = << >>)
  /\ events' = events + 1
  /\ UNCHANGED <<lamp, link, paused, crashed, queue>>

WithOwn(list) == [saved |-> FALSE, list |-> list, size |-> -1, at |-> 0]

\* the switch of the list fragment, for the animation the user has put together
\* there by then, or against it
SwitchOn(a) == Dispatch(WithOwn(Playing(a)), Play(a)) /\ UNCHANGED savedLists
SwitchOff == Dispatch(WithOwn(<<STOP>>), STOP) /\ UNCHANGED savedLists

\* what btSocket.isConnected may say; it takes time to notice a loss
isConnected == CASE socket = "open" -> {TRUE} [] socket = "lost" -> BOOLEAN [] OTHER -> {FALSE}

\* A saved animation is tapped: the list of its view keeps growing.  (The list
\* fragment is not displayed, so that its switch is not there to be set.)
Launch(a) ==
  /\ TRUE \in isConnected
  /\ savedLists' = [savedLists EXCEPT ![a] = @ \o Playing(a)]
  /\ Dispatch([saved |-> TRUE, list |-> a, size |-> -1, at |-> 0], Play(a))

-----------------------------------------------------------------------------
(* The dispatchers.                                                        *)

ListOf(t) == IF threads[t].saved THEN savedLists[threads[t].list] ELSE threads[t].list

Begin(t) ==
  /\ threads[t].size = -1
  /\ threads' = [threads EXCEPT ![t].size = Len(ListOf(t))]
  /\ UNCHANGED <<lamp, link, ui, crashed, queue, clean>>

More(t) == threads[t].size # -1 /\ threads[t].at # Len(ListOf(t))
Grown(t) == threads[t].size # Len(ListOf(t))

\* write to the socket
Sent(line) ==
  CASE socket = "open" ->
         /\ Len(queue) < Queued /\ queue' = Append(queue, line) /\ UNCHANGED clean
    [] OTHER -> clean' = FALSE /\ UNCHANGED queue

NextAt_stuck(at) == at
NextAt(at) == at + 1

\* sendString; without a socket it calls initConnection, which does nothing
\* while the connector is alive
SendString(t) ==
  /\ More(t) /\ ~Grown(t)
  /\ ~(socket = "null" /\ connector = "ended")
  /\ Sent(ListOf(t)[threads[t].at + 1])
  /\ threads' = [threads EXCEPT ![t].at = NextAt(@)]
  /\ UNCHANGED <<lamp, link, ui, crashed>>

\* ConcurrentModificationException of the iterator
ListHasGrown(t) == More(t) /\ Grown(t) /\ Crash

\* IllegalThreadStateException: a thread cannot be started again
ConnectAgain(t) ==
  More(t) /\ ~Grown(t) /\ socket = "null" /\ connector = "ended" /\ Crash

\* the message that writing has failed is set outside the thread of the user
\* interface: CalledFromWrongThreadException, while the view is on the screen
WriteFails(t) == More(t) /\ ~Grown(t) /\ socket = "lost" /\ Crash

Finish(t) ==
  /\ threads[t].size # -1 /\ ~More(t)
  /\ threads' = RemoveAt(threads, t)
  /\ UNCHANGED <<lamp, link, ui, crashed, queue, clean>>

Dispatcher(t) ==
  Begin(t) \/ SendString(t) \/ ListHasGrown(t) \/ ConnectAgain(t) \/ WriteFails(t) \/ Finish(t)

-----------------------------------------------------------------------------
(* The connection.                                                         *)

Link == UNCHANGED <<lamp, savedLists, wanted, threads>>
Break == events < MaxEvents /\ events' = events + 1

\* run of BluetoothConnectionThread, with its second attempt
Connected ==
  /\ connector = "alive"
  /\ connector' = "ended"
  /\ \/ socket' = "open" /\ greet' = TRUE
     \/ socket' = "null" /\ UNCHANGED greet
  /\ UNCHANGED <<events, receiver, paused, crashed, queue, clean>> /\ Link

\* a new receiver is started and the lamp put into API mode
Greet ==
  /\ greet /\ greet' = FALSE
  /\ receiver' = "running"
  /\ IF socket = "open" THEN Len(queue) < Queued /\ queue' = Append(queue, [fn |-> "api"])
                        ELSE UNCHANGED queue
  /\ UNCHANGED <<events, connector, socket, paused, crashed, clean>> /\ Link

\* the button is on the screen only as long as the color fragment is
GreetElsewhere == greet /\ Crash

\* the lamp is too far; of the lines on their way the last are lost
Lose ==
  /\ Break
  /\ socket = "open" /\ socket' = "lost"
  /\ \E n \in 0..Len(queue) : queue' = SubSeq(queue, 1, n)
  /\ clean' = (clean /\ queue' = queue)
  /\ UNCHANGED <<connector, receiver, greet, paused, crashed>> /\ Link

ReceiverEnds ==
  /\ receiver = "stopping" \/ (receiver = "running" /\ socket # "open")
  /\ receiver' = "ended"
  /\ UNCHANGED <<events, connector, socket, greet, paused, crashed, queue, clean>> /\ Link

\* what the button says after the greeting, until the connection is removed
SaysDisconnect == socket \in {"open", "lost"} /\ receiver # "none"

\* removeConnection waits for the receiver
Disconnect ==
  /\ Break
  /\ ~crashed /\ ~paused /\ SaysDisconnect
  /\ receiver' = "ended" /\ socket' = "closed"
  /\ UNCHANGED <<connector, greet, paused, crashed, queue, clean>> /\ Link

\* initConnection, after the only run of the connector
Connect ==
  /\ ~crashed /\ ~paused /\ ~SaysDisconnect /\ connector = "ended"
  /\ Crash

onPause ==
  /\ Break
  /\ ~crashed /\ ~paused /\ paused' = TRUE
  /\ receiver' = IF receiver = "running" THEN "stopping" ELSE receiver
  /\ UNCHANGED <<connector, socket, greet, crashed, queue, clean>> /\ Link

\* the receiver goes on if it has not noticed
onResume ==
  /\ ~crashed /\ paused
  /\ paused' = FALSE
  /\ \E connected \in isConnected :
       /\ connected => receiver # "ended"
       /\ receiver' = IF connected /\ receiver = "stopping" THEN "running" ELSE receiver
  /\ UNCHANGED <<events, connector, socket, greet, crashed, queue, clean>> /\ Link

\* ... and cannot be started again if it has
RestartReceiver ==
  /\ ~crashed /\ paused /\ TRUE \in isConnected /\ receiver = "ended"
  /\ Crash

Connection ==
  \/ Connected \/ Greet \/ GreetElsewhere \/ Lose \/ ReceiverEnds
  \/ Disconnect \/ Connect \/ onPause \/ onResume \/ RestartReceiver

-----------------------------------------------------------------------------
(* The lamp.                                                               *)

\* handleCommand
Handle(line) ==
  CASE line.fn = "stop" -> Firmware!Stop
    [] line.fn = "start" -> Firmware!Start
    [] line.fn = "interp" -> Firmware!Interp({line.lamp}, line.nsteps, line.repeating)
    [] line.fn = "istep" -> Firmware!Istep({line.lamp}, line.step, line.is)
    [] line.fn = "api" -> UNCHANGED lamp

Execute ==
  /\ queue # << >>
  /\ Handle(Head(queue))
  /\ queue' = Tail(queue)
  /\ UNCHANGED <<link, ui, threads, crashed, clean>>

Frame ==
  /\ Firmware!Frame
  /\ UNCHANGED <<link, ui, threads, crashed, queue, clean>>

User == SwitchOff \/ (\E a \in Own : SwitchOn(a)) \/ (\E a \in Saved : Launch(a))

Next ==
  \/ User \/ Restart \/ Connection
  \/ \E t \in DOMAIN threads : Dispatcher(t)
  \/ Execute \/ Frame

\* the threads of the app and the main loop of the lamp go on
Fairness ==
  /\ WF_vars(\E t \in DOMAIN threads : Dispatcher(t))
  /\ WF_vars(Execute)

Spec == Init /\ [][Next]_vars /\ Fairness

-----------------------------------------------------------------------------
\* the light of each frame, as a fraction
Light(steps) ==
  FlattenSeq([j \in DOMAIN steps |->
    LET next == steps[IF j < Len(steps) THEN j + 1 ELSE 1]
        to == IF steps[j].fade THEN next.color ELSE steps[j].color
    IN [f \in 1..steps[j].frames |->
          [num |-> steps[j].color * steps[j].frames + (to - steps[j].color) * (f - 1),
           den |-> steps[j].frames]]])

SameLight(x, y) ==
  /\ Len(x) = Len(y)
  /\ \A f \in DOMAIN x : x[f].num * y[f].den = y[f].num * x[f].den

Constant(x) == \A f \in DOMAIN x : x[f].num * x[1].den = x[1].num * x[f].den

\* A task is on its way through the animation, frame by frame what the steps
\* of the user say, over and over.
Shows(t, steps) ==
  /\ SameLight(Light(t.steps), Light(steps))
  /\ t.repeating \/ Constant(Light(steps))
  /\ t.repeating => t.state # "stopped"
  /\ \A j \in DOMAIN t.steps :
       (t.steps[j].fade /\ t.repeating) => t.steps[j].delta = Firmware!Delta(t, j)

Obeyed ==
  CASE wanted.fn = "nothing" -> TRUE
    [] wanted.fn = "stop" -> \A k \in 1..N : taskArray[k].state = "stopped"
    [] wanted.fn = "play" ->
         \A l \in Lamps : \E k \in Firmware!Owner(taskArray, l) : Shows(taskArray[k], wanted.of[l])

\* However requests, frames, the connection and the state the lamp was left in
\* by earlier, interrupted or mingled requests come together: when all lines
\* of a request that had the lamp for itself have arrived, every lamp plays
\* the animation the user has put together, or stands still.
Obeys == (clean /\ threads = << >> /\ queue = << >>) => Obeyed

\* And they do arrive, unless they are lost, the app ends or the user asks for
\* something else.
Answers == clean ~> (~clean \/ (threads = << >> /\ queue = << >>))
=============================================================================
