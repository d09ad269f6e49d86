--------------------------- MODULE Interpolators ---------------------------
(***************************************************************************)
(* The color animations: the array of tasks (Src/common/interpolators.c),  *)
(* the progression of one task (Src/common/colorInterpolator.c) and the    *)
(* commands that edit them (Src/common/taskManager.c).  Everything runs in *)
(* main; a command and the update of all tasks for a frame exclude each    *)
(* other, but come in any order.                                           *)
(*                                                                         *)
(* One color channel stands for the three, which are treated alike.  The   *)
(* code's << 23 is the factor Scale.  Of the arguments of the commands     *)
(* only values that the parser accepts are enumerated (lampnr < N_LAMPS or *)
(* 255 for all).                                                           *)
(***************************************************************************)
EXTENDS Integers, Sequences, SequencesExt, Durations

CONSTANTS
  N,           \* N_LAMPS: lamps, and entries of the array of tasks
  Depth,       \* number of values of a color
  Scale,       \* 2^23
  Frames,      \* values for the duration of a step
  StepCounts,  \* values for the number of steps
  Fading,      \* values for the interpolation of a step
  Range32      \* 2^32, the range of stepProgressionCnt

\* lamps are numbered by bytes, and 255 is none of them
ASSUME NAssumption == N \in 1..255
ASSUME StepAssumption ==
  /\ Frames \subseteq Nat \ {0} /\ StepCounts \subseteq Nat \ {0}
  /\ \E m \in StepCounts : \A n \in StepCounts : n <= m
ASSUME ScaleAssumption ==
  Depth \in Nat \ {0} /\ Scale \in Nat \ {0} /\ \A f \in Frames : f <= Scale
ASSUME FadingAssumption == Fading \subseteq BOOLEAN
\* frames is an int32_t
ASSUME RangeAssumption == Range32 \in Nat /\ \A f \in Frames \union {1} : f < Range32

Lamps == 0..(N - 1)
Colors == 0..(Depth - 1)
Destroyed == 255
Disorder == -1

VARIABLES
  taskArray,  \* the tasks; an empty sequence of steps is a null pointer
  lamps,      \* color per lamp
  defined     \* history, per lamp: how many steps were defined since INTERP, as
              \* long as that was done in their order and before they played;
              \* Disorder from the first ISTEP that came otherwise

vars == <<taskArray, lamps, defined>>

NoTask(cur) == [lamp_nr |-> Destroyed, steps |-> << >>, stepCnt |-> 0, progression |-> 0,
                state |-> "stopped", repeating |-> FALSE, cur |-> cur]

\* initInterpolators, and the colors set upon start
Init ==
  /\ taskArray = [k \in 1..N |-> NoTask(0)]
  /\ lamps = [l \in Lamps |-> Depth - 1]
  /\ defined = [l \in Lamps |-> 0]

-----------------------------------------------------------------------------
(* Operations on one task.                                                 *)

FreshStep == [color |-> 0, frames |-> 1, fade |-> FALSE, delta |-> 0]

initTask(t, nsteps, lampnr) ==
  [NoTask(t.cur) EXCEPT !.lamp_nr = lampnr, !.steps = [j \in 1..nsteps |-> FreshStep]]

destroyTask_keepsState(t) == [NoTask(t.cur) EXCEPT !.state = t.state]
destroyTask(t) == NoTask(t.cur)

\* integer division of C
Quotient(a, b) == IF a >= 0 THEN a \div b ELSE -((-a) \div b)

NextStep(t, j) == IF j < Len(t.steps) THEN j + 1 ELSE 1

\* change of the color per frame on the way to the next step
Delta(t, j) ==
  Quotient((t.steps[NextStep(t, j)].color - t.steps[j].color) * Scale, t.steps[j].frames)

\* the new color and duration, before any delta is computed
WithColor(t, step, j) ==
  [t EXCEPT !.steps[j] = [color |-> step.color, frames |-> step.frames, fade |-> step.fade,
                          delta |-> @.delta]]

\* step j with its delta as the current colors ask for
WithDelta(t, j) == [t EXCEPT !.steps[j] = [@ EXCEPT !.delta = Delta(t, j)]]

DefineStep_forwardOnly(t, step, j) ==
  LET t1 == WithColor(t, step, j)
  IN IF j < Len(t.steps) \/ t.repeating THEN WithDelta(t1, j) ELSE t1

\* step idx = j - 1: setColor, setFrames (which overwrites what setColor
\* computes with the former duration)
DefineStep(t, step, j) ==
  LET t1 == WithColor(t, step, j)
      t2 == IF j > 1 THEN WithDelta(t1, j - 1) ELSE t1
  IN IF j < Len(t.steps) \/ t.repeating THEN WithDelta(t2, j) ELSE t2

Rewound(t) == [t EXCEPT !.stepCnt = 0, !.progression = 0]
start_keepsPosition(t) == [t EXCEPT !.state = "starting"]
start(t) == [Rewound(t) EXCEPT !.state = "starting"]
stop(t) == [Rewound(t) EXCEPT !.state = "stopped"]

Step(t) == t.steps[t.stepCnt + 1]
AtColor(t) == [t EXCEPT !.cur = Step(t).color * Scale]

StepOver_late(t) == t.progression > Step(t).frames
StepOver(t) == t.progression = Step(t).frames

\* after the last step: start over, or stay on it and stop
Wrapped_neverStops(t) ==
  IF t.stepCnt < Len(t.steps) THEN t ELSE [t EXCEPT !.stepCnt = 0]
Wrapped(t) ==
  CASE t.stepCnt < Len(t.steps) -> t
    [] t.stepCnt = Len(t.steps) /\ t.repeating -> [t EXCEPT !.stepCnt = 0]
    [] OTHER -> [t EXCEPT !.stepCnt = @ - 1, !.state = "stopped"]

\* updateTask, for a task that is not stopped
updateTask(t) ==
  LET u == IF t.state = "starting" THEN AtColor([t EXCEPT !.state = "running"])
           ELSE IF StepOver(t)
             THEN AtColor(Wrapped([t EXCEPT !.stepCnt = @ + 1, !.progression = 0]))
           ELSE IF Step(t).fade THEN [t EXCEPT !.cur = @ + Step(t).delta]
           ELSE t
  IN [u EXCEPT !.progression = (@ + 1) % Range32]

\* (cur >> 23) & 0xFF
Visible(t) == (t.cur \div Scale) % Depth

-----------------------------------------------------------------------------
(* Operations on the array.                                                *)

Owner(tasks, l) == {k \in 1..N : tasks[k].lamp_nr = l}

Free_any(tasks) == 1..N
Free(tasks) == {k \in 1..N : tasks[k].steps = << >>}

Running(tasks, l) == \E k \in Owner(tasks, l) : tasks[k].state # "stopped"

setLampInterpolator_freeFirst(tasks, l, n, r) ==
  IF Free(tasks) # {}
    THEN [tasks EXCEPT ![Min(Free(tasks))] =
            [initTask(@, n, l) EXCEPT !.repeating = r, !.state = "starting"]]
    ELSE tasks

\* An entry of the lamp is defined anew unless it runs; otherwise the first
\* free entry is taken, and started; without one, nothing happens.
setLampInterpolator(tasks, l, n, r) ==
  CASE Running(tasks, l) -> tasks
    [] ~Running(tasks, l) /\ Owner(tasks, l) # {} ->
         [k \in 1..N |-> IF k \in Owner(tasks, l)
                           THEN [initTask(tasks[k], n, l) EXCEPT !.repeating = r]
                           ELSE tasks[k]]
    [] Owner(tasks, l) = {} /\ Free(tasks) # {} ->
         [tasks EXCEPT ![Min(Free(tasks))] =
            [initTask(@, n, l) EXCEPT !.repeating = r, !.state = "starting"]]
    [] OTHER -> tasks

-----------------------------------------------------------------------------
(* The commands.  The argument lampnr selects one lamp or all of them.     *)

Selections == {{l} : l \in Lamps} \union {Lamps}

\* setLampInterpolator for the lamps of L, one after the other
ForEachLamp(L, n, r) ==
  LET after[m \in 0..N] ==
        IF m = 0 THEN taskArray
        ELSE IF m - 1 \in L THEN setLampInterpolator(after[m - 1], m - 1, n, r)
        ELSE after[m - 1]
  IN after[N]

\* interpCommand; a repeating sequence of one step is rejected
Interp(L, n, r) ==
  LET busy == {l \in L : Running(taskArray, l)} IN
  /\ ~(r /\ n = 1)
  /\ taskArray' = ForEachLamp(L, n, r)
  /\ defined' = [l \in Lamps |-> IF l \in L \ busy THEN 0 ELSE defined[l]]
  /\ UNCHANGED lamps

InvalidLamps(L, j) ==
  {l \in L : \E k \in Owner(taskArray, l) : j > Len(taskArray[k].steps)}

InOrder(l, j) == j = defined[l] + 1 /\ ~Running(taskArray, l)

\* istepCommand; nothing happens for a lamp without a task
Istep(L, j, step) ==
  LET edited == {l \in L \ InvalidLamps(L, j) : Owner(taskArray, l) # {}} IN
  /\ taskArray' = [k \in 1..N |->
       IF taskArray[k].lamp_nr \in L \ InvalidLamps(L, j)
         THEN DefineStep(taskArray[k], step, j) ELSE taskArray[k]]
  /\ defined' = [l \in Lamps |-> CASE l \notin edited -> defined[l]
                                   [] l \in edited /\ InOrder(l, j) -> j
                                   [] OTHER -> Disorder]
  /\ UNCHANGED lamps

\* destroyCommand
Destroy(L) ==
  /\ taskArray' = [k \in 1..N |-> IF taskArray[k].lamp_nr \in L
                                    THEN destroyTask(taskArray[k]) ELSE taskArray[k]]
  /\ defined' = [l \in Lamps |-> IF l \in L THEN 0 ELSE defined[l]]
  /\ UNCHANGED lamps

\* startCommand
Start ==
  /\ taskArray' = [k \in 1..N |-> IF taskArray[k].steps # << >>
                                    THEN start(taskArray[k]) ELSE taskArray[k]]
  /\ UNCHANGED <<lamps, defined>>

\* stopCommand
Stop ==
  /\ taskArray' = [k \in 1..N |-> stop(taskArray[k])]
  /\ UNCHANGED <<lamps, defined>>

\* colorCommand, rgbCommand; lamps beyond the range are reported and skipped
Paint(L, c) ==
  /\ lamps' = [l \in Lamps |-> IF l \in L THEN c ELSE lamps[l]]
  /\ UNCHANGED <<taskArray, defined>>

Command ==
  \/ \E L \in Selections :
       \/ \E n \in StepCounts, r \in BOOLEAN : Interp(L, n, r)
       \/ \E j \in 1..Max(StepCounts) :
            \E step \in [color : Colors, frames : Frames, fade : Fading] : Istep(L, j, step)
       \/ Destroy(L)
       \/ \E c \in Colors : Paint(L, c)
  \/ Start
  \/ Stop

\* main: updateTask for every task that is not stopped
Frame ==
  LET on == {k \in 1..N : taskArray[k].state # "stopped"} IN
  /\ taskArray' = [k \in 1..N |-> IF k \in on THEN updateTask(taskArray[k]) ELSE taskArray[k]]
  /\ lamps' = [l \in Lamps |-> IF Running(taskArray, l)
                                 THEN Visible(taskArray'[Max(Owner(taskArray, l))])
                                 ELSE lamps[l]]
  /\ UNCHANGED <<defined>>

Next == Command \/ Frame

Spec == Init /\ [][Next]_vars

\* frames follow each other (module FrameEngine); nobody has to type
FairSpec == Spec /\ WF_vars(Frame)

-----------------------------------------------------------------------------
TypeOK ==
  /\ \A k \in 1..N :
       LET t == taskArray[k] IN
       /\ t.lamp_nr \in Lamps \union {Destroyed}
       /\ t.state \in {"stopped", "starting", "running"}
       /\ t.repeating \in BOOLEAN
       /\ t.steps = << >> => t = NoTask(t.cur)
       /\ t.steps # << >> => t.stepCnt \in 0..(Len(t.steps) - 1)
       /\ \A j \in DOMAIN t.steps :
            t.steps[j].color \in Colors /\ t.steps[j].frames \in Frames \union {1}
  /\ lamps \in [Lamps -> Colors]

\* A lamp is never driven by two tasks, whatever is defined, redefined and
\* destroyed in which order, and an INTERP for a lamp always finds an entry.
OneTaskPerLamp ==
  /\ \A l \in Lamps : Cardinality(Owner(taskArray, l)) <= 1
  /\ \A l \in Lamps : Owner(taskArray, l) = {} => Free(taskArray) # {}

\* beyond the end the == in updateTask does not come true before the counter
\* has wrapped
PastTheEnd(t) == t.steps # << >> /\ t.progression > Step(t).frames

\* stepProgressionCnt "goes from 0 to the length of frames".  Whatever commands
\* come in whatever order between the frames, it gets beyond in one way only: by
\* an ISTEP that shortens the very step the task is playing.
OnlyIstepOverruns ==
  [][\A k \in 1..N :
       PastTheEnd(taskArray'[k]) /\ ~PastTheEnd(taskArray[k]) =>
         /\ taskArray[k].state = "running"
         /\ taskArray'[k] = [taskArray[k] EXCEPT !.steps = taskArray'[k].steps]
         /\ Step(taskArray'[k]).frames < Step(taskArray[k]).frames]_vars

\* A linear step translates "to the next color": if the steps of a lamp are
\* defined in their order, however often others are defined in between, the
\* delta of each is the one of the current colors.
DeltasAreCurrent ==
  \A l \in Lamps : defined[l] # Disorder =>
    \A k \in Owner(taskArray, l) : \A j \in DOMAIN taskArray[k].steps :
      LET t == taskArray[k] IN
      (t.steps[j].fade /\ (t.repeating \/ j < Len(t.steps))) => t.steps[j].delta = Delta(t, j)

\* When only frames happen any more, every one-shot animation ends and a
\* repeating one keeps showing each of its steps, however they were defined: one
\* that got past the end of a step goes on when its counter has wrapped.
Advances ==
  <>[][Frame]_vars =>
    \A k \in 1..N :
      /\ []<>(taskArray[k].state = "stopped" \/ taskArray[k].repeating)
      /\ \A j \in 1..Max(StepCounts) :
           []<>(\/ taskArray[k].state = "stopped"
                \/ ~taskArray[k].repeating
                \/ j > Len(taskArray[k].steps)
                \/ taskArray[k].stepCnt = j - 1)

-----------------------------------------------------------------------------
(* The refinement of Player: the entry of a lamp holds its program.        *)

TaskOf(l) ==
  IF Owner(taskArray, l) = {} THEN NoTask(0) ELSE taskArray[Min(Owner(taskArray, l))]

\* what task t plays on a lamp that shows c, if its steps were defined in order
Playing(t, c) ==
  LET off == t.state = "stopped"
  IN [program |-> [j \in DOMAIN t.steps |-> [color |-> t.steps[j].color,
                                            frames |-> t.steps[j].frames,
                                            fade |-> t.steps[j].fade]],
      repeating |-> t.repeating,
      mode |-> IF off THEN "off" ELSE t.state,
      elapsed |-> IF off THEN 0 ELSE Until(t.steps, t.stepCnt) + t.progression,
      shown |-> c]

Loose(c) == [Playing(NoTask(0), c) EXCEPT !.mode = "loose"]

P == INSTANCE Player WITH
       player <- [l \in Lamps |-> IF defined[l] = Disorder THEN Loose(lamps[l])
                                  ELSE Playing(TaskOf(l), lamps[l])]

\* Whatever the entries of the array go through, each lamp plays its program:
\* every step for exactly its number of frames, a fade close to the exact
\* line, a one-shot stopping on its last color, a refused command changing
\* nothing.  A lamp whose steps were edited out of order plays anything, but
\* only that lamp, and only until it is defined anew or destroyed.
PlaysPrograms == P!Spec
=============================================================================
