------------------------ MODULE InterpolatorsProofs -------------------------
(***************************************************************************)
(* Proofs about the color animations, for every number of lamps, colors,   *)
(* durations and steps.                                                    *)
(***************************************************************************)
EXTENDS Interpolators, InductionLemmas, FiniteSetTheorems, SequenceTheorems

-----------------------------------------------------------------------------
(* One task.                                                               *)

StepType == [color : Colors, frames : Frames \union {1}, fade : BOOLEAN, delta : Int]

TaskType ==
  [lamp_nr : Lamps \union {Destroyed}, steps : Seq(StepType), stepCnt : Nat,
   progression : Nat, state : {"stopped", "starting", "running"}, repeating : BOOLEAN,
   cur : Int]

\* an entry is owned by a lamp exactly if it has steps, and stands on one of them
WellFormed(t) ==
  /\ t \in TaskType
  /\ t.steps = << >> => t = NoTask(t.cur)
  /\ t.steps # << >> => t.lamp_nr \in Lamps /\ t.stepCnt < Len(t.steps)

\* a task that does not run stands at the begin of a step
AtRest(t) ==
  t.steps # << >> =>
    /\ t.state = "stopped" => t.progression <= 1
    /\ t.state = "starting" => t.progression = 0

\* no frame of the current step beyond its last one
WithinStep(t) ==
  /\ AtRest(t)
  /\ t.steps # << >> => t.progression <= Step(t).frames

\* what OnlyIstepOverruns says of an entry
Overrun(t, u) ==
  PastTheEnd(u) /\ ~PastTheEnd(t) =>
    /\ t.state = "running"
    /\ u = [t EXCEPT !.steps = u.steps]
    /\ Step(u).frames < Step(t).frames

Overruns == \A k \in 1..N : Overrun(taskArray[k], taskArray'[k])

\* d steps are defined, the others are as initTask leaves them
DeltasMatch(t, d) ==
  /\ Len(t.steps) = 1 => ~t.repeating
  /\ \A j \in 1..Len(t.steps) :
       /\ j > d => ~t.steps[j].fade
       /\ t.steps[j].fade /\ (t.repeating \/ j < Len(t.steps)) => t.steps[j].delta = Delta(t, j)

-----------------------------------------------------------------------------
(* The array.                                                              *)

Unshared(tasks) ==
  \A k, m \in 1..N :
    tasks[k].lamp_nr = tasks[m].lamp_nr /\ tasks[k].lamp_nr \in Lamps => k = m

GoodArray(tasks) ==
  /\ tasks \in [1..N -> TaskType]
  /\ \A k \in 1..N : WellFormed(tasks[k])
  /\ Unshared(tasks)

ArrayInv ==
  /\ GoodArray(taskArray)
  /\ lamps \in [Lamps -> Colors]
  /\ defined \in [Lamps -> Nat \union {Disorder}]

\* a task, of which d[l] steps are defined, in order unless that is Disorder
EntryInv(t, d) ==
  /\ AtRest(t)
  /\ t.lamp_nr \in Lamps /\ d[t.lamp_nr] # Disorder =>
       WithinStep(t) /\ DeltasMatch(t, d[t.lamp_nr])

OrderInv ==
  /\ \A k \in 1..N : EntryInv(taskArray[k], defined)
  /\ \A l \in Lamps : defined[l] = Disorder => \E k \in 1..N : taskArray[k].lamp_nr = l

-----------------------------------------------------------------------------
(* Operations on one task keep it well formed.                             *)

\* an entry that setLampInterpolator has just defined
Fresh(t, l, n, r) ==
  /\ WellFormed(t)
  /\ t.lamp_nr = l
  /\ t.steps = [j \in 1..n |-> FreshStep]
  /\ t.stepCnt = 0 /\ t.progression = 0
  /\ t.repeating = r

LEMMA FreshStepType == FreshStep \in StepType
BY ScaleAssumption DEF FreshStep, StepType, Colors

LEMMA NoTaskGood ==
  ASSUME NEW c \in Int
  PROVE  /\ WellFormed(NoTask(c)) /\ WithinStep(NoTask(c))
         /\ NoTask(c).lamp_nr = Destroyed /\ NoTask(c).steps = << >>
         /\ NoTask(c).state = "stopped"
<1>1. << >> \in Seq(StepType)
  BY EmptySeq
<1>2. NoTask(c) \in TaskType
  BY <1>1 DEF NoTask, TaskType
<1>3. NoTask(c).steps = << >> /\ NoTask(c).cur = c
  BY DEF NoTask
<1> QED
  BY <1>2, <1>3 DEF WellFormed, WithinStep, AtRest, NoTask

LEMMA DestroyedNoLamp == Destroyed \notin Lamps
BY NAssumption DEF Destroyed, Lamps

LEMMA StepsOfN ==
  ASSUME NEW n \in Nat
  PROVE  /\ [j \in 1..n |-> FreshStep] \in Seq(StepType)
         /\ Len([j \in 1..n |-> FreshStep]) = n
<1> DEFINE s == [j \in 1..n |-> FreshStep]
<1>1. s \in [1..n -> StepType]
  BY FreshStepType
<1>2. s \in Seq(StepType)
  BY <1>1
<1>3. DOMAIN s = 1..n
  OBVIOUS
<1> QED
  BY <1>2, <1>3, LenProperties

LEMMA StepsReplaced ==
  ASSUME NEW t \in TaskType, NEW x
  PROVE  [t EXCEPT !.steps = x] =
           [lamp_nr |-> t.lamp_nr, steps |-> x, stepCnt |-> t.stepCnt,
            progression |-> t.progression, state |-> t.state, repeating |-> t.repeating,
            cur |-> t.cur]
BY DEF TaskType

\* an update of one field keeps the type
LEMMA FieldUpdates ==
  ASSUME NEW t \in TaskType
  PROVE  /\ \A x \in Lamps \union {Destroyed} : [t EXCEPT !.lamp_nr = x] \in TaskType
         /\ \A x \in Seq(StepType) : [t EXCEPT !.steps = x] \in TaskType
         /\ \A x \in Nat : [t EXCEPT !.stepCnt = x] \in TaskType
         /\ \A x \in Nat : [t EXCEPT !.progression = x] \in TaskType
         /\ \A x \in {"stopped", "starting", "running"} : [t EXCEPT !.state = x] \in TaskType
         /\ \A x \in BOOLEAN : [t EXCEPT !.repeating = x] \in TaskType
         /\ \A x \in Int : [t EXCEPT !.cur = x] \in TaskType
BY DEF TaskType

\* initTask, with the two ways setLampInterpolator continues
Redone(t, n, l, r) == [initTask(t, n, l) EXCEPT !.repeating = r]
Begun(t, n, l, r) == [initTask(t, n, l) EXCEPT !.repeating = r, !.state = "starting"]

LEMMA InitTaskFresh ==
  ASSUME NEW t \in TaskType, NEW l \in Lamps, NEW n \in StepCounts, NEW r \in BOOLEAN
  PROVE  /\ Fresh(Redone(t, n, l, r), l, n, r) /\ Redone(t, n, l, r).state = "stopped"
         /\ Fresh(Begun(t, n, l, r), l, n, r) /\ Begun(t, n, l, r).state = "starting"
<1> DEFINE s == [j \in 1..n |-> FreshStep]
           t0 == NoTask(t.cur)
           t1 == [t0 EXCEPT !.lamp_nr = l]
           t2 == [t1 EXCEPT !.steps = s]
           t3 == [t2 EXCEPT !.repeating = r]
           t4 == [t3 EXCEPT !.state = "starting"]
<1>1. n \in Nat /\ n >= 1
  BY StepAssumption
<1>2. s \in Seq(StepType) /\ Len(s) = n /\ s # << >>
  <2>1. s \in Seq(StepType) /\ Len(s) = n
    BY <1>1, StepsOfN
  <2>2. Len(<< >>) = 0
    BY EmptySeq
  <2> HIDE DEF s
  <2> QED
    BY <1>1, <2>1, <2>2
<1>3. t0 \in TaskType
  BY NoTaskGood DEF TaskType, WellFormed
<1>4. t1 \in TaskType
  BY <1>3, FieldUpdates
<1>5. t2 \in TaskType
  <2> HIDE DEF t1, s
  <2> QED
    BY <1>2, <1>4, FieldUpdates
<1>6. t3 \in TaskType
  <2> HIDE DEF t2
  <2> QED
    BY <1>5, FieldUpdates
<1>7. t4 \in TaskType
  <2> HIDE DEF t3
  <2> QED
    BY <1>6, FieldUpdates
<1>8. /\ t3.lamp_nr = l /\ t3.steps = s /\ t3.stepCnt = 0 /\ t3.progression = 0 /\ t3.repeating = r
      /\ t4.lamp_nr = l /\ t4.steps = s /\ t4.stepCnt = 0 /\ t4.progression = 0 /\ t4.repeating = r
      /\ t3.state = "stopped" /\ t4.state = "starting"
  <2> HIDE DEF s
  <2>1. /\ t0.stepCnt = 0 /\ t0.progression = 0 /\ t0.state = "stopped"
    BY DEF NoTask
  <2> HIDE DEF t0
  <2> QED
    BY <1>3, <2>1 DEF TaskType
<1>9. Redone(t, n, l, r) = t3 /\ Begun(t, n, l, r) = t4
  <2>1. initTask(t, n, l) = t2
    <3> HIDE DEF s, t0
    <3> QED
      BY DEF initTask, s, t0
  <2> HIDE DEF t2
  <2> QED
    BY <2>1 DEF Redone, Begun
<1> HIDE DEF t3, t4
<1>10. Fresh(t3, l, n, r)
  <2>1. WellFormed(t3)
    <3> HIDE DEF s
    <3> QED
      BY <1>1, <1>2, <1>6, <1>8 DEF WellFormed
  <2> QED
    BY <1>8, <2>1, Zenon DEF Fresh
<1>11. Fresh(t4, l, n, r)
  <2>1. WellFormed(t4)
    <3> HIDE DEF s
    <3> QED
      BY <1>1, <1>2, <1>7, <1>8 DEF WellFormed
  <2> QED
    BY <1>8, <2>1, Zenon DEF Fresh
<1> QED
  BY <1>8, <1>9, <1>10, <1>11

LEMMA FreshGood ==
  ASSUME NEW t, NEW l, NEW n \in StepCounts, NEW r \in BOOLEAN, NEW d \in Nat,
         Fresh(t, l, n, r)
  PROVE  /\ WithinStep(t)
         /\ t.steps # << >>
         /\ ~(r /\ n = 1) => DeltasMatch(t, d)
<1>1. n \in Nat /\ n >= 1
  BY StepAssumption
<1>2. Len(t.steps) = n /\ t.steps # << >>
  BY <1>1, StepsOfN, EmptySeq DEF Fresh
<1>3. \A j \in 1..n : t.steps[j] = FreshStep
  BY DEF Fresh
<1>4. Step(t).frames = 1
  BY <1>1, <1>3 DEF Fresh, Step, FreshStep
<1>5. \A j \in 1..n : ~t.steps[j].fade
  BY <1>3 DEF FreshStep
<1>6. WithinStep(t)
  BY <1>4 DEF Fresh, WithinStep, AtRest
<1>7. ~(r /\ n = 1) => DeltasMatch(t, d)
  BY <1>2, <1>5 DEF Fresh, DeltasMatch
<1> QED
  BY <1>2, <1>6, <1>7

\* one step replaced by another one
LEMMA ReplaceStep ==
  ASSUME NEW t, WellFormed(t), NEW j \in 1..Len(t.steps), NEW x \in StepType
  PROVE  LET u == [t EXCEPT !.steps[j] = x] IN
         /\ WellFormed(u) /\ u.steps # << >>
         /\ u.lamp_nr = t.lamp_nr /\ u.stepCnt = t.stepCnt /\ u.progression = t.progression
         /\ u.state = t.state /\ u.repeating = t.repeating /\ u.cur = t.cur
         /\ Len(u.steps) = Len(t.steps)
         /\ u.steps[j] = x
         /\ \A i \in 1..Len(t.steps) : i # j => u.steps[i] = t.steps[i]
<1> DEFINE s == [t.steps EXCEPT ![j] = x]
           u == [t EXCEPT !.steps = s]
<1>1. t \in TaskType /\ t.steps \in Seq(StepType) /\ Len(t.steps) \in Nat
  BY DEF WellFormed, TaskType
<1>2. s \in Seq(StepType) /\ Len(s) = Len(t.steps)
  BY <1>1, ExceptSeq
<1>3. s[j] = x /\ \A i \in 1..Len(t.steps) : i # j => s[i] = t.steps[i]
  BY <1>1, ExceptSeq
<1>4. t.steps # << >> /\ s # << >>
  <2>1. Len(t.steps) >= 1
    BY <1>1
  <2>2. Len(<< >>) = 0
    BY EmptySeq
  <2> HIDE DEF s
  <2> QED
    BY <1>2, <2>1, <2>2
<1> HIDE DEF s
<1>5. u \in TaskType
  BY <1>1, <1>2, FieldUpdates
<1>6. /\ u.steps = s /\ u.lamp_nr = t.lamp_nr /\ u.stepCnt = t.stepCnt
      /\ u.progression = t.progression /\ u.state = t.state /\ u.repeating = t.repeating
      /\ u.cur = t.cur
  BY <1>1 DEF TaskType
<1> HIDE DEF u
<1>7. WellFormed(u)
  BY <1>2, <1>4, <1>5, <1>6 DEF WellFormed
<1>8. [t EXCEPT !.steps[j] = x] = u
  BY DEF s, u
<1> QED
  BY <1>2, <1>3, <1>4, <1>6, <1>7, <1>8

LEMMA DeltaType ==
  ASSUME NEW t, WellFormed(t), NEW j \in 1..Len(t.steps)
  PROVE  Delta(t, j) \in Int
<1>1. NextStep(t, j) \in 1..Len(t.steps)
  BY DEF NextStep, WellFormed, TaskType
<1>2. t.steps[j] \in StepType /\ t.steps[NextStep(t, j)] \in StepType
  BY <1>1, ElementOfSeq DEF WellFormed, TaskType
<1>3. /\ t.steps[j].color \in Int /\ t.steps[NextStep(t, j)].color \in Int
      /\ t.steps[j].frames \in Nat \ {0}
  <2>1. ASSUME NEW x \in StepType PROVE x.color \in Int /\ x.frames \in Nat \ {0}
    <3>1. x.color \in Colors /\ x.frames \in Frames \union {1}
      BY DEF StepType
    <3>2. Colors \subseteq Int
      BY ScaleAssumption DEF Colors
    <3>3. Frames \union {1} \subseteq Nat \ {0}
      BY StepAssumption
    <3> QED
      BY <3>1, <3>2, <3>3
  <2> QED
    BY <1>2, <2>1
<1>4. ASSUME NEW a \in Int, NEW b \in Nat \ {0} PROVE Quotient(a, b) \in Int
  BY DEF Quotient
<1>5. ASSUME NEW a \in Int, NEW b \in Int PROVE (a - b) * Scale \in Int
  BY ScaleAssumption
<1> QED
  BY <1>3, <1>4, <1>5 DEF Delta

\* the delta of a step depends on the colors and the duration only
LEMMA DeltaLocal ==
  ASSUME NEW t, NEW u, NEW j, Len(t.steps) = Len(u.steps),
         t.steps[j].color = u.steps[j].color, t.steps[j].frames = u.steps[j].frames,
         t.steps[NextStep(t, j)].color = u.steps[NextStep(t, j)].color
  PROVE  Delta(u, j) = Delta(t, j)
BY Zenon DEF Delta, NextStep

StepArguments == [color : Colors, frames : Frames, fade : Fading]

LEMMA WithColorGood ==
  ASSUME NEW t, WellFormed(t), NEW j \in 1..Len(t.steps), NEW step \in StepArguments
  PROVE  LET u == WithColor(t, step, j) IN
         /\ WellFormed(u) /\ u.steps # << >>
         /\ u.lamp_nr = t.lamp_nr /\ u.stepCnt = t.stepCnt /\ u.progression = t.progression
         /\ u.state = t.state /\ u.repeating = t.repeating
         /\ Len(u.steps) = Len(t.steps)
         /\ u.steps[j].color = step.color /\ u.steps[j].frames = step.frames
         /\ u.steps[j].fade = step.fade /\ u.steps[j].delta = t.steps[j].delta
         /\ \A i \in 1..Len(t.steps) : i # j => u.steps[i] = t.steps[i]
<1> DEFINE x == [color |-> step.color, frames |-> step.frames, fade |-> step.fade,
                 delta |-> t.steps[j].delta]
<1>1. t.steps[j] \in StepType
  BY ElementOfSeq DEF WellFormed, TaskType
<1>2. t.steps[j].delta \in Int
  BY <1>1 DEF StepType
<1>3. x \in StepType
  BY <1>2, FadingAssumption DEF StepArguments, StepType
<1>4. x.color = step.color /\ x.frames = step.frames /\ x.fade = step.fade
      /\ x.delta = t.steps[j].delta
  OBVIOUS
<1>5. WithColor(t, step, j) = [t EXCEPT !.steps[j] = x]
  BY DEF WithColor
<1> HIDE DEF x
<1> QED
  BY <1>3, <1>4, <1>5, ReplaceStep

LEMMA WithDeltaGood ==
  ASSUME NEW t, WellFormed(t), NEW j \in 1..Len(t.steps)
  PROVE  LET u == WithDelta(t, j) IN
         /\ WellFormed(u) /\ u.steps # << >>
         /\ u.lamp_nr = t.lamp_nr /\ u.stepCnt = t.stepCnt /\ u.progression = t.progression
         /\ u.state = t.state /\ u.repeating = t.repeating
         /\ Len(u.steps) = Len(t.steps)
         /\ \A i \in 1..Len(t.steps) :
              /\ u.steps[i].color = t.steps[i].color /\ u.steps[i].frames = t.steps[i].frames
              /\ u.steps[i].fade = t.steps[i].fade
              /\ u.steps[i].delta = IF i = j THEN Delta(t, j) ELSE t.steps[i].delta
<1> DEFINE d == Delta(t, j)
           x == [t.steps[j] EXCEPT !.delta = d]
           u == [t EXCEPT !.steps[j] = x]
<1>1. t.steps[j] \in StepType /\ d \in Int
  BY DeltaType, ElementOfSeq DEF WellFormed, TaskType
<1> HIDE DEF d
<1>2. x \in StepType
  BY <1>1 DEF StepType
<1>3. /\ x.color = t.steps[j].color /\ x.frames = t.steps[j].frames /\ x.fade = t.steps[j].fade
      /\ x.delta = d
  BY <1>1 DEF StepType
<1>4. WithDelta(t, j) = u
  BY DEF WithDelta, d
<1> HIDE DEF x
<1>5. /\ WellFormed(u) /\ u.steps # << >>
      /\ u.lamp_nr = t.lamp_nr /\ u.stepCnt = t.stepCnt /\ u.progression = t.progression
      /\ u.state = t.state /\ u.repeating = t.repeating
      /\ Len(u.steps) = Len(t.steps)
      /\ u.steps[j] = x
      /\ \A i \in 1..Len(t.steps) : i # j => u.steps[i] = t.steps[i]
  BY <1>2, ReplaceStep
<1> HIDE DEF u
<1> QED
  BY <1>3, <1>4, <1>5 DEF d

LEMMA DefineStepKeepsColor ==
  ASSUME NEW t \in TaskType, NEW step, NEW j
  PROVE  DefineStep(t, step, j).cur = t.cur
<1>1. ASSUME NEW u, DOMAIN u = DOMAIN t, NEW i, NEW x
      PROVE  [u EXCEPT !.steps[i] = x].cur = u.cur /\ DOMAIN [u EXCEPT !.steps[i] = x] = DOMAIN t
  BY <1>1 DEF TaskType
<1>2. ASSUME NEW u, DOMAIN u = DOMAIN t, NEW i
      PROVE  WithDelta(u, i).cur = u.cur /\ DOMAIN WithDelta(u, i) = DOMAIN t
  BY <1>1, <1>2 DEF WithDelta
<1>3. WithColor(t, step, j).cur = t.cur /\ DOMAIN WithColor(t, step, j) = DOMAIN t
  BY <1>1 DEF WithColor
<1> DEFINE t1 == WithColor(t, step, j)
           t2 == IF j > 1 THEN WithDelta(t1, j - 1) ELSE t1
<1>4. DefineStep(t, step, j) = IF j < Len(t.steps) \/ t.repeating THEN WithDelta(t2, j) ELSE t2
  BY DEF DefineStep
<1> HIDE DEF t1
<1>5. t2.cur = t.cur /\ DOMAIN t2 = DOMAIN t
  BY <1>2, <1>3 DEF t1
<1> HIDE DEF t2
<1> QED
  BY <1>2, <1>4, <1>5

\* DefineStep: if the steps come in order, the deltas of the step and of the
\* one before it are computed anew, and no other can be out of date
LEMMA DefineStepGood ==
  ASSUME NEW t, WellFormed(t), NEW j \in 1..Len(t.steps), NEW step \in StepArguments
  PROVE  LET u == DefineStep(t, step, j) IN
         /\ WellFormed(u)
         /\ u.lamp_nr = t.lamp_nr /\ u.state = t.state /\ u.repeating = t.repeating
         /\ Len(u.steps) = Len(t.steps)
         /\ \A i \in 1..Len(t.steps) : i # j =>
              /\ u.steps[i].color = t.steps[i].color /\ u.steps[i].frames = t.steps[i].frames
              /\ u.steps[i].fade = t.steps[i].fade
         /\ u.steps[j].color = step.color /\ u.steps[j].frames = step.frames
         /\ u.steps[j].fade = step.fade
         /\ ~t.repeating => u.steps[Len(t.steps)].delta = t.steps[Len(t.steps)].delta
         /\ t.state # "running" /\ AtRest(t) => WithinStep(u)
         /\ u = [t EXCEPT !.steps = u.steps]
         /\ \A d \in Nat : j = d + 1 /\ DeltasMatch(t, d) => DeltasMatch(u, j)
<1> DEFINE t1 == WithColor(t, step, j)
           t2 == IF j > 1 THEN WithDelta(t1, j - 1) ELSE t1
           u == IF j < Len(t.steps) \/ t.repeating THEN WithDelta(t2, j) ELSE t2
<1> DEFINE Same(v, w) ==
             /\ w.lamp_nr = v.lamp_nr /\ w.stepCnt = v.stepCnt /\ w.progression = v.progression
             /\ w.state = v.state /\ w.repeating = v.repeating
             /\ Len(w.steps) = Len(v.steps)
           SameStep(x, y) == y.color = x.color /\ y.frames = x.frames /\ y.fade = x.fade
<1>1. Len(t.steps) \in Nat /\ t.repeating \in BOOLEAN
  BY DEF WellFormed, TaskType
<1>2. /\ WellFormed(t1) /\ t1.steps # << >> /\ Same(t, t1)
      /\ t1.steps[j].color = step.color /\ t1.steps[j].frames = step.frames
      /\ t1.steps[j].fade = step.fade /\ t1.steps[j].delta = t.steps[j].delta
      /\ \A i \in 1..Len(t.steps) : i # j => t1.steps[i] = t.steps[i]
  BY WithColorGood
<1> HIDE DEF t1
<1>3. /\ WellFormed(t2) /\ t2.steps # << >> /\ Same(t1, t2)
      /\ \A i \in 1..Len(t.steps) :
           /\ SameStep(t1.steps[i], t2.steps[i])
           /\ t2.steps[i].delta = IF j > 1 /\ i = j - 1 THEN Delta(t1, i) ELSE t1.steps[i].delta
  <2>1. CASE j > 1
    <3>1. j - 1 \in 1..Len(t1.steps) /\ t2 = WithDelta(t1, j - 1)
      BY <1>1, <1>2, <2>1
    <3> HIDE DEF t2
    <3> DEFINE i0 == j - 1
    <3>2. i0 \in 1..Len(t1.steps) /\ t2 = WithDelta(t1, i0)
      BY <3>1
    <3> HIDE DEF i0
    <3>3. /\ WellFormed(t2) /\ t2.steps # << >> /\ Same(t1, t2)
          /\ \A i \in 1..Len(t1.steps) :
               /\ SameStep(t1.steps[i], t2.steps[i])
               /\ t2.steps[i].delta = IF i = i0 THEN Delta(t1, i0) ELSE t1.steps[i].delta
      BY <1>2, <3>2, WithDeltaGood
    <3> QED
      BY <1>2, <2>1, <3>3 DEF i0
  <2>2. CASE ~(j > 1)
    <3>1. t2 = t1
      BY <2>2
    <3> HIDE DEF t2
    <3> QED
      BY <1>2, <2>2, <3>1
  <2> QED
    BY <2>1, <2>2
<1> HIDE DEF t2
<1>4. /\ WellFormed(u) /\ u.steps # << >> /\ Same(t2, u)
      /\ \A i \in 1..Len(t.steps) :
           /\ SameStep(t2.steps[i], u.steps[i])
           /\ u.steps[i].delta = IF i = j /\ (j < Len(t.steps) \/ t.repeating)
                                   THEN Delta(t2, i) ELSE t2.steps[i].delta
  <2>1. CASE j < Len(t.steps) \/ t.repeating
    <3>1. j \in 1..Len(t2.steps) /\ u = WithDelta(t2, j)
      BY <1>1, <1>2, <1>3, <2>1
    <3> HIDE DEF u
    <3>2. /\ WellFormed(u) /\ u.steps # << >> /\ Same(t2, u)
          /\ \A i \in 1..Len(t2.steps) :
               /\ SameStep(t2.steps[i], u.steps[i])
               /\ u.steps[i].delta = IF i = j THEN Delta(t2, j) ELSE t2.steps[i].delta
      BY <1>3, <3>1, WithDeltaGood
    <3>3. Len(t2.steps) = Len(t.steps)
      BY <1>2, <1>3
    <3> HIDE DEF Same, SameStep
    <3> QED
      BY <2>1, <3>2, <3>3
  <2>2. CASE ~(j < Len(t.steps) \/ t.repeating)
    <3>1. u = t2
      BY <2>2
    <3> HIDE DEF u
    <3> QED
      BY <1>3, <2>2, <3>1
  <2> QED
    BY <2>1, <2>2
<1>5. DefineStep(t, step, j) = u
  <2>1. t1.repeating = t.repeating /\ Len(t1.steps) = Len(t.steps)
    BY <1>2
  <2> QED
    BY Zenon DEF DefineStep, t1, t2
<1> HIDE DEF u
<1>6. Same(t, u)
  BY <1>2, <1>3, <1>4
<1>7. \A i \in 1..Len(t.steps) : SameStep(t1.steps[i], t2.steps[i]) /\ SameStep(t1.steps[i], u.steps[i])
  BY <1>3, <1>4
<1>8. ASSUME t.state # "running", AtRest(t) PROVE WithinStep(u)
  <2>1. t.steps # << >> /\ t.stepCnt + 1 \in 1..Len(t.steps)
    BY <1>1, EmptySeq DEF WellFormed, TaskType
  <2>2. u.steps[t.stepCnt + 1] \in StepType
    BY <1>4, <1>6, <2>1, ElementOfSeq DEF WellFormed, TaskType
  <2>3. u.steps[t.stepCnt + 1].frames \in Nat \ {0}
    <3>1. u.steps[t.stepCnt + 1].frames \in Frames \union {1}
      BY <2>2 DEF StepType
    <3>2. Frames \union {1} \subseteq Nat \ {0}
      BY StepAssumption
    <3> QED
      BY <3>1, <3>2
  <2>4. t.progression \in Nat /\ t.progression <= 1
    BY <1>8, <2>1 DEF AtRest, WellFormed, TaskType
  <2> QED
    BY <1>6, <1>8, <2>3, <2>4 DEF WithinStep, AtRest, Step
<1>9. ASSUME NEW d \in Nat, j = d + 1, DeltasMatch(t, d) PROVE DeltasMatch(u, j)
  <2>1. Len(u.steps) = 1 => ~u.repeating
    BY <1>6, <1>9 DEF DeltasMatch
  <2>2. ASSUME NEW i \in 1..Len(t.steps), i > j PROVE ~u.steps[i].fade
    BY <1>2, <1>7, <1>9, <2>2 DEF DeltasMatch
  <2>3. ASSUME NEW i \in 1..Len(t.steps), u.steps[i].fade, t.repeating \/ i < Len(t.steps)
        PROVE  u.steps[i].delta = Delta(u, i)
    <3>1. NextStep(t, i) \in 1..Len(t.steps)
      BY <1>1 DEF NextStep
    <3>2. Delta(u, i) = Delta(t1, i) /\ Delta(u, i) = Delta(t2, i)
      <4>1. /\ NextStep(t1, i) = NextStep(t, i) /\ NextStep(t2, i) = NextStep(t, i)
            /\ NextStep(u, i) = NextStep(t, i)
        BY <1>2, <1>3, <1>6 DEF NextStep
      <4>2. Delta(u, i) = Delta(t1, i)
        <5>1. SameStep(t1.steps[i], u.steps[i])
          BY <1>7
        <5>2. SameStep(t1.steps[NextStep(t1, i)], u.steps[NextStep(t1, i)])
          BY <1>7, <3>1, <4>1
        <5>3. Len(t1.steps) = Len(u.steps)
          BY <1>2, <1>6
        <5> QED
          BY <5>1, <5>2, <5>3, DeltaLocal
      <4>3. Delta(t2, i) = Delta(t1, i)
        BY <1>3, <1>7, <3>1, <4>1, DeltaLocal
      <4> QED
        BY <4>2, <4>3
    <3>3. i <= j
      BY <1>1, <2>2, <2>3
    <3>4. CASE i = j
      BY <1>4, <2>3, <3>2, <3>4
    <3>5. CASE i = j - 1
      <4>1. i # j /\ j > 1
        BY <1>1, <3>5
      <4>2. u.steps[i].delta = t2.steps[i].delta /\ t2.steps[i].delta = Delta(t1, i)
        BY <1>3, <1>4, <3>5, <4>1
      <4> QED
        BY <3>2, <4>2
    <3>6. CASE i < j - 1
      <4>1. i # j /\ i # j - 1 /\ NextStep(t, i) = i + 1 /\ i + 1 # j
        BY <1>1, <3>6 DEF NextStep
      <4>2. u.steps[i].delta = t.steps[i].delta
        BY <1>2, <1>3, <1>4, <4>1
      <4>3. t1.steps[i] = t.steps[i] /\ t1.steps[NextStep(t, i)] = t.steps[NextStep(t, i)]
        BY <1>2, <3>1, <4>1
      <4>4. Delta(t1, i) = Delta(t, i)
        BY <1>2, <4>3, DeltaLocal
      <4>5. t.steps[i].fade
        BY <1>7, <2>3, <4>3
      <4>6. t.steps[i].delta = Delta(t, i)
        BY <1>9, <2>3, <4>5 DEF DeltasMatch
      <4> QED
        BY <3>2, <4>2, <4>4, <4>6
    <3> QED
      BY <1>1, <3>3, <3>4, <3>5, <3>6
  <2> QED
    BY <1>6, <2>1, <2>2, <2>3 DEF DeltasMatch
<1>10. ASSUME ~t.repeating PROVE u.steps[Len(t.steps)].delta = t.steps[Len(t.steps)].delta
  <2> DEFINE n == Len(t.steps)
  <2>1. n \in 1..n /\ ~(n = j /\ j < n) /\ n # j - 1
    BY <1>1
  <2>2. u.steps[n].delta = t2.steps[n].delta
    BY <1>4, <1>10, <2>1
  <2>3. t2.steps[n].delta = t1.steps[n].delta
    BY <1>3, <2>1
  <2>4. t1.steps[n].delta = t.steps[n].delta
    BY <1>2, <2>1
  <2> QED
    BY <2>2, <2>3, <2>4
<1>11. /\ \A i \in 1..Len(t.steps) : i # j => SameStep(t.steps[i], u.steps[i])
       /\ u.steps[j].color = step.color /\ u.steps[j].frames = step.frames
       /\ u.steps[j].fade = step.fade
  BY <1>2, <1>7
<1>12. u = [t EXCEPT !.steps = u.steps]
  <2>1. t \in TaskType /\ u \in TaskType
    BY <1>4 DEF WellFormed
  <2>2. u.cur = t.cur
    BY <1>5, <2>1, DefineStepKeepsColor
  <2>3. u = [lamp_nr |-> t.lamp_nr, steps |-> u.steps, stepCnt |-> t.stepCnt,
             progression |-> t.progression, state |-> t.state, repeating |-> t.repeating,
             cur |-> t.cur]
    BY <1>6, <2>1, <2>2 DEF TaskType
  <2>4. ASSUME NEW x
        PROVE  [t EXCEPT !.steps = x] =
                 [lamp_nr |-> t.lamp_nr, steps |-> x, stepCnt |-> t.stepCnt,
                  progression |-> t.progression, state |-> t.state, repeating |-> t.repeating,
                  cur |-> t.cur]
    BY <2>1, StepsReplaced
  <2> QED
    BY <2>3, <2>4
<1> QED
  BY <1>4, <1>5, <1>6, <1>8, <1>9, <1>10, <1>11, <1>12

LEMMA SameProgram ==
  ASSUME NEW t, NEW u, u.steps = t.steps, u.repeating = t.repeating, NEW d, DeltasMatch(t, d)
  PROVE  DeltasMatch(u, d)
BY Zenon DEF DeltasMatch, Delta, NextStep

LEMMA StepFrames ==
  ASSUME NEW t, WellFormed(t), t.steps # << >>
  PROVE  /\ t.stepCnt + 1 \in 1..Len(t.steps)
         /\ Step(t).frames \in Nat \ {0} /\ Step(t).frames < Range32 /\ Step(t) \in StepType
<1>1. t.stepCnt + 1 \in 1..Len(t.steps)
  BY DEF WellFormed, TaskType
<1>2. Step(t) \in StepType
  BY <1>1, ElementOfSeq DEF WellFormed, TaskType, Step
<1>3. Step(t).frames \in Frames \union {1}
  BY <1>2 DEF StepType
<1>4. Frames \union {1} \subseteq Nat \ {0} /\ \A f \in Frames \union {1} : f < Range32
  BY StepAssumption, RangeAssumption
<1> QED
  BY <1>1, <1>2, <1>3, <1>4

\* the counter of frames wraps, but not within a step
LEMMA WrapIs ==
  ASSUME NEW i \in Nat
  PROVE  /\ (i + 1) % Range32 \in Nat
         /\ i + 1 < Range32 => (i + 1) % Range32 = i + 1
         /\ i = 0 => (i + 1) % Range32 = 1
         /\ \A f \in Nat : i < f /\ f < Range32 => (i + 1) % Range32 = i + 1
<1>1. Range32 \in Nat /\ 1 < Range32
  BY RangeAssumption
<1>2. \A a, b \in Nat : b > 0 => a % b \in Nat /\ (a < b => a % b = a)
  OBVIOUS
<1> QED
  BY <1>1, <1>2

\* a task at rest is within its step, or beyond
LEMMA WithinOrPast ==
  ASSUME NEW t, WellFormed(t), AtRest(t)
  PROVE  /\ WithinStep(t) <=> ~PastTheEnd(t)
         /\ t.state # "running" => WithinStep(t)
<1>1. CASE t.steps = << >>
  BY <1>1 DEF WithinStep, PastTheEnd
<1>2. CASE t.steps # << >>
  <2>1. Step(t).frames \in Nat \ {0} /\ t.progression \in Nat
        /\ t.state \in {"stopped", "starting", "running"}
    BY <1>2, StepFrames DEF WellFormed, TaskType
  <2> QED
    BY <1>2, <2>1 DEF WithinStep, PastTheEnd, AtRest
<1> QED
  BY <1>1, <1>2

\* an update that keeps a task within its step does not overrun
LEMMA NoOverrun ==
  ASSUME NEW t, WellFormed(t), AtRest(t), NEW u, WellFormed(u), WithinStep(t) => WithinStep(u)
  PROVE  Overrun(t, u)
<1>1. ASSUME PastTheEnd(u), ~PastTheEnd(t) PROVE FALSE
  <2>1. WithinStep(u)
    BY <1>1, WithinOrPast
  <2>2. AtRest(u)
    BY <2>1 DEF WithinStep
  <2> QED
    BY <1>1, <2>1, <2>2, WithinOrPast
<1> QED
  BY <1>1 DEF Overrun

\* startCommand and stopCommand rewind a task
InState(t, s) == [Rewound(t) EXCEPT !.state = s]

LEMMA RewoundGood ==
  ASSUME NEW t, WellFormed(t), NEW s \in {"stopped", "starting"}
  PROVE  LET u == InState(t, s) IN
         /\ t.steps # << >> \/ s = "stopped" => WellFormed(u)
         /\ WithinStep(u) /\ AtRest(u)
         /\ u.lamp_nr = t.lamp_nr /\ u.steps = t.steps /\ u.repeating = t.repeating
         /\ u.stepCnt = 0 /\ u.progression = 0 /\ u.state = s
         /\ \A d : DeltasMatch(t, d) => DeltasMatch(u, d)
<1> DEFINE t1 == [t EXCEPT !.stepCnt = 0]
           t2 == [t1 EXCEPT !.progression = 0]
           u == [t2 EXCEPT !.state = s]
<1>1. t \in TaskType /\ Len(t.steps) \in Nat
  BY DEF WellFormed, TaskType
<1>2. t1 \in TaskType
  BY <1>1, FieldUpdates
<1>3. t2 \in TaskType
  <2> HIDE DEF t1
  <2> QED
    BY <1>2, FieldUpdates
<1>4. u \in TaskType
  <2> HIDE DEF t2
  <2> QED
    BY <1>3, FieldUpdates
<1>5. /\ u.lamp_nr = t.lamp_nr /\ u.steps = t.steps /\ u.stepCnt = 0 /\ u.progression = 0
      /\ u.state = s /\ u.repeating = t.repeating /\ u.cur = t.cur
  BY <1>1 DEF TaskType
<1>6. InState(t, s) = u
  <2>1. Rewound(t) = t2
    BY DEF Rewound
  <2> HIDE DEF t2
  <2> QED
    BY <2>1 DEF InState
<1> HIDE DEF u
<1>7. ASSUME t.steps # << >> PROVE WellFormed(u)
  <2>1. t.lamp_nr \in Lamps /\ 0 < Len(t.steps)
    BY <1>1, <1>7 DEF WellFormed, TaskType
  <2> QED
    BY <1>4, <1>5, <1>7, <2>1 DEF WellFormed
<1>8. ASSUME t.steps = << >>, s = "stopped" PROVE WellFormed(u)
  <2>1. t = NoTask(t.cur)
    BY <1>8 DEF WellFormed
  <2>2. /\ NoTask(t.cur).lamp_nr = Destroyed /\ NoTask(t.cur).repeating = FALSE
    BY DEF NoTask
  <2>3. t.lamp_nr = Destroyed /\ t.repeating = FALSE
    BY <2>1, <2>2
  <2>4. u = [lamp_nr |-> Destroyed, steps |-> << >>, stepCnt |-> 0, progression |-> 0,
             state |-> "stopped", repeating |-> FALSE, cur |-> u.cur]
    BY <1>4, <1>5, <1>8, <2>3 DEF TaskType
  <2>5. u = NoTask(u.cur)
    BY <2>4 DEF NoTask
  <2> QED
    BY <1>4, <1>5, <1>8, <2>5, Zenon DEF WellFormed
<1>9. WithinStep(u)
  <2>1. CASE u.steps = << >>
    BY <2>1 DEF WithinStep, AtRest
  <2>2. CASE u.steps # << >>
    <3>1. Step(u).frames \in Nat \ {0}
      <4>1. WellFormed(u)
        BY <1>5, <1>7, <2>2
      <4> QED
        BY <2>2, <4>1, StepFrames
    <3> QED
      BY <1>5, <3>1 DEF WithinStep, AtRest
  <2> QED
    BY <2>1, <2>2
<1> QED
  BY <1>5, <1>6, <1>7, <1>8, <1>9, SameProgram DEF WithinStep

\* what updateTask leaves of a task
Kept(t, u) == u.lamp_nr = t.lamp_nr /\ u.steps = t.steps /\ u.repeating = t.repeating

LEMMA AtColorGood ==
  ASSUME NEW t, WellFormed(t), t.steps # << >>
  PROVE  LET u == AtColor(t) IN
         /\ WellFormed(u) /\ Kept(t, u)
         /\ u.stepCnt = t.stepCnt /\ u.progression = t.progression /\ u.state = t.state
<1> DEFINE c == Step(t).color * Scale
           u == [t EXCEPT !.cur = c]
<1>1. t \in TaskType
  BY DEF WellFormed
<1>2. c \in Int
  <2>1. Step(t).color \in Colors
    BY StepFrames DEF StepType
  <2>2. Colors \subseteq Int /\ Scale \in Int
    BY ScaleAssumption DEF Colors
  <2>3. Step(t).color \in Int
    BY <2>1, <2>2
  <2>4. \A a, b \in Int : a * b \in Int
    OBVIOUS
  <2> QED
    BY <2>2, <2>3, <2>4
<1>3. AtColor(t) = u
  BY DEF AtColor
<1> HIDE DEF c
<1>4. u \in TaskType
  BY <1>1, <1>2, FieldUpdates
<1>5. /\ Kept(t, u)
      /\ u.stepCnt = t.stepCnt /\ u.progression = t.progression /\ u.state = t.state
  BY <1>1 DEF TaskType, Kept
<1> HIDE DEF u
<1>6. WellFormed(u)
  BY <1>4, <1>5 DEF WellFormed, Kept
<1> QED
  BY <1>3, <1>5, <1>6

\* updateTask keeps a task on one of its steps, and within that step
LEMMA UpdateGood ==
  ASSUME NEW t, WellFormed(t), t.state # "stopped"
  PROVE  LET u == updateTask(t) IN
         /\ WellFormed(u) /\ Kept(t, u)
         /\ AtRest(t) => AtRest(u)
         /\ WithinStep(t) => WithinStep(u)
<1> DEFINE run == [t EXCEPT !.state = "running"]
           next == [[t EXCEPT !.stepCnt = t.stepCnt + 1] EXCEPT !.progression = 0]
           w == Wrapped(next)
           faded == [t EXCEPT !.cur = t.cur + Step(t).delta]
           Good(u) == /\ WellFormed(u) /\ Kept(t, u) /\ u.steps # << >>
                      /\ u.state = "stopped" => u.progression = 0
                      /\ u.state # "starting"
                      /\ WithinStep(t) => u.progression < Step(u).frames
<1>1. /\ t \in TaskType /\ t.steps # << >> /\ t.lamp_nr \in Lamps
      /\ t.stepCnt \in Nat /\ t.progression \in Nat /\ Len(t.steps) \in Nat
      /\ t.stepCnt < Len(t.steps)
  <2>1. t.steps # << >>
    <3>1. NoTask(t.cur).state = "stopped"
      BY DEF NoTask
    <3> QED
      BY <3>1 DEF WellFormed
  <2> QED
    BY <2>1 DEF WellFormed, TaskType
<1>2. ASSUME NEW u, WellFormed(u), u.steps = t.steps
      PROVE  Step(u) = t.steps[u.stepCnt + 1] /\ Step(u).frames \in Nat \ {0}
  BY <1>1, <1>2, StepFrames DEF Step
<1>3. ASSUME t.state = "starting" PROVE Good(AtColor(run))
  <2>1. WellFormed(run) /\ Kept(t, run) /\ run.stepCnt = t.stepCnt
        /\ run.progression = t.progression /\ run.state = "running"
    <3>1. run \in TaskType
      BY <1>1, FieldUpdates
    <3>2. Kept(t, run) /\ run.stepCnt = t.stepCnt
          /\ run.progression = t.progression /\ run.state = "running"
      BY <1>1 DEF TaskType, Kept
    <3> HIDE DEF run
    <3> QED
      BY <1>1, <3>1, <3>2 DEF WellFormed, Kept
  <2> HIDE DEF run
  <2>2. WellFormed(AtColor(run)) /\ Kept(t, AtColor(run)) /\ AtColor(run).steps = t.steps
        /\ AtColor(run).progression = t.progression /\ AtColor(run).state = "running"
    BY <1>1, <2>1, AtColorGood DEF Kept
  <2>3. WithinStep(t) => t.progression = 0
    BY <1>1, <1>3 DEF WithinStep, AtRest
  <2>4. Step(AtColor(run)).frames \in Nat \ {0}
    BY <1>2, <2>2
  <2> QED
    BY <1>1, <2>2, <2>3, <2>4
<1>4. ASSUME t.state # "starting", StepOver(t) PROVE Good(AtColor(w))
  <2>1. /\ next \in TaskType /\ Kept(t, next) /\ next.stepCnt = t.stepCnt + 1
        /\ next.progression = 0 /\ next.state = t.state
    <3> DEFINE t1 == [t EXCEPT !.stepCnt = t.stepCnt + 1]
    <3>1. t1 \in TaskType
      <4>1. t.stepCnt + 1 \in Nat
        BY <1>1
      <4> QED
        BY <1>1, <4>1, FieldUpdates
    <3>2. next \in TaskType
      <4> HIDE DEF t1
      <4> QED
        BY <3>1, FieldUpdates DEF t1
    <3>3. Kept(t, next) /\ next.stepCnt = t.stepCnt + 1
          /\ next.progression = 0 /\ next.state = t.state
      BY <1>1 DEF TaskType, Kept
    <3> QED
      BY <3>2, <3>3
  <2> HIDE DEF next
  <2>2. WellFormed(w) /\ Kept(t, w) /\ w.progression = 0 /\ w.state \in {t.state, "stopped"}
    <3>1. CASE next.stepCnt < Len(next.steps)
      <4>1. w = next
        BY <3>1 DEF Wrapped
      <4> HIDE DEF w
      <4> QED
        BY <1>1, <2>1, <3>1, <4>1 DEF WellFormed, Kept
    <3>2. CASE next.stepCnt = Len(next.steps) /\ next.repeating
      <4>1. w = [next EXCEPT !.stepCnt = 0]
        BY <1>1, <2>1, <3>2 DEF Wrapped, Kept
      <4>2. [next EXCEPT !.stepCnt = 0] \in TaskType
        BY <2>1, FieldUpdates
      <4>3. Kept(next, w) /\ w.stepCnt = 0 /\ w.progression = 0 /\ w.state = t.state
        BY <2>1, <4>1 DEF TaskType, Kept
      <4> HIDE DEF w
      <4> QED
        BY <1>1, <2>1, <4>1, <4>2, <4>3 DEF WellFormed, Kept
    <3>3. CASE next.stepCnt = Len(next.steps) /\ ~next.repeating
      <4> DEFINE n1 == [next EXCEPT !.stepCnt = next.stepCnt - 1]
                 n2 == [n1 EXCEPT !.state = "stopped"]
      <4>1. w = n2
        BY <1>1, <2>1, <3>3 DEF Wrapped, Kept
      <4>2. n1 \in TaskType
        <5>1. next.stepCnt - 1 \in Nat
          BY <1>1, <2>1
        <5> QED
          BY <2>1, <5>1, FieldUpdates
      <4>3. n2 \in TaskType
        <5> HIDE DEF n1
        <5> QED
          BY <4>2, FieldUpdates
      <4>4. Kept(next, n2) /\ n2.stepCnt = t.stepCnt /\ n2.progression = 0 /\ n2.state = "stopped"
        BY <1>1, <2>1 DEF TaskType, Kept
      <4> HIDE DEF n2, w
      <4> QED
        BY <1>1, <2>1, <4>1, <4>3, <4>4 DEF WellFormed, Kept
    <3> QED
      BY <1>1, <2>1, <3>1, <3>2, <3>3 DEF Kept
  <2> HIDE DEF w
  <2>3. WellFormed(AtColor(w)) /\ Kept(t, AtColor(w)) /\ AtColor(w).steps = t.steps
        /\ AtColor(w).progression = 0 /\ AtColor(w).state \in {t.state, "stopped"}
    BY <1>1, <2>2, AtColorGood DEF Kept
  <2>4. Step(AtColor(w)).frames \in Nat \ {0}
    BY <1>2, <2>3
  <2> QED
    BY <1>1, <1>4, <2>3, <2>4
<1>5. ASSUME t.state # "starting", ~StepOver(t) PROVE Good(t) /\ Good(faded)
  <2>1. Step(t).delta \in Int /\ Step(t).frames \in Nat \ {0} /\ t.cur \in Int
    BY <1>1, StepFrames DEF StepType, TaskType
  <2>2. WithinStep(t) => t.progression < Step(t).frames
    BY <1>1, <1>5, <2>1 DEF WithinStep, StepOver
  <2>3. faded \in TaskType
    <3>1. t.cur + Step(t).delta \in Int
      BY <2>1
    <3> QED
      BY <1>1, <3>1, FieldUpdates
  <2>4. Kept(t, faded) /\ faded.stepCnt = t.stepCnt
        /\ faded.progression = t.progression /\ faded.state = t.state
    BY <1>1 DEF TaskType, Kept
  <2> HIDE DEF faded
  <2>5. WellFormed(faded) /\ faded.steps = t.steps
    BY <1>1, <2>3, <2>4 DEF WellFormed, Kept
  <2>6. Step(faded) = Step(t)
    BY <2>4, <2>5 DEF Step
  <2> QED
    BY <1>1, <1>5, <2>2, <2>4, <2>5, <2>6 DEF Kept
<1>6. PICK u : Good(u) /\ updateTask(t) = [u EXCEPT !.progression = (@ + 1) % Range32]
  <2> DEFINE c1 == AtColor([t EXCEPT !.state = "running"])
             c2 == AtColor(Wrapped([t EXCEPT !.stepCnt = @ + 1, !.progression = 0]))
             c3 == [t EXCEPT !.cur = @ + Step(t).delta]
             c == IF t.state = "starting" THEN c1
                  ELSE IF StepOver(t) THEN c2
                  ELSE IF Step(t).fade THEN c3
                  ELSE t
  <2>1. c1 = AtColor(run) /\ c2 = AtColor(w) /\ c3 = faded
    OBVIOUS
  <2>2. updateTask(t) = [c EXCEPT !.progression = (@ + 1) % Range32]
    BY DEF updateTask
  <2> HIDE DEF Good, c1, c2, c3
  <2>3. \/ t.state = "starting" /\ c = c1
        \/ t.state # "starting" /\ StepOver(t) /\ c = c2
        \/ t.state # "starting" /\ ~StepOver(t) /\ c \in {c3, t}
    OBVIOUS
  <2> HIDE DEF c
  <2> QED
    BY <1>3, <1>4, <1>5, <2>1, <2>2, <2>3
<1>7. u \in TaskType /\ u.progression \in Nat /\ u.lamp_nr \in Lamps /\ u.stepCnt < Len(u.steps)
  BY <1>6 DEF WellFormed, TaskType
<1> DEFINE m == (u.progression + 1) % Range32
           v == [u EXCEPT !.progression = m]
<1>8. v \in TaskType /\ m \in Nat
  <2>1. m \in Nat
    BY <1>7, WrapIs
  <2> HIDE DEF m
  <2> QED
    BY <1>7, <2>1, FieldUpdates
<1>9. Kept(u, v) /\ v.stepCnt = u.stepCnt /\ v.progression = m /\ v.state = u.state
  BY <1>7 DEF TaskType, Kept
<1>10. updateTask(t) = v
  BY <1>6
<1> HIDE DEF v
<1>11. WellFormed(v)
  BY <1>6, <1>7, <1>8, <1>9 DEF WellFormed, Kept
<1>12. Step(v) = Step(u) /\ Step(v).frames \in Nat /\ Step(v).frames < Range32
  BY <1>6, <1>9, StepFrames DEF Step, Kept
<1>13. /\ u.progression = 0 => m = 1
       /\ u.progression < Step(v).frames => m <= Step(v).frames
  BY <1>7, <1>12, WrapIs
<1> HIDE DEF m
<1>14. AtRest(v)
  BY <1>6, <1>9, <1>13 DEF AtRest
<1>15. WithinStep(t) => WithinStep(v)
  BY <1>6, <1>9, <1>12, <1>13, <1>14 DEF WithinStep
<1> QED
  BY <1>6, <1>9, <1>10, <1>11, <1>14, <1>15 DEF Kept

-----------------------------------------------------------------------------
(* The array.                                                              *)

LEMMA OneOwner ==
  ASSUME NEW tasks, Unshared(tasks), NEW l \in Lamps
  PROVE  /\ IsFiniteSet(Owner(tasks, l))
         /\ Cardinality(Owner(tasks, l)) <= 1
         /\ \A k \in Owner(tasks, l) : Owner(tasks, l) = {k}
<1>1. \A k, m \in Owner(tasks, l) : k = m
  BY DEF Unshared, Owner
<1>2. CASE Owner(tasks, l) = {}
  BY <1>2, FS_EmptySet
<1>3. CASE Owner(tasks, l) # {}
  <2>1. PICK k \in Owner(tasks, l) : TRUE
    BY <1>3
  <2>2. Owner(tasks, l) = {k}
    BY <1>1, <2>1
  <2>3. IsFiniteSet({k}) /\ Cardinality({k}) = 1
    BY FS_Singleton
  <2> QED
    BY <2>2, <2>3
<1> QED
  BY <1>2, <1>3

\* there are as many entries as lamps: one that owns none leaves an entry free
LEMMA FreeEntry ==
  ASSUME NEW tasks, GoodArray(tasks), NEW l \in Lamps, Owner(tasks, l) = {}
  PROVE  Free(tasks) # {}
<1> SUFFICES ASSUME Free(tasks) = {} PROVE FALSE
  OBVIOUS
<1> DEFINE f == [k \in 1..N |-> tasks[k].lamp_nr]
<1>1. f \in [1..N -> Lamps \ {l}]
  <2>1. ASSUME NEW k \in 1..N PROVE tasks[k].lamp_nr \in Lamps \ {l}
    <3>1. tasks[k].steps # << >>
      BY DEF Free
    <3>2. tasks[k].lamp_nr \in Lamps
      BY <3>1 DEF GoodArray, WellFormed
    <3> QED
      BY <3>2 DEF Owner
  <2> QED
    BY <2>1
<1>2. IsFiniteSet(1..N) /\ Cardinality(1..N) = N
  <2>1. 1 \in Int /\ N \in Int /\ ~(1 > N) /\ N - 1 + 1 = N
    BY NAssumption
  <2> QED
    BY <2>1, FS_Interval
<1>3. IsFiniteSet(Lamps) /\ Cardinality(Lamps) = N
  <2>1. 0 \in Int /\ N - 1 \in Int /\ ~(0 > N - 1) /\ N - 1 - 0 + 1 = N
    BY NAssumption
  <2> QED
    BY <2>1, FS_Interval DEF Lamps
<1>4. IsFiniteSet(Lamps \ {l}) /\ Cardinality(Lamps \ {l}) = N - 1
  BY <1>3, FS_RemoveElement
<1>5. Cardinality(Lamps \ {l}) < Cardinality(1..N)
  BY <1>2, <1>4, NAssumption
<1> HIDE DEF f
<1>6. \E k, m \in 1..N : k # m /\ f[k] = f[m]
  <2> DEFINE S == 1..N
             T == Lamps \ {l}
  <2>1. IsFiniteSet(S) /\ IsFiniteSet(T) /\ Cardinality(T) < Cardinality(S) /\ f \in [S -> T]
    BY <1>1, <1>2, <1>4, <1>5
  <2> HIDE DEF S, T
  <2>2. \E k, m \in S : k # m /\ f[k] = f[m]
    BY <2>1, FS_PigeonHole
  <2> QED
    BY <2>2 DEF S
<1> QED
  BY <1>1, <1>6 DEF f, GoodArray, Unshared

\* what was an entry of the lamp stays idle, an empty one is started
NewState(t) == IF t.lamp_nr = Destroyed THEN "starting" ELSE "stopped"

\* the array after setLampInterpolator for the lamps of K: an idle one has a
\* new task, in its own or in an empty entry
Redefined(A, B, K, n, r) ==
  \A k \in 1..N :
    \/ B[k] = A[k] /\ (A[k].lamp_nr \in K => Running(A, A[k].lamp_nr))
    \/ \E l \in K : /\ ~Running(A, l) /\ Fresh(B[k], l, n, r)
                    /\ A[k].lamp_nr \in {l, Destroyed} /\ B[k].state = NewState(A[k])

LEMMA SetLampGood ==
  ASSUME NEW A, GoodArray(A), NEW l \in Lamps, NEW n \in StepCounts, NEW r \in BOOLEAN
  PROVE  LET B == setLampInterpolator(A, l, n, r) IN
         GoodArray(B) /\ Redefined(A, B, {l}, n, r)
<1> DEFINE B == setLampInterpolator(A, l, n, r)
<1>1. CASE Running(A, l)
  <2>1. B = A
    <3>1. Owner(A, l) # {}
      BY <1>1 DEF Running
    <3> QED
      BY <1>1, <3>1 DEF setLampInterpolator
  <2> HIDE DEF B
  <2> QED
    BY <1>1, <2>1 DEF Redefined, B
<1>2. CASE ~Running(A, l) /\ Owner(A, l) # {}
  <2> DEFINE C == [k \in 1..N |-> IF k \in Owner(A, l)
                                   THEN [initTask(A[k], n, l) EXCEPT !.repeating = r] ELSE A[k]]
  <2>1. B = C
    BY <1>2 DEF setLampInterpolator
  <2>2. \A k \in 1..N : A[k].lamp_nr # l => C[k] = A[k]
    BY DEF Owner
  <2>3. ASSUME NEW k \in 1..N, A[k].lamp_nr = l
        PROVE  Fresh(C[k], l, n, r) /\ C[k].state = NewState(A[k])
    <3>1. C[k] = Redone(A[k], n, l, r)
      BY <2>3 DEF Owner, Redone
    <3> HIDE DEF C
    <3> QED
      <4>1. A[k] \in TaskType
        BY DEF GoodArray
      <4>2. Fresh(C[k], l, n, r) /\ C[k].state = "stopped"
        BY <3>1, <4>1, InitTaskFresh
      <4>3. NewState(A[k]) = "stopped"
        BY <2>3, DestroyedNoLamp DEF NewState
      <4> QED
        BY <4>2, <4>3
  <2>4. C = [k \in 1..N |-> C[k]]
    OBVIOUS
  <2> HIDE DEF B, C
  <2>5. \A k \in 1..N : WellFormed(C[k]) /\ C[k].lamp_nr = A[k].lamp_nr
    BY <2>2, <2>3 DEF Fresh, GoodArray
  <2>6. GoodArray(C)
    <3>1. C \in [1..N -> TaskType]
      BY <2>4, <2>5 DEF WellFormed
    <3> QED
      BY <2>5, <3>1 DEF GoodArray, Unshared
  <2>7. Redefined(A, C, {l}, n, r)
    BY <1>2, <2>2, <2>3 DEF Redefined
  <2> QED
    BY <2>1, <2>6, <2>7 DEF B
<1>3. CASE ~Running(A, l) /\ Owner(A, l) = {}
  <2> DEFINE e == Min(Free(A))
             x == [initTask(A[e], n, l) EXCEPT !.repeating = r, !.state = "starting"]
             C == [A EXCEPT ![e] = x]
  <2>1. Free(A) # {}
    BY <1>3, FreeEntry
  <2>2. e \in Free(A)
    <3>1. Free(A) \in SUBSET Nat
      BY DEF Free
    <3>2. \E m \in Free(A) : \A k \in Free(A) : m <= k
      BY <2>1, <3>1, LeastElement
    <3> QED
      BY <3>2 DEF Min
  <2>3. B = C
    BY <1>3, <2>1 DEF setLampInterpolator
  <2>4. e \in 1..N /\ A[e].steps = << >>
    BY <2>2 DEF Free
  <2> HIDE DEF e
  <2>5. A[e].lamp_nr = Destroyed /\ A[e] \in TaskType
    <3>1. A[e] = NoTask(A[e].cur) /\ A[e] \in TaskType
      BY <2>4 DEF GoodArray, WellFormed
    <3>2. NoTask(A[e].cur).lamp_nr = Destroyed
      BY DEF NoTask
    <3> QED
      BY <3>1, <3>2
  <2>6. Fresh(x, l, n, r) /\ x.state = NewState(A[e])
    <3>1. Fresh(x, l, n, r) /\ x.state = "starting"
      <4>1. x = Begun(A[e], n, l, r)
        BY DEF Begun
      <4> HIDE DEF x
      <4> QED
        BY <2>5, <4>1, InitTaskFresh
    <3> HIDE DEF x
    <3> QED
      BY <2>5, <3>1 DEF NewState
  <2> HIDE DEF x, B
  <2>7. C[e] = x /\ \A k \in 1..N : k # e => C[k] = A[k]
    BY <2>4 DEF GoodArray
  <2>8. C \in [1..N -> TaskType]
    BY <2>4, <2>6 DEF Fresh, WellFormed, GoodArray
  <2> HIDE DEF C
  <2>9. \A k \in 1..N : WellFormed(C[k])
    BY <2>6, <2>7 DEF Fresh, GoodArray
  <2>10. Unshared(C)
    <3>1. C[e].lamp_nr = l /\ \A k \in 1..N : k # e => C[k].lamp_nr = A[k].lamp_nr /\ A[k].lamp_nr # l
      BY <1>3, <2>6, <2>7 DEF Fresh, Owner
    <3> QED
      BY <2>4, <3>1 DEF GoodArray, Unshared
  <2>11. Redefined(A, C, {l}, n, r)
    <3>1. \A k \in 1..N : A[k].lamp_nr # l
      BY <1>3 DEF Owner
    <3> QED
      BY <1>3, <2>5, <2>6, <2>7, <3>1 DEF Redefined
  <2> QED
    BY <2>3, <2>8, <2>9, <2>10, <2>11 DEF GoodArray, B
<1> QED
  BY <1>1, <1>2, <1>3

\* one more lamp: what happened to it does not depend on the others
LEMMA RedefinedOneMore ==
  ASSUME NEW A, NEW B, NEW C, GoodArray(A), GoodArray(B),
         NEW K \in SUBSET Lamps, NEW l \in Lamps \ K, NEW n, NEW r,
         Redefined(A, B, K, n, r), Redefined(B, C, {l}, n, r)
  PROVE  Redefined(A, C, K \union {l}, n, r)
<1>1. Destroyed \notin Lamps
  BY DestroyedNoLamp
<1>2. ASSUME NEW k \in 1..N, A[k].lamp_nr = l \/ B[k].lamp_nr = l PROVE B[k] = A[k]
  <2>1. CASE \E m \in K : Fresh(B[k], m, n, r) /\ A[k].lamp_nr \in {m, Destroyed}
    BY <1>1, <1>2, <2>1 DEF Fresh
  <2> QED
    BY <2>1 DEF Redefined
<1>3. Running(A, l) <=> Running(B, l)
  BY <1>2 DEF Running, Owner
<1>4. ASSUME NEW k \in 1..N
      PROVE  \/ C[k] = A[k] /\ (A[k].lamp_nr \in K \union {l} => Running(A, A[k].lamp_nr))
             \/ \E m \in K \union {l} :
                  /\ ~Running(A, m) /\ Fresh(C[k], m, n, r)
                  /\ A[k].lamp_nr \in {m, Destroyed} /\ C[k].state = NewState(A[k])
  <2>1. CASE C[k] = B[k] /\ (B[k].lamp_nr = l => Running(B, l))
    <3>1. CASE B[k] = A[k] /\ (A[k].lamp_nr \in K => Running(A, A[k].lamp_nr))
      BY <1>3, <2>1, <3>1
    <3>2. CASE \E m \in K : /\ ~Running(A, m) /\ Fresh(B[k], m, n, r)
                            /\ A[k].lamp_nr \in {m, Destroyed} /\ B[k].state = NewState(A[k])
      BY <2>1, <3>2
    <3> QED
      BY <3>1, <3>2 DEF Redefined
  <2>2. CASE /\ ~Running(B, l) /\ Fresh(C[k], l, n, r)
             /\ B[k].lamp_nr \in {l, Destroyed} /\ C[k].state = NewState(B[k])
    <3>1. B[k] = A[k]
      <4>1. CASE \E m \in K : Fresh(B[k], m, n, r)
        BY <1>1, <2>2, <4>1 DEF Fresh
      <4> QED
        BY <4>1 DEF Redefined
    <3> QED
      BY <1>3, <2>2, <3>1
  <2> QED
    BY <2>1, <2>2 DEF Redefined
<1> QED
  BY <1>4 DEF Redefined

\* the loop of interpCommand
LoopBody(A, L, n, r, g, m) ==
  IF m = 0 THEN A
  ELSE IF m - 1 \in L THEN setLampInterpolator(g[m - 1], m - 1, n, r)
  ELSE g[m - 1]

IsLoop(A, L, n, r, g, p) == g = [m \in 0..p |-> LoopBody(A, L, n, r, g, m)]

LEMMA LoopExists ==
  ASSUME NEW A, NEW L, NEW n, NEW r
  PROVE  \A p \in Nat : \E g : IsLoop(A, L, n, r, g, p)
<1> DEFINE S == {p \in Nat : \E g : IsLoop(A, L, n, r, g, p)}
<1>1. 0 \in S
  <2> DEFINE g == [m \in 0..0 |-> A]
  <2>1. \A m \in 0..0 : LoopBody(A, L, n, r, g, m) = A
    BY DEF LoopBody
  <2>2. g = [m \in 0..0 |-> LoopBody(A, L, n, r, g, m)]
    BY <2>1
  <2>3. IsLoop(A, L, n, r, g, 0)
    BY <2>2 DEF IsLoop
  <2> HIDE DEF g
  <2> QED
    BY <2>3
<1>2. ASSUME NEW p \in Nat, p \in S PROVE p + 1 \in S
  <2>1. PICK g : IsLoop(A, L, n, r, g, p)
    BY <1>2
  <2> DEFINE h == [m \in 0..(p + 1) |-> LoopBody(A, L, n, r, g, m)]
  <2>2. ASSUME NEW m \in 0..p PROVE h[m] = g[m]
    <3>1. m \in 0..(p + 1)
      OBVIOUS
    <3>2. g[m] = LoopBody(A, L, n, r, g, m)
      <4>1. g = [k \in 0..p |-> LoopBody(A, L, n, r, g, k)]
        BY <2>1 DEF IsLoop
      <4> DEFINE f == [k \in 0..p |-> LoopBody(A, L, n, r, g, k)]
      <4>2. f[m] = LoopBody(A, L, n, r, g, m)
        OBVIOUS
      <4> HIDE DEF f
      <4>3. g = f
        BY <4>1 DEF f
      <4> QED
        BY <4>2, <4>3
    <3> QED
      BY <3>1, <3>2
  <2>3. ASSUME NEW m \in 0..(p + 1)
        PROVE  LoopBody(A, L, n, r, g, m) = LoopBody(A, L, n, r, h, m)
    <3>1. CASE m = 0
      BY <3>1 DEF LoopBody
    <3>2. CASE m # 0
      <4>1. m - 1 \in 0..p
        BY <3>2
      <4>2. h[m - 1] = g[m - 1]
        BY <2>2, <4>1
      <4> HIDE DEF h
      <4> QED
        BY <4>2, Zenon DEF LoopBody
    <3> QED
      BY <3>1, <3>2
  <2>4. h = [m \in 0..(p + 1) |-> LoopBody(A, L, n, r, h, m)]
    BY <2>3
  <2>5. IsLoop(A, L, n, r, h, p + 1)
    BY <2>4 DEF IsLoop
  <2> HIDE DEF h
  <2> QED
    BY <2>5
<1>3. Nat \subseteq S
  <2> HIDE DEF S
  <2> QED
    BY <1>1, <1>2, SetInduction
<1> QED
  BY <1>3

\* interpCommand leaves a good array, and a new task for each idle lamp
LEMMA ForEachLampGood ==
  ASSUME GoodArray(taskArray), NEW L \in SUBSET Lamps, NEW n \in StepCounts, NEW r \in BOOLEAN
  PROVE  GoodArray(ForEachLamp(L, n, r)) /\ Redefined(taskArray, ForEachLamp(L, n, r), L, n, r)
<1> DEFINE A == taskArray
           g == CHOOSE f : IsLoop(A, L, n, r, f, N)
           K(m) == {l \in L : l < m}
           S == {m \in Nat : m <= N => GoodArray(g[m]) /\ Redefined(A, g[m], K(m), n, r)}
<1>1. N \in Nat /\ \A l \in L : l \in Nat /\ l < N
  BY NAssumption DEF Lamps
<1>2. IsLoop(A, L, n, r, g, N)
  BY <1>1, LoopExists
<1>3. ForEachLamp(L, n, r) = g[N]
  BY DEF ForEachLamp, IsLoop, LoopBody
<1> HIDE DEF g
<1>4. \A m \in 0..N : g[m] = LoopBody(A, L, n, r, g, m)
  <2> DEFINE f == [m \in 0..N |-> LoopBody(A, L, n, r, g, m)]
  <2>1. \A m \in 0..N : f[m] = LoopBody(A, L, n, r, g, m)
    OBVIOUS
  <2>2. g = f
    BY <1>2, Zenon DEF IsLoop
  <2> HIDE DEF f
  <2> QED
    BY <2>1, <2>2
<1>5. 0 \in S
  <2>1. g[0] = A
    BY <1>1, <1>4 DEF LoopBody
  <2>2. K(0) = {}
    BY <1>1
  <2>3. Redefined(A, A, {}, n, r)
    BY DEF Redefined
  <2> QED
    BY <2>1, <2>2, <2>3
<1>6. ASSUME NEW m \in Nat, m \in S PROVE m + 1 \in S
  <2> SUFFICES ASSUME m + 1 <= N
               PROVE  GoodArray(g[m + 1]) /\ Redefined(A, g[m + 1], K(m + 1), n, r)
    OBVIOUS
  <2>1. GoodArray(g[m]) /\ Redefined(A, g[m], K(m), n, r)
    BY <1>1, <1>6
  <2>2. m \in Lamps
    BY <1>1 DEF Lamps
  <2>3. g[m + 1] = IF m \in L THEN setLampInterpolator(g[m], m, n, r) ELSE g[m]
    <3>1. m + 1 \in 0..N /\ m + 1 # 0 /\ m + 1 - 1 = m
      BY <1>1
    <3>2. g[m + 1] = LoopBody(A, L, n, r, g, m + 1)
      BY <1>4, <3>1
    <3> QED
      BY <3>1, <3>2 DEF LoopBody
  <2>4. CASE m \in L
    <3> DEFINE B == g[m]
               C == g[m + 1]
    <3>1. C = setLampInterpolator(B, m, n, r)
      BY <2>3, <2>4
    <3>2. K(m + 1) = K(m) \union {m} /\ K(m) \in SUBSET Lamps /\ m \in Lamps \ K(m)
      <4>1. \A l \in L : l < m + 1 <=> l < m \/ l = m
        BY <1>1
      <4>2. K(m + 1) = K(m) \union {m}
        BY <2>4, <4>1
      <4>3. K(m) \in SUBSET Lamps /\ m \notin K(m)
        BY <1>1
      <4> QED
        BY <2>2, <4>2, <4>3
    <3> HIDE DEF B, C, K
    <3>3. GoodArray(C) /\ Redefined(B, C, {m}, n, r)
      BY <2>1, <2>2, <3>1, SetLampGood DEF B
    <3>4. Redefined(A, C, K(m) \union {m}, n, r)
      BY <2>1, <3>2, <3>3, RedefinedOneMore DEF B
    <3> QED
      BY <3>2, <3>3, <3>4 DEF C
  <2>5. CASE m \notin L
    <3>1. K(m + 1) = K(m)
      <4>1. \A l \in L : l < m + 1 <=> l < m \/ l = m
        BY <1>1
      <4> QED
        BY <2>5, <4>1
    <3> QED
      BY <2>1, <2>3, <2>5, <3>1
  <2> QED
    BY <2>4, <2>5
<1>7. N \in S
  <2> HIDE DEF S
  <2>1. Nat \subseteq S
    BY <1>5, <1>6, SetInduction
  <2> QED
    BY <1>1, <2>1
<1>8. K(N) = L
  BY <1>1
<1> QED
  BY <1>1, <1>3, <1>7, <1>8

-----------------------------------------------------------------------------
(* The steps.                                                              *)

\* each entry is kept for its lamp or emptied
LEMMA EntriesGood ==
  ASSUME NEW A, GoodArray(A), NEW B, B = [k \in 1..N |-> B[k]],
         \A k \in 1..N : WellFormed(B[k]) /\ B[k].lamp_nr \in {A[k].lamp_nr, Destroyed}
  PROVE  GoodArray(B)
<1>1. B \in [1..N -> TaskType]
  BY DEF WellFormed
<1>2. Unshared(B)
  BY DestroyedNoLamp DEF GoodArray, Unshared
<1> QED
  BY <1>1, <1>2 DEF GoodArray

LEMMA SelectionOfLamps ==
  ASSUME NEW L \in Selections
  PROVE  L \in SUBSET Lamps
BY DEF Selections

LEMMA InterpStep ==
  ASSUME ArrayInv, OrderInv, NEW L \in Selections, NEW n \in StepCounts, NEW r \in BOOLEAN,
         Interp(L, n, r)
  PROVE  ArrayInv' /\ OrderInv' /\ Overruns
<1> DEFINE B == ForEachLamp(L, n, r)
<1>1. GoodArray(B) /\ Redefined(taskArray, B, L, n, r)
  BY SelectionOfLamps, ForEachLampGood DEF ArrayInv
<1>2. taskArray' = B /\ lamps' = lamps /\ ~(r /\ n = 1)
  BY DEF Interp
<1>3. /\ defined' \in [Lamps -> Nat \union {Disorder}]
      /\ \A l \in Lamps :
           /\ l \notin L \/ Running(taskArray, l) => defined'[l] = defined[l]
           /\ l \in L /\ ~Running(taskArray, l) => defined'[l] = 0
  BY DEF Interp, ArrayInv
<1> HIDE DEF B
<1>4. GoodArray(taskArray)'
  BY <1>1, <1>2, Zenon
<1>5. ASSUME NEW k \in 1..N
      PROVE  EntryInv(B[k], defined') /\ (WithinStep(taskArray[k]) => WithinStep(B[k]))
  <2>1. CASE B[k] = taskArray[k] /\ (B[k].lamp_nr \in L => Running(taskArray, B[k].lamp_nr))
    BY <1>3, <2>1 DEF EntryInv, OrderInv
  <2>2. CASE \E l \in L : ~Running(taskArray, l) /\ Fresh(B[k], l, n, r)
    <3>1. PICK l \in L : ~Running(taskArray, l) /\ Fresh(B[k], l, n, r)
      BY <2>2
    <3>2. l \in Lamps /\ defined'[l] = 0
      BY <1>3, <3>1, SelectionOfLamps
    <3>3. WithinStep(B[k]) /\ DeltasMatch(B[k], 0)
      BY <1>2, <3>1, FreshGood
    <3> QED
      BY <3>1, <3>2, <3>3 DEF Fresh, EntryInv, WithinStep
  <2> QED
    BY <1>1, <2>1, <2>2 DEF Redefined
<1>6. ASSUME NEW l \in Lamps, defined'[l] = Disorder PROVE \E k \in 1..N : B[k].lamp_nr = l
  <2>1. defined[l] = Disorder
    BY <1>3, <1>6 DEF Disorder
  <2>2. PICK k \in 1..N : taskArray[k].lamp_nr = l
    BY <2>1 DEF OrderInv
  <2>3. B[k].lamp_nr = l
    BY <1>1, <2>2, DestroyedNoLamp DEF Redefined, Fresh
  <2> QED
    BY <2>3
<1>7. Overruns
  <2>1. ASSUME NEW k \in 1..N PROVE Overrun(taskArray[k], B[k])
    <3>1. /\ WellFormed(taskArray[k]) /\ AtRest(taskArray[k]) /\ WellFormed(B[k])
          /\ WithinStep(taskArray[k]) => WithinStep(B[k])
      BY <1>1, <1>5 DEF ArrayInv, GoodArray, OrderInv, EntryInv
    <3> QED
      BY <3>1, NoOverrun
  <2> QED
    BY <1>2, <2>1 DEF Overruns
<1> QED
  BY <1>2, <1>3, <1>4, <1>5, <1>6, <1>7 DEF ArrayInv, OrderInv

\* what ISTEP does to the history
LEMMA IstepDefines ==
  ASSUME ArrayInv, NEW L \in Selections, NEW j \in Nat \ {0}, NEW step, Istep(L, j, step)
  PROVE  /\ defined' \in [Lamps -> Nat \union {Disorder}]
         /\ \A l \in Lamps :
              \/ /\ defined'[l] = defined[l]
                 /\ l \notin L \ InvalidLamps(L, j) \/ Owner(taskArray, l) = {}
              \/ /\ l \in L \ InvalidLamps(L, j) /\ Owner(taskArray, l) # {}
                 /\ \/ InOrder(l, j) /\ defined'[l] = j
                    \/ ~InOrder(l, j) /\ defined'[l] = Disorder
<1> DEFINE edited == {l \in L \ InvalidLamps(L, j) : Owner(taskArray, l) # {}}
           d(l) == CASE l \notin edited -> defined[l]
                     [] l \in edited /\ InOrder(l, j) -> j
                     [] OTHER -> Disorder
<1>1. defined' = [l \in Lamps |-> d(l)]
  BY DEF Istep
<1>2. ASSUME NEW l \in Lamps
      PROVE  \/ l \notin edited /\ d(l) = defined[l]
             \/ l \in edited /\ InOrder(l, j) /\ d(l) = j
             \/ l \in edited /\ ~InOrder(l, j) /\ d(l) = Disorder
  OBVIOUS
<1> HIDE DEF d
<1>3. \A l \in Lamps : defined[l] \in Nat \union {Disorder}
  BY DEF ArrayInv
<1>4. \A l \in Lamps : d(l) \in Nat \union {Disorder}
  BY <1>2, <1>3
<1> QED
  BY <1>1, <1>2, <1>4

LEMMA IstepStep ==
  ASSUME ArrayInv, OrderInv, NEW L \in Selections, NEW j \in Nat \ {0},
         NEW step \in StepArguments, Istep(L, j, step)
  PROVE  ArrayInv' /\ OrderInv' /\ Overruns
<1> DEFINE Hit(k) == taskArray[k].lamp_nr \in L \ InvalidLamps(L, j)
           B == [k \in 1..N |-> IF Hit(k) THEN DefineStep(taskArray[k], step, j) ELSE taskArray[k]]
<1>1. taskArray' = B /\ lamps' = lamps
  BY DEF Istep
<1>2. /\ defined' \in [Lamps -> Nat \union {Disorder}]
      /\ \A l \in Lamps :
           \/ /\ defined'[l] = defined[l]
              /\ l \notin L \ InvalidLamps(L, j) \/ Owner(taskArray, l) = {}
           \/ /\ l \in L \ InvalidLamps(L, j) /\ Owner(taskArray, l) # {}
              /\ \/ InOrder(l, j) /\ defined'[l] = j
                 \/ ~InOrder(l, j) /\ defined'[l] = Disorder
  BY IstepDefines
<1>3. \A k \in 1..N : WellFormed(taskArray[k]) /\ EntryInv(taskArray[k], defined)
  BY DEF ArrayInv, GoodArray, OrderInv
<1>4. ASSUME NEW k \in 1..N, Hit(k)
      PROVE  B[k] = DefineStep(taskArray[k], step, j) /\ j \in 1..Len(taskArray[k].steps)
  <2>1. k \in Owner(taskArray, taskArray[k].lamp_nr)
    BY DEF Owner
  <2>2. ~(j > Len(taskArray[k].steps))
    BY <1>4, <2>1 DEF InvalidLamps
  <2>3. Len(taskArray[k].steps) \in Nat
    BY <1>3 DEF WellFormed, TaskType
  <2> QED
    BY <1>4, <2>2, <2>3
<1>5. \A k \in 1..N : ~Hit(k) => B[k] = taskArray[k]
  OBVIOUS
<1>6. B = [k \in 1..N |-> B[k]]
  OBVIOUS
<1> HIDE DEF B
<1>7. \A k \in 1..N : WellFormed(B[k]) /\ B[k].lamp_nr = taskArray[k].lamp_nr
  BY <1>3, <1>4, <1>5, DefineStepGood
<1>8. GoodArray(taskArray)'
  <2>1. GoodArray(B)
    BY <1>6, <1>7, EntriesGood DEF ArrayInv
  <2> QED
    BY <1>1, <2>1, Zenon
<1>9. ASSUME NEW k \in 1..N
      PROVE  EntryInv(B[k], defined') /\ Overrun(taskArray[k], B[k])
  <2> DEFINE t == taskArray[k]
             l == t.lamp_nr
  <2>1. WellFormed(t) /\ AtRest(t) /\ k \in Owner(taskArray, l)
    BY <1>3 DEF EntryInv, Owner
  <2>2. CASE Hit(k)
    <3>1. l \in Lamps /\ l \in L \ InvalidLamps(L, j) /\ Owner(taskArray, l) # {}
      BY <2>1, <2>2, SelectionOfLamps
    <3>2. B[k] = DefineStep(t, step, j) /\ j \in 1..Len(t.steps) /\ WellFormed(B[k])
      BY <1>4, <1>7, <2>2
    <3>3. B[k].lamp_nr = l /\ B[k].state = t.state /\ B[k] = [t EXCEPT !.steps = B[k].steps]
      BY <2>1, <3>2, DefineStepGood
    <3>4. AtRest(B[k]) /\ B[k].progression = t.progression
      <4>1. t.steps # << >>
        BY <3>2, EmptySeq
      <4>2. B[k].progression = t.progression
        BY <2>1, <3>3 DEF WellFormed, TaskType
      <4> QED
        BY <2>1, <3>3, <4>1, <4>2 DEF AtRest
    <3>5. EntryInv(B[k], defined')
      <4>1. CASE InOrder(l, j) /\ defined'[l] = j
        <5>1. t.state = "stopped" /\ j = defined[l] + 1
          BY <2>1, <4>1 DEF InOrder, Running
        <5>2. defined[l] \in Nat /\ defined[l] # Disorder
          BY <3>1, <5>1 DEF ArrayInv, Disorder
        <5>3. DeltasMatch(t, defined[l])
          BY <1>3, <3>1, <5>2 DEF EntryInv
        <5>4. WithinStep(B[k]) /\ DeltasMatch(B[k], j)
          BY <2>1, <3>2, <5>1, <5>2, <5>3, DefineStepGood
        <5> QED
          BY <3>3, <3>4, <4>1, <5>4 DEF EntryInv
      <4>2. CASE defined'[l] = Disorder
        BY <3>3, <3>4, <4>2 DEF EntryInv
      <4> QED
        BY <1>2, <3>1, <4>1, <4>2
    <3>6. ASSUME PastTheEnd(B[k]), ~PastTheEnd(t)
          PROVE  t.state = "running" /\ Step(B[k]).frames < Step(t).frames
      <4>1. t.state = "running"
        <5>1. ~WithinStep(B[k])
          BY <3>2, <3>4, <3>6, WithinOrPast
        <5> QED
          BY <2>1, <3>2, <5>1, DefineStepGood
      <4>2. WithinStep(t) /\ t.steps # << >>
        BY <2>1, <3>2, <3>6, WithinOrPast, EmptySeq
      <4>3. t.progression \in Nat /\ Step(t).frames \in Nat
        BY <2>1, <4>2, StepFrames DEF WellFormed, TaskType
      <4>4. B[k].steps # << >> /\ Step(B[k]).frames \in Nat
        BY <3>2, <3>6, StepFrames DEF PastTheEnd
      <4>5. t.progression <= Step(t).frames /\ t.progression > Step(B[k]).frames
        BY <3>4, <3>6, <4>2 DEF WithinStep, PastTheEnd
      <4> QED
        BY <4>1, <4>3, <4>4, <4>5
    <3>7. Overrun(t, B[k])
      BY <3>3, <3>6 DEF Overrun
    <3> QED
      BY <3>5, <3>7
  <2>3. CASE ~Hit(k)
    <3>1. B[k] = t
      BY <1>5, <2>3
    <3>2. l \in Lamps => defined'[l] = defined[l]
      BY <1>2, <2>3
    <3>3. EntryInv(B[k], defined')
      BY <1>3, <3>1, <3>2 DEF EntryInv
    <3> QED
      BY <3>1, <3>3 DEF Overrun
  <2> QED
    BY <2>2, <2>3
<1>10. ASSUME NEW l \in Lamps, defined'[l] = Disorder PROVE \E k \in 1..N : B[k].lamp_nr = l
  <2>1. \E k \in 1..N : taskArray[k].lamp_nr = l
    <3>1. CASE Owner(taskArray, l) # {}
      BY <3>1 DEF Owner
    <3>2. CASE Owner(taskArray, l) = {}
      BY <1>2, <1>10, <3>2 DEF OrderInv
    <3> QED
      BY <3>1, <3>2
  <2> QED
    BY <1>7, <2>1
<1> QED
  BY <1>1, <1>2, <1>8, <1>9, <1>10 DEF ArrayInv, OrderInv, Overruns

LEMMA DestroyStep ==
  ASSUME ArrayInv, OrderInv, NEW L \in Selections, Destroy(L)
  PROVE  ArrayInv' /\ OrderInv' /\ Overruns
<1> DEFINE Hit(k) == taskArray[k].lamp_nr \in L
           B == [k \in 1..N |-> IF Hit(k) THEN destroyTask(taskArray[k]) ELSE taskArray[k]]
<1>1. taskArray' = B /\ lamps' = lamps
  BY DEF Destroy
<1>2. /\ defined' \in [Lamps -> Nat \union {Disorder}]
      /\ \A l \in Lamps : defined'[l] = IF l \in L THEN 0 ELSE defined[l]
  BY DEF Destroy, ArrayInv
<1>3. ASSUME NEW k \in 1..N, Hit(k)
      PROVE  WellFormed(B[k]) /\ WithinStep(B[k]) /\ B[k].lamp_nr = Destroyed
  <2>1. taskArray[k].cur \in Int
    BY DEF ArrayInv, GoodArray, WellFormed, TaskType
  <2>2. B[k] = NoTask(taskArray[k].cur)
    BY <1>3 DEF destroyTask
  <2> QED
    BY <2>1, <2>2, NoTaskGood
<1>4. \A k \in 1..N : ~Hit(k) => B[k] = taskArray[k] /\ WellFormed(B[k])
  BY DEF ArrayInv, GoodArray
<1>5. B = [k \in 1..N |-> B[k]]
  OBVIOUS
<1> HIDE DEF B
<1>6. GoodArray(taskArray)'
  <2>1. GoodArray(B)
    BY <1>3, <1>4, <1>5, EntriesGood DEF ArrayInv
  <2> QED
    BY <1>1, <2>1, Zenon
<1>7. ASSUME NEW k \in 1..N
      PROVE  EntryInv(B[k], defined') /\ Overrun(taskArray[k], B[k])
  <2>1. WellFormed(taskArray[k]) /\ EntryInv(taskArray[k], defined)
    BY DEF ArrayInv, GoodArray, OrderInv
  <2>2. CASE Hit(k)
    <3>1. WellFormed(B[k]) /\ WithinStep(B[k]) /\ B[k].lamp_nr = Destroyed
      BY <1>3, <2>2
    <3> QED
      BY <2>1, <3>1, NoOverrun, DestroyedNoLamp DEF EntryInv, WithinStep
  <2>3. CASE ~Hit(k)
    <3>1. B[k] = taskArray[k]
      BY <1>4, <2>3
    <3> QED
      BY <1>2, <2>1, <2>3, <3>1 DEF EntryInv, Overrun
  <2> QED
    BY <2>2, <2>3
<1>8. ASSUME NEW l \in Lamps, defined'[l] = Disorder PROVE \E k \in 1..N : B[k].lamp_nr = l
  <2>1. l \notin L /\ defined[l] = Disorder
    BY <1>2, <1>8 DEF Disorder
  <2>2. PICK k \in 1..N : taskArray[k].lamp_nr = l
    BY <2>1 DEF OrderInv
  <2>3. B[k] = taskArray[k]
    BY <1>4, <2>1, <2>2
  <2> QED
    BY <2>2, <2>3
<1> QED
  BY <1>1, <1>2, <1>6, <1>7, <1>8 DEF ArrayInv, OrderInv, Overruns

\* START, STOP and a frame keep the program of each task
LEMMA MovingStep ==
  ASSUME ArrayInv, OrderInv, NEW B, B = [k \in 1..N |-> B[k]],
         taskArray' = B, lamps' \in [Lamps -> Colors], defined' = defined,
         \A k \in 1..N :
           /\ WellFormed(B[k]) /\ B[k].lamp_nr = taskArray[k].lamp_nr
           /\ AtRest(taskArray[k]) => AtRest(B[k])
           /\ WithinStep(taskArray[k]) => WithinStep(B[k])
           /\ \A d : DeltasMatch(taskArray[k], d) => DeltasMatch(B[k], d)
  PROVE  ArrayInv' /\ OrderInv' /\ Overruns
<1>1. GoodArray(taskArray)'
  <2>1. GoodArray(B)
    BY EntriesGood DEF ArrayInv
  <2> QED
    BY <2>1, Zenon
<1>2. ASSUME NEW k \in 1..N PROVE EntryInv(B[k], defined) /\ Overrun(taskArray[k], B[k])
  <2>1. EntryInv(taskArray[k], defined) /\ WellFormed(taskArray[k])
    BY DEF ArrayInv, GoodArray, OrderInv
  <2>2. EntryInv(B[k], defined)
    BY <2>1 DEF EntryInv
  <2>3. Overrun(taskArray[k], B[k])
    BY <2>1, NoOverrun DEF EntryInv
  <2> QED
    BY <2>2, <2>3
<1>3. \A l \in Lamps : defined[l] = Disorder => \E k \in 1..N : B[k].lamp_nr = l
  BY DEF OrderInv
<1> QED
  BY <1>1, <1>2, <1>3 DEF ArrayInv, OrderInv, Overruns

LEMMA StartStep ==
  ASSUME ArrayInv, OrderInv, Start
  PROVE  ArrayInv' /\ OrderInv' /\ Overruns
<1> DEFINE B == [k \in 1..N |-> IF taskArray[k].steps # << >>
                                  THEN start(taskArray[k]) ELSE taskArray[k]]
<1>1. taskArray' = B /\ lamps' \in [Lamps -> Colors] /\ defined' = defined
  BY DEF Start, ArrayInv
<1>2. ASSUME NEW k \in 1..N
      PROVE  /\ WellFormed(B[k]) /\ B[k].lamp_nr = taskArray[k].lamp_nr
             /\ AtRest(taskArray[k]) => AtRest(B[k])
             /\ WithinStep(taskArray[k]) => WithinStep(B[k])
             /\ \A d : DeltasMatch(taskArray[k], d) => DeltasMatch(B[k], d)
  <2>1. WellFormed(taskArray[k])
    BY DEF ArrayInv, GoodArray
  <2>2. CASE taskArray[k].steps # << >>
    <3>1. B[k] = InState(taskArray[k], "starting")
      BY <2>2 DEF start, InState
    <3> HIDE DEF B
    <3> QED
      BY <2>1, <2>2, <3>1, RewoundGood
  <2>3. CASE taskArray[k].steps = << >>
    BY <2>1, <2>3
  <2> QED
    BY <2>2, <2>3
<1>3. B = [k \in 1..N |-> B[k]]
  OBVIOUS
<1> HIDE DEF B
<1> QED
  BY <1>1, <1>2, <1>3, MovingStep

LEMMA StopStep ==
  ASSUME ArrayInv, OrderInv, Stop
  PROVE  ArrayInv' /\ OrderInv' /\ Overruns
<1> DEFINE B == [k \in 1..N |-> stop(taskArray[k])]
<1>1. taskArray' = B /\ lamps' \in [Lamps -> Colors] /\ defined' = defined
  BY DEF Stop, ArrayInv
<1>2. ASSUME NEW k \in 1..N
      PROVE  /\ WellFormed(B[k]) /\ B[k].lamp_nr = taskArray[k].lamp_nr
             /\ AtRest(taskArray[k]) => AtRest(B[k])
             /\ WithinStep(taskArray[k]) => WithinStep(B[k])
             /\ \A d : DeltasMatch(taskArray[k], d) => DeltasMatch(B[k], d)
  <2>1. WellFormed(taskArray[k])
    BY DEF ArrayInv, GoodArray
  <2>2. B[k] = InState(taskArray[k], "stopped")
    BY DEF stop, InState
  <2> HIDE DEF B
  <2> QED
    BY <2>1, <2>2, RewoundGood
<1>3. B = [k \in 1..N |-> B[k]]
  OBVIOUS
<1> HIDE DEF B
<1> QED
  BY <1>1, <1>2, <1>3, MovingStep

LEMMA PaintStep ==
  ASSUME ArrayInv, OrderInv, NEW L, NEW c \in Colors, Paint(L, c)
  PROVE  ArrayInv' /\ OrderInv' /\ Overruns
<1>1. lamps' \in [Lamps -> Colors] /\ taskArray' = taskArray /\ defined' = defined
  BY DEF Paint, ArrayInv
<1>2. GoodArray(taskArray)'
  BY <1>1, Zenon DEF ArrayInv
<1> QED
  BY <1>1, <1>2 DEF ArrayInv, OrderInv, Overruns, Overrun

LEMMA VisibleColor ==
  ASSUME NEW t \in TaskType
  PROVE  Visible(t) \in Colors
<1>1. t.cur \in Int
  BY DEF TaskType
<1>2. \A a \in Int, b \in Nat \ {0} : a \div b \in Int
  OBVIOUS
<1>3. \A a \in Int, b \in Nat \ {0} : a % b \in 0..(b - 1)
  OBVIOUS
<1>4. t.cur \div Scale \in Int
  BY <1>1, <1>2, ScaleAssumption
<1> QED
  BY <1>3, <1>4, ScaleAssumption DEF Visible, Colors

LEMMA FrameStep ==
  ASSUME ArrayInv, OrderInv, Frame
  PROVE  ArrayInv' /\ OrderInv' /\ Overruns
<1> DEFINE B == [k \in 1..N |-> IF taskArray[k].state # "stopped"
                                  THEN updateTask(taskArray[k]) ELSE taskArray[k]]
<1>1. taskArray' = B /\ defined' = defined
  BY DEF Frame
<1>2. ASSUME NEW k \in 1..N
      PROVE  /\ WellFormed(B[k]) /\ B[k].lamp_nr = taskArray[k].lamp_nr
             /\ AtRest(taskArray[k]) => AtRest(B[k])
             /\ WithinStep(taskArray[k]) => WithinStep(B[k])
             /\ \A d : DeltasMatch(taskArray[k], d) => DeltasMatch(B[k], d)
  <2>1. WellFormed(taskArray[k])
    BY DEF ArrayInv, GoodArray
  <2>2. CASE taskArray[k].state # "stopped"
    <3>1. B[k] = updateTask(taskArray[k])
      BY <2>2
    <3> HIDE DEF B
    <3> QED
      BY <2>1, <2>2, <3>1, UpdateGood, SameProgram DEF Kept
  <2>3. CASE taskArray[k].state = "stopped"
    BY <2>1, <2>3
  <2> QED
    BY <2>2, <2>3
<1>3. B = [k \in 1..N |-> B[k]]
  OBVIOUS
<1>4. lamps' \in [Lamps -> Colors]
  <2> DEFINE shown(l) == Visible(taskArray'[Max(Owner(taskArray, l))])
  <2>1. lamps' = [l \in Lamps |-> IF Running(taskArray, l) THEN shown(l) ELSE lamps[l]]
    BY DEF Frame
  <2>2. ASSUME NEW l \in Lamps, Running(taskArray, l) PROVE shown(l) \in Colors
    <3>1. PICK k \in Owner(taskArray, l) : TRUE
      BY <2>2 DEF Running
    <3>2. Owner(taskArray, l) = {k} /\ k \in 1..N
      BY <3>1, OneOwner DEF ArrayInv, GoodArray, Owner
    <3>3. Max({k}) = k
      BY <3>2 DEF Max
    <3>4. taskArray'[k] \in TaskType
      BY <1>1, <1>2, <3>2 DEF WellFormed
    <3> QED
      BY <3>2, <3>3, <3>4, VisibleColor
  <2> HIDE DEF shown
  <2> QED
    BY <2>1, <2>2 DEF ArrayInv
<1> HIDE DEF B
<1> QED
  BY <1>1, <1>2, <1>3, <1>4, MovingStep

LEMMA InitHolds == Init => ArrayInv /\ OrderInv
<1> SUFFICES ASSUME Init PROVE ArrayInv /\ OrderInv
  OBVIOUS
<1>1. taskArray = [k \in 1..N |-> NoTask(0)]
  BY DEF Init
<1>2. WellFormed(NoTask(0)) /\ WithinStep(NoTask(0)) /\ NoTask(0).lamp_nr = Destroyed
  BY NoTaskGood
<1>3. GoodArray(taskArray)
  BY <1>1, <1>2, DestroyedNoLamp DEF GoodArray, Unshared, WellFormed
<1>4. lamps \in [Lamps -> Colors] /\ defined \in [Lamps -> Nat \union {Disorder}]
  <2>1. Depth - 1 \in Colors
    BY ScaleAssumption DEF Colors
  <2> QED
    BY <2>1 DEF Init
<1>5. \A k \in 1..N : EntryInv(taskArray[k], defined)
  BY <1>1, <1>2, DestroyedNoLamp DEF EntryInv, WithinStep
<1>6. \A l \in Lamps : defined[l] # Disorder
  BY DEF Init, Disorder
<1> QED
  BY <1>3, <1>4, <1>5, <1>6 DEF ArrayInv, OrderInv

LEMMA StepKeeps == ArrayInv /\ OrderInv /\ [Next]_vars => ArrayInv' /\ OrderInv' /\ Overruns
<1> SUFFICES ASSUME ArrayInv, OrderInv, [Next]_vars PROVE ArrayInv' /\ OrderInv' /\ Overruns
  OBVIOUS
<1>1. ASSUME NEW L \in Selections, NEW n \in StepCounts, NEW r \in BOOLEAN, Interp(L, n, r)
      PROVE  ArrayInv' /\ OrderInv' /\ Overruns
  BY <1>1, InterpStep
<1>2. ASSUME NEW L \in Selections, NEW j \in 1..Max(StepCounts),
             NEW step \in [color : Colors, frames : Frames, fade : Fading], Istep(L, j, step)
      PROVE  ArrayInv' /\ OrderInv' /\ Overruns
  <2>1. Max(StepCounts) \in StepCounts
    BY StepAssumption DEF Max
  <2>2. j \in Nat \ {0}
    BY <2>1, StepAssumption
  <2> QED
    BY <1>2, <2>2, IstepStep DEF StepArguments
<1>3. ASSUME NEW L \in Selections, Destroy(L) PROVE ArrayInv' /\ OrderInv' /\ Overruns
  BY <1>3, DestroyStep
<1>4. ASSUME NEW L \in Selections, NEW c \in Colors, Paint(L, c) PROVE ArrayInv' /\ OrderInv' /\ Overruns
  BY <1>4, PaintStep
<1>5. CASE Start
  BY <1>5, StartStep
<1>6. CASE Stop
  BY <1>6, StopStep
<1>7. CASE Frame
  BY <1>7, FrameStep
<1>8. CASE UNCHANGED vars
  <2>1. taskArray' = taskArray /\ lamps' = lamps /\ defined' = defined
    BY <1>8 DEF vars
  <2>2. GoodArray(taskArray)'
    BY <2>1, Zenon DEF ArrayInv
  <2> QED
    BY <2>1, <2>2 DEF ArrayInv, OrderInv, Overruns, Overrun
<1> QED
  BY <1>1, <1>2, <1>3, <1>4, <1>5, <1>6, <1>7, <1>8 DEF Next, Command

LEMMA Invariants == Spec => [](ArrayInv /\ OrderInv)
BY InitHolds, StepKeeps, PTL DEF Spec

-----------------------------------------------------------------------------
(* The properties.                                                         *)

\* Every entry of the array is either empty, as destroyTask leaves it, or has
\* an owner and stands on one of its steps; the lamps show colors.
THEOREM TypeCorrect == Spec => []TypeOK
<1>1. ArrayInv => TypeOK
  <2> SUFFICES ASSUME ArrayInv PROVE TypeOK
    OBVIOUS
  <2>1. ASSUME NEW k \in 1..N, NEW t, t = taskArray[k]
        PROVE  /\ t.lamp_nr \in Lamps \union {Destroyed}
               /\ t.state \in {"stopped", "starting", "running"}
               /\ t.repeating \in BOOLEAN
               /\ t.steps = << >> => t = NoTask(t.cur)
               /\ t.steps # << >> => t.stepCnt \in 0..(Len(t.steps) - 1)
               /\ \A j \in DOMAIN t.steps :
                    t.steps[j].color \in Colors /\ t.steps[j].frames \in Frames \union {1}
    <3>1. WellFormed(t) /\ t \in TaskType
      BY <2>1 DEF ArrayInv, GoodArray, WellFormed
    <3>2. /\ t.lamp_nr \in Lamps \union {Destroyed}
          /\ t.state \in {"stopped", "starting", "running"}
          /\ t.repeating \in BOOLEAN
          /\ t.steps \in Seq(StepType) /\ t.stepCnt \in Nat
      BY <3>1 DEF TaskType
    <3>3. t.steps # << >> => t.stepCnt \in 0..(Len(t.steps) - 1)
      BY <3>1, <3>2 DEF WellFormed
    <3>4. ASSUME NEW j \in DOMAIN t.steps
          PROVE  t.steps[j].color \in Colors /\ t.steps[j].frames \in Frames \union {1}
      <4>1. t.steps[j] \in StepType
        BY <3>2, ElementOfSeq
      <4> QED
        BY <4>1 DEF StepType
    <3> QED
      BY <3>1, <3>2, <3>3, <3>4 DEF WellFormed
  <2> QED
    BY <2>1 DEF TypeOK, ArrayInv
<1> QED
  BY <1>1, Invariants, PTL

\* A lamp is never driven by two tasks, and an INTERP for a lamp without a
\* task always finds a free entry: setLampInterpolator never returns 1.
THEOREM OneTaskPerLampTheorem == Spec => []OneTaskPerLamp
<1>1. ArrayInv => OneTaskPerLamp
  BY OneOwner, FreeEntry DEF ArrayInv, GoodArray, OneTaskPerLamp
<1> QED
  BY <1>1, Invariants, PTL

\* Whatever commands come in whatever order, the counter of frames gets past the
\* end of a step in one way only: by an ISTEP that shortens the step being played.
THEOREM OnlyIstepOverrunsTheorem == Spec => OnlyIstepOverruns
<1>1. ArrayInv /\ OrderInv /\ [Next]_vars =>
        [\A k \in 1..N :
           PastTheEnd(taskArray'[k]) /\ ~PastTheEnd(taskArray[k]) =>
             /\ taskArray[k].state = "running"
             /\ taskArray'[k] = [taskArray[k] EXCEPT !.steps = taskArray'[k].steps]
             /\ Step(taskArray'[k]).frames < Step(taskArray[k]).frames]_vars
  BY StepKeeps, Zenon DEF Overruns, Overrun
<1> QED
  BY <1>1, Invariants, PTL DEF Spec, OnlyIstepOverruns

\* If the steps of a lamp are defined in their order while its task does not run,
\* the delta of each fading step is the one of the current colors and durations,
\* whatever happens to the other lamps.
THEOREM DeltasAreCurrentTheorem == Spec => []DeltasAreCurrent
<1>1. ArrayInv /\ OrderInv => DeltasAreCurrent
  <2> SUFFICES ASSUME ArrayInv, OrderInv, NEW l \in Lamps, defined[l] # Disorder,
                      NEW k \in Owner(taskArray, l), NEW j \in DOMAIN taskArray[k].steps,
                      taskArray[k].steps[j].fade,
                      taskArray[k].repeating \/ j < Len(taskArray[k].steps)
               PROVE  taskArray[k].steps[j].delta = Delta(taskArray[k], j)
    BY DEF DeltasAreCurrent
  <2>1. k \in 1..N /\ taskArray[k].lamp_nr = l
    BY DEF Owner
  <2>2. WellFormed(taskArray[k])
    BY <2>1 DEF ArrayInv, GoodArray
  <2>3. j \in 1..Len(taskArray[k].steps)
    BY <2>2, LenProperties DEF WellFormed, TaskType
  <2>4. DeltasMatch(taskArray[k], defined[l])
    BY <2>1 DEF OrderInv, EntryInv
  <2> QED
    BY <2>3, <2>4 DEF DeltasMatch
<1> QED
  BY <1>1, Invariants, PTL

-----------------------------------------------------------------------------
(* How long a program takes.                                               *)

IsSum(s, g, p) == g = [i \in 0..p |-> IF i = 0 THEN 0 ELSE g[i - 1] + s[i].frames]

LEMMA SumValues ==
  ASSUME NEW s, NEW g, NEW p \in Nat, IsSum(s, g, p), NEW i \in 0..p
  PROVE  g[i] = IF i = 0 THEN 0 ELSE g[i - 1] + s[i].frames
<1> DEFINE f == [k \in 0..p |-> IF k = 0 THEN 0 ELSE g[k - 1] + s[k].frames]
<1>1. f[i] = IF i = 0 THEN 0 ELSE g[i - 1] + s[i].frames
  OBVIOUS
<1>2. g = f
  BY Zenon DEF IsSum
<1> HIDE DEF f
<1> QED
  BY <1>1, <1>2

LEMMA SumExists ==
  ASSUME NEW s
  PROVE  \A p \in Nat : \E g : IsSum(s, g, p)
<1> DEFINE S == {p \in Nat : \E g : IsSum(s, g, p)}
<1>1. 0 \in S
  <2> DEFINE g == [i \in 0..0 |-> 0]
  <2>1. g = [i \in 0..0 |-> IF i = 0 THEN 0 ELSE g[i - 1] + s[i].frames]
    OBVIOUS
  <2>2. IsSum(s, g, 0)
    BY <2>1 DEF IsSum
  <2> HIDE DEF g
  <2> QED
    BY <2>2
<1>2. ASSUME NEW p \in Nat, p \in S PROVE p + 1 \in S
  <2>1. PICK g : IsSum(s, g, p)
    BY <1>2
  <2> DEFINE h == [i \in 0..(p + 1) |-> IF i = 0 THEN 0 ELSE g[i - 1] + s[i].frames]
  <2>2. \A i \in 0..p : h[i] = g[i]
    BY <2>1, SumValues
  <2>3. \A i \in 0..(p + 1) : i # 0 => i - 1 \in 0..p
    OBVIOUS
  <2>4. \A i \in 0..(p + 1) : i # 0 => g[i - 1] = h[i - 1]
    BY <2>2, <2>3
  <2>5. h = [i \in 0..(p + 1) |-> IF i = 0 THEN 0 ELSE h[i - 1] + s[i].frames]
    <3> DEFINE k == [i \in 0..(p + 1) |-> IF i = 0 THEN 0 ELSE h[i - 1] + s[i].frames]
    <3>1. \A i \in 0..(p + 1) : h[i] = k[i]
      <4> SUFFICES ASSUME NEW i \in 0..(p + 1) PROVE h[i] = k[i]
        OBVIOUS
      <4>1. h[i] = IF i = 0 THEN 0 ELSE g[i - 1] + s[i].frames
        OBVIOUS
      <4>2. k[i] = IF i = 0 THEN 0 ELSE h[i - 1] + s[i].frames
        OBVIOUS
      <4> HIDE DEF h, k
      <4> QED
        BY <2>4, <4>1, <4>2
    <3>2. h = [i \in 0..(p + 1) |-> h[i]] /\ k = [i \in 0..(p + 1) |-> k[i]]
      OBVIOUS
    <3> HIDE DEF h, k
    <3>3. h = k
      BY <3>1, <3>2
    <3> QED
      BY <3>3 DEF k
  <2>6. IsSum(s, h, p + 1)
    BY <2>5 DEF IsSum
  <2> HIDE DEF h
  <2> QED
    BY <2>6
<1>3. Nat \subseteq S
  <2> HIDE DEF S
  <2> QED
    BY <1>1, <1>2, SetInduction
<1> QED
  BY <1>3

\* two sums agree where both are defined
LEMMA SumsAgree ==
  ASSUME NEW s, NEW g, NEW p \in Nat, IsSum(s, g, p), NEW h, NEW q \in Nat, IsSum(s, h, q)
  PROVE  \A i \in Nat : i <= p /\ i <= q => g[i] = h[i]
<1> DEFINE S == {i \in Nat : i <= p /\ i <= q => g[i] = h[i]}
<1>1. 0 \in S
  <2>1. g[0] = 0 /\ h[0] = 0
    BY SumValues
  <2> QED
    BY <2>1
<1>2. ASSUME NEW i \in Nat, i \in S PROVE i + 1 \in S
  <2> SUFFICES ASSUME i + 1 <= p, i + 1 <= q PROVE g[i + 1] = h[i + 1]
    OBVIOUS
  <2>1. i + 1 \in 0..p /\ i + 1 \in 0..q /\ i + 1 # 0 /\ (i + 1) - 1 = i /\ i <= p /\ i <= q
    OBVIOUS
  <2>2. g[i] = h[i]
    BY <1>2, <2>1
  <2>3. g[i + 1] = g[i] + s[i + 1].frames
    BY <2>1, SumValues
  <2>4. h[i + 1] = h[i] + s[i + 1].frames
    BY <2>1, SumValues
  <2> QED
    BY <2>2, <2>3, <2>4
<1>3. Nat \subseteq S
  <2> HIDE DEF S
  <2> QED
    BY <1>1, <1>2, SetInduction
<1> QED
  BY <1>3

LEMMA UntilStep ==
  ASSUME NEW s
  PROVE  /\ Until(s, 0) = 0
         /\ \A j \in Nat : Until(s, j + 1) = Until(s, j) + s[j + 1].frames
<1>1. ASSUME NEW j \in Nat, NEW g, IsSum(s, g, j) PROVE Until(s, j) = g[j]
  <2> DEFINE h == CHOOSE f : IsSum(s, f, j)
  <2>1. IsSum(s, h, j)
    BY <1>1
  <2>2. Until(s, j) = h[j]
    BY DEF Until, IsSum
  <2> HIDE DEF h
  <2> QED
    BY <1>1, <2>1, <2>2, SumsAgree
<1>2. Until(s, 0) = 0
  <2>1. PICK g : IsSum(s, g, 0)
    BY SumExists
  <2>2. g[0] = 0
    BY <2>1, SumValues
  <2> QED
    BY <1>1, <2>1, <2>2
<1>3. ASSUME NEW j \in Nat PROVE Until(s, j + 1) = Until(s, j) + s[j + 1].frames
  <2>1. PICK g : IsSum(s, g, j)
    BY SumExists
  <2>2. j + 1 \in Nat /\ j + 1 \in 0..(j + 1) /\ j + 1 # 0 /\ (j + 1) - 1 = j
    OBVIOUS
  <2>3. PICK h : IsSum(s, h, j + 1)
    BY <2>2, SumExists
  <2>4. h[j + 1] = h[j] + s[j + 1].frames
    BY <2>2, <2>3, SumValues
  <2>5. g[j] = h[j]
    BY <2>1, <2>2, <2>3, SumsAgree
  <2>6. Until(s, j) = g[j] /\ Until(s, j + 1) = h[j + 1]
    BY <1>1, <2>1, <2>2, <2>3
  <2> QED
    BY <2>4, <2>5, <2>6
<1> QED
  BY <1>2, <1>3

\* each step takes at least a frame
LEMMA UntilGrows ==
  ASSUME NEW s, NEW n \in Nat, \A i \in 1..n : s[i].frames \in Nat \ {0}
  PROVE  /\ \A j \in 0..n : Until(s, j) \in Nat
         /\ \A i, j \in 0..n : i <= j => Until(s, i) <= Until(s, j)
<1> DEFINE S == {j \in Nat : j <= n => /\ Until(s, j) \in Nat
                                       /\ \A i \in 0..j : /\ Until(s, i) \in Nat
                                                         /\ Until(s, i) <= Until(s, j)}
<1>1. 0 \in S
  BY UntilStep
<1>2. ASSUME NEW j \in Nat, j \in S PROVE j + 1 \in S
  <2> SUFFICES ASSUME j + 1 <= n
               PROVE  /\ Until(s, j + 1) \in Nat
                      /\ \A i \in 0..(j + 1) : /\ Until(s, i) \in Nat
                                               /\ Until(s, i) <= Until(s, j + 1)
    OBVIOUS
  <2>1. Until(s, j) \in Nat /\ \A i \in 0..j : Until(s, i) \in Nat /\ Until(s, i) <= Until(s, j)
    BY <1>2
  <2>2. s[j + 1].frames \in Nat \ {0}
    OBVIOUS
  <2>3. Until(s, j + 1) = Until(s, j) + s[j + 1].frames
    BY UntilStep
  <2>4. \A i \in 0..(j + 1) : i \in 0..j \/ i = j + 1
    OBVIOUS
  <2> QED
    BY <2>1, <2>2, <2>3, <2>4
<1>3. Nat \subseteq S
  <2> HIDE DEF S
  <2> QED
    BY <1>1, <1>2, SetInduction
<1> QED
  BY <1>3

-----------------------------------------------------------------------------
(* The light of a fade.                                                    *)

\* what a fade from a to b shows after k of its f frames, computed with the
\* truncated difference per frame
LEMMA QuotientIs ==
  ASSUME NEW x \in Int, NEW f \in Nat \ {0}
  PROVE  /\ Quotient(x, f) \in Int
         /\ x >= 0 => Quotient(x, f) >= 0 /\ x - Quotient(x, f) * f \in 0..(f - 1)
         /\ x < 0 => Quotient(x, f) <= 0 /\ Quotient(x, f) * f - x \in 0..(f - 1)
<1>1. ASSUME NEW y \in Nat
      PROVE  y \div f \in Nat /\ y - (y \div f) * f \in 0..(f - 1)
  <2> DEFINE q == y \div f
             r == y % f
             m == q * f
  <2>1. q \in Int
    OBVIOUS
  <2>2. r \in 0..(f - 1)
    OBVIOUS
  <2>3. y = m + r
    <3>1. y = f * q + r
      OBVIOUS
    <3>2. f * q = q * f
      <4> HIDE DEF q
      <4> QED
        BY <2>1
    <3> HIDE DEF q, r
    <3> QED
      BY <3>1, <3>2
  <2> HIDE DEF q, r
  <2>4. m \in Int
    BY <2>1
  <2>5. q >= 0
    <3> SUFFICES ASSUME q <= -1 PROVE FALSE
      BY <2>1
    <3>1. m <= (-1) * f
      BY <2>1, ScaledOrder
    <3> HIDE DEF m
    <3> QED
      BY <2>2, <2>3, <2>4, <3>1
  <2>6. y - m \in 0..(f - 1)
    <3> HIDE DEF m
    <3> QED
      BY <2>2, <2>3, <2>4
  <2> QED
    BY <2>1, <2>5, <2>6 DEF q
<1>2. CASE x >= 0
  BY <1>1, <1>2 DEF Quotient
<1>3. CASE x < 0
  <2> DEFINE q == (-x) \div f
  <2>1. Quotient(x, f) = -q
    BY <1>3 DEF Quotient
  <2>2. q \in Nat /\ (-x) - q * f \in 0..(f - 1)
    BY <1>1, <1>3
  <2> HIDE DEF q
  <2>3. (-q) * f = -(q * f) /\ q * f \in Int
    BY <2>2
  <2> QED
    BY <1>3, <2>1, <2>2, <2>3
<1> QED
  BY <1>2, <1>3

\* the distance from the exact line, scaled
LEMMA FadeDistance ==
  ASSUME NEW a \in Int, NEW b \in Int, NEW s \in Int, NEW f \in Int, NEW k \in Int,
         NEW d \in Int, NEW c \in Int, NEW r \in Int, c * s + r = a * s + k * d
  PROVE  (c * f - (a * (f - k) + b * k)) * s = -(k * ((b - a) * s - d * f)) - r * f
<1>1. (c * s + r) * f = (a * s + k * d) * f
  OBVIOUS
<1>2. (c * s) * f + r * f = (a * s) * f + (k * d) * f
  BY <1>1
<1>3. (c * f - (a * (f - k) + b * k)) * s = (c * s) * f - (a * s) * f + (a * k) * s - (b * k) * s
  OBVIOUS
<1>4. k * ((b - a) * s - d * f) = (b * k) * s - (a * k) * s - (k * d) * f
  OBVIOUS
<1> QED
  BY <1>2, <1>3, <1>4

\* the sign of a difference, and what part of it added to one end stays between
LEMMA BetweenEnds ==
  ASSUME NEW p \in Int, NEW q \in Int
  PROVE  /\ p <= q <=> q - p >= 0
         /\ \A y, z, m \in Int :
              /\ z >= 0 /\ z <= y /\ y <= q - p => p <= p + z /\ p + z <= q
              /\ z <= 0 /\ y <= z /\ q - p <= y => q <= p + z /\ p + z <= p
              /\ m > 0 /\ q <= p - m => q - p < 0
  OBVIOUS

\* The truncated difference per frame, added k times, stays between the colors
\* and less than two shades from the exact line.
LEMMA FadeIs ==
  ASSUME NEW a \in Colors, NEW b \in Colors, NEW f \in Nat \ {0}, f <= Scale,
         NEW k \in 0..(f - 1), NEW cur
  PROVE  cur = a * Scale + k * Quotient((b - a) * Scale, f) =>
           /\ P!Fades(cur \div Scale, a, b, k, f)
           /\ cur \div Scale \in Colors
<1>0. SUFFICES ASSUME cur = a * Scale + k * Quotient((b - a) * Scale, f)
               PROVE  /\ P!Fades(cur \div Scale, a, b, k, f)
                      /\ cur \div Scale \in Colors
  OBVIOUS
<1> DEFINE s == Scale
           x == (b - a) * s
           d == Quotient(x, f)
           c == cur \div s
           r == cur % s
           sa == a * s
           sb == b * s
           kd == k * d
           df == d * f
           cs == c * s
<1>1. s \in Nat \ {0} /\ a \in Nat /\ b \in Nat /\ a < Depth /\ b < Depth /\ Depth \in Nat
  BY ScaleAssumption DEF Colors
<1>2. sa \in Int /\ sb \in Int /\ x \in Int /\ x = sb - sa
  BY <1>1
<1>3. a <= b => x >= 0
  <2>1. a <= b => sa <= sb
    BY <1>1, ScaledOrder
  <2>2. sa <= sb <=> sb - sa >= 0
    <3> HIDE DEF sa, sb
    <3> QED
      BY <1>2, BetweenEnds
  <2> HIDE DEF sa, sb, x
  <2> QED
    BY <1>2, <2>1, <2>2
<1>4. a > b => x < 0
  <2> SUFFICES ASSUME b <= a - 1 PROVE x < 0
    BY <1>1
  <2>1. sb <= (a - 1) * s
    BY <1>1, ScaledOrder
  <2>2. (a - 1) * s = sa - s
    BY <1>1
  <2>3. s \in Int /\ s > 0 /\ sb <= sa - s
    BY <1>1, <2>1, <2>2
  <2>4. sb - sa < 0
    <3> HIDE DEF sa, sb, s
    <3> QED
      BY <1>2, <2>3, BetweenEnds
  <2> HIDE DEF sa, sb, x
  <2> QED
    BY <1>2, <2>4
<1> HIDE DEF x
<1>5. d \in Int /\ (x >= 0 => d >= 0 /\ x - df \in 0..(f - 1))
      /\ (x < 0 => d <= 0 /\ df - x \in 0..(f - 1))
  BY <1>2, QuotientIs
<1>6. kd \in Int /\ df \in Int
  <2> HIDE DEF d
  <2> QED
    BY <1>5
<1>7. cur = sa + kd /\ cur \in Int
  <2>1. cur = sa + kd
    BY <1>0 DEF x
  <2> HIDE DEF sa, kd
  <2> QED
    BY <1>2, <1>6, <2>1
<1> HIDE DEF d
\* k frames do not go further than f
<1>8. (d >= 0 => 0 <= kd /\ kd <= df) /\ (d <= 0 => df <= kd /\ kd <= 0)
  <2>1. CASE d >= 0
    <3>1. 0 * d <= k * d /\ k * d <= f * d
      BY <1>5, <2>1, ScaledOrder
    <3>2. f * d = d * f /\ 0 * d = 0
      BY <1>5
    <3> QED
      BY <1>5, <2>1, <3>1, <3>2
  <2>2. CASE d <= 0
    <3> DEFINE e == -d
    <3>1. e \in Nat
      BY <1>5, <2>2
    <3> HIDE DEF e
    <3>2. 0 * e <= k * e /\ k * e <= f * e
      BY <3>1, ScaledOrder
    <3>3. f * e = -(d * f) /\ 0 * e = 0 /\ k * e = -(k * d)
      BY <1>5 DEF e
    <3> HIDE DEF kd, df
    <3>4. f * e = -df /\ k * e = -kd
      BY <3>3 DEF df, kd
    <3>5. d > 0 => FALSE
      BY <1>5, <2>2
    <3>6. d >= 0 => df = 0 /\ kd = 0
      BY <1>5, <2>2 DEF df, kd
    <3> QED
      BY <1>6, <3>2, <3>3, <3>4, <3>6
  <2> QED
    BY <1>5, <2>1, <2>2
<1>9. (a <= b => sa <= cur /\ cur <= sb) /\ (a > b => sb <= cur /\ cur <= sa)
  <2> HIDE DEF sa, sb, kd, df
  <2>1. CASE a <= b
    <3>1. x >= 0 /\ d >= 0 /\ x - df \in 0..(f - 1)
      BY <1>3, <1>5, <2>1
    <3>2. df <= x
      BY <1>2, <1>6, <3>1
    <3>3. 0 <= kd /\ kd <= df /\ df <= sb - sa
      BY <1>2, <1>8, <3>1, <3>2
    <3>4. sa <= sa + kd /\ sa + kd <= sb
      BY <1>2, <1>6, <3>3, BetweenEnds
    <3> QED
      BY <1>1, <1>7, <2>1, <3>4
  <2>2. CASE a > b
    <3>1. x < 0 /\ d <= 0 /\ df - x \in 0..(f - 1)
      BY <1>4, <1>5, <2>2
    <3>2. x <= df
      BY <1>2, <1>6, <3>1
    <3>3. kd <= 0 /\ df <= kd /\ sb - sa <= df
      BY <1>2, <1>8, <3>1, <3>2
    <3>4. sb <= sa + kd /\ sa + kd <= sa
      BY <1>2, <1>6, <3>3, BetweenEnds
    <3> QED
      BY <1>1, <1>7, <2>2, <3>4
  <2> QED
    BY <1>1, <2>1, <2>2
<1>10. c \in Int /\ r \in 0..(s - 1) /\ cur = cs + r /\ cs \in Int
  <2>1. c \in Int
    BY <1>1, <1>7
  <2>2. r \in 0..(s - 1)
    BY <1>1, <1>7
  <2>3. cur = s * c + r
    <3>1. \A y \in Int, z \in Nat \ {0} : y = z * (y \div z) + (y % z)
      OBVIOUS
    <3> QED
      BY <1>1, <1>7, <3>1
  <2> HIDE DEF c, r
  <2>4. s * c = cs /\ cs \in Int
    BY <1>1, <2>1
  <2> QED
    BY <2>1, <2>2, <2>3, <2>4
<1> HIDE DEF c, r
\* what is between two colors shows as one between them
<1>11. ASSUME NEW e \in Nat PROVE /\ e * s <= cur => e <= c
                                  /\ cur <= e * s => c <= e
  <2> DEFINE es == e * s
  <2>1. es \in Int
    BY <1>1
  <2>2. ASSUME c <= e - 1 PROVE cs <= es - s
    <3>1. cs <= (e - 1) * s
      BY <1>1, <1>10, <2>2, ScaledOrder
    <3>2. (e - 1) * s = es - s
      BY <1>1
    <3> QED
      BY <3>1, <3>2
  <2>3. ASSUME e + 1 <= c PROVE es + s <= cs
    <3>1. (e + 1) * s <= cs
      BY <1>1, <1>10, <2>3, ScaledOrder
    <3>2. (e + 1) * s = es + s
      BY <1>1
    <3> QED
      BY <3>1, <3>2
  <2> HIDE DEF es, cs
  <2>4. es <= cur => e <= c
    BY <1>1, <1>10, <2>1, <2>2
  <2>5. cur <= es => c <= e
    BY <1>1, <1>10, <2>1, <2>3
  <2> QED
    BY <2>4, <2>5 DEF es
<1>12. (a <= b => a <= c /\ c <= b) /\ (a > b => b <= c /\ c <= a)
  BY <1>1, <1>9, <1>11
<1>13. k = 0 => c = a
  <2> SUFFICES ASSUME k = 0 PROVE c = a
    OBVIOUS
  <2>1. kd = 0
    BY <1>5
  <2>2. cur = sa
    <3> HIDE DEF sa, kd
    <3> QED
      BY <1>2, <1>7, <2>1
  <2>3. a <= c /\ c <= a
    BY <1>1, <1>2, <1>11, <2>2
  <2> QED
    BY <1>1, <1>10, <2>3
<1> DEFINE exact == a * (f - k) + b * k
           y == c * f - exact
           u == x - df
           ku == k * u
           rf == r * f
           sf == s * f
           ys == y * s
<1>14. y \in Int /\ ku \in Int /\ rf \in Int /\ sf \in Int /\ u \in Int /\ ys \in Int
  <2>1. y \in Int
    BY <1>1, <1>10
  <2>2. u \in Int
    BY <1>2, <1>6
  <2> HIDE DEF y, u
  <2> QED
    BY <1>1, <1>10, <2>1, <2>2
<1>15. ys = -ku - rf
  <2>1. c * s + r = a * s + k * d
    BY <1>7, <1>10
  <2>2. (c * f - (a * (f - k) + b * k)) * s = -(k * ((b - a) * s - d * f)) - r * f
    BY <1>1, <1>5, <1>10, <2>1, FadeDistance
  <2> QED
    BY <2>2 DEF x
<1>16. 0 <= rf /\ rf <= sf - f
  <2>1. 0 * f <= r * f /\ r * f <= (s - 1) * f
    BY <1>1, <1>10, ScaledOrder
  <2>2. 0 * f = 0 /\ (s - 1) * f = sf - f
    BY <1>1
  <2> QED
    BY <2>1, <2>2
<1>17. ku <= sf - s /\ -ku <= sf - s
  <2>1. ASSUME NEW v \in Nat, v <= f - 1 PROVE k * v \in Nat /\ k * v <= sf - s
    <3>1. k * v <= (f - 1) * v /\ 0 * v <= k * v
      BY <2>1, ScaledOrder
    <3>2. v * (f - 1) <= s * (f - 1)
      BY <1>1, <2>1, ScaledOrder
    <3>3. v * (f - 1) = (f - 1) * v /\ s * (f - 1) = sf - s /\ 0 * v = 0
      BY <1>1
    <3>4. k * v \in Int /\ (f - 1) * v \in Int
      OBVIOUS
    <3> HIDE DEF sf
    <3> QED
      BY <1>1, <1>14, <3>1, <3>2, <3>3, <3>4
  <2>2. (u \in Nat /\ u <= f - 1) \/ (-u \in Nat /\ -u <= f - 1)
    <3> HIDE DEF df
    <3> QED
      BY <1>2, <1>5, <1>6
  <2>3. k * (-u) = -ku
    <3> HIDE DEF u
    <3> QED
      BY <1>14 DEF ku
  <2> HIDE DEF u
  <2>4. CASE u \in Nat /\ u <= f - 1
    <3>1. ku \in Nat /\ ku <= sf - s
      BY <2>1, <2>4
    <3> HIDE DEF ku, sf
    <3> QED
      BY <1>1, <1>14, <3>1
  <2>5. CASE -u \in Nat /\ -u <= f - 1
    <3>1. k * (-u) \in Nat /\ k * (-u) <= sf - s
      BY <2>1, <2>5
    <3> HIDE DEF ku, sf
    <3> QED
      BY <1>1, <1>14, <2>3, <3>1
  <2> QED
    BY <2>2, <2>4, <2>5
\* a distance of two shades or more would be 2sf, scaled
<1>18. y <= 2 * f - 1
  <2> SUFFICES ASSUME 2 * f <= y PROVE FALSE
    BY <1>14
  <2>1. (2 * f) * s <= ys
    BY <1>1, <1>14, ScaledOrder
  <2>2. (2 * f) * s = 2 * sf
    BY <1>1
  <2>3. sf >= s
    <3>1. 1 * s <= f * s
      BY <1>1, ScaledOrder
    <3>2. 1 * s = s /\ f * s = sf
      BY <1>1
    <3> QED
      BY <3>1, <3>2
  <2> HIDE DEF ys, ku, rf, sf
  <2> QED
    BY <1>1, <1>14, <1>15, <1>16, <1>17, <2>1, <2>2, <2>3
<1>19. 1 - 2 * f <= y
  <2> SUFFICES ASSUME y <= -(2 * f) PROVE FALSE
    BY <1>14
  <2>1. ys <= (-(2 * f)) * s
    BY <1>1, <1>14, ScaledOrder
  <2>2. (-(2 * f)) * s = -(2 * sf)
    BY <1>1
  <2> HIDE DEF ys, ku, rf, sf
  <2> QED
    BY <1>1, <1>14, <1>15, <1>16, <1>17, <2>1, <2>2
<1>20. P!Fades(c, a, b, k, f)
  <2>1. c * f - (a * (f - k) + b * k) \in (1 - 2 * f)..(2 * f - 1)
    <3>1. y \in (1 - 2 * f)..(2 * f - 1)
      <4> HIDE DEF y
      <4> QED
        BY <1>14, <1>18, <1>19
    <3> QED
      BY <3>1
  <2>2. c \in (IF a <= b THEN a..b ELSE b..a)
    BY <1>1, <1>10, <1>12
  <2> QED
    BY <1>13, <2>1, <2>2 DEF P!Fades
<1>21. c \in Colors
  BY <1>1, <1>10, <1>12 DEF Colors
<1> QED
  BY <1>20, <1>21 DEF c

-----------------------------------------------------------------------------
(* What a task plays.                                                      *)

\* two sequences with the same durations
LEMMA UntilSame ==
  ASSUME NEW s, NEW v, NEW n \in Nat, \A i \in 1..n : s[i].frames = v[i].frames
  PROVE  \A j \in 0..n : Until(s, j) = Until(v, j)
<1> DEFINE S == {j \in Nat : j <= n => Until(s, j) = Until(v, j)}
<1>1. 0 \in S
  BY UntilStep
<1>2. ASSUME NEW j \in Nat, j \in S PROVE j + 1 \in S
  <2> SUFFICES ASSUME j + 1 <= n PROVE Until(s, j + 1) = Until(v, j + 1)
    OBVIOUS
  <2>1. j + 1 \in 1..n /\ Until(s, j) = Until(v, j)
    BY <1>2
  <2>2. Until(s, j + 1) = Until(s, j) + s[j + 1].frames
    BY UntilStep
  <2>3. Until(v, j + 1) = Until(v, j) + v[j + 1].frames
    BY UntilStep
  <2> QED
    BY <2>1, <2>2, <2>3
<1>3. Nat \subseteq S
  <2> HIDE DEF S
  <2> QED
    BY <1>1, <1>2, SetInduction
<1> QED
  BY <1>3

LEMMA UntilOfPlayer ==
  ASSUME NEW s, NEW j
  PROVE  P!Until(s, j) = Until(s, j)
BY DEF P!Until, Until

\* the frames of a step are told apart from those of the other steps
LEMMA StepAtIs ==
  ASSUME NEW s, NEW n \in Nat, DOMAIN s = 1..n, \A i \in 1..n : s[i].frames \in Nat \ {0},
         NEW j \in 1..n, NEW k \in 0..(s[j].frames - 1)
  PROVE  P!StepAt(s, Until(s, j - 1) + k + 1) = j
<1> DEFINE e == Until(s, j - 1) + k + 1
           In(i) == Until(s, i - 1) < e /\ e <= Until(s, i)
<1>1. \A i \in 0..n : Until(s, i) \in Nat
  BY UntilGrows
<1>2. \A i, m \in 0..n : i <= m => Until(s, i) <= Until(s, m)
  BY UntilGrows
<1>3. j - 1 \in 0..n /\ j \in 0..n /\ s[j].frames \in Nat /\ k \in Nat
  OBVIOUS
<1>4. Until(s, j) = Until(s, j - 1) + s[j].frames
  <2>1. j - 1 \in Nat /\ (j - 1) + 1 = j
    OBVIOUS
  <2> QED
    BY <2>1, UntilStep
<1>5. e \in Nat /\ In(j)
  <2> DEFINE u == Until(s, j - 1)
             f == s[j].frames
  <2>1. u \in Nat /\ f \in Nat /\ k \in 0..(f - 1) /\ Until(s, j) = u + f
    BY <1>1, <1>3, <1>4
  <2> HIDE DEF u, f
  <2>2. u + k + 1 \in Nat /\ u < u + k + 1 /\ u + k + 1 <= u + f
    BY <2>1
  <2> QED
    BY <2>1, <2>2 DEF u
<1>6. ASSUME NEW i \in 1..n, In(i) PROVE i = j
  <2>1. i \in 0..n /\ i - 1 \in 0..n
    OBVIOUS
  <2>2. CASE i < j
    <3>1. i <= j - 1
      BY <2>2
    <3>2. Until(s, i) <= Until(s, j - 1)
      BY <1>2, <1>3, <2>1, <3>1
    <3> HIDE DEF e
    <3> QED
      BY <1>1, <1>3, <1>5, <1>6, <2>1, <3>2
  <2>3. CASE i > j
    <3>1. j <= i - 1
      BY <2>3
    <3>2. Until(s, j) <= Until(s, i - 1)
      BY <1>2, <1>3, <2>1, <3>1
    <3> HIDE DEF e
    <3> QED
      BY <1>1, <1>3, <1>5, <1>6, <2>1, <3>2
  <2> QED
    BY <2>2, <2>3
<1>7. P!StepAt(s, e) = CHOOSE i \in 1..n : In(i)
  BY UntilOfPlayer DEF P!StepAt
<1> HIDE DEF In
<1>8. (CHOOSE i \in 1..n : In(i)) = j
  BY <1>5, <1>6
<1> QED
  BY <1>7, <1>8

ProgramOf(t) ==
  [j \in DOMAIN t.steps |-> [color |-> t.steps[j].color, frames |-> t.steps[j].frames,
                             fade |-> t.steps[j].fade]]

ElapsedOf(t) == Until(t.steps, t.stepCnt) + t.progression

LEMMA PlayingIs ==
  ASSUME NEW t, NEW c
  PROVE  Playing(t, c) =
           [program |-> ProgramOf(t), repeating |-> t.repeating,
            mode |-> IF t.state = "stopped" THEN "off" ELSE t.state,
            elapsed |-> IF t.state = "stopped" THEN 0 ELSE ElapsedOf(t),
            shown |-> c]
BY DEF Playing, ProgramOf, ElapsedOf

LEMMA ProgramIs ==
  ASSUME NEW t, WellFormed(t)
  PROVE  LET p == ProgramOf(t) IN
         /\ DOMAIN p = 1..Len(t.steps) /\ Len(p) = Len(t.steps) /\ Len(t.steps) \in Nat
         /\ p = << >> <=> t.steps = << >>
         /\ \A j \in 1..Len(t.steps) :
              /\ p[j] = [color |-> t.steps[j].color, frames |-> t.steps[j].frames,
                         fade |-> t.steps[j].fade]
              /\ p[j].color = t.steps[j].color /\ p[j].frames = t.steps[j].frames
              /\ p[j].fade = t.steps[j].fade
              /\ t.steps[j].color \in Colors /\ t.steps[j].fade \in BOOLEAN
              /\ t.steps[j].frames \in Nat \ {0} /\ t.steps[j].frames <= Scale
         /\ \A j \in 0..Len(t.steps) :
              Until(p, j) = Until(t.steps, j) /\ Until(p, j) \in Nat
<1> DEFINE s == t.steps
           n == Len(s)
           p == ProgramOf(t)
           Part(x) == [color |-> x.color, frames |-> x.frames, fade |-> x.fade]
<1>1. s \in Seq(StepType) /\ n \in Nat /\ DOMAIN s = 1..n
  BY LenProperties DEF WellFormed, TaskType
<1>2. p = [j \in 1..n |-> Part(s[j])]
  BY <1>1 DEF ProgramOf
<1>3. \A j \in 1..n : /\ p[j] = Part(s[j])
                      /\ p[j].color = s[j].color /\ p[j].frames = s[j].frames
                      /\ p[j].fade = s[j].fade
  BY <1>2
<1>4. p \in Seq({Part(s[j]) : j \in 1..n})
  <2> DEFINE Q == {Part(s[j]) : j \in 1..n}
  <2>1. \A j \in 1..n : Part(s[j]) \in Q
    OBVIOUS
  <2> HIDE DEF Part, Q
  <2>2. p \in [1..n -> Q]
    BY <1>2, <2>1
  <2> HIDE DEF p, n
  <2>3. p \in Seq(Q)
    BY <1>1, <2>2
  <2> QED
    BY <2>3 DEF Q
<1>5. DOMAIN p = 1..n
  BY <1>2
<1>6. Len(p) = n
  BY <1>1, <1>4, <1>5, LenProperties
<1>7. p = << >> <=> s = << >>
  BY <1>1, <1>4, <1>6, EmptySeq
<1>8. ASSUME NEW j \in 1..n
      PROVE  s[j].color \in Colors /\ s[j].fade \in BOOLEAN /\ s[j].frames \in Nat \ {0}
             /\ s[j].frames <= Scale
  <2>1. s[j] \in StepType
    BY <1>1, ElementOfSeq
  <2>2. s[j].color \in Colors /\ s[j].fade \in BOOLEAN /\ s[j].frames \in Frames \union {1}
    BY <2>1 DEF StepType
  <2>3. \A f \in Frames \union {1} : f \in Nat \ {0} /\ f <= Scale
    BY StepAssumption, ScaleAssumption
  <2> QED
    BY <2>2, <2>3
<1> HIDE DEF p, n, Part
<1>9. \A j \in 0..n : Until(p, j) = Until(s, j)
  BY <1>1, <1>3, UntilSame
<1>10. \A j \in 0..n : Until(s, j) \in Nat
  BY <1>1, <1>8, UntilGrows
<1> QED
  BY <1>1, <1>3, <1>5, <1>6, <1>7, <1>8, <1>9, <1>10 DEF p, n, Part

\* what is kept of a fade besides the delta: the color is the one the step began
\* with plus a delta per frame, and the last step of a one-shot does not fade
ColorKept(t) ==
  /\ t.state = "starting" => t.stepCnt = 0
  /\ ~t.repeating /\ t.steps # << >> => t.steps[Len(t.steps)].delta = 0
  /\ t.state = "running" =>
       /\ t.progression >= 1
       /\ t.cur = Step(t).color * Scale
                    + (t.progression - 1) * (IF Step(t).fade THEN Step(t).delta ELSE 0)

\* updateTask, case by case
LEMMA UpdateIs ==
  ASSUME NEW t, WellFormed(t), WithinStep(t), t.state # "stopped"
  PROVE  LET u == updateTask(t)
             j == t.stepCnt + 1
         IN
         /\ t.state = "starting" =>
              /\ u.state = "running" /\ u.stepCnt = t.stepCnt
              /\ u.progression = t.progression + 1 /\ u.cur = Step(t).color * Scale
         /\ t.state = "running" /\ StepOver(t) =>
              /\ u.progression = 1
              /\ j < Len(t.steps) => u.stepCnt = j /\ u.state = "running"
              /\ j = Len(t.steps) /\ t.repeating => u.stepCnt = 0 /\ u.state = "running"
              /\ j = Len(t.steps) /\ ~t.repeating =>
                   u.stepCnt = t.stepCnt /\ u.state = "stopped"
              /\ u.cur = t.steps[u.stepCnt + 1].color * Scale
         /\ t.state = "running" /\ ~StepOver(t) =>
              /\ u.state = "running" /\ u.stepCnt = t.stepCnt
              /\ u.progression = t.progression + 1
              /\ u.cur = t.cur + (IF Step(t).fade THEN Step(t).delta ELSE 0)
<1> DEFINE u == updateTask(t)
           j == t.stepCnt + 1
           n == Len(t.steps)
<1>1. /\ t \in TaskType /\ t.steps # << >> /\ n \in Nat /\ t.stepCnt < n
      /\ t.stepCnt \in Nat /\ t.progression \in Nat /\ t.cur \in Int
      /\ Step(t).color * Scale \in Int /\ Step(t).delta \in Int /\ Step(t).fade \in BOOLEAN
  <2>1. t.steps # << >>
    <3>1. NoTask(t.cur).state = "stopped"
      BY DEF NoTask
    <3> QED
      BY <3>1 DEF WellFormed
  <2>2. Step(t).color \in Int /\ Step(t).delta \in Int /\ Step(t).fade \in BOOLEAN
    <3>1. Step(t) \in StepType
      BY <2>1, StepFrames
    <3> QED
      BY <3>1, ScaleAssumption DEF StepType, Colors
  <2>3. Scale \in Int
    BY ScaleAssumption
  <2> QED
    BY <2>1, <2>2, <2>3 DEF WellFormed, TaskType
<1>2. CASE t.state = "starting"
  <2> DEFINE a == [t EXCEPT !.state = "running"]
             b == [a EXCEPT !.cur = Step(t).color * Scale]
             v == [b EXCEPT !.progression = (b.progression + 1) % Range32]
  <2>1. Step(a) = Step(t)
    BY <1>1 DEF Step, TaskType
  <2>2. u = v
    BY <1>2, <2>1 DEF updateTask, AtColor
  <2>3. /\ v.state = "running" /\ v.stepCnt = t.stepCnt
        /\ v.progression = (t.progression + 1) % Range32 /\ v.cur = Step(t).color * Scale
    BY <1>1 DEF TaskType
  <2>4. (t.progression + 1) % Range32 = t.progression + 1
    <3>1. t.progression = 0
      BY <1>1, <1>2 DEF WithinStep, AtRest
    <3>2. (0 + 1) % Range32 = 0 + 1
      BY WrapIs
    <3> QED
      BY <3>1, <3>2
  <2> HIDE DEF u, v
  <2> QED
    BY <1>2, <2>2, <2>3, <2>4 DEF u
<1>3. CASE t.state = "running" /\ StepOver(t)
  <2> DEFINE w0 == [t EXCEPT !.stepCnt = t.stepCnt + 1, !.progression = 0]
             w == Wrapped(w0)
             b == [w EXCEPT !.cur = Step(w).color * Scale]
             v == [b EXCEPT !.progression = (b.progression + 1) % Range32]
  <2>1. u = v
    BY <1>3 DEF updateTask, AtColor
  <2>2. /\ DOMAIN w0 = DOMAIN t
        /\ w0.stepCnt = j /\ w0.progression = 0 /\ w0.state = "running" /\ w0.steps = t.steps
        /\ w0.repeating = t.repeating
    BY <1>1, <1>3 DEF TaskType
  <2> HIDE DEF w0
  <2>3. /\ DOMAIN w = DOMAIN t /\ w.progression = 0 /\ w.steps = t.steps
        /\ j < n => w.stepCnt = j /\ w.state = "running"
        /\ j = n /\ t.repeating => w.stepCnt = 0 /\ w.state = "running"
        /\ j = n /\ ~t.repeating => w.stepCnt = t.stepCnt /\ w.state = "stopped"
    <3>1. DOMAIN t = {"lamp_nr", "steps", "stepCnt", "progression", "state", "repeating", "cur"}
      BY <1>1 DEF TaskType
    <3>2. CASE j < n
      <4>1. w = w0
        BY <2>2, <3>2 DEF Wrapped
      <4> HIDE DEF w
      <4> QED
        BY <1>1, <2>2, <3>2, <4>1
    <3>3. CASE j = n /\ t.repeating
      <4>1. w = [w0 EXCEPT !.stepCnt = 0]
        BY <1>1, <2>2, <3>3 DEF Wrapped
      <4> HIDE DEF w
      <4> QED
        BY <1>1, <2>2, <3>1, <3>3, <4>1
    <3>4. CASE j = n /\ ~t.repeating
      <4>1. w = [w0 EXCEPT !.stepCnt = w0.stepCnt - 1, !.state = "stopped"]
        BY <1>1, <2>2, <3>4 DEF Wrapped
      <4>2. w0.stepCnt - 1 = t.stepCnt
        BY <1>1, <2>2
      <4> HIDE DEF w
      <4> QED
        BY <1>1, <2>2, <3>1, <3>4, <4>1, <4>2
    <3>5. j < n \/ j = n
      BY <1>1
    <3> HIDE DEF w
    <3> QED
      BY <3>2, <3>3, <3>4, <3>5
  <2> HIDE DEF w
  <2>4. /\ v.progression = 1 /\ v.stepCnt = w.stepCnt /\ v.state = w.state
        /\ v.cur = t.steps[w.stepCnt + 1].color * Scale
    <3>1. DOMAIN w = {"lamp_nr", "steps", "stepCnt", "progression", "state", "repeating", "cur"}
      BY <1>1, <2>3 DEF TaskType
    <3>2. Step(w) = t.steps[w.stepCnt + 1]
      BY <2>3 DEF Step
    <3>3. (0 + 1) % Range32 = 1
      BY WrapIs
    <3> QED
      BY <2>3, <3>1, <3>2, <3>3
  <2> HIDE DEF u, v
  <2> QED
    BY <1>1, <1>3, <2>1, <2>3, <2>4 DEF u
<1>4. CASE t.state = "running" /\ ~StepOver(t)
  <2> DEFINE b == IF Step(t).fade THEN [t EXCEPT !.cur = t.cur + Step(t).delta] ELSE t
             v == [b EXCEPT !.progression = (b.progression + 1) % Range32]
  <2>1. u = v
    BY <1>4 DEF updateTask
  <2>2. /\ b \in TaskType /\ b.state = t.state /\ b.stepCnt = t.stepCnt
        /\ b.progression = t.progression
        /\ b.cur = t.cur + (IF Step(t).fade THEN Step(t).delta ELSE 0)
    <3>1. t.cur + Step(t).delta \in Int /\ t.cur + 0 = t.cur
      BY <1>1
    <3>2. CASE Step(t).fade
      BY <1>1, <3>1, <3>2 DEF TaskType
    <3>3. CASE ~Step(t).fade
      BY <1>1, <3>1, <3>3
    <3> QED
      BY <3>2, <3>3
  <2> HIDE DEF b
  <2>3. /\ v.state = b.state /\ v.stepCnt = b.stepCnt
        /\ v.progression = (b.progression + 1) % Range32 /\ v.cur = b.cur
    BY <2>2 DEF TaskType
  <2>4. (t.progression + 1) % Range32 = t.progression + 1
    <3>1. Step(t).frames \in Nat /\ Step(t).frames < Range32
      BY <1>1, StepFrames
    <3>2. t.progression < Step(t).frames
      BY <1>1, <1>4, <3>1 DEF WithinStep, StepOver
    <3> QED
      BY <1>1, <3>1, <3>2, WrapIs
  <2> HIDE DEF u, v
  <2> QED
    BY <1>4, <2>1, <2>2, <2>3, <2>4 DEF u
<1> QED
  BY <1>2, <1>3, <1>4

\* the delta of a fading step leads to the color of its follower
LEMMA DeltaLeads ==
  ASSUME NEW t, WellFormed(t), NEW d, DeltasMatch(t, d), ColorKept(t),
         NEW j \in 1..Len(t.steps), t.steps[j].fade
  PROVE  LET b == P!Follower(ProgramOf(t), t.repeating, j) IN
         /\ b \in Colors
         /\ t.steps[j].delta = Quotient((b - t.steps[j].color) * Scale, t.steps[j].frames)
<1> DEFINE n == Len(t.steps)
           p == ProgramOf(t)
           b == P!Follower(p, t.repeating, j)
<1>1. /\ n \in Nat /\ Len(p) = n /\ t.repeating \in BOOLEAN
      /\ \A i \in 1..n : p[i].color = t.steps[i].color /\ t.steps[i].color \in Colors
  BY ProgramIs DEF WellFormed, TaskType
<1>2. CASE j < n \/ t.repeating
  <2>1. NextStep(t, j) \in 1..n
    BY <1>1 DEF NextStep
  <2>2. b = t.steps[NextStep(t, j)].color
    <3>1. b = p[NextStep(t, j)].color
      <4> HIDE DEF p
      <4> QED
        BY <1>1, <1>2 DEF P!Follower, NextStep
    <3> QED
      BY <1>1, <2>1, <3>1
  <2>3. t.steps[j].delta = Delta(t, j)
    BY <1>2 DEF DeltasMatch
  <2> QED
    BY <1>1, <2>1, <2>2, <2>3 DEF Delta
<1>3. CASE ~(j < n \/ t.repeating)
  <2>1. j = n /\ ~t.repeating /\ t.steps # << >>
    BY <1>1, <1>3, EmptySeq
  <2>2. t.steps[j].delta = 0
    BY <2>1 DEF ColorKept
  <2>3. b = t.steps[j].color
    <3>1. b = p[j].color
      <4> HIDE DEF p
      <4> QED
        BY <1>1, <1>3 DEF P!Follower
    <3> QED
      BY <1>1, <3>1
  <2>4. ASSUME NEW a \in Int, NEW f \in Nat \ {0} PROVE Quotient((a - a) * Scale, f) = 0
    <3>1. (a - a) * Scale = 0
      BY ScaleAssumption
    <3>2. 0 \div f = 0
      OBVIOUS
    <3> QED
      BY <3>1, <3>2 DEF Quotient
  <2>5. t.steps[j].color \in Colors /\ t.steps[j].color \in Int /\ t.steps[j].frames \in Nat \ {0}
    <3>1. Colors \subseteq Int
      BY ScaleAssumption DEF Colors
    <3> QED
      BY <1>1, <3>1, ProgramIs
  <2> HIDE DEF b
  <2> QED
    BY <2>2, <2>3, <2>4, <2>5 DEF b
<1> QED
  BY <1>2, <1>3

LEMMA VisibleIs ==
  ASSUME NEW t, t.cur \div Scale \in Colors
  PROVE  Visible(t) = t.cur \div Scale
BY ScaleAssumption DEF Visible, Colors

\* a running task shows what its program asks for
LEMMA ShowsProgram ==
  ASSUME NEW t, WellFormed(t), WithinStep(t), NEW d, DeltasMatch(t, d), ColorKept(t),
         t.state = "running"
  PROVE  P!Shows(ProgramOf(t), t.repeating, ElapsedOf(t), Visible(t))
<1> DEFINE s == t.steps
           n == Len(s)
           p == ProgramOf(t)
           j == t.stepCnt + 1
           k == t.progression - 1
           a == s[j].color
           f == s[j].frames
           b == P!Follower(p, t.repeating, j)
<1>1. s # << >>
  <2>1. NoTask(t.cur).state = "stopped"
    BY DEF NoTask
  <2> QED
    BY <2>1 DEF WellFormed
<1>2. /\ n \in Nat /\ j \in 1..n /\ j - 1 = t.stepCnt /\ t.progression \in Nat
      /\ DOMAIN p = 1..n
      /\ \A i \in 1..n : p[i].frames \in Nat \ {0}
      /\ p[j].color = a /\ p[j].frames = f /\ p[j].fade = s[j].fade
      /\ a \in Colors /\ f \in Nat \ {0} /\ f <= Scale /\ s[j].fade \in BOOLEAN
      /\ Until(s, t.stepCnt) = Until(p, t.stepCnt) /\ Until(p, t.stepCnt) \in Nat
  <2>1. j \in 1..n /\ t.stepCnt \in 0..n /\ j - 1 = t.stepCnt /\ t.progression \in Nat
    BY <1>1 DEF WellFormed, TaskType
  <2> HIDE DEF j
  <2> QED
    BY <2>1, ProgramIs
<1>3. k \in 0..(f - 1) /\ t.progression = k + 1 /\ k \in Int
  <2>1. t.progression >= 1 /\ t.progression <= f
    BY <1>1 DEF ColorKept, WithinStep, Step
  <2> HIDE DEF f
  <2> QED
    BY <1>2, <2>1
<1>4. t.cur = a * Scale + k * (IF s[j].fade THEN s[j].delta ELSE 0)
  BY DEF ColorKept, Step
<1>5. ElapsedOf(t) = Until(p, j - 1) + k + 1
  <2> HIDE DEF p, k, j
  <2> QED
    BY <1>2, <1>3 DEF ElapsedOf
<1> HIDE DEF p, j, k
<1>6. P!StepAt(p, ElapsedOf(t)) = j
  <2>1. k \in 0..(p[j].frames - 1)
    BY <1>2, <1>3
  <2> HIDE DEF n
  <2>2. P!StepAt(p, Until(p, j - 1) + k + 1) = j
    BY <1>2, <2>1, StepAtIs
  <2> QED
    BY <1>5, <2>2
<1>7. ElapsedOf(t) - P!Until(p, j - 1) - 1 = k
  <2>1. P!Until(p, j - 1) = Until(p, j - 1) /\ Until(p, j - 1) \in Nat
    BY <1>2, UntilOfPlayer
  <2>2. \A x, y \in Int : x + y + 1 - x - 1 = y
    OBVIOUS
  <2> QED
    BY <1>3, <1>5, <2>1, <2>2
<1>8. IF p[j].fade THEN P!Fades(Visible(t), p[j].color, b, k, p[j].frames)
                   ELSE Visible(t) = p[j].color
  <2>1. CASE s[j].fade
    <3>1. b \in Colors /\ s[j].delta = Quotient((b - a) * Scale, f)
      BY <1>2, <2>1, DeltaLeads DEF p
    <3> HIDE DEF b, a, f
    <3>2. t.cur = a * Scale + k * Quotient((b - a) * Scale, f)
      BY <1>4, <2>1, <3>1
    <3>3. P!Fades(t.cur \div Scale, a, b, k, f) /\ t.cur \div Scale \in Colors
      BY <1>2, <1>3, <3>1, <3>2, FadeIs
    <3>4. Visible(t) = t.cur \div Scale
      BY <3>3, VisibleIs
    <3> QED
      BY <1>2, <2>1, <3>3, <3>4
  <2>2. CASE ~s[j].fade
    <3> HIDE DEF a
    <3>1. a \in Nat /\ Scale \in Nat \ {0}
      BY <1>2, ScaleAssumption DEF Colors
    <3>2. k * 0 = 0
      BY <1>3
    <3>3. t.cur = a * Scale
      BY <1>4, <2>2, <3>1, <3>2
    <3>4. t.cur \div Scale = a
      BY <3>1, <3>3
    <3>5. Visible(t) = a
      BY <1>2, <3>4, VisibleIs
    <3> QED
      BY <1>2, <2>2, <3>5
  <2> QED
    BY <1>2, <2>1, <2>2
<1> QED
  BY <1>6, <1>7, <1>8 DEF P!Shows, p

\* what Player keeps of a lamp
PlayerRecord(pr, r, m, e, c) ==
  [program |-> pr, repeating |-> r, mode |-> m, elapsed |-> e, shown |-> c]

\* the updates Player makes of a lamp
Moved(p, m, e) == [p EXCEPT !.mode = m, !.elapsed = e]
MovedTo(p, m, e, c) == [p EXCEPT !.mode = m, !.elapsed = e, !.shown = c]
Reprogrammed(p, pr, r, m) == [p EXCEPT !.program = pr, !.repeating = r, !.mode = m]

LEMMA PlayerUpdates ==
  ASSUME NEW pr, NEW r, NEW m, NEW e, NEW c, NEW p, p = PlayerRecord(pr, r, m, e, c)
  PROVE  /\ \A x, y : Moved(p, x, y) = PlayerRecord(pr, r, x, y, c)
         /\ \A x, y, z : MovedTo(p, x, y, z) = PlayerRecord(pr, r, x, y, z)
         /\ \A x, y, z : Reprogrammed(p, x, y, z) = PlayerRecord(x, y, z, e, c)
<1>1. ASSUME NEW x, NEW y, NEW z
      PROVE  /\ Moved(p, x, y) = PlayerRecord(pr, r, x, y, c)
             /\ MovedTo(p, x, y, z) = PlayerRecord(pr, r, x, y, z)
  <2> DEFINE p1 == [p EXCEPT !.mode = x]
             p2 == [p1 EXCEPT !.elapsed = y]
             p3 == [p2 EXCEPT !.shown = z]
  <2>1. p1 = PlayerRecord(pr, r, x, e, c)
    BY DEF PlayerRecord
  <2>2. p2 = PlayerRecord(pr, r, x, y, c)
    <3> HIDE DEF p1
    <3> QED
      BY <2>1 DEF PlayerRecord
  <2>3. p3 = PlayerRecord(pr, r, x, y, z)
    <3> HIDE DEF p2
    <3> QED
      BY <2>2 DEF PlayerRecord
  <2>4. Moved(p, x, y) = p2 /\ MovedTo(p, x, y, z) = p3
    BY DEF Moved, MovedTo
  <2> HIDE DEF p2, p3
  <2> QED
    BY <2>2, <2>3, <2>4
<1>2. ASSUME NEW x, NEW y, NEW z PROVE Reprogrammed(p, x, y, z) = PlayerRecord(x, y, z, e, c)
  <2> DEFINE p1 == [p EXCEPT !.program = x]
             p2 == [p1 EXCEPT !.repeating = y]
             p3 == [p2 EXCEPT !.mode = z]
  <2>1. p1 = PlayerRecord(x, r, m, e, c)
    BY DEF PlayerRecord
  <2>2. p2 = PlayerRecord(x, y, m, e, c)
    <3> HIDE DEF p1
    <3> QED
      BY <2>1 DEF PlayerRecord
  <2>3. p3 = PlayerRecord(x, y, z, e, c)
    <3> HIDE DEF p2
    <3> QED
      BY <2>2 DEF PlayerRecord
  <2>4. Reprogrammed(p, x, y, z) = p3
    BY DEF Reprogrammed
  <2> HIDE DEF p3
  <2> QED
    BY <2>3, <2>4
<1> QED
  BY <1>1, <1>2

\* a frame moves the counters of a task as its program asks for
LEMMA PlayIs ==
  ASSUME NEW t, WellFormed(t), t.state # "stopped", NEW u, WellFormed(u), WithinStep(u),
         NEW d, DeltasMatch(u, d), ColorKept(u), Kept(t, u), u.state = "running", NEW c,
         LET all == Until(ProgramOf(t), Len(t.steps)) IN
         /\ ElapsedOf(t) < all \/ t.repeating
         /\ ElapsedOf(u) = IF ElapsedOf(t) < all THEN ElapsedOf(t) + 1 ELSE 1
  PROVE  P!Frame(Playing(t, c), Playing(u, Visible(u)))
<1> DEFINE p == Playing(t, c)
           q == Playing(u, Visible(u))
           all == Until(ProgramOf(t), Len(t.steps))
<1>1. /\ p.program = ProgramOf(t) /\ p.repeating = t.repeating /\ p.mode = t.state
      /\ p.elapsed = ElapsedOf(t)
      /\ p = [program |-> ProgramOf(t), repeating |-> t.repeating, mode |-> t.state,
              elapsed |-> ElapsedOf(t), shown |-> c]
  BY PlayingIs
<1>2. ProgramOf(u) = ProgramOf(t) /\ u.repeating = t.repeating
  BY DEF ProgramOf, Kept
<1>3. q = [program |-> ProgramOf(t), repeating |-> t.repeating, mode |-> "running",
           elapsed |-> ElapsedOf(u), shown |-> Visible(u)]
  BY <1>2, PlayingIs
<1>4. P!Until(p.program, Len(p.program)) = all
  BY <1>1, UntilOfPlayer, ProgramIs
<1>5. P!Shows(ProgramOf(t), t.repeating, ElapsedOf(u), Visible(u))
  BY <1>2, ShowsProgram
<1> HIDE DEF p, q, all
<1>6. q = [p EXCEPT !.mode = "running", !.elapsed = ElapsedOf(u), !.shown = q.shown]
  <2>1. p = PlayerRecord(ProgramOf(t), t.repeating, t.state, ElapsedOf(t), c)
    BY <1>1, Zenon DEF PlayerRecord
  <2>2. q = PlayerRecord(ProgramOf(t), t.repeating, "running", ElapsedOf(u), Visible(u))
    BY <1>3, Zenon DEF PlayerRecord
  <2>3. q.shown = Visible(u)
    BY <1>3
  <2>4. q = MovedTo(p, "running", ElapsedOf(u), q.shown)
    BY <2>1, <2>2, <2>3, PlayerUpdates
  <2> QED
    BY <2>4, Zenon DEF MovedTo
<1>7. ElapsedOf(u) = IF p.elapsed < all THEN p.elapsed + 1 ELSE 1
  BY <1>1 DEF all
<1>8. (p.elapsed < all \/ p.repeating) /\ p.mode \in {"starting", "running"}
  <2>1. t.state \in {"starting", "running"}
    BY DEF WellFormed, TaskType
  <2> QED
    BY <1>1, <2>1 DEF all
<1>9. P!Shows(p.program, p.repeating, ElapsedOf(u), q.shown)
  <2>1. q.shown = Visible(u)
    BY <1>3
  <2> QED
    BY <1>1, <1>5, <2>1
<1>10. P!Play(p, q)
  BY <1>4, <1>6, <1>7, <1>8, <1>9, Zenon DEF P!Play
<1> QED
  BY <1>10 DEF P!Frame, p, q

\* updateTask plays the program of a task
LEMMA PlaysOn ==
  ASSUME NEW t, WellFormed(t), WithinStep(t), NEW d, DeltasMatch(t, d), ColorKept(t),
         t.state # "stopped", NEW c
  PROVE  LET u == updateTask(t) IN
         ColorKept(u) /\ P!Frame(Playing(t, c), Playing(u, Visible(u)))
<1> DEFINE u == updateTask(t)
           s == t.steps
           n == Len(s)
           j == t.stepCnt + 1
           T(i) == Until(ProgramOf(t), i)
<1>1. WellFormed(u) /\ WithinStep(u) /\ Kept(t, u) /\ DeltasMatch(u, d)
  BY UpdateGood, SameProgram DEF Kept
<1>2. s # << >> /\ t.state \in {"starting", "running"}
  <2>1. NoTask(t.cur).state = "stopped"
    BY DEF NoTask
  <2> QED
    BY <2>1 DEF WellFormed, TaskType
<1>3. /\ n \in Nat /\ j \in 1..n /\ t.stepCnt \in 0..n /\ t.stepCnt \in Nat /\ t.progression \in Nat
      /\ j - 1 = t.stepCnt /\ t.repeating \in BOOLEAN /\ u.stepCnt \in Nat
      /\ u.stepCnt + 1 \in 1..n
      /\ Step(t) = s[j] /\ Step(u) = s[u.stepCnt + 1]
  <2>1. t.stepCnt < n /\ n \in Nat /\ t.stepCnt \in Nat /\ t.progression \in Nat
        /\ t.repeating \in BOOLEAN
    BY <1>2 DEF WellFormed, TaskType
  <2>2. u.steps = s /\ u.stepCnt < n /\ u.stepCnt \in Nat
    BY <1>1, <1>2 DEF WellFormed, TaskType, Kept
  <2> HIDE DEF u, s, n
  <2> QED
    BY <2>1, <2>2 DEF Step, s
<1>4. \A i \in 1..n : /\ s[i].color \in Colors /\ s[i].frames \in Nat \ {0}
                      /\ s[i].color * Scale \in Int
                      /\ s[i].delta \in Int
                      /\ ProgramOf(t)[i].frames = s[i].frames
                      /\ ProgramOf(t)[i].color = s[i].color
  <2>1. ASSUME NEW i \in 1..n PROVE s[i].delta \in Int
    <3>1. s[i] \in StepType
      BY ElementOfSeq DEF WellFormed, TaskType
    <3> QED
      BY <3>1 DEF StepType
  <2>2. ASSUME NEW a \in Colors PROVE a * Scale \in Int
    BY ScaleAssumption DEF Colors
  <2> QED
    BY <2>1, <2>2, ProgramIs
<1>5. /\ \A i \in 0..n : T(i) \in Nat /\ T(i) = Until(s, i)
      /\ T(0) = 0 /\ T(j) = T(t.stepCnt) + s[j].frames
      /\ j < n => T(j) + s[j + 1].frames = T(j + 1)
  <2>1. \A i \in 0..n : T(i) \in Nat /\ T(i) = Until(s, i)
    BY ProgramIs
  <2>2. T(0) = 0 /\ \A i \in Nat : T(i + 1) = T(i) + ProgramOf(t)[i + 1].frames
    BY UntilStep
  <2>3. j \in Nat /\ (j < n => j + 1 \in 1..n) /\ j = t.stepCnt + 1
    BY <1>3
  <2> HIDE DEF n, s, j, T
  <2>4. T(j) = T(t.stepCnt) + s[j].frames
    BY <1>3, <1>4, <2>2, <2>3
  <2>5. j < n => T(j) + s[j + 1].frames = T(j + 1)
    BY <1>4, <2>2, <2>3
  <2> QED
    BY <2>1, <2>2, <2>4, <2>5
<1>6. \A i \in 0..n : T(i) <= T(n)
  <2>1. \A i \in 1..n : ProgramOf(t)[i].frames \in Nat \ {0}
    BY <1>4
  <2> HIDE DEF n, s
  <2>2. \A i, m \in 0..n : i <= m => T(i) <= T(m)
    BY <1>3, <2>1, UntilGrows
  <2>3. n \in 0..n /\ \A i \in 0..n : i <= n
    BY <1>3
  <2> QED
    BY <2>2, <2>3
<1>7. /\ ElapsedOf(t) = T(t.stepCnt) + t.progression
      /\ ElapsedOf(u) = T(u.stepCnt) + u.progression
  <2>1. u.stepCnt \in 0..n /\ u.steps = s
    BY <1>1, <1>3 DEF Kept
  <2>2. Until(s, t.stepCnt) = T(t.stepCnt) /\ Until(s, u.stepCnt) = T(u.stepCnt)
    <3> HIDE DEF T, u, s, n
    <3> QED
      BY <1>3, <1>5, <2>1
  <2>3. ElapsedOf(t) = Until(s, t.stepCnt) + t.progression
    BY DEF ElapsedOf
  <2>4. ElapsedOf(u) = Until(s, u.stepCnt) + u.progression
    <3> HIDE DEF u, s
    <3> QED
      BY <2>1 DEF ElapsedOf
  <2> QED
    BY <2>2, <2>3, <2>4, Zenon
<1> HIDE DEF T
\* what a step shows in its first frame
<1>8. ASSUME u.progression = 1, u.cur = Step(u).color * Scale
      PROVE  /\ u.progression >= 1
             /\ u.cur = Step(u).color * Scale
                          + (u.progression - 1) * (IF Step(u).fade THEN Step(u).delta ELSE 0)
  <2> DEFINE x == Step(u).color * Scale
             y == IF Step(u).fade THEN Step(u).delta ELSE 0
  <2>1. x \in Int /\ y \in Int
    BY <1>3, <1>4
  <2> HIDE DEF x, y
  <2>2. \A w, z \in Int : w = w + (1 - 1) * z
    OBVIOUS
  <2>3. x = x + (1 - 1) * y
    BY <2>1, <2>2
  <2> QED
    BY <1>8, <2>3 DEF x, y
<1>9. u.steps = s /\ u.repeating = t.repeating
  BY <1>1 DEF Kept
<1>10. ~u.repeating /\ u.steps # << >> => u.steps[Len(u.steps)].delta = 0
  BY <1>9 DEF ColorKept
<1> HIDE DEF u
<1>11. CASE t.state = "starting"
  <2>1. /\ u.state = "running" /\ u.stepCnt = t.stepCnt /\ t.stepCnt = 0 /\ t.progression = 0
        /\ u.progression = 1 /\ u.cur = Step(u).color * Scale
    <3>1. t.progression = 0 /\ t.stepCnt = 0
      BY <1>2, <1>11 DEF WithinStep, AtRest, ColorKept
    <3>2. /\ u.state = "running" /\ u.stepCnt = t.stepCnt
          /\ u.progression = t.progression + 1 /\ u.cur = Step(t).color * Scale
      BY <1>11, UpdateIs DEF u
    <3> QED
      BY <1>3, <3>1, <3>2
  <2>2. ColorKept(u)
    BY <1>8, <1>10, <2>1 DEF ColorKept
  <2>3. ElapsedOf(t) = 0 /\ ElapsedOf(u) = 1 /\ 0 < T(n)
    <3>1. T(j) <= T(n) /\ T(j) \in Nat /\ T(n) \in Nat /\ s[j].frames \in Nat \ {0}
      BY <1>3, <1>4, <1>5, <1>6
    <3> HIDE DEF n, s, j
    <3> QED
      BY <1>5, <1>7, <2>1, <3>1
  <2>4. P!Frame(Playing(t, c), Playing(u, Visible(u)))
    BY <1>1, <2>1, <2>2, <2>3, PlayIs DEF T, u
  <2> QED
    BY <2>2, <2>4 DEF u
<1>12. CASE t.state = "running" /\ StepOver(t)
  <2>1. /\ u.progression = 1
        /\ j < n => u.stepCnt = j /\ u.state = "running"
        /\ j = n /\ t.repeating => u.stepCnt = 0 /\ u.state = "running"
        /\ j = n /\ ~t.repeating => u.stepCnt = t.stepCnt /\ u.state = "stopped"
        /\ u.cur = Step(u).color * Scale
    BY <1>3, <1>12, UpdateIs DEF u
  <2>2. ElapsedOf(t) = T(j)
    BY <1>5, <1>7, <1>3, <1>12 DEF StepOver
  <2>3. CASE j < n \/ t.repeating
    <3>1. u.state = "running" /\ u.stepCnt = IF j < n THEN j ELSE 0
      <4> HIDE DEF j, n
      <4>1. j < n \/ j = n
        BY <1>3
      <4> QED
        BY <2>1, <2>3, <4>1
    <3>2. ColorKept(u)
      BY <1>8, <1>10, <2>1, <3>1 DEF ColorKept
    <3>3. /\ T(j) < T(n) \/ t.repeating
          /\ ElapsedOf(u) = IF T(j) < T(n) THEN T(j) + 1 ELSE 1
      <4>1. CASE j < n
        <5>1. j + 1 \in 0..n /\ j + 1 \in 1..n /\ j \in 0..n /\ n \in 0..n
          BY <1>3, <4>1
        <5>2. T(j) \in Nat /\ T(n) \in Nat /\ T(j + 1) <= T(n) /\ s[j + 1].frames \in Nat \ {0}
              /\ T(j + 1) = T(j) + s[j + 1].frames
          <6> HIDE DEF j, n, s
          <6>1. T(j) \in Nat /\ T(n) \in Nat
            BY <1>5, <5>1
          <6>2. T(j + 1) <= T(n)
            BY <1>6, <5>1
          <6>3. s[j + 1].frames \in Nat \ {0}
            BY <1>4, <5>1
          <6>4. T(j + 1) = T(j) + s[j + 1].frames
            BY <1>4, <1>5, <1>6, <4>1, <5>1
          <6> QED
            BY <6>1, <6>2, <6>3, <6>4
        <5>3. T(j) < T(n)
          <6> HIDE DEF j, n, s
          <6> QED
            BY <5>2
        <5>4. ElapsedOf(u) = T(j) + 1
          BY <1>7, <2>1, <3>1, <4>1
        <5> QED
          BY <5>3, <5>4
      <4>2. CASE j = n
        <5>1. ~(T(n) < T(n))
          <6>1. T(n) \in Nat
            BY <1>3, <1>5
          <6> HIDE DEF n
          <6> QED
            BY <6>1
        <5>2. ElapsedOf(u) = T(0) + 1
          BY <1>7, <1>3, <2>1, <3>1, <4>2
        <5> QED
          <6> HIDE DEF n, j
          <6> QED
            BY <1>3, <1>5, <2>3, <4>2, <5>1, <5>2
      <4> QED
        BY <1>3, <4>1, <4>2
    <3>4. P!Frame(Playing(t, c), Playing(u, Visible(u)))
      BY <1>1, <2>2, <3>1, <3>2, <3>3, PlayIs DEF T, u
    <3> QED
      BY <3>2, <3>4 DEF u
  <2>4. CASE j = n /\ ~t.repeating
    <3>1. u.state = "stopped" /\ u.stepCnt = t.stepCnt
      BY <2>1, <2>4
    <3>2. ColorKept(u)
      BY <1>10, <3>1 DEF ColorKept
    <3>3. Visible(u) = s[n].color
      <4>1. u.cur = s[n].color * Scale
        BY <1>3, <2>1, <2>4, <3>1
      <4>2. s[n].color \in Colors
        BY <1>3, <1>4, <2>4
      <4>3. s[n].color \in Int
        BY <4>2, ScaleAssumption DEF Colors
      <4>4. \A x \in Int, y \in Nat \ {0} : (x * y) \div y = x
        OBVIOUS
      <4>5. u.cur \div Scale = s[n].color
        BY <4>1, <4>3, <4>4, ScaleAssumption
      <4> QED
        BY <4>2, <4>5, VisibleIs
    <3> DEFINE p == Playing(t, c)
               q == Playing(u, Visible(u))
    <3>4. /\ p.program = ProgramOf(t) /\ p.mode = "running" /\ p.repeating = t.repeating
          /\ p.elapsed = T(n)
          /\ p = [program |-> ProgramOf(t), repeating |-> t.repeating, mode |-> "running",
                  elapsed |-> T(n), shown |-> c]
      BY <1>12, <2>2, <2>4, PlayingIs
    <3>5. q = [program |-> ProgramOf(t), repeating |-> t.repeating, mode |-> "off",
               elapsed |-> 0, shown |-> s[n].color]
      <4>1. ProgramOf(u) = ProgramOf(t)
        BY <1>9 DEF ProgramOf
      <4> QED
        BY <1>9, <3>1, <3>3, <4>1, PlayingIs
    <3>6. /\ P!Until(p.program, Len(p.program)) = T(n)
          /\ p.program[Len(p.program)].color = s[n].color
      <4>1. Len(ProgramOf(t)) = n /\ n \in 1..n
        BY <1>3, <2>4, ProgramIs
      <4>2. P!Until(ProgramOf(t), n) = T(n)
        BY UntilOfPlayer DEF T
      <4> QED
        BY <1>4, <3>4, <4>1, <4>2
    <3>7. q = [p EXCEPT !.mode = "off", !.elapsed = 0,
                        !.shown = p.program[Len(p.program)].color]
      <4>1. p = PlayerRecord(ProgramOf(t), t.repeating, "running", T(n), c)
        BY <3>4, Zenon DEF PlayerRecord
      <4>2. q = PlayerRecord(ProgramOf(t), t.repeating, "off", 0, s[n].color)
        BY <3>5, Zenon DEF PlayerRecord
      <4> HIDE DEF p, q, n, s
      <4>3. q = MovedTo(p, "off", 0, p.program[Len(p.program)].color)
        BY <3>6, <4>1, <4>2, PlayerUpdates
      <4> QED
        BY <4>3, Zenon DEF MovedTo
    <3>8. P!End(p, q)
      <4> HIDE DEF p, q
      <4> QED
        BY <2>4, <3>4, <3>6, <3>7, Zenon DEF P!End
    <3>9. P!Frame(p, q)
      BY <3>8, Zenon DEF P!Frame
    <3> QED
      BY <3>2, <3>9 DEF u
  <2>5. j < n \/ j = n
    BY <1>3
  <2> QED
    BY <2>3, <2>4, <2>5
<1>13. CASE t.state = "running" /\ ~StepOver(t)
  <2>1. /\ u.state = "running" /\ u.stepCnt = t.stepCnt
        /\ u.progression = t.progression + 1
        /\ u.cur = t.cur + (IF Step(t).fade THEN Step(t).delta ELSE 0)
    BY <1>13, UpdateIs DEF u
  <2>2. Step(u) = Step(t)
    BY <1>3, <2>1
  <2>3. ColorKept(u)
    <3> DEFINE x == Step(t).color * Scale
               y == IF Step(t).fade THEN Step(t).delta ELSE 0
               k == t.progression
    <3>1. x \in Int /\ y \in Int /\ k \in Nat
      BY <1>3, <1>4
    <3>2. t.cur = x + (k - 1) * y /\ k >= 1
      BY <1>13 DEF ColorKept
    <3>3. u.cur = t.cur + y /\ u.progression = k + 1
      BY <2>1
    <3>4. Step(u).color * Scale = x /\ (IF Step(u).fade THEN Step(u).delta ELSE 0) = y
      BY <2>2
    <3> HIDE DEF x, y, k
    <3>5. (k - 1) * y + y = k * y
      BY <3>1
    <3>6. u.cur = x + ((k - 1) * y + y)
      <4>1. (k - 1) * y \in Int
        BY <3>1
      <4> QED
        BY <3>1, <3>2, <3>3, <4>1
    <3>7. (k + 1) - 1 = k /\ k + 1 >= 1
      BY <3>1
    <3>8. u.cur = x + (u.progression - 1) * y /\ u.progression >= 1
      BY <3>3, <3>5, <3>6, <3>7
    <3> QED
      BY <1>10, <2>1, <3>4, <3>8 DEF ColorKept
  <2>4. ElapsedOf(t) < T(n) /\ ElapsedOf(u) = ElapsedOf(t) + 1
    <3>1. t.progression < s[j].frames
      <4>1. t.progression <= s[j].frames /\ t.progression # s[j].frames
        BY <1>2, <1>3, <1>13 DEF WithinStep, StepOver
      <4>2. s[j].frames \in Nat
        BY <1>3, <1>4
      <4> HIDE DEF s, j
      <4> QED
        BY <1>3, <4>1, <4>2
    <3>2. T(j) <= T(n) /\ T(j) \in Nat /\ T(n) \in Nat /\ T(t.stepCnt) \in Nat
          /\ s[j].frames \in Nat
      <4>1. j \in 0..n /\ n \in 0..n
        BY <1>3
      <4> HIDE DEF s, j, n
      <4> QED
        BY <1>3, <1>4, <1>5, <1>6, <4>1
    <3> HIDE DEF s, j, n
    <3> QED
      BY <1>3, <1>5, <1>7, <2>1, <3>1, <3>2
  <2>5. P!Frame(Playing(t, c), Playing(u, Visible(u)))
    BY <1>1, <2>1, <2>3, <2>4, PlayIs DEF T, u
  <2> QED
    BY <2>3, <2>5 DEF u
<1> QED
  BY <1>2, <1>11, <1>12, <1>13

-----------------------------------------------------------------------------
(* The lamps and the entries of the array.                                 *)

TaskIn(A, l) == IF Owner(A, l) = {} THEN NoTask(0) ELSE A[Min(Owner(A, l))]

LEMMA TaskInIs ==
  ASSUME NEW A, GoodArray(A), NEW l \in Lamps
  PROVE  /\ \A k \in 1..N : A[k].lamp_nr = l =>
              /\ TaskIn(A, l) = A[k] /\ A[k].steps # << >> /\ Owner(A, l) = {k}
              /\ Running(A, l) <=> A[k].state # "stopped"
         /\ (\A k \in 1..N : A[k].lamp_nr # l) => TaskIn(A, l) = NoTask(0) /\ ~Running(A, l)
<1>1. ASSUME NEW k \in 1..N, A[k].lamp_nr = l
      PROVE  /\ TaskIn(A, l) = A[k] /\ A[k].steps # << >> /\ Owner(A, l) = {k}
             /\ Running(A, l) <=> A[k].state # "stopped"
  <2>1. k \in Owner(A, l)
    BY <1>1 DEF Owner
  <2>2. Owner(A, l) = {k}
    BY <2>1, OneOwner DEF GoodArray
  <2>3. Min({k}) = k
    BY DEF Min
  <2>4. A[k].steps # << >>
    <3>1. NoTask(A[k].cur).lamp_nr = Destroyed
      BY DEF NoTask
    <3> QED
      BY <1>1, <3>1, DestroyedNoLamp DEF GoodArray, WellFormed
  <2> QED
    BY <2>2, <2>3, <2>4 DEF TaskIn, Running
<1>2. ASSUME \A k \in 1..N : A[k].lamp_nr # l
      PROVE  TaskIn(A, l) = NoTask(0) /\ ~Running(A, l)
  <2>1. Owner(A, l) = {}
    BY <1>2 DEF Owner
  <2> QED
    BY <2>1 DEF TaskIn, Running
<1> QED
  BY <1>1, <1>2

\* a lamp without a task
LEMMA SilentIs ==
  ASSUME NEW c
  PROVE  /\ Playing(NoTask(0), c) = P!Silent(c) /\ Loose(c) = P!Loose(c)
         /\ Loose(c) = PlayerRecord(<< >>, FALSE, "loose", 0, c)
         /\ Playing(NoTask(0), c) = PlayerRecord(<< >>, FALSE, "off", 0, c)
<1>1. /\ NoTask(0).steps = << >> /\ NoTask(0).state = "stopped" /\ NoTask(0).repeating = FALSE
  BY DEF NoTask
<1>2. ProgramOf(NoTask(0)) = << >>
  BY <1>1 DEF ProgramOf
<1>3. Playing(NoTask(0), c) = PlayerRecord(<< >>, FALSE, "off", 0, c)
  BY <1>1, <1>2, PlayingIs DEF PlayerRecord
<1>4. P!Silent(c) = PlayerRecord(<< >>, FALSE, "off", 0, c)
  BY DEF P!Silent, PlayerRecord
<1>5. ASSUME NEW pr, NEW b, NEW r, r = PlayerRecord(pr, b, "off", 0, c)
      PROVE  [r EXCEPT !.mode = "loose"] = PlayerRecord(pr, b, "loose", 0, c)
  BY <1>5 DEF PlayerRecord
<1> QED
  BY <1>3, <1>4, <1>5 DEF Loose, P!Loose

\* a task just defined
Blanks(n) == [j \in 1..n |-> P!Blank]

LEMMA FreshPlaying ==
  ASSUME NEW t, NEW l \in Lamps, NEW n \in StepCounts, NEW r, Fresh(t, l, n, r), NEW c
  PROVE  /\ t.state = "stopped" => Playing(t, c) = PlayerRecord(Blanks(n), r, "off", 0, c)
         /\ t.state = "starting" => Playing(t, c) = PlayerRecord(Blanks(n), r, "starting", 0, c)
         /\ t.state # "running" => ColorKept(t)
<1>1. n \in Nat /\ n >= 1
  BY StepAssumption
<1>2. t.steps = [j \in 1..n |-> FreshStep] /\ t.stepCnt = 0 /\ t.progression = 0
      /\ t.repeating = r
  BY DEF Fresh
<1>3. ProgramOf(t) = [j \in 1..n |-> P!Blank]
  <2>1. DOMAIN t.steps = 1..n /\ \A j \in 1..n : t.steps[j] = FreshStep
    BY <1>2
  <2>2. FreshStep.color = 0 /\ FreshStep.frames = 1 /\ FreshStep.fade = FALSE
    BY DEF FreshStep
  <2> QED
    BY <2>1, <2>2 DEF ProgramOf, P!Blank
<1>4. ElapsedOf(t) = 0
  BY <1>2, UntilStep DEF ElapsedOf
<1>5. ASSUME t.state # "running" PROVE ColorKept(t)
  <2>1. Len(t.steps) = n
    BY <1>1, <1>2, StepsOfN
  <2>2. t.steps[n].delta = 0
    BY <1>1, <1>2 DEF FreshStep
  <2> QED
    BY <1>2, <1>5, <2>1, <2>2 DEF ColorKept
<1> QED
  BY <1>2, <1>3, <1>4, <1>5, PlayingIs DEF PlayerRecord, Blanks

LEMMA NoTaskKept ==
  ASSUME NEW c
  PROVE  ColorKept(NoTask(c))
BY DEF ColorKept, NoTask

-----------------------------------------------------------------------------
(* The refinement, lamp by lamp and command by command.                    *)

LEMMA DefineIs ==
  ASSUME NEW pr, NEW pp, NEW pm, NEW c, NEW p, p = PlayerRecord(pr, pp, pm, 0, c),
         p.mode \in {"off", "loose"}, NEW n \in StepCounts, NEW r \in BOOLEAN,
         NEW m, m = IF p = P!Silent(p.shown) THEN "starting" ELSE "off",
         NEW q, q = PlayerRecord(Blanks(n), r, m, 0, c)
  PROVE  P!Define(p, q)
<1>1. q = Reprogrammed(p, Blanks(n), r, m)
  BY PlayerUpdates
<1>2. q = [p EXCEPT !.program = Blanks(n), !.repeating = r, !.mode = m]
  BY <1>1, Zenon DEF Reprogrammed
<1>3. q = [p EXCEPT !.program = [j \in 1..n |-> P!Blank], !.repeating = r,
                    !.mode = IF p = P!Silent(p.shown) THEN "starting" ELSE "off"]
  BY <1>2, Zenon DEF Blanks
<1> QED
  BY <1>3, Zenon DEF P!Define

\* INTERP for a lamp whose steps are out of order: it is defined anew unless it runs
LEMMA LooseDefined ==
  ASSUME NEW A, GoodArray(A), NEW B, GoodArray(B), NEW L \in SUBSET Lamps,
         NEW n \in StepCounts, NEW r \in BOOLEAN, Redefined(A, B, L, n, r),
         NEW l \in Lamps, NEW c
  PROVE  /\ l \notin L \/ Running(A, l) => TaskIn(B, l) = TaskIn(A, l)
         /\ l \in L /\ ~Running(A, l) /\ (\E k \in 1..N : A[k].lamp_nr = l) =>
              P!Command(Loose(c), Playing(TaskIn(B, l), c))
<1>1. ASSUME l \notin L \/ Running(A, l) PROVE TaskIn(B, l) = TaskIn(A, l)
  <2>1. ASSUME NEW k \in 1..N, A[k].lamp_nr = l \/ B[k].lamp_nr = l PROVE B[k] = A[k]
    <3>1. CASE \E m \in L : /\ ~Running(A, m) /\ Fresh(B[k], m, n, r)
                           /\ A[k].lamp_nr \in {m, Destroyed}
      <4>1. PICK m \in L : /\ ~Running(A, m) /\ Fresh(B[k], m, n, r)
                           /\ A[k].lamp_nr \in {m, Destroyed}
        BY <3>1
      <4>2. m = l
        BY <2>1, <4>1, DestroyedNoLamp DEF Fresh
      <4> QED
        BY <1>1, <4>1, <4>2
    <3> QED
      BY <3>1 DEF Redefined
  <2>2. CASE \E k \in 1..N : A[k].lamp_nr = l
    BY <2>1, <2>2, TaskInIs
  <2>3. CASE \A k \in 1..N : A[k].lamp_nr # l
    <3>1. \A k \in 1..N : B[k].lamp_nr # l
      BY <2>1, <2>3
    <3> QED
      BY <2>3, <3>1, TaskInIs
  <2> QED
    BY <2>2, <2>3
<1>2. ASSUME l \in L, ~Running(A, l), NEW k \in 1..N, A[k].lamp_nr = l
      PROVE  P!Command(Loose(c), Playing(TaskIn(B, l), c))
  <2>1. Fresh(B[k], l, n, r) /\ B[k].state = "stopped"
    BY <1>2, DestroyedNoLamp DEF Redefined, NewState
  <2>2. TaskIn(B, l) = B[k]
    BY <2>1, TaskInIs DEF Fresh
  <2> DEFINE p == Loose(c)
             q == Playing(B[k], c)
  <2>3. q = PlayerRecord(Blanks(n), r, "off", 0, c)
    BY <2>1, FreshPlaying
  <2>4. p = PlayerRecord(<< >>, FALSE, "loose", 0, c)
    BY SilentIs
  <2> HIDE DEF p, q
  <2>5. p.mode = "loose" /\ p.mode \in {"off", "loose"}
    BY <2>4 DEF PlayerRecord
  <2>6. p # P!Silent(p.shown)
    <3>1. P!Silent(p.shown).mode = "off"
      BY DEF P!Silent
    <3> QED
      BY <2>5, <3>1
  <2>7. P!Define(p, q)
    <3> DEFINE m == "off"
    <3>1. m = IF p = P!Silent(p.shown) THEN "starting" ELSE "off"
      BY <2>6
    <3>2. q = PlayerRecord(Blanks(n), r, m, 0, c)
      BY <2>3
    <3> HIDE DEF m
    <3> QED
      BY <2>4, <2>5, <3>1, <3>2, DefineIs
  <2> QED
    BY <2>2, <2>7, Zenon DEF P!Command, p, q
<1> QED
  BY <1>1, <1>2

\* INTERP defines the program of an idle lamp anew
LEMMA InterpPlays ==
  ASSUME NEW A, GoodArray(A), NEW B, GoodArray(B), NEW L \in SUBSET Lamps,
         NEW n \in StepCounts, NEW r \in BOOLEAN, Redefined(A, B, L, n, r),
         NEW l \in Lamps, NEW c
  PROVE  P!Command(Playing(TaskIn(A, l), c), Playing(TaskIn(B, l), c))
<1> DEFINE p == Playing(TaskIn(A, l), c)
           q == Playing(TaskIn(B, l), c)
\* an entry that is another one than before
<1>1. ASSUME NEW k \in 1..N, B[k] # A[k], A[k].lamp_nr = l \/ B[k].lamp_nr = l
      PROVE  /\ ~Running(A, l) /\ Fresh(B[k], l, n, r)
             /\ A[k].lamp_nr \in {l, Destroyed} /\ B[k].state = NewState(A[k])
  <2>1. PICK m \in L : /\ ~Running(A, m) /\ Fresh(B[k], m, n, r)
                       /\ A[k].lamp_nr \in {m, Destroyed} /\ B[k].state = NewState(A[k])
    BY <1>1 DEF Redefined
  <2>2. m = l
    BY <1>1, <2>1, DestroyedNoLamp DEF Fresh
  <2> QED
    BY <2>1, <2>2
<1>2. ASSUME p = PlayerRecord(p.program, p.repeating, "off", 0, c),
             NEW m, m = IF p = P!Silent(p.shown) THEN "starting" ELSE "off",
             q = PlayerRecord(Blanks(n), r, m, 0, c)
      PROVE  P!Command(p, q)
  <2> HIDE DEF p, q
  <2>1. p.mode \in {"off", "loose"}
    <3>1. p.mode = "off"
      BY <1>2 DEF PlayerRecord
    <3> QED
      BY <3>1
  <2>4. P!Define(p, q)
    BY <1>2, <2>1, DefineIs
  <2> QED
    BY <2>4, Zenon DEF P!Command
<1>3. ASSUME q = p PROVE P!Command(p, q)
  BY <1>3, Zenon DEF P!Command
<1>4. CASE \E k \in 1..N : A[k].lamp_nr = l
  <2>1. PICK k \in 1..N : A[k].lamp_nr = l
    BY <1>4
  <2>2. TaskIn(A, l) = A[k] /\ A[k].steps # << >>
        /\ (~Running(A, l) => A[k].state = "stopped")
    BY <2>1, TaskInIs
  <2>3. CASE B[k] = A[k]
    <3>1. TaskIn(B, l) = B[k]
      BY <2>1, <2>3, TaskInIs
    <3> QED
      BY <1>3, <2>2, <2>3, <3>1
  <2>4. CASE B[k] # A[k]
    <3>1. ~Running(A, l) /\ Fresh(B[k], l, n, r) /\ B[k].state = NewState(A[k])
      BY <1>1, <2>1, <2>4
    <3>2. B[k].state = "stopped" /\ A[k].state = "stopped"
      BY <2>1, <2>2, <3>1, DestroyedNoLamp DEF NewState
    <3>3. TaskIn(B, l) = B[k]
      BY <3>1, TaskInIs DEF Fresh
    <3>4. q = PlayerRecord(Blanks(n), r, "off", 0, c)
      BY <3>1, <3>2, <3>3, FreshPlaying
    <3>5. p = PlayerRecord(ProgramOf(A[k]), A[k].repeating, "off", 0, c)
      BY <2>2, <3>2, PlayingIs DEF PlayerRecord
    <3>6. p.program = ProgramOf(A[k]) /\ p.repeating = A[k].repeating
      <4> HIDE DEF p
      <4> QED
        BY <3>5 DEF PlayerRecord
    <3>7. p.program # << >>
      <4>1. WellFormed(A[k])
        BY DEF GoodArray
      <4> QED
        BY <2>2, <3>6, <4>1, ProgramIs
    <3>8. p # P!Silent(p.shown)
      <4>1. P!Silent(p.shown).program = << >>
        BY DEF P!Silent
      <4> QED
        BY <3>7, <4>1
    <3> HIDE DEF p, q
    <3>9. P!Command(p, q)
      BY <1>2, <3>4, <3>5, <3>6, <3>8
    <3> QED
      BY <3>9 DEF p, q
  <2> QED
    BY <2>3, <2>4
<1>5. CASE \A k \in 1..N : A[k].lamp_nr # l
  <2>1. p = PlayerRecord(<< >>, FALSE, "off", 0, c) /\ TaskIn(A, l) = NoTask(0)
    BY <1>5, TaskInIs, SilentIs
  <2>2. CASE \E k \in 1..N : B[k].lamp_nr = l
    <3>1. PICK k \in 1..N : B[k].lamp_nr = l
      BY <2>2
    <3>2. Fresh(B[k], l, n, r) /\ B[k].state = "starting"
      <4>1. B[k] # A[k]
        BY <1>5, <3>1
      <4>2. Fresh(B[k], l, n, r) /\ A[k].lamp_nr = Destroyed /\ B[k].state = NewState(A[k])
        BY <1>1, <1>5, <3>1, <4>1
      <4> QED
        BY <4>2 DEF NewState
    <3>3. TaskIn(B, l) = B[k]
      BY <3>1, TaskInIs
    <3>4. q = PlayerRecord(Blanks(n), r, "starting", 0, c)
      BY <3>2, <3>3, FreshPlaying
    <3>5. p.program = << >> /\ p.repeating = FALSE /\ p.shown = c
      <4> HIDE DEF p
      <4> QED
        BY <2>1 DEF PlayerRecord
    <3>6. p = P!Silent(p.shown)
      BY <2>1, <3>5, SilentIs
    <3> HIDE DEF p, q
    <3>7. P!Command(p, q)
      BY <1>2, <2>1, <3>4, <3>5, <3>6
    <3> QED
      BY <3>7 DEF p, q
  <2>3. CASE \A k \in 1..N : B[k].lamp_nr # l
    <3>1. TaskIn(B, l) = NoTask(0)
      BY <2>3, TaskInIs
    <3> QED
      BY <1>3, <2>1, <3>1
  <2> QED
    BY <2>2, <2>3
<1> QED
  BY <1>4, <1>5

\* ISTEP changes one step of a program that stands still
LEMMA EditPlays ==
  ASSUME NEW t, WellFormed(t), NEW j \in 1..Len(t.steps), NEW step \in StepArguments,
         t.state = "stopped", NEW c
  PROVE  LET u == DefineStep(t, step, j) IN
         /\ P!Command(Playing(t, c), Playing(u, c))
         /\ ColorKept(t) => ColorKept(u)
<1> DEFINE u == DefineStep(t, step, j)
           n == Len(t.steps)
           v == ProgramOf(t)
           w == ProgramOf(u)
           p == Playing(t, c)
           q == Playing(u, c)
<1>1. /\ WellFormed(u) /\ u.state = "stopped" /\ u.repeating = t.repeating /\ Len(u.steps) = n
      /\ \A i \in 1..n : i # j =>
           /\ u.steps[i].color = t.steps[i].color /\ u.steps[i].frames = t.steps[i].frames
           /\ u.steps[i].fade = t.steps[i].fade
      /\ u.steps[j].color = step.color /\ u.steps[j].frames = step.frames
      /\ u.steps[j].fade = step.fade
      /\ ~t.repeating => u.steps[n].delta = t.steps[n].delta
  BY DefineStepGood
<1> HIDE DEF u
<1>2. /\ DOMAIN v = 1..n /\ DOMAIN w = 1..n
      /\ \A i \in 1..n : i # j => w[i] = v[i]
      /\ w[j] = [color |-> step.color, frames |-> step.frames, fade |-> step.fade]
  <2>1. \A i \in 1..n : v[i] = [color |-> t.steps[i].color, frames |-> t.steps[i].frames,
                                fade |-> t.steps[i].fade]
    BY ProgramIs
  <2>2. \A i \in 1..n : w[i] = [color |-> u.steps[i].color, frames |-> u.steps[i].frames,
                                fade |-> u.steps[i].fade]
    BY <1>1, ProgramIs
  <2>3. DOMAIN v = 1..n /\ DOMAIN w = 1..n
    BY <1>1, ProgramIs
  <2> HIDE DEF v, w, n
  <2>4. j \in 1..n
    BY DEF n
  <2>5. ASSUME NEW i \in 1..n, i # j PROVE w[i] = v[i]
    <3>1. /\ u.steps[i].color = t.steps[i].color /\ u.steps[i].frames = t.steps[i].frames
          /\ u.steps[i].fade = t.steps[i].fade
      BY <1>1, <2>5
    <3> QED
      BY <2>1, <2>2, <3>1, Zenon
  <2>6. w[j] = [color |-> step.color, frames |-> step.frames, fade |-> step.fade]
    <3>1. /\ u.steps[j].color = step.color /\ u.steps[j].frames = step.frames
          /\ u.steps[j].fade = step.fade
      BY <1>1
    <3> QED
      BY <2>2, <2>4, <3>1, Zenon
  <2> QED
    BY <2>3, <2>5, <2>6
<1>3. w[j] \in P!Step
  BY <1>2, FadingAssumption DEF StepArguments, P!Step
<1>4. w = [v EXCEPT ![j] = w[j]]
  <2>1. v = [i \in 1..n |-> v[i]] /\ w = [i \in 1..n |-> w[i]]
    BY <1>2 DEF ProgramOf
  <2> HIDE DEF v, w, n
  <2>2. [v EXCEPT ![j] = w[j]] = [i \in 1..n |-> IF i = j THEN w[j] ELSE v[i]]
    BY <1>2, <2>1
  <2>3. \A i \in 1..n : w[i] = IF i = j THEN w[j] ELSE v[i]
    BY <1>2
  <2> QED
    BY <2>1, <2>2, <2>3
<1>5. p = PlayerRecord(v, t.repeating, "off", 0, c)
      /\ q = PlayerRecord(w, t.repeating, "off", 0, c)
  BY <1>1, PlayingIs DEF PlayerRecord
<1>6. p.program = v /\ p.mode = "off" /\ q.program = w
  <2> HIDE DEF p, q
  <2> QED
    BY <1>5 DEF PlayerRecord
<1> HIDE DEF p, q, v, w
<1>7. q = [p EXCEPT !.program[j] = q.program[j]]
  <2> DEFINE x == [p.program EXCEPT ![j] = q.program[j]]
  <2>1. x = w
    BY <1>4, <1>6
  <2>2. [p EXCEPT !.program = x] = PlayerRecord(w, t.repeating, "off", 0, c)
    BY <1>5, <2>1 DEF PlayerRecord
  <2>3. [p EXCEPT !.program[j] = q.program[j]] = [p EXCEPT !.program = x]
    OBVIOUS
  <2> QED
    BY <1>5, <2>2, <2>3
<1>8. P!Edit(p, q)
  <2>1. DOMAIN q.program = DOMAIN p.program /\ j \in DOMAIN p.program /\ q.program[j] \in P!Step
    BY <1>2, <1>3, <1>6
  <2> QED
    BY <1>6, <1>7, <2>1, Zenon DEF P!Edit
<1>9. ColorKept(t) => ColorKept(u)
  <2>1. u.steps # << >> => t.steps # << >>
    <3>1. Len(u.steps) # 0 => t.steps # << >>
      BY <1>1, EmptySeq
    <3>2. u.steps # << >> => Len(u.steps) # 0
      BY <1>1, EmptySeq DEF WellFormed, TaskType
    <3> QED
      BY <3>1, <3>2
  <2> QED
    BY <1>1, <2>1 DEF ColorKept
<1> QED
  BY <1>8, <1>9, Zenon DEF P!Command, p, q, u

\* DESTROY, and painting a lamp
LEMMA RemovePlays ==
  ASSUME NEW t, NEW c
  PROVE  P!Command(Playing(t, c), Playing(NoTask(0), c))
<1>1. Playing(t, c).shown = c
  BY PlayingIs
<1>2. P!Remove(Playing(t, c), Playing(NoTask(0), c))
  BY <1>1, SilentIs DEF P!Remove
<1> QED
  BY <1>2, Zenon DEF P!Command

LEMMA PaintPlays ==
  ASSUME NEW t, NEW c, NEW e \in Colors
  PROVE  P!Command(Playing(t, c), Playing(t, e))
<1> DEFINE p == Playing(t, c)
           q == Playing(t, e)
<1>1. q = [p EXCEPT !.shown = e]
  BY PlayingIs
<1> HIDE DEF p, q
<1>2. P!Paint(p, q)
  BY <1>1, Zenon DEF P!Paint
<1> QED
  BY <1>2, Zenon DEF P!Command, p, q

\* START and STOP rewind the program
LEMMA RewindPlays ==
  ASSUME NEW t, WellFormed(t), NEW c
  PROVE  /\ P!Stop(Playing(t, c), Playing(stop(t), c))
         /\ ColorKept(t) => ColorKept(stop(t))
         /\ t.steps # << >> =>
              /\ P!Start(Playing(t, c), Playing(start(t), c))
              /\ ColorKept(t) => ColorKept(start(t))
<1>1. ASSUME NEW s \in {"stopped", "starting"}, NEW u, u = InState(t, s)
      PROVE  /\ Playing(u, c) = Moved(Playing(t, c), IF s = "stopped" THEN "off" ELSE "starting", 0)
             /\ ColorKept(t) => ColorKept(u)
  <2>1. /\ u.steps = t.steps /\ u.repeating = t.repeating
        /\ u.stepCnt = 0 /\ u.progression = 0 /\ u.state = s
    BY <1>1, RewoundGood
  <2>2. ProgramOf(u) = ProgramOf(t)
    BY <2>1 DEF ProgramOf
  <2>3. ElapsedOf(u) = 0
    BY <2>1, UntilStep DEF ElapsedOf
  <2>4. Playing(u, c) = PlayerRecord(ProgramOf(t), t.repeating,
                               IF s = "stopped" THEN "off" ELSE "starting", 0, c)
    BY <2>1, <2>2, <2>3, PlayingIs DEF PlayerRecord
  <2>5. Playing(t, c) = PlayerRecord(ProgramOf(t), t.repeating, Playing(t, c).mode,
                               Playing(t, c).elapsed, c)
    BY PlayingIs DEF PlayerRecord
  <2>6. ColorKept(t) => ColorKept(u)
    BY <2>1 DEF ColorKept
  <2> QED
    BY <2>4, <2>5, <2>6, PlayerUpdates
<1>2. stop(t) = InState(t, "stopped") /\ start(t) = InState(t, "starting")
  BY DEF stop, start, InState
<1>3. Playing(stop(t), c) = Moved(Playing(t, c), "off", 0) /\ (ColorKept(t) => ColorKept(stop(t)))
  BY <1>1, <1>2
<1>4. Playing(start(t), c) = Moved(Playing(t, c), "starting", 0)
      /\ (ColorKept(t) => ColorKept(start(t)))
  BY <1>1, <1>2
<1>5. t.steps # << >> => Playing(t, c).program # << >>
  <2>1. Playing(t, c).program = ProgramOf(t)
    BY PlayingIs
  <2> QED
    BY <2>1, ProgramIs
<1>9. Playing(t, c).mode # "loose"
  BY PlayingIs DEF WellFormed, TaskType
<1>6. P!Stop(Playing(t, c), Playing(stop(t), c))
  BY <1>3, <1>9, Zenon DEF P!Stop, Moved
<1>7. ASSUME t.steps # << >> PROVE P!Start(Playing(t, c), Playing(start(t), c))
  <2> DEFINE p == Playing(t, c)
  <2>1. Playing(start(t), c) = Moved(p, IF p.program = << >> THEN "off" ELSE "starting", 0)
    BY <1>4, <1>5, <1>7
  <2> HIDE DEF p
  <2> QED
    BY <1>9, <2>1, Zenon DEF P!Start, Moved, p
<1> QED
  BY <1>3, <1>4, <1>6, <1>7

LEMMA SilentRewinds ==
  ASSUME NEW c
  PROVE  LET p == Playing(NoTask(0), c) IN P!Start(p, p) /\ P!Stop(p, p) /\ P!Frame(p, p)
<1> DEFINE p == Playing(NoTask(0), c)
<1>1. p = PlayerRecord(<< >>, FALSE, "off", 0, c)
  BY SilentIs
<1> HIDE DEF p
<1>2. p.program = << >> /\ p.mode = "off"
  BY <1>1 DEF PlayerRecord
<1>3. p = Moved(p, "off", 0)
  <2> DEFINE r == FALSE
  <2>1. p = PlayerRecord(<< >>, r, "off", 0, c)
    BY <1>1
  <2> HIDE DEF r
  <2> QED
    BY <2>1, PlayerUpdates
<1>4. p = Moved(p, IF p.program = << >> THEN "off" ELSE "starting", 0)
  BY <1>2, <1>3
<1>5. p.mode # "loose"
  BY <1>2
<1> QED
  BY <1>2, <1>3, <1>4, <1>5, Zenon DEF P!Start, P!Stop, P!Frame, Moved, p

\* a lamp whose steps are out of order
LEMMA LoosePlays ==
  ASSUME NEW c
  PROVE  /\ P!Start(Loose(c), Loose(c)) /\ P!Stop(Loose(c), Loose(c))
         /\ P!Command(Loose(c), Loose(c))
         /\ P!Command(Loose(c), Playing(NoTask(0), c))
         /\ \A e \in Colors : P!Frame(Loose(c), Loose(e)) /\ P!Command(Loose(c), Loose(e))
         /\ \A t : WellFormed(t) /\ t.steps # << >> => P!Command(Playing(t, c), Loose(c))
<1> DEFINE p == Loose(c)
<1>1. p = PlayerRecord(<< >>, FALSE, "loose", 0, c)
  BY SilentIs
<1>2. p.mode = "loose" /\ p.shown = c
  <2> HIDE DEF p
  <2> QED
    BY <1>1 DEF PlayerRecord
<1> HIDE DEF p
<1>3. P!Start(p, p) /\ P!Stop(p, p) /\ P!Command(p, p)
  BY <1>2, Zenon DEF P!Start, P!Stop, P!Command
<1>4. P!Command(p, Playing(NoTask(0), c))
  <2>1. P!Remove(p, Playing(NoTask(0), c))
    BY <1>2, SilentIs DEF P!Remove
  <2> QED
    BY <2>1, Zenon DEF P!Command
<1>5. ASSUME NEW e \in Colors PROVE P!Frame(p, Loose(e)) /\ P!Command(p, Loose(e))
  <2>1. P!Wander(p, Loose(e))
    <3>1. Loose(e) = P!Loose(e)
      BY SilentIs
    <3> QED
      BY <1>2, <3>1, Zenon DEF P!Wander
  <2>2. Loose(e) = [p EXCEPT !.shown = e]
    <3>1. Loose(e) = PlayerRecord(<< >>, FALSE, "loose", 0, e)
      BY SilentIs
    <3>2. ASSUME NEW b, p = PlayerRecord(<< >>, b, "loose", 0, c)
          PROVE  [p EXCEPT !.shown = e] = PlayerRecord(<< >>, b, "loose", 0, e)
      BY <3>2 DEF PlayerRecord
    <3> QED
      BY <1>1, <3>1, <3>2
  <2>3. P!Paint(p, Loose(e))
    BY <2>2, Zenon DEF P!Paint
  <2> QED
    BY <2>1, <2>3, Zenon DEF P!Frame, P!Command
<1>6. ASSUME NEW t, WellFormed(t), t.steps # << >> PROVE P!Command(Playing(t, c), Loose(c))
  <2>1. Playing(t, c).program = ProgramOf(t) /\ Playing(t, c).shown = c
    BY PlayingIs
  <2>2. Playing(t, c).program # << >>
    BY <1>6, <2>1, ProgramIs
  <2>3. P!Loosen(Playing(t, c), Loose(c))
    BY <2>1, <2>2, SilentIs DEF P!Loosen
  <2> QED
    BY <2>3, Zenon DEF P!Command
<1> QED
  BY <1>3, <1>4, <1>5, <1>6 DEF p

\* a lamp, when each entry is kept for its lamp
LEMMA EntryOfLamp ==
  ASSUME NEW A, GoodArray(A), NEW B, GoodArray(B), NEW l \in Lamps,
         \A k \in 1..N : B[k].lamp_nr = A[k].lamp_nr
  PROVE  \/ TaskIn(A, l) = NoTask(0) /\ TaskIn(B, l) = NoTask(0) /\ ~Running(A, l)
         \/ \E k \in 1..N :
              /\ A[k].lamp_nr = l /\ TaskIn(A, l) = A[k] /\ TaskIn(B, l) = B[k]
              /\ A[k].steps # << >> /\ Owner(A, l) = {k}
              /\ Running(A, l) <=> A[k].state # "stopped"
<1>1. CASE \E k \in 1..N : A[k].lamp_nr = l
  <2>1. PICK k \in 1..N : A[k].lamp_nr = l
    BY <1>1
  <2>2. TaskIn(B, l) = B[k]
    BY <2>1, TaskInIs
  <2> QED
    BY <2>1, <2>2, TaskInIs
<1>2. CASE \A k \in 1..N : A[k].lamp_nr # l
  BY <1>2, TaskInIs
<1> QED
  BY <1>1, <1>2

-----------------------------------------------------------------------------
(* The refinement.                                                         *)

\* what Player needs besides ArrayInv and OrderInv
PlayInv ==
  \A k \in 1..N :
    taskArray[k].lamp_nr \in Lamps /\ defined[taskArray[k].lamp_nr] # Disorder =>
      ColorKept(taskArray[k])

PlayerOf(l) ==
  IF defined[l] = Disorder THEN Loose(lamps[l]) ELSE Playing(TaskIn(taskArray, l), lamps[l])

\* the steps of Player, all lamps at once
Commanded == \A l \in Lamps : P!Command(PlayerOf(l), PlayerOf(l)')
Started == \A l \in Lamps : P!Start(PlayerOf(l), PlayerOf(l)')
Stopped == \A l \in Lamps : P!Stop(PlayerOf(l), PlayerOf(l)')
Framed == \A l \in Lamps : P!Frame(PlayerOf(l), PlayerOf(l)')

LEMMA InterpRefines ==
  ASSUME ArrayInv, ArrayInv', OrderInv, PlayInv, NEW L \in Selections,
         NEW n \in StepCounts, NEW r \in BOOLEAN, Interp(L, n, r)
  PROVE  PlayInv' /\ Commanded
<1> DEFINE B == ForEachLamp(L, n, r)
<1>1. GoodArray(B) /\ Redefined(taskArray, B, L, n, r) /\ L \in SUBSET Lamps
  BY SelectionOfLamps, ForEachLampGood DEF ArrayInv
<1>2. /\ taskArray' = B /\ lamps' = lamps
      /\ \A l \in Lamps :
           /\ l \notin L \/ Running(taskArray, l) => defined'[l] = defined[l]
           /\ l \in L /\ ~Running(taskArray, l) => defined'[l] = 0
  BY DEF Interp
<1> HIDE DEF B
<1>3. ASSUME NEW k \in 1..N, B[k].lamp_nr \in Lamps, defined'[B[k].lamp_nr] # Disorder
      PROVE  ColorKept(B[k])
  <2>1. CASE B[k] = taskArray[k] /\ (taskArray[k].lamp_nr \in L => Running(taskArray, taskArray[k].lamp_nr))
    BY <1>2, <1>3, <2>1 DEF PlayInv
  <2>2. CASE \E l \in L : Fresh(B[k], l, n, r) /\ B[k].state = NewState(taskArray[k])
    <3>1. PICK l \in L : Fresh(B[k], l, n, r) /\ B[k].state = NewState(taskArray[k])
      BY <2>2
    <3>2. B[k].state # "running" /\ l \in Lamps
      BY <1>1, <3>1 DEF NewState
    <3> QED
      BY <3>1, <3>2, FreshPlaying
  <2> QED
    BY <1>1, <2>1, <2>2 DEF Redefined
<1>4. PlayInv'
  BY <1>2, <1>3 DEF PlayInv
<1>5. ASSUME NEW l \in Lamps PROVE P!Command(PlayerOf(l), PlayerOf(l)')
  <2> DEFINE c == lamps[l]
  <2>1. PlayerOf(l)' = IF defined'[l] = Disorder THEN Loose(c) ELSE Playing(TaskIn(B, l), c)
    BY <1>2 DEF PlayerOf
  <2>2. CASE l \notin L \/ Running(taskArray, l)
    <3>1. TaskIn(B, l) = TaskIn(taskArray, l) /\ defined'[l] = defined[l]
      BY <1>1, <1>2, <2>2, LooseDefined DEF ArrayInv
    <3>2. PlayerOf(l)' = PlayerOf(l)
      BY <2>1, <3>1 DEF PlayerOf
    <3> QED
      BY <3>2, Zenon DEF P!Command
  <2>3. CASE l \in L /\ ~Running(taskArray, l) /\ defined[l] = Disorder
    <3>1. \E k \in 1..N : taskArray[k].lamp_nr = l
      BY <2>3 DEF OrderInv
    <3>2. PlayerOf(l) = Loose(c) /\ PlayerOf(l)' = Playing(TaskIn(B, l), c)
      BY <1>2, <2>1, <2>3 DEF PlayerOf, Disorder
    <3> QED
      BY <1>1, <2>3, <3>1, <3>2, LooseDefined DEF ArrayInv
  <2>4. CASE l \in L /\ ~Running(taskArray, l) /\ defined[l] # Disorder
    <3>1. PlayerOf(l) = Playing(TaskIn(taskArray, l), c) /\ PlayerOf(l)' = Playing(TaskIn(B, l), c)
      BY <1>2, <2>1, <2>4 DEF PlayerOf, Disorder
    <3> QED
      BY <1>1, <3>1, InterpPlays DEF ArrayInv
  <2> QED
    BY <2>2, <2>3, <2>4
<1> QED
  BY <1>4, <1>5 DEF Commanded

LEMMA IstepRefines ==
  ASSUME ArrayInv, ArrayInv', PlayInv, NEW L \in Selections, NEW j \in Nat \ {0},
         NEW step \in StepArguments, Istep(L, j, step)
  PROVE  PlayInv' /\ Commanded
<1> DEFINE Hit(k) == taskArray[k].lamp_nr \in L \ InvalidLamps(L, j)
           B == [k \in 1..N |-> IF Hit(k) THEN DefineStep(taskArray[k], step, j) ELSE taskArray[k]]
<1>1. taskArray' = B /\ lamps' = lamps
  BY DEF Istep
<1>2. \A l \in Lamps :
        \/ /\ defined'[l] = defined[l]
           /\ l \notin L \ InvalidLamps(L, j) \/ Owner(taskArray, l) = {}
        \/ /\ l \in L \ InvalidLamps(L, j) /\ Owner(taskArray, l) # {}
           /\ \/ InOrder(l, j) /\ defined'[l] = j
              \/ ~InOrder(l, j) /\ defined'[l] = Disorder
  BY IstepDefines
<1>3. ASSUME NEW k \in 1..N, Hit(k)
      PROVE  /\ B[k] = DefineStep(taskArray[k], step, j) /\ j \in 1..Len(taskArray[k].steps)
             /\ WellFormed(taskArray[k])
  <2>1. k \in Owner(taskArray, taskArray[k].lamp_nr) /\ WellFormed(taskArray[k])
    BY DEF Owner, ArrayInv, GoodArray
  <2>2. ~(j > Len(taskArray[k].steps))
    BY <1>3, <2>1 DEF InvalidLamps
  <2>3. Len(taskArray[k].steps) \in Nat
    BY <2>1 DEF WellFormed, TaskType
  <2> QED
    BY <1>3, <2>1, <2>2, <2>3
<1>4. \A k \in 1..N : ~Hit(k) => B[k] = taskArray[k]
  OBVIOUS
<1> HIDE DEF B
<1>5. \A k \in 1..N : B[k].lamp_nr = taskArray[k].lamp_nr
  BY <1>3, <1>4, DefineStepGood
<1>6. GoodArray(taskArray) /\ GoodArray(B)
  BY <1>1 DEF ArrayInv
\* a lamp of which a step is defined in order
<1>7. ASSUME NEW k \in 1..N, Hit(k), NEW l \in Lamps, taskArray[k].lamp_nr = l,
             InOrder(l, j)
      PROVE  /\ defined[l] # Disorder
             /\ ColorKept(B[k])
             /\ \A c : P!Command(Playing(taskArray[k], c), Playing(B[k], c))
  <2>1. k \in Owner(taskArray, l)
    BY <1>7 DEF Owner
  <2>2. taskArray[k].state = "stopped" /\ j = defined[l] + 1
    BY <1>7, <2>1 DEF InOrder, Running
  <2>3. defined[l] # Disorder
    BY <2>2 DEF Disorder
  <2>4. ColorKept(taskArray[k])
    BY <1>7, <2>3 DEF PlayInv
  <2> QED
    BY <1>3, <1>7, <2>2, <2>3, <2>4, EditPlays
<1>8. ASSUME NEW k \in 1..N, B[k].lamp_nr \in Lamps, defined'[B[k].lamp_nr] # Disorder
      PROVE  ColorKept(B[k])
  <2> DEFINE l == taskArray[k].lamp_nr
  <2>1. l \in Lamps /\ defined'[l] # Disorder /\ k \in Owner(taskArray, l)
    BY <1>5, <1>8 DEF Owner
  <2>2. CASE Hit(k)
    <3>1. InOrder(l, j)
      BY <1>2, <2>1, <2>2
    <3> QED
      BY <1>7, <2>1, <2>2, <3>1
  <2>3. CASE ~Hit(k)
    <3>1. defined'[l] = defined[l]
      BY <1>2, <2>1, <2>3
    <3> QED
      BY <1>4, <2>1, <2>3, <3>1 DEF PlayInv
  <2> QED
    BY <2>2, <2>3
<1>9. PlayInv'
  BY <1>1, <1>8 DEF PlayInv
<1>10. ASSUME NEW l \in Lamps PROVE P!Command(PlayerOf(l), PlayerOf(l)')
  <2> DEFINE c == lamps[l]
  <2>1. PlayerOf(l)' = IF defined'[l] = Disorder THEN Loose(c) ELSE Playing(TaskIn(B, l), c)
    BY <1>1 DEF PlayerOf
  <2>2. CASE Owner(taskArray, l) = {} \/ l \notin L \ InvalidLamps(L, j)
    <3>1. defined'[l] = defined[l]
      BY <1>2, <2>2
    <3>2. TaskIn(B, l) = TaskIn(taskArray, l)
      <4>1. CASE \E k \in 1..N : taskArray[k].lamp_nr = l
        <5>1. PICK k \in 1..N : taskArray[k].lamp_nr = l
          BY <4>1
        <5>2. k \in Owner(taskArray, l)
          BY <5>1 DEF Owner
        <5>3. B[k] = taskArray[k]
          BY <1>4, <2>2, <5>1, <5>2
        <5> QED
          BY <1>6, <5>1, <5>3, TaskInIs
      <4>2. CASE \A k \in 1..N : taskArray[k].lamp_nr # l
        <5>1. \A k \in 1..N : B[k].lamp_nr # l
          BY <1>5, <4>2
        <5> QED
          BY <1>6, <4>2, <5>1, TaskInIs
      <4> QED
        BY <4>1, <4>2
    <3>3. PlayerOf(l)' = PlayerOf(l)
      BY <2>1, <3>1, <3>2 DEF PlayerOf
    <3> QED
      BY <3>3, Zenon DEF P!Command
  <2>3. CASE Owner(taskArray, l) # {} /\ l \in L \ InvalidLamps(L, j)
    <3>1. PICK k \in 1..N : taskArray[k].lamp_nr = l
      BY <2>3 DEF Owner
    <3>2. /\ Hit(k) /\ B[k].lamp_nr = l
          /\ TaskIn(taskArray, l) = taskArray[k] /\ TaskIn(B, l) = B[k]
          /\ taskArray[k].steps # << >> /\ WellFormed(taskArray[k])
      BY <1>3, <1>5, <1>6, <2>3, <3>1, TaskInIs
    <3>3. CASE InOrder(l, j)
      <4>1. defined[l] # Disorder /\ P!Command(Playing(taskArray[k], c), Playing(B[k], c))
        BY <1>7, <3>1, <3>2, <3>3
      <4>2. defined'[l] # Disorder
        BY <1>2, <2>3, <3>3 DEF Disorder
      <4> QED
        BY <2>1, <3>2, <4>1, <4>2 DEF PlayerOf
    <3>4. CASE ~InOrder(l, j)
      <4>1. PlayerOf(l)' = Loose(c)
        BY <1>2, <2>1, <2>3, <3>4
      <4>2. CASE defined[l] = Disorder
        BY <4>1, <4>2, LoosePlays DEF PlayerOf
      <4>3. CASE defined[l] # Disorder
        <5>1. PlayerOf(l) = Playing(taskArray[k], c)
          BY <3>2, <4>3 DEF PlayerOf
        <5> QED
          BY <3>2, <4>1, <5>1, LoosePlays
      <4> QED
        BY <4>2, <4>3
    <3> QED
      BY <3>3, <3>4
  <2> QED
    BY <2>2, <2>3
<1> QED
  BY <1>9, <1>10 DEF Commanded

LEMMA DestroyRefines ==
  ASSUME ArrayInv, ArrayInv', PlayInv, NEW L \in Selections, Destroy(L)
  PROVE  PlayInv' /\ Commanded
<1> DEFINE Hit(k) == taskArray[k].lamp_nr \in L
           B == [k \in 1..N |-> IF Hit(k) THEN destroyTask(taskArray[k]) ELSE taskArray[k]]
<1>1. /\ taskArray' = B /\ lamps' = lamps
      /\ \A l \in Lamps : defined'[l] = IF l \in L THEN 0 ELSE defined[l]
  BY DEF Destroy
<1>2. \A k \in 1..N : Hit(k) => ColorKept(B[k]) /\ B[k].lamp_nr = Destroyed
  <2>1. \A k \in 1..N : Hit(k) => B[k] = NoTask(taskArray[k].cur)
    BY DEF destroyTask
  <2>2. ASSUME NEW c PROVE NoTask(c).lamp_nr = Destroyed
    BY DEF NoTask
  <2> HIDE DEF B
  <2> QED
    BY <2>1, <2>2, NoTaskKept
<1>3. \A k \in 1..N : ~Hit(k) => B[k] = taskArray[k]
  OBVIOUS
<1> HIDE DEF B
<1>4. PlayInv'
  <2>1. ASSUME NEW k \in 1..N, B[k].lamp_nr \in Lamps, defined'[B[k].lamp_nr] # Disorder
        PROVE  ColorKept(B[k])
    BY <1>1, <1>2, <1>3, <2>1 DEF PlayInv
  <2> QED
    BY <1>1, <2>1 DEF PlayInv
<1>5. ASSUME NEW l \in Lamps PROVE P!Command(PlayerOf(l), PlayerOf(l)')
  <2> DEFINE c == lamps[l]
  <2>1. GoodArray(taskArray) /\ GoodArray(B)
    BY <1>1 DEF ArrayInv
  <2>3. PlayerOf(l)' = IF defined'[l] = Disorder THEN Loose(c) ELSE Playing(TaskIn(B, l), c)
    BY <1>1 DEF PlayerOf
  <2>2. P!Command(PlayerOf(l), PlayerOf(l)')
    <3>1. CASE l \in L
      <4>1. \A k \in 1..N : B[k].lamp_nr # l
        BY <1>2, <1>3, <3>1, DestroyedNoLamp
      <4>2. TaskIn(B, l) = NoTask(0)
        BY <2>1, <4>1, TaskInIs
      <4>3. PlayerOf(l)' = Playing(NoTask(0), c)
        BY <1>1, <2>3, <3>1, <4>2 DEF Disorder
      <4> QED
        BY <4>3, RemovePlays, LoosePlays DEF PlayerOf
    <3>2. CASE l \notin L
      <4>1. \A k \in 1..N : B[k].lamp_nr = l \/ taskArray[k].lamp_nr = l => B[k] = taskArray[k]
        BY <1>2, <1>3, <3>2, DestroyedNoLamp
      <4>2. TaskIn(B, l) = TaskIn(taskArray, l)
        <5>1. CASE \E k \in 1..N : taskArray[k].lamp_nr = l
          BY <2>1, <4>1, <5>1, TaskInIs
        <5>2. CASE \A k \in 1..N : taskArray[k].lamp_nr # l
          <6>1. \A k \in 1..N : B[k].lamp_nr # l
            BY <4>1, <5>2
          <6> QED
            BY <2>1, <5>2, <6>1, TaskInIs
        <5> QED
          BY <5>1, <5>2
      <4>3. PlayerOf(l)' = PlayerOf(l)
        BY <1>1, <2>3, <3>2, <4>2 DEF PlayerOf
      <4> QED
        BY <4>3, Zenon DEF P!Command
    <3> QED
      BY <3>1, <3>2
  <2> QED
    BY <2>2
<1> QED
  BY <1>4, <1>5 DEF Commanded

LEMMA PaintRefines ==
  ASSUME ArrayInv, PlayInv, NEW L, NEW e \in Colors, Paint(L, e)
  PROVE  PlayInv' /\ Commanded
<1>1. /\ taskArray' = taskArray /\ defined' = defined
      /\ \A l \in Lamps : lamps'[l] = IF l \in L THEN e ELSE lamps[l]
  BY DEF Paint
<1>2. PlayInv'
  BY <1>1 DEF PlayInv
<1>3. ASSUME NEW l \in Lamps PROVE P!Command(PlayerOf(l), PlayerOf(l)')
  <2> DEFINE t == TaskIn(taskArray, l)
  <2>1. /\ PlayerOf(l) = IF defined[l] = Disorder THEN Loose(lamps[l]) ELSE Playing(t, lamps[l])
        /\ PlayerOf(l)' = IF defined[l] = Disorder THEN Loose(lamps'[l]) ELSE Playing(t, lamps'[l])
    BY <1>1 DEF PlayerOf
  <2> HIDE DEF t
  <2>2. CASE l \in L
    BY <1>1, <2>1, <2>2, PaintPlays, LoosePlays
  <2>3. CASE l \notin L
    <3>1. PlayerOf(l)' = PlayerOf(l)
      BY <1>1, <2>1, <2>3
    <3> QED
      BY <3>1, Zenon DEF P!Command
  <2> QED
    BY <2>2, <2>3
<1> QED
  BY <1>2, <1>3 DEF Commanded

LEMMA StartRefines ==
  ASSUME ArrayInv, ArrayInv', PlayInv, Start
  PROVE  PlayInv' /\ Started
<1> DEFINE B == [k \in 1..N |-> IF taskArray[k].steps # << >>
                                  THEN start(taskArray[k]) ELSE taskArray[k]]
<1>1. taskArray' = B /\ lamps' = lamps /\ defined' = defined
  BY DEF Start
<1>2. \A k \in 1..N : B[k] = IF taskArray[k].steps # << >> THEN start(taskArray[k]) ELSE taskArray[k]
  OBVIOUS
<1> HIDE DEF B
<1>3. ASSUME NEW k \in 1..N
      PROVE  /\ B[k].lamp_nr = taskArray[k].lamp_nr
             /\ ColorKept(taskArray[k]) => ColorKept(B[k])
             /\ taskArray[k].steps # << >> =>
                  \A c : P!Start(Playing(taskArray[k], c), Playing(B[k], c))
  <2>1. WellFormed(taskArray[k])
    BY DEF ArrayInv, GoodArray
  <2>2. start(taskArray[k]).lamp_nr = taskArray[k].lamp_nr
    <3>1. start(taskArray[k]) = InState(taskArray[k], "starting")
      BY DEF start, InState
    <3> QED
      BY <2>1, <3>1, RewoundGood
  <2>3. CASE taskArray[k].steps # << >>
    BY <1>2, <2>1, <2>2, <2>3, RewindPlays
  <2>4. CASE taskArray[k].steps = << >>
    BY <1>2, <2>4
  <2> QED
    BY <2>3, <2>4
<1>4. PlayInv'
  BY <1>1, <1>3 DEF PlayInv
<1>5. ASSUME NEW l \in Lamps PROVE P!Start(PlayerOf(l), PlayerOf(l)')
  <2> DEFINE c == lamps[l]
  <2>1. GoodArray(taskArray) /\ GoodArray(B)
    BY <1>1 DEF ArrayInv
  <2>2. P!Start(Playing(TaskIn(taskArray, l), c), Playing(TaskIn(B, l), c))
    <3>1. CASE TaskIn(taskArray, l) = NoTask(0) /\ TaskIn(B, l) = NoTask(0)
      BY <3>1, SilentRewinds
    <3>2. CASE \E k \in 1..N : /\ TaskIn(taskArray, l) = taskArray[k] /\ TaskIn(B, l) = B[k]
                               /\ taskArray[k].steps # << >>
      BY <1>3, <3>2
    <3> QED
      BY <1>3, <2>1, <3>1, <3>2, EntryOfLamp
  <2>3. CASE defined[l] = Disorder
    BY <1>1, <2>3, LoosePlays DEF PlayerOf
  <2>4. CASE defined[l] # Disorder
    BY <1>1, <2>2, <2>4 DEF PlayerOf
  <2> QED
    BY <2>3, <2>4
<1> QED
  BY <1>4, <1>5 DEF Started

LEMMA StopRefines ==
  ASSUME ArrayInv, ArrayInv', PlayInv, Stop
  PROVE  PlayInv' /\ Stopped
<1> DEFINE B == [k \in 1..N |-> stop(taskArray[k])]
<1>1. taskArray' = B /\ lamps' = lamps /\ defined' = defined
  BY DEF Stop
<1>2. \A k \in 1..N : B[k] = stop(taskArray[k])
  OBVIOUS
<1> HIDE DEF B
<1>3. ASSUME NEW k \in 1..N
      PROVE  /\ B[k].lamp_nr = taskArray[k].lamp_nr
             /\ ColorKept(taskArray[k]) => ColorKept(B[k])
             /\ \A c : P!Stop(Playing(taskArray[k], c), Playing(B[k], c))
  <2>1. WellFormed(taskArray[k])
    BY DEF ArrayInv, GoodArray
  <2>2. B[k] = InState(taskArray[k], "stopped")
    BY <1>2 DEF stop, InState
  <2>3. B[k].lamp_nr = taskArray[k].lamp_nr
    BY <2>1, <2>2, RewoundGood
  <2> QED
    BY <1>2, <2>1, <2>3, RewindPlays
<1>4. PlayInv'
  BY <1>1, <1>3 DEF PlayInv
<1>5. ASSUME NEW l \in Lamps PROVE P!Stop(PlayerOf(l), PlayerOf(l)')
  <2> DEFINE c == lamps[l]
  <2>1. GoodArray(taskArray) /\ GoodArray(B)
    BY <1>1 DEF ArrayInv
  <2>2. P!Stop(Playing(TaskIn(taskArray, l), c), Playing(TaskIn(B, l), c))
    <3>1. CASE TaskIn(taskArray, l) = NoTask(0) /\ TaskIn(B, l) = NoTask(0)
      BY <3>1, SilentRewinds
    <3>2. CASE \E k \in 1..N : TaskIn(taskArray, l) = taskArray[k] /\ TaskIn(B, l) = B[k]
      BY <1>3, <3>2
    <3> QED
      BY <1>3, <2>1, <3>1, <3>2, EntryOfLamp
  <2>3. CASE defined[l] = Disorder
    BY <1>1, <2>3, LoosePlays DEF PlayerOf
  <2>4. CASE defined[l] # Disorder
    BY <1>1, <2>2, <2>4 DEF PlayerOf
  <2> QED
    BY <2>3, <2>4
<1> QED
  BY <1>4, <1>5 DEF Stopped

LEMMA FrameRefines ==
  ASSUME ArrayInv, ArrayInv', OrderInv, PlayInv, Frame
  PROVE  PlayInv' /\ Framed
<1> DEFINE B == [k \in 1..N |-> IF taskArray[k].state # "stopped"
                                  THEN updateTask(taskArray[k]) ELSE taskArray[k]]
<1>1. /\ taskArray' = B /\ defined' = defined
      /\ \A l \in Lamps : lamps'[l] = IF Running(taskArray, l)
                                        THEN Visible(B[Max(Owner(taskArray, l))]) ELSE lamps[l]
  <2>1. taskArray' = B /\ defined' = defined
    BY DEF Frame
  <2>2. lamps' = [l \in Lamps |-> IF Running(taskArray, l)
                                   THEN Visible(taskArray'[Max(Owner(taskArray, l))])
                                   ELSE lamps[l]]
    BY DEF Frame
  <2> HIDE DEF B
  <2> QED
    BY <2>1, <2>2
<1>2. \A k \in 1..N : B[k] = IF taskArray[k].state # "stopped"
                               THEN updateTask(taskArray[k]) ELSE taskArray[k]
  OBVIOUS
<1> HIDE DEF B
<1>3. ASSUME NEW k \in 1..N
      PROVE  /\ B[k].lamp_nr = taskArray[k].lamp_nr
             /\ taskArray[k].lamp_nr \in Lamps /\ defined[taskArray[k].lamp_nr] # Disorder =>
                  ColorKept(B[k])
             /\ taskArray[k].state # "stopped" /\ defined[taskArray[k].lamp_nr] # Disorder =>
                  \A c : P!Frame(Playing(taskArray[k], c), Playing(B[k], Visible(B[k])))
  <2> DEFINE t == taskArray[k]
  <2>1. WellFormed(t) /\ EntryInv(t, defined)
    BY DEF ArrayInv, GoodArray, OrderInv
  <2>2. CASE t.state # "stopped"
    <3>1. t.lamp_nr \in Lamps
      <4>1. NoTask(t.cur).state = "stopped"
        BY DEF NoTask
      <4> QED
        BY <2>1, <2>2, <4>1 DEF WellFormed
    <3>2. defined[t.lamp_nr] # Disorder =>
            WithinStep(t) /\ DeltasMatch(t, defined[t.lamp_nr]) /\ ColorKept(t)
      BY <2>1, <3>1 DEF EntryInv, PlayInv
    <3>3. B[k] = updateTask(t)
      BY <1>2, <2>2
    <3>4. B[k].lamp_nr = t.lamp_nr
      BY <2>1, <2>2, <3>3, UpdateGood DEF Kept
    <3> HIDE DEF t
    <3>5. ASSUME defined[t.lamp_nr] # Disorder
          PROVE  ColorKept(B[k]) /\ \A c : P!Frame(Playing(t, c), Playing(B[k], Visible(B[k])))
      BY <2>1, <2>2, <3>2, <3>3, <3>5, PlaysOn
    <3> QED
      BY <3>4, <3>5 DEF t
  <2>3. CASE t.state = "stopped"
    BY <1>2, <2>1, <2>3 DEF PlayInv
  <2> QED
    BY <2>2, <2>3
<1>4. PlayInv'
  BY <1>1, <1>3 DEF PlayInv
<1>5. ASSUME NEW l \in Lamps PROVE P!Frame(PlayerOf(l), PlayerOf(l)')
  <2>1. GoodArray(taskArray) /\ GoodArray(B)
    BY <1>1 DEF ArrayInv
  <2>5. CASE defined[l] = Disorder
    <3>1. lamps'[l] \in Colors
      BY DEF ArrayInv
    <3>2. PlayerOf(l) = Loose(lamps[l]) /\ PlayerOf(l)' = Loose(lamps'[l])
      BY <1>1, <2>5 DEF PlayerOf
    <3> QED
      BY <3>1, <3>2, LoosePlays
  <2> SUFFICES ASSUME defined[l] # Disorder PROVE P!Frame(PlayerOf(l), PlayerOf(l)')
    BY <2>5
  <2>2. PlayerOf(l) = Playing(TaskIn(taskArray, l), lamps[l])
        /\ PlayerOf(l)' = Playing(TaskIn(B, l), lamps'[l])
    BY <1>1 DEF PlayerOf
  <2>3. CASE TaskIn(taskArray, l) = NoTask(0) /\ TaskIn(B, l) = NoTask(0) /\ ~Running(taskArray, l)
    <3>1. lamps'[l] = lamps[l]
      BY <1>1, <2>3
    <3> QED
      BY <2>2, <2>3, <3>1, SilentRewinds
  <2>4. ASSUME NEW k \in 1..N, taskArray[k].lamp_nr = l, TaskIn(taskArray, l) = taskArray[k], TaskIn(B, l) = B[k],
               Owner(taskArray, l) = {k},
               Running(taskArray, l) <=> taskArray[k].state # "stopped"
        PROVE  P!Frame(PlayerOf(l), PlayerOf(l)')
    <3>1. CASE taskArray[k].state # "stopped"
      <4>1. Max({k}) = k
        BY DEF Max
      <4>2. lamps'[l] = Visible(B[k])
        BY <1>1, <2>4, <3>1, <4>1
      <4> QED
        BY <1>3, <2>2, <2>4, <3>1, <4>2
    <3>2. CASE taskArray[k].state = "stopped"
      <4>1. lamps'[l] = lamps[l] /\ B[k] = taskArray[k]
        BY <1>1, <1>2, <2>4, <3>2
      <4>2. PlayerOf(l)' = PlayerOf(l)
        BY <2>2, <2>4, <4>1
      <4>3. PlayerOf(l).mode = "off"
        BY <2>2, <2>4, <3>2, PlayingIs
      <4> QED
        BY <4>2, <4>3, Zenon DEF P!Frame
    <3> QED
      BY <3>1, <3>2
  <2> QED
    BY <1>3, <2>1, <2>3, <2>4, EntryOfLamp
<1> QED
  BY <1>4, <1>5 DEF Framed

LEMMA InitPlays == Init => PlayInv /\ P!Init
<1>0. SUFFICES ASSUME Init PROVE PlayInv /\ P!Init
  OBVIOUS
<1>1. /\ taskArray = [k \in 1..N |-> NoTask(0)] /\ lamps = [l \in Lamps |-> Depth - 1]
      /\ \A l \in Lamps : defined[l] # Disorder
  BY <1>0 DEF Init, Disorder
<1>2. PlayInv
  BY <1>1, NoTaskKept DEF PlayInv
<1>3. GoodArray(taskArray)
  BY <1>0, InitHolds DEF ArrayInv
<1>4. ASSUME NEW l \in Lamps
      PROVE  (IF defined[l] = Disorder THEN Loose(lamps[l]) ELSE Playing(TaskOf(l), lamps[l]))
               = P!Silent(Depth - 1)
  <2>1. TaskIn(taskArray, l) = NoTask(0)
    <3>1. \A k \in 1..N : taskArray[k].lamp_nr # l
      <4>1. NoTask(0).lamp_nr = Destroyed
        BY DEF NoTask
      <4> QED
        BY <1>1, <4>1, DestroyedNoLamp
    <3> QED
      BY <1>3, <3>1, TaskInIs
  <2>2. TaskOf(l) = NoTask(0)
    BY <2>1 DEF TaskOf, TaskIn
  <2>3. lamps[l] = Depth - 1
    BY <1>1
  <2> QED
    BY <1>1, <2>2, <2>3, SilentIs
<1>5. Depth - 1 \in Colors
  BY ScaleAssumption DEF Colors
<1>6. P!Init
  BY <1>4, <1>5, Zenon DEF P!Init
<1> QED
  BY <1>2, <1>6

LEMMA StepPlays ==
  ArrayInv /\ ArrayInv' /\ OrderInv /\ PlayInv /\ [Next]_vars =>
    PlayInv' /\ [P!Next]_([l \in Lamps |-> IF defined[l] = Disorder THEN Loose(lamps[l])
                                           ELSE Playing(TaskOf(l), lamps[l])])
<1> DEFINE bar == [l \in Lamps |-> IF defined[l] = Disorder THEN Loose(lamps[l])
                                    ELSE Playing(TaskOf(l), lamps[l])]
<1>0. SUFFICES ASSUME ArrayInv, ArrayInv', OrderInv, PlayInv, [Next]_vars
               PROVE  PlayInv' /\ [P!Next]_bar
  OBVIOUS
<1>1. \A l \in Lamps : bar[l] = PlayerOf(l) /\ bar'[l] = PlayerOf(l)'
  <2>1. \A l \in Lamps : bar[l] = PlayerOf(l)
    BY DEF PlayerOf, TaskOf, TaskIn
  <2>2. \A l \in Lamps : bar'[l] = PlayerOf(l)'
    BY DEF PlayerOf, TaskOf, TaskIn
  <2> QED
    BY <2>1, <2>2
<1>2. P!Next <=>
        \/ \A l \in Lamps : P!Frame(bar[l], bar'[l])
        \/ \A l \in Lamps : P!Command(bar[l], bar'[l])
        \/ \A l \in Lamps : P!Start(bar[l], bar'[l])
        \/ \A l \in Lamps : P!Stop(bar[l], bar'[l])
  BY Zenon DEF P!Next
<1> HIDE DEF bar
<1>3. Commanded \/ Started \/ Stopped \/ Framed => P!Next
  <2>1. Commanded => \A l \in Lamps : P!Command(bar[l], bar'[l])
    BY <1>1 DEF Commanded
  <2>2. Started => \A l \in Lamps : P!Start(bar[l], bar'[l])
    BY <1>1 DEF Started
  <2>3. Stopped => \A l \in Lamps : P!Stop(bar[l], bar'[l])
    BY <1>1 DEF Stopped
  <2>4. Framed => \A l \in Lamps : P!Frame(bar[l], bar'[l])
    BY <1>1 DEF Framed
  <2> QED
    BY <1>2, <2>1, <2>2, <2>3, <2>4, Zenon
<1>4. ASSUME NEW L \in Selections, NEW n \in StepCounts, NEW r \in BOOLEAN, Interp(L, n, r)
      PROVE  PlayInv' /\ Commanded
  BY <1>0, <1>4, InterpRefines
<1>5. ASSUME NEW L \in Selections, NEW j \in 1..Max(StepCounts),
             NEW step \in [color : Colors, frames : Frames, fade : Fading], Istep(L, j, step)
      PROVE  PlayInv' /\ Commanded
  <2>1. Max(StepCounts) \in StepCounts
    BY StepAssumption DEF Max
  <2>2. j \in Nat \ {0}
    BY <2>1, StepAssumption
  <2> QED
    BY <1>0, <1>5, <2>2, IstepRefines DEF StepArguments
<1>6. ASSUME NEW L \in Selections, Destroy(L) PROVE PlayInv' /\ Commanded
  BY <1>0, <1>6, DestroyRefines
<1>7. ASSUME NEW L \in Selections, NEW c \in Colors, Paint(L, c) PROVE PlayInv' /\ Commanded
  BY <1>0, <1>7, PaintRefines
<1>8. CASE Start
  BY <1>0, <1>3, <1>8, StartRefines
<1>9. CASE Stop
  BY <1>0, <1>3, <1>9, StopRefines
<1>10. CASE Frame
  BY <1>0, <1>3, <1>10, FrameRefines
<1>11. CASE UNCHANGED vars
  <2>1. taskArray' = taskArray /\ lamps' = lamps /\ defined' = defined
    BY <1>11 DEF vars
  <2>2. PlayInv'
    BY <1>0, <2>1 DEF PlayInv
  <2>3. bar' = bar
    BY <2>1 DEF bar, TaskOf
  <2> QED
    BY <2>2, <2>3
<1> QED
  BY <1>0, <1>3, <1>4, <1>5, <1>6, <1>7, <1>8, <1>9, <1>10, <1>11 DEF Next, Command

\* Each lamp plays its program whatever happens to the entries of the array: a
\* step for exactly its number of frames, a fade within two shades of the exact
\* line.  A lamp whose steps come in another order, or while it plays, is free
\* until it is defined anew or destroyed, and disturbs no other.
THEOREM PlaysProgramsTheorem == Spec => PlaysPrograms
<1>1. Init => PlayInv /\ P!Init
  BY InitPlays
<1>2. ArrayInv /\ ArrayInv' /\ OrderInv /\ PlayInv /\ [Next]_vars =>
        PlayInv' /\ [P!Next]_([l \in Lamps |-> IF defined[l] = Disorder THEN Loose(lamps[l])
                                                ELSE Playing(TaskOf(l), lamps[l])])
  BY StepPlays
<1> QED
  BY <1>1, <1>2, Invariants, PTL DEF Spec, PlaysPrograms, P!Spec
=============================================================================
