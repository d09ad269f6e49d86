------------------------------- MODULE Player -------------------------------
(***************************************************************************)
(* What the color animations promise, lamp by lamp: a program is a         *)
(* sequence of steps, each shown for its number of frames, either held or  *)
(* fading towards the color of the step that follows.  A one-shot program  *)
(* ends on its last color, a repeating one starts over.  Interpolators is  *)
(* shown to implement this.                                                *)
(*                                                                         *)
(* A program is written step by step while it does not play.  Of a lamp    *)
(* whose steps are edited in another way nothing is promised until it gets *)
(* a new program: it is loose.                                             *)
(***************************************************************************)
EXTENDS Integers, Sequences, Durations

CONSTANTS Lamps, Colors, Frames, StepCounts

VARIABLE player  \* per lamp: what it plays

Step == [color : Colors, frames : Frames, fade : BOOLEAN]
Blank == [color |-> 0, frames |-> 1, fade |-> FALSE]

\* An empty program is none; elapsed counts the frames since the start.
Silent(c) == [program |-> << >>, repeating |-> FALSE, mode |-> "off", elapsed |-> 0, shown |-> c]
Loose(c) == [Silent(c) EXCEPT !.mode = "loose"]

Init == \E c \in Colors : player = [l \in Lamps |-> Silent(c)]

-----------------------------------------------------------------------------
(* One lamp: p is what it plays now, q what it plays next.                 *)

\* Redefining keeps quiet, a first definition starts at once.
Define(p, q) ==
  /\ p.mode \in {"off", "loose"}
  /\ \E n \in StepCounts, r \in BOOLEAN :
       q = [p EXCEPT !.program = [j \in 1..n |-> Blank], !.repeating = r,
                     !.mode = IF p = Silent(p.shown) THEN "starting" ELSE "off"]

\* only while the animation does not run: one step becomes any other
Edit(p, q) ==
  /\ p.mode = "off"
  /\ DOMAIN q.program = DOMAIN p.program
  /\ \E j \in DOMAIN p.program :
       /\ q.program[j] \in Step
       /\ q = [p EXCEPT !.program[j] = q.program[j]]

\* one step of a program becomes another one out of order, or while it plays
Loosen(p, q) == p.program # << >> /\ q = Loose(p.shown)

Remove(p, q) == q = Silent(p.shown)

Paint(p, q) == \E c \in Colors : q = [p EXCEPT !.shown = c]

Start(p, q) ==
  IF p.mode = "loose" THEN q = p
  ELSE q = [p EXCEPT !.mode = IF p.program = << >> THEN "off" ELSE "starting", !.elapsed = 0]

Stop(p, q) == IF p.mode = "loose" THEN q = p ELSE q = [p EXCEPT !.mode = "off", !.elapsed = 0]

StepAt(p, e) == CHOOSE j \in DOMAIN p : Until(p, j - 1) < e /\ e <= Until(p, j)

Follower(p, r, j) ==
  IF j < Len(p) THEN p[j + 1].color ELSE IF r THEN p[1].color ELSE p[j].color

\* c is what a step from a to b shows after k of its f frames: it begins with a
\* and stays between both colors, less than two shades from the exact value
Fades(c, a, b, k, f) ==
  LET exact == a * (f - k) + b * k IN
  /\ k = 0 => c = a
  /\ c \in (IF a <= b THEN a..b ELSE b..a)
  /\ c * f - exact \in (1 - 2 * f)..(2 * f - 1)

Shows(p, r, e, c) ==
  LET j == StepAt(p, e)
      k == e - Until(p, j - 1) - 1
  IN IF p[j].fade THEN Fades(c, p[j].color, Follower(p, r, j), k, p[j].frames)
                  ELSE c = p[j].color

\* the end of a one-shot
End(p, q) ==
  /\ p.mode = "running"
  /\ ~p.repeating /\ p.elapsed = Until(p.program, Len(p.program))
  /\ q = [p EXCEPT !.mode = "off", !.elapsed = 0, !.shown = p.program[Len(p.program)].color]

Play(p, q) ==
  LET all == Until(p.program, Len(p.program))
      e == IF p.elapsed < all THEN p.elapsed + 1 ELSE 1
  IN
  /\ p.mode \in {"starting", "running"}
  /\ p.elapsed < all \/ p.repeating
  /\ q = [p EXCEPT !.mode = "running", !.elapsed = e, !.shown = q.shown]
  /\ Shows(p.program, p.repeating, e, q.shown)

Wander(p, q) == p.mode = "loose" /\ \E c \in Colors : q = Loose(c)

Frame(p, q) == Play(p, q) \/ End(p, q) \/ Wander(p, q) \/ (p.mode = "off" /\ q = p)

-----------------------------------------------------------------------------
\* A command concerns some of the lamps and leaves the others alone.
Command(p, q) ==
  q = p \/ Paint(p, q) \/ Edit(p, q) \/ Loosen(p, q) \/ Define(p, q) \/ Remove(p, q)

Next ==
  \/ \A l \in Lamps : Frame(player[l], player'[l])
  \/ \A l \in Lamps : Command(player[l], player'[l])
  \/ \A l \in Lamps : Start(player[l], player'[l])
  \/ \A l \in Lamps : Stop(player[l], player'[l])

Spec == Init /\ [][Next]_player
=============================================================================
