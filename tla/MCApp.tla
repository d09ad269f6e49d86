------------------------------- MODULE MCApp -------------------------------
(* Instance of App for TLC, with one lamp: an animation whose first steps   *)
(* are combined before it fades to another color, and one of two steps,     *)
(* longer and shorter than those.                                           *)
EXTENDS App

S(color, frames) == [color |-> color, frames |-> frames, fade |-> TRUE]
Lamp(steps) == [l \in Lamps |-> steps]

MCOwn == {Lamp(<<S(1, 1), S(1, 2), S(0, 1)>>)}
MCSaved == {Lamp(<<S(0, 2)>>)}
=============================================================================
