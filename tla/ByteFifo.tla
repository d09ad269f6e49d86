------------------------------ MODULE ByteFifo ------------------------------
(***************************************************************************)
(* What printf promises to its callers: the bytes printed to an interface  *)
(* leave it once each and in the order they were printed.                  *)
(***************************************************************************)
EXTENDS Sequences, Naturals

CONSTANTS
  Byte,      \* the bytes that can be printed
  Capacity   \* how many of them can wait

VARIABLES
  offered,   \* the byte a caller is printing, "none" between two
  pending,   \* bytes printed and not yet handed to the hardware
  out        \* the byte last handed to the hardware

fifoVars == <<offered, pending, out>>

Offer ==
  /\ offered = "none"
  /\ offered' \in Byte
  /\ UNCHANGED <<pending, out>>

Put ==
  /\ offered # "none"
  /\ Len(pending) < Capacity
  /\ pending' = Append(pending, offered)
  /\ offered' = "none"
  /\ out' = out

Take ==
  /\ pending # << >>
  /\ out' = Head(pending)
  /\ pending' = Tail(pending)
  /\ offered' = offered

Init == offered = "none" /\ pending = << >> /\ out = "none"

Next == Offer \/ Put \/ Take

Safety == Init /\ [][Next]_fifoVars

\* every printed byte is eventually sent
Spec == Safety /\ WF_fifoVars(Take)
=============================================================================
