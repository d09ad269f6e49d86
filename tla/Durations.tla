----------------------------- MODULE Durations -----------------------------
(* How long a sequence of steps takes, which are records with a field      *)
(* frames.                                                                 *)
EXTENDS Integers

\* frames from the start to the end of step j
Until(steps, j) ==
  LET sum[i \in 0..j] == IF i = 0 THEN 0 ELSE sum[i - 1] + steps[i].frames IN sum[j]
=============================================================================
