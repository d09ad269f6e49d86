-------------------------- MODULE MCInterpolators --------------------------
(* Instance of Interpolators for TLC.                                      *)
EXTENDS Interpolators
=============================================================================
