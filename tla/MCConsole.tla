----------------------------- MODULE MCConsole -----------------------------
(* Instance of Console for TLC.                                            *)
EXTENDS Console

\* one letter that is seen, and one that is not
MCLetters == {"x", Space}
=============================================================================
