----------------------------- MODULE MCStorage -----------------------------
(* Instance of Storage for TLC: two lamps with up to two steps each.       *)
EXTENDS Storage

MCBlank == << << >>, << >> >>
MCAnimations == {MCBlank, << <<1>>, << >> >>, << << >>, <<2, 1>> >>, << <<2, 1>>, <<1, 1>> >>}
=============================================================================
