------------------------------- MODULE MCRecon -------------------------------
(* Recon for TLC: two bins, captures enough for a second one of each kind and   *)
(* a clock that runs beyond the cooldown.                                       *)
EXTENDS Recon
CONSTANTS b1, b2
TwoBins == {b1, b2}
=============================================================================
