---------------------------- MODULE MCGrantQueue -----------------------------
(* GrantQueue for TLC: the code's depth of 4 and seven grants, which overflow   *)
(* it twice; a smaller queue for the lost wake-up.                              *)
EXTENDS GrantQueue
=============================================================================
