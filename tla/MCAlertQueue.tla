---------------------------- MODULE MCAlertQueue -----------------------------
(* AlertQueue for TLC; the configurations give the number of alerts and faults. *)
EXTENDS AlertQueue
=============================================================================
