------------------------------- MODULE MCCfar --------------------------------
(* Cfar for TLC: eight usable bins of four levels.  The first and last three    *)
(* bins have reference bins missing, and the blanked zone is a third of the     *)
(* band; as by default, the threshold is more than twice the ratio asked for.   *)
EXTENDS Cfar

MCLevels == {-4, -3, -2, 0}
=============================================================================
