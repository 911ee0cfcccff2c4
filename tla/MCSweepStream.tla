---------------------------- MODULE MCSweepStream ----------------------------
(* SweepStream for TLC.  The band and the bounds are numbers of the .cfg       *)
(* files; nothing needs an override.                                           *)
EXTENDS SweepStream
=============================================================================
