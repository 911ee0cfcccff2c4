---------------------------- MODULE MCScanSession ----------------------------
(* ScanSession for TLC: one fixed local port (receiver.port # 0) and one port   *)
(* a controller may substitute.                                                 *)
EXTENDS ScanSession

OnePort   == {1}
Override  == {9}
=============================================================================
