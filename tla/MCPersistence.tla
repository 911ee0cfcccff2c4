---------------------------- MODULE MCPersistence ----------------------------
(* Persistence for TLC: two centres that share a grid of two buckets, one of    *)
(* them with two frequencies.                                                   *)
EXTENDS Persistence

TwoCenters == {100, 200}
TwoBuckets == {1, 2, 3}    \* with a quantum of 2: buckets 0 and 2
=============================================================================
