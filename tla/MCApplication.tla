---------------------------- MODULE MCApplication ----------------------------
(* Application for TLC: one band, two overlapping bands of which one requires  *)
(* its device or none does, the default sweep with a pinned device, and two    *)
(* named devices.  The widths are multiples of 12, so that up to three devices *)
(* cut them evenly, and of no step (10): slices of 8, 12 and 24 units have     *)
(* one position or two, and one of 4 has none.                                 *)
EXTENDS Application

Segment(a, b, d, r) == [lo |-> a, hi |-> b, device |-> d, required |-> r]
Free(a, b)         == Segment(a, b, NoDevice, FALSE)
Config(bands, devs, pinned, grants) ==
  [bands |-> bands, devices |-> devs, sweep |-> Free(5, 29), pin |-> pinned, p25 |-> grants]

MCConfigs ==
  { Config(<<Free(5, 29)>>, <<>>, NoDevice, FALSE),
    Config(<<Segment(5, 17, "d1", TRUE), Free(11, 35)>>, <<>>, NoDevice, FALSE),
    Config(<<Free(5, 17), Free(11, 35)>>, <<>>, NoDevice, FALSE),
    Config(<<Free(5, 17)>>, <<>>, NoDevice, TRUE),
    Config(<<>>, <<>>, "d1", TRUE),
    Config(<<>>, <<"d1", "d2">>, NoDevice, FALSE) }
=============================================================================
