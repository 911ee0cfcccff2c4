---------------------------- MODULE MCDetectionDb ----------------------------
(* DetectionDb for TLC: batches of two or three, more detections than fit       *)
(* into two batches, and enough outages for a second one during recovery.       *)
EXTENDS DetectionDb
=============================================================================
