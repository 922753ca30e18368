------------------------- MODULE MCApriltagDetector -------------------------
(* Two sessions, five jobs besides the destroy jobs, three sequence numbers. *)
EXTENDS ApriltagDetector
=============================================================================
