------------------------- MODULE MCCapabilityBridge -------------------------
(* Two runs of up to three calls, two-bit tickets, a stage of three commands. *)
EXTENDS CapabilityBridge
=============================================================================
