---------------------------- MODULE MCAppRuntime ----------------------------
(* AppRuntime for TLC: a drawing app, one without a render callback, and one *)
(* whose descriptor does not validate.                                       *)
EXTENDS AppRuntime

CONSTANTS pong, files, bad

MCApps      == {pong, files, bad}
MCInvalid   == {bad}
MCRendering == {pong}
MCSessions  == {"lights", "link"}

=============================================================================
