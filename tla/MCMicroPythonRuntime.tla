------------------------ MODULE MCMicroPythonRuntime ------------------------
(* Three jobs in all: script runs and jobs of another feature in any order. *)
EXTENDS MicroPythonRuntime

=============================================================================
