-------------------------- MODULE MCCore1Executor --------------------------
(* Two features sharing the executor, a three-bit ticket type (0 .. 7), and *)
(* enough submissions for the counter to wrap.  Mutants of the code follow. *)
EXTENDS Core1Executor
=============================================================================
