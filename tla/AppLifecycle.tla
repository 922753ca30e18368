---------------------------- MODULE AppLifecycle ----------------------------
(***************************************************************************)
(* The life of the foreground app instance as docs/spec/APP_RUNTIME.md     *)
(* tabulates it under "State machine" and "Failure unwind": which stages   *)
(* an instance goes through, in which order, and that the first error of   *)
(* an instance is the one that is kept.  A stage is entered at most once,  *)
(* so stop and scoped cleanup run exactly once where the table says so.    *)
(*                                                                         *)
(* AppRuntime implements this specification.                               *)
(***************************************************************************)
EXTENDS Naturals

CONSTANT NoError      \* HK_OK

VARIABLES phase,      \* stage of the instance, "none" between instances
          instance,   \* number of instances prepared so far
          error       \* first_error of the instance

lifeVars == <<phase, instance, error>>

LifeInit == phase = "none" /\ instance = 0 /\ error = NoError

FirstErrorKept == error = NoError \/ error' = error

(* Production scope preparation begins. *)
Prepare ==
    /\ phase = "none" /\ phase' = "preparing"
    /\ instance' = instance + 1
    /\ error' = NoError

Step(from, to) ==
    /\ phase = from /\ phase' = to
    /\ UNCHANGED instance
    /\ FirstErrorKept

(* A failure unwinds from the deepest stage reached, and is remembered. *)
Fail(from, to) == Step(from, to) /\ error' # NoError

Start        == Step("preparing", "starting") /\ UNCHANGED error
PrepareFails == Fail("preparing", "cleaning")
Run          == Step("starting", "running") /\ UNCHANGED error
StartFails   == Fail("starting", "stopping")

(* A close may be waiting already when start returns. *)
Close        == \E from \in {"starting", "running"} : Step(from, "closing")
Stop         == Step("closing", "stopping")
Clean        == Step("stopping", "cleaning")
Retire       == Step("cleaning", "none") \/ Step("cleaning", "faulted")

LifeNext ==
    \/ Prepare \/ Start \/ PrepareFails \/ Run \/ StartFails \/ Close
    \/ Stop \/ Clean \/ Retire

LifeSpec == LifeInit /\ [][LifeNext]_lifeVars
=============================================================================
