--------------------------- MODULE AiModelRuntime ---------------------------
(***************************************************************************)
(* services/ai_model_runtime.c over platforms/k210/hal/hal_kpu.c: loading  *)
(* a model, running it on the accelerator, and giving its memory back      *)
(* although an inference may still be running, or never end.               *)
(*                                                                         *)
(* Every detector has a runtime of its own; the accelerator serves the one *)
(* g_owner names.  Operators take and return the record kpu; VisionApps    *)
(* composes them.  The completion interrupt is an action.                  *)
(***************************************************************************)
EXTENDS Integers

CONSTANTS Runtimes,    \* the ai_model_runtime_t objects
          NoRuntime

ASSUME RuntimeAssumption == NoRuntime \notin Runtimes

VARIABLE kpu

ModelStates == {"UNLOADED", "READY", "RUNNING", "UNLOAD_PENDING", "FAULT"}

Kpu == [state : [Runtimes -> ModelStates], pending : [Runtimes -> {0, 1}],
        owner : Runtimes \cup {NoRuntime},
        \* hal_kpu.c: g_busy, g_loaded, g_done_userdata; the hardware itself
        busy : {0, 1}, loaded : {0, 1}, done : Runtimes \cup {NoRuntime},
        engine : {0, 1},
        \* the unload timeout, or the teardown deadline, has passed
        late : {0, 1}]

InitKpu == [state |-> [r \in Runtimes |-> "UNLOADED"],
            pending |-> [r \in Runtimes |-> 0], owner |-> NoRuntime,
            busy |-> 0, loaded |-> 0, done |-> NoRuntime, engine |-> 0, late |-> 0]

-----------------------------------------------------------------------------
(* hal_kpu_done and inference_done, from the accelerator's interrupt.  An    *)
(* inference whose model is being unloaded reports nothing.                  *)
Completed(k) ==
    LET r == k.done
        b == [k EXCEPT !.engine = 0, !.busy = 0]
    IN  IF r # NoRuntime /\ k.state[r] = "RUNNING"
          THEN [b EXCEPT !.state[r] = "READY", !.pending[r] = 1]
          ELSE b

InferenceDone == kpu.engine = 1 /\ kpu' = Completed(kpu)

(* Time passes while an unload waits for its inference. *)
UnloadExpires ==
    /\ \E r \in Runtimes : kpu.state[r] = "UNLOAD_PENDING"
    /\ kpu.late = 0
    /\ kpu' = [kpu EXCEPT !.late = 1]

(* clear_loaded_fields, release_resources: nothing while the HAL is busy. *)
Clear(k, r) == [k EXCEPT !.state[r] = "UNLOADED", !.pending[r] = 0,
                         !.owner = IF @ = r THEN NoRuntime ELSE @]

Released(k, r) ==
    IF k.busy = 1 THEN k
    ELSE Clear([k EXCEPT !.loaded = 0, !.done = NoRuntime, !.late = 0], r)

(* hal_kpu_stop_and_reset: both interrupt sources off, callbacks removed. *)
StopAndReset(k) == [k EXCEPT !.engine = 0, !.busy = 0, !.done = NoRuntime]

(* ai_model_runtime_tick: an unload completes once the accelerator is idle,  *)
(* or stops it at the deadline.                                              *)
Tick(k, r) ==
    IF k.state[r] # "UNLOAD_PENDING" THEN k
    ELSE IF k.busy = 0 THEN Released(k, r)
    ELSE IF k.late = 0 THEN k
    ELSE Released(StopAndReset(k), r)

(* ai_model_runtime_request_unload.  The test of the state and the store of  *)
(* UNLOAD_PENDING are two steps: the completion interrupt may come between.  *)
UnloadWaits(k, r) == k.state[r] = "RUNNING"

UnloadTest(k, r) ==
    IF k.state[r] = "UNLOADED" THEN k
    ELSE LET q == [k EXCEPT !.pending[r] = 0] IN
         IF UnloadWaits(k, r) THEN q
         ELSE IF k.busy = 1 THEN [q EXCEPT !.state[r] = "FAULT"]
         ELSE Released(q, r)

UnloadStore(k, r) == [k EXCEPT !.state[r] = "UNLOAD_PENDING"]

(* ai_model_runtime_load, after its tick: refused while any model is in.     *)
(* What it reads from the card, the manifest or the labels may be wrong.     *)
LoadRefused(k, r) ==
    k.state[r] # "UNLOADED" \/ k.owner # NoRuntime \/ k.busy = 1 \/ k.loaded = 1

Loaded(k, r) == [k EXCEPT !.state[r] = "READY", !.owner = r, !.loaded = 1]

(* ai_model_runtime_run; the accelerator may refuse to start. *)
RunRefused(k, r) == k.owner # r \/ k.state[r] # "READY" \/ k.busy = 1

RunStarted(k, r) == [k EXCEPT !.pending[r] = 0, !.state[r] = "RUNNING",
                              !.busy = 1, !.done = r, !.engine = 1]

RunFailed(k, r) == [k EXCEPT !.pending[r] = 0, !.done = NoRuntime]

(* ai_model_runtime_loaded, ai_model_runtime_busy *)
IsLoaded(k, r) == k.owner = r /\ k.loaded = 1 /\ k.state[r] \in {"READY", "RUNNING"}
IsBusy(k, r)   == k.state[r] \in {"RUNNING", "UNLOAD_PENDING"}

=============================================================================
