------------------------- MODULE MicroPythonRuntime -------------------------
(***************************************************************************)
(* services/micropython_runtime.c: core 0 starts, stops, polls and guards  *)
(* one script run; core 1 runs the VM as a job of the executor and         *)
(* publishes the result through shared memory.                             *)
(*                                                                         *)
(* Core 0 is one thread (pc0), core 1 is inside at most one job (pcw).     *)
(* The executor is the one-job slot of JobSlot, which Core1Executor        *)
(* implements.  Time is what the code compares it with: whether the run    *)
(* deadline, the deadline plus its grace, and the stop request plus its    *)
(* grace have passed.                                                      *)
(***************************************************************************)
EXTENDS JobSlot

CONSTANTS Worker,     \* micropython_worker
          MaxJobs,    \* bound on the number of jobs explored
          None        \* no result published

ASSUME WorkerAssumption == Worker \in Jobs

ASSUME MaxJobsAssumption == MaxJobs \in Nat

VARIABLES
    \* micropython_shared_t
    state, exitReason, runId, stopRequested,
    \* the clock against deadline_us and stop_requested_us
    deadline, stopClock,
    \* core 0: program counter, the caller of poll, g_ticket, bridge lease
    pc0, cont, gTicket, bridge,
    \* core 1: position inside micropython_worker
    pcw,
    \* history of the last run: what its worker published; whether core 0
    \* stored over that; whether it had a whole grace period; whether it was
    \* published only after the watchdog's last look at state
    published, disturbed, overdue, late

shared  == <<state, exitReason, runId, stopRequested>>
clocks  == <<deadline, stopClock>>
core0   == <<pc0, cont, gTicket, bridge>>
history == <<published, disturbed, overdue, late>>
vars    == <<slotVars, shared, clocks, core0, pcw, history>>

States == {"STOPPED", "STARTING", "RUNNING", "STOPPING", "FINISHED", "ERROR"}
Exits  == {"NONE", "COMPLETE", "REQUESTED", "TIMEOUT", "EXCEPTION", "BUSY",
           "INVALID_SOURCE", "CORE1_FAILURE"}

(* micropython_state_active *)
Active(s) == s \in {"STARTING", "RUNNING", "STOPPING"}

(* The type of every variable. *)
TypeOK ==
    /\ SlotTypeOK
    /\ state \in States /\ exitReason \in Exits /\ runId \in Nat
    /\ stopRequested \in {0, 1}
    /\ deadline \in {"before", "passed", "grace"}
    /\ stopClock \in {"none", "asked", "grace"}
    /\ pc0 \in {"main", "poll", "retire", "settle", "watch", "recheck",
                "start", "prepare", "submit", "stopFlag", "stopState", "arm", "halted"}
    /\ cont \in {"main", "start"}
    /\ gTicket \in Nat
    /\ bridge \in {"closed", "open"}
    /\ pcw \in {"none", "entry", "vm", "bind", "deinit", "publish", "return"}
    /\ published \in {<<"FINISHED", "COMPLETE">>, <<"ERROR", "EXCEPTION">>,
                      <<"STOPPED", "REQUESTED">>, <<"STOPPED", "TIMEOUT">>, None}
    /\ disturbed \in {0, 1} /\ overdue \in {0, 1} /\ late \in {0, 1}

Init ==
    /\ SlotInit
    /\ state = "STOPPED" /\ exitReason = "NONE" /\ runId = 0 /\ stopRequested = 0
    /\ deadline = "before" /\ stopClock = "none"
    /\ pc0 = "main" /\ cont = "main" /\ gTicket = 0 /\ bridge = "closed"
    /\ pcw = "none"
    /\ published = None /\ disturbed = 0 /\ overdue = 0 /\ late = 0

-----------------------------------------------------------------------------
(* Core 0: micropython_runtime_poll, alone or as the first call of start. *)

PollCall(caller) ==
    /\ pc0 = "main"
    /\ pc0' = "poll" /\ cont' = caller
    /\ UNCHANGED <<slotVars, shared, clocks, gTicket, bridge, pcw, history>>

(* Mutant: a run is retired as soon as it is no longer RUNNING. *)
PollCheckNotRunning ==
    /\ pc0 = "poll"
    /\ pc0' = IF gTicket # 0 /\ (SlotComplete(gTicket) \/ state # "RUNNING")
              THEN "retire" ELSE "watch"
    /\ UNCHANGED <<slotVars, shared, clocks, cont, gTicket, bridge, pcw, history>>

PollCheck ==
    /\ pc0 = "poll"
    /\ pc0' = IF gTicket # 0 /\ (SlotComplete(gTicket) \/ ~Active(state))
              THEN "retire" ELSE "watch"
    /\ UNCHANGED <<slotVars, shared, clocks, cont, gTicket, bridge, pcw, history>>

(* micropython_capability_bridge_cleanup *)
PollRetire ==
    /\ pc0 = "retire"
    /\ gTicket' = 0
    /\ bridge' = "closed"
    /\ pc0' = "settle"
    /\ UNCHANGED <<slotVars, shared, clocks, cont, pcw, history>>

(* The executor completed although no terminal state was published. *)
PollSettle ==
    /\ pc0 = "settle"
    /\ IF Active(state)
       THEN state' = "ERROR" /\ exitReason' = "CORE1_FAILURE"
       ELSE UNCHANGED <<state, exitReason>>
    /\ pc0' = "watch"
    /\ UNCHANGED <<slotVars, runId, stopRequested, clocks, cont, gTicket, bridge,
                   pcw, history>>

(* micropython_watchdog_poll: the decision, then the second read of state. *)
(* Mutant: only a stop request starts the watchdog's grace period. *)
ExpiredStopOnly == stopClock = "grace"

Expired == deadline = "grace" \/ stopClock = "grace"

PollWatch ==
    /\ pc0 = "watch"
    /\ pc0' = IF Active(state) /\ Expired THEN "recheck" ELSE cont
    /\ UNCHANGED <<slotVars, shared, clocks, cont, gTicket, bridge, pcw, history>>

(* Mutant: the state is not read again before the reset. *)
PollRecheckNone ==
    /\ pc0 = "recheck"
    /\ pc0' = "arm"
    /\ UNCHANGED <<slotVars, shared, clocks, cont, gTicket, bridge, pcw, history>>

PollRecheck ==
    /\ pc0 = "recheck"
    /\ pc0' = IF Active(state) THEN "arm" ELSE cont
    /\ UNCHANGED <<slotVars, shared, clocks, cont, gTicket, bridge, pcw, history>>

(* hal_watchdog_force_reset arms WDT1 and never returns.  Core 1 goes on: it *)
(* may have published since the second read, and may still.                  *)
PollArm ==
    /\ pc0 = "arm"
    /\ pc0' = "halted"
    /\ UNCHANGED <<slotVars, shared, clocks, cont, gTicket, bridge, pcw, history>>

(* WDT1 resets the SoC, which boots with everything as in Init. *)
WatchdogResets ==
    /\ pc0 = "halted"
    /\ slot' = NoJob /\ current' = NoJob /\ issued' = 0 /\ finished' = 0
    /\ state' = "STOPPED" /\ exitReason' = "NONE" /\ runId' = 0 /\ stopRequested' = 0
    /\ deadline' = "before" /\ stopClock' = "none"
    /\ pc0' = "main" /\ cont' = "main" /\ gTicket' = 0 /\ bridge' = "closed"
    /\ pcw' = "none"
    /\ published' = None /\ disturbed' = 0 /\ overdue' = 0 /\ late' = 0

-----------------------------------------------------------------------------
(* Core 0: the rest of micropython_runtime_start. *)

Occupied == Active(state) \/ gTicket # 0

(* Returns 0 after storing a result: published outcomes may be stored over. *)
RejectWith(s, e) ==
    /\ state' = s /\ exitReason' = e
    /\ disturbed' = IF published # None THEN 1 ELSE disturbed
    /\ pc0' = "main" /\ cont' = "main"
    /\ UNCHANGED <<slotVars, runId, stopRequested, clocks, gTicket, bridge, pcw, published,
                   overdue, late>>

StartOccupied ==
    /\ pc0 = "start" /\ Occupied
    /\ pc0' = "main" /\ cont' = "main"
    /\ UNCHANGED <<slotVars, shared, clocks, gTicket, bridge, pcw, history>>

StartInvalid ==
    /\ pc0 = "start" /\ ~Occupied
    /\ RejectWith("ERROR", "INVALID_SOURCE")

(* core1_executor_init can fail only until core 1 has answered once. *)
StartNoCore ==
    /\ pc0 = "start" /\ ~Occupied /\ issued = 0
    /\ RejectWith("ERROR", "CORE1_FAILURE")

StartBusy ==
    /\ pc0 = "start" /\ ~Occupied /\ ~SlotIdle
    /\ RejectWith(state, "BUSY")

(* Mutant: the time of the last stop request is kept. *)
StartAcceptKeepsStop ==
    /\ pc0 = "start" /\ ~Occupied /\ SlotIdle /\ issued < MaxJobs
    /\ stopRequested' = 0 /\ deadline' = "before"
    /\ exitReason' = "NONE" /\ state' = "STARTING"
    /\ runId' = runId + 1
    /\ published' = None /\ disturbed' = 0 /\ overdue' = 0 /\ late' = 0
    /\ pc0' = "prepare" /\ cont' = "main"
    /\ UNCHANGED <<slotVars, stopClock, gTicket, bridge, pcw>>

(* The stores of an accepted request; nobody else uses the block then. *)
StartAccept ==
    /\ pc0 = "start" /\ ~Occupied /\ SlotIdle /\ issued < MaxJobs
    /\ stopRequested' = 0 /\ stopClock' = "none" /\ deadline' = "before"
    /\ exitReason' = "NONE" /\ state' = "STARTING"
    /\ runId' = runId + 1
    /\ published' = None /\ disturbed' = 0 /\ overdue' = 0 /\ late' = 0
    /\ pc0' = "prepare" /\ cont' = "main"
    /\ UNCHANGED <<slotVars, gTicket, bridge, pcw>>

(* micropython_capability_bridge_prepare *)
StartPrepare ==
    /\ pc0 = "prepare"
    /\ bridge' = "open"
    /\ pc0' = "submit"
    /\ UNCHANGED <<slotVars, shared, clocks, cont, gTicket, pcw, history>>

StartSubmit ==
    /\ pc0 = "submit"
    /\ SlotSubmit(Worker)
    /\ gTicket' = issued + 1
    /\ pc0' = "main"
    /\ UNCHANGED <<shared, clocks, cont, bridge, pcw, history>>

-----------------------------------------------------------------------------
(* Core 0: micropython_runtime_request_stop. *)

StopCheck ==
    /\ pc0 = "main"
    /\ Active(state)
    /\ pc0' = "stopFlag"
    /\ UNCHANGED <<slotVars, shared, clocks, cont, gTicket, bridge, pcw, history>>

StopFlag ==
    /\ pc0 = "stopFlag"
    /\ stopRequested' = 1
    /\ stopClock' = IF stopClock = "none" THEN "asked" ELSE stopClock
    /\ pc0' = "stopState"
    /\ UNCHANGED <<slotVars, state, exitReason, runId, deadline, cont, gTicket, bridge,
                   pcw, history>>

StopState ==
    /\ pc0 = "stopState"
    /\ state' = "STOPPING"
    /\ disturbed' = IF published # None THEN 1 ELSE disturbed
    /\ pc0' = "main"
    /\ UNCHANGED <<slotVars, exitReason, runId, stopRequested, clocks, cont, gTicket, bridge,
                   pcw, published, overdue, late>>

(* Another feature of core 0 (the AprilTag detector) uses the executor. *)
OtherSubmit(j) ==
    /\ pc0 = "main" /\ issued < MaxJobs
    /\ SlotSubmit(j)
    /\ UNCHANGED <<shared, clocks, core0, pcw, history>>

OtherRuns ==
    /\ \/ slot # Worker /\ SlotBegin
       \/ current # Worker /\ SlotEnd
    /\ UNCHANGED <<shared, clocks, core0, pcw, history>>

-----------------------------------------------------------------------------
(* Core 1: micropython_worker. *)

WorkerBegin ==
    /\ slot = Worker /\ SlotBegin
    /\ pcw' = "entry"
    /\ UNCHANGED <<shared, clocks, core0, history>>

WorkerRunning ==
    /\ pcw = "entry"
    /\ state' = "RUNNING"
    /\ pcw' = "vm"
    /\ UNCHANGED <<slotVars, exitReason, runId, stopRequested, clocks, core0, history>>

(* micropython_runtime_interrupt_pending: the exit reason it leaves behind. *)
Interrupt == stopRequested = 1 \/ deadline # "before"

InterruptReason == IF stopRequested = 1 THEN "REQUESTED" ELSE "TIMEOUT"

(* The VM hook raises KeyboardInterrupt, which the script catches (it goes  *)
(* on) or not (the VM ends).                                                *)
VmInterrupted ==
    /\ pcw = "vm" /\ Interrupt
    /\ exitReason' = InterruptReason
    /\ pcw' \in {"vm", "deinit"}
    /\ UNCHANGED <<slotVars, state, runId, stopRequested, clocks, core0, history>>

(* An uncaught exception of the script. *)
VmRaises ==
    /\ pcw = "vm"
    /\ exitReason' = IF exitReason = "NONE" THEN "EXCEPTION" ELSE exitReason
    /\ pcw' = "deinit"
    /\ UNCHANGED <<slotVars, state, runId, stopRequested, clocks, core0, history>>

VmEnds ==
    /\ pcw = "vm"
    /\ pcw' = "deinit"
    /\ UNCHANGED <<slotVars, shared, clocks, core0, history>>

(* A binding call: the only use the script makes of the bridge. *)
VmBinds ==
    /\ pcw = "vm"
    /\ pcw' = "bind"
    /\ UNCHANGED <<slotVars, shared, clocks, core0, history>>

VmBound ==
    /\ pcw = "bind"
    /\ exitReason' \in {exitReason} \cup (IF Interrupt THEN {InterruptReason} ELSE {})
    /\ pcw' = "vm"
    /\ UNCHANGED <<slotVars, state, runId, stopRequested, clocks, core0, history>>

WorkerReason ==
    /\ pcw = "deinit"
    /\ exitReason' = IF exitReason = "NONE" THEN "COMPLETE" ELSE exitReason
    /\ pcw' = "publish"
    /\ UNCHANGED <<slotVars, state, runId, stopRequested, clocks, core0, history>>

TerminalState(e) ==
    CASE e = "COMPLETE" -> "FINISHED"
      [] e = "EXCEPTION" -> "ERROR"
      [] OTHER -> "STOPPED"

WorkerPublish ==
    /\ pcw = "publish"
    /\ state' = TerminalState(exitReason)
    /\ published' = <<TerminalState(exitReason), exitReason>>
    /\ late' = IF pc0 \in {"arm", "halted"} THEN 1 ELSE 0
    /\ pcw' = "return"
    /\ UNCHANGED <<slotVars, exitReason, runId, stopRequested, clocks, core0, disturbed, overdue>>

WorkerReturn ==
    /\ pcw = "return" /\ SlotEnd
    /\ pcw' = "none"
    /\ UNCHANGED <<shared, clocks, core0, history>>

-----------------------------------------------------------------------------
(* Time passes while the run's deadline and stop times are set. *)

DeadlinePasses ==
    /\ runId > 0 /\ deadline = "before"
    /\ deadline' = "passed"
    /\ UNCHANGED <<slotVars, shared, stopClock, core0, pcw, history>>

DeadlineGraceEnds ==
    /\ runId > 0 /\ deadline = "passed"
    /\ deadline' = "grace" /\ overdue' = 1
    /\ UNCHANGED <<slotVars, shared, stopClock, core0, pcw, published, disturbed, late>>

StopGraceEnds ==
    /\ runId > 0 /\ stopClock = "asked"
    /\ stopClock' = "grace" /\ overdue' = 1
    /\ UNCHANGED <<slotVars, shared, deadline, core0, pcw, published, disturbed, late>>

-----------------------------------------------------------------------------
Poll == PollCall("main") \/ PollCheck \/ PollRetire \/ PollSettle
        \/ PollWatch \/ PollRecheck \/ PollArm

Start == PollCall("start") \/ StartOccupied \/ StartInvalid \/ StartNoCore
         \/ StartBusy \/ StartAccept \/ StartPrepare \/ StartSubmit

Stop == StopCheck \/ StopFlag \/ StopState

Vm == VmInterrupted \/ VmRaises \/ VmEnds \/ VmBinds

WorkerStep == WorkerBegin \/ WorkerRunning \/ VmBound \/ WorkerReason
              \/ WorkerPublish \/ WorkerReturn

Time == DeadlinePasses \/ DeadlineGraceEnds \/ StopGraceEnds

Next ==
    \/ Poll \/ Start \/ Stop
    \/ \E j \in Jobs \ {Worker} : OtherSubmit(j)
    \/ OtherRuns
    \/ Vm \/ WorkerStep \/ Time \/ WatchdogResets

Spec == Init /\ [][Next]_vars

(* The main loop polls in every iteration, core 1 runs its own code, every   *)
(* call returns, time passes, and WDT1, which nobody feeds, fires.  The      *)
(* script itself may never yield: no fairness on Vm.                         *)
Core0Step ==
    \/ PollCheck \/ PollRetire \/ PollSettle \/ PollWatch \/ PollRecheck \/ PollArm
    \/ StartOccupied \/ StartInvalid \/ StartBusy \/ StartPrepare \/ StartSubmit
    \/ StopFlag \/ StopState

Fairness ==
    /\ SF_vars(PollCall("main")) /\ WF_vars(Core0Step)
    /\ WF_vars(WorkerStep) /\ WF_vars(OtherRuns)
    /\ WF_vars(Time) /\ WF_vars(WatchdogResets)

FairSpec == Spec /\ Fairness

-----------------------------------------------------------------------------
(* Properties. *)

(* Two runs never overlap in the memory they share.  The bridge lease of a   *)
(* run outlives the worker's last possible access to it: core 0 never cleans *)
(* up under a VM that can still issue a binding call, although it does not   *)
(* wait for the executor's completion store.  And an accepted start rewrites *)
(* the source, the flags and the deadline only when no worker is left inside *)
(* the executor to read them.                                                *)
RunsSeparated ==
    /\ pcw \in {"entry", "vm", "bind"} => bridge = "open"
    /\ pc0 \in {"prepare", "submit"} => pcw = "none" /\ slot = NoJob

(* The watchdog takes the SoC down, from the second read of state until WDT1 *)
(* fires, only for a run that is not retired, that has used up a grace       *)
(* period of its own (no stop request or deadline of an earlier run counts), *)
(* and whose result was not there to be seen at that second read.  A result  *)
(* published after it is lost with the SoC, and one that a stop request      *)
(* stored over was not seen.                                                 *)
ResetOnlyOverdue ==
    pc0 \in {"arm", "halted"} =>
        /\ gTicket # 0
        /\ overdue = 1
        /\ published # None => late = 1 \/ disturbed = 1

(* Every accepted run is retired, or the SoC boots again, even if the script *)
(* never reaches a VM hook and nobody asks it to stop.                       *)
EveryRunEnds == gTicket # 0 ~> gTicket = 0

=============================================================================
