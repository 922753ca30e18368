-------------------------- MODULE CapabilityBridge --------------------------
(***************************************************************************)
(* adapters/micropython/micropython_capability_bridge.c: the single-slot   *)
(* call mailbox through which a script on core 1 asks core 0 to use a      *)
(* capability (buttons, display overlay, lights, external connector).      *)
(*                                                                         *)
(* Core 1 fills the slot, posts a ticket and waits for its completion; it  *)
(* may cancel meanwhile.  Core 0 serves the slot from its tick, at once or *)
(* (UART write, I2C) over several ticks.  The steps are those whose order  *)
(* the other core can observe.  MicroPythonRuntime shows that core 0 calls *)
(* cleanup only after the worker's last call, and prepare before its first.*)
(***************************************************************************)
EXTENDS Integers, Sequences

CONSTANTS TicketMax,     \* largest value of the ticket type
          MaxCommands,   \* K210_DISPLAY_MAX_COMMANDS
          MaxRuns,       \* bound on the number of script runs explored
          MaxCalls       \* bound on the number of calls of a run

ASSUME TicketAssumption == TicketMax \in Nat /\ TicketMax >= 2

ASSUME BoundAssumption ==
    MaxCommands \in Nat \ {0} /\ MaxRuns \in Nat /\ MaxCalls \in Nat

VARIABLES
    \* micropython_binding_control_t
    runActive, request, accepted, cancel, cancelAck, complete, op, result,
    \* core 0: program counter, the ticket and result in hand
    pc0, ticket0, result0,
    \* core 0: g_external_operation, g_external_owned / service suspended,
    \* light session, settings session released, g_lights_owned; g_display_owned
    extActive, extOwned, extSuspended, lightOpen, lightSuspended, lightOwned,
    displayOwned,
    \* the overlay's staged commands, their number, the saved first command,
    \* and the checkpoint of the transaction in progress (-1: none)
    commands, count, rollbackFirst, checkpoint,
    \* core 1: program counter, ticket of the call
    pc1, ticket1,
    \* history: runs, calls of the run, the ticket result belongs to, and the
    \* staged frame when the call was posted
    runs, calls, servedTicket, frameBefore

control  == <<runActive, request, accepted, cancel, cancelAck, complete, op, result>>
core0    == <<pc0, ticket0, result0>>
external == <<extActive, extOwned, extSuspended>>
lights   == <<lightOpen, lightSuspended, lightOwned>>
stage    == <<commands, count, rollbackFirst, checkpoint>>
core1    == <<pc1, ticket1>>
history  == <<runs, calls, servedTicket, frameBefore>>
vars     == <<control, core0, external, lights, displayOwned, stage, core1, history>>

Ops == {"buttons", "clear", "rect", "text", "present", "led", "uart_read", "external"}

Results == {"OK", "BUSY", "TIMEOUT", "NOT_ACTIVE", "INVALID_ARGUMENT", "LIMIT", "IO"}

Tickets == 0 .. TicketMax

NextTicket(t) == IF t = TicketMax THEN 1 ELSE t + 1

(* A staged command: erasing the frame, or drawing over it.  A draw command  *)
(* is the number of the call that staged it.                                 *)
NoCommand == 0
Erase == MaxRuns * MaxCalls + 1
Command == NoCommand .. Erase

(* The frame the next present would show. *)
Frame == [i \in 1 .. count |-> commands[i]]

(* binding_request_cancelled *)
Cancelled(t) == runActive = 0 \/ cancel = t

(* The type of every variable. *)
TypeOK ==
    /\ runActive \in {0, 1}
    /\ request \in Tickets /\ accepted \in Tickets /\ cancel \in Tickets
    /\ cancelAck \in Tickets /\ complete \in Tickets
    /\ op \in Ops \cup {"none"} /\ result \in Results
    /\ pc0 \in {"main", "exec", "final", "progress", "store", "storeAck", "signal"}
    /\ ticket0 \in Tickets /\ result0 \in Results
    /\ extActive \in {0, 1} /\ extOwned \in {0, 1} /\ extSuspended \in {0, 1}
    /\ lightOpen \in {0, 1} /\ lightSuspended \in {0, 1} /\ lightOwned \in {0, 1}
    /\ displayOwned \in {0, 1}
    /\ commands \in [1 .. MaxCommands -> Command]
    /\ count \in 0 .. MaxCommands
    /\ rollbackFirst \in Command
    /\ checkpoint \in -1 .. MaxCommands
    /\ pc1 \in {"off", "script", "fill", "wait", "cancelled", "read", "ended"}
    /\ ticket1 \in Tickets
    /\ runs \in 0 .. MaxRuns /\ calls \in 0 .. MaxCalls
    /\ servedTicket \in Tickets

Init ==
    /\ runActive = 0 /\ request = 0 /\ accepted = 0 /\ cancel = 0
    /\ cancelAck = 0 /\ complete = 0 /\ op = "none" /\ result = "OK"
    /\ pc0 = "main" /\ ticket0 = 0 /\ result0 = "OK"
    /\ extActive = 0 /\ extOwned = 0 /\ extSuspended = 0
    /\ lightOpen = 0 /\ lightSuspended = 0 /\ lightOwned = 0 /\ displayOwned = 0
    /\ commands = [i \in 1 .. MaxCommands |-> NoCommand]
    /\ count = 0 /\ rollbackFirst = NoCommand /\ checkpoint = -1
    /\ pc1 = "off" /\ ticket1 = 0
    /\ runs = 0 /\ calls = 0 /\ servedTicket = 0 /\ frameBefore = <<>>

-----------------------------------------------------------------------------
(* Core 1: micropython_binding_call. *)

(* The early returns: run not active, or the slot in use (neither happens to *)
(* the single caller; they change nothing).  The fields are filled next.     *)
CallBegin(o) ==
    /\ pc1 = "script" /\ calls < MaxCalls
    /\ runActive = 1 /\ request = complete
    /\ ticket1' = NextTicket(request)
    /\ op' = o
    /\ result' = "BUSY" /\ accepted' = 0 /\ cancel' = 0 /\ cancelAck' = 0
    /\ pc1' = "fill"
    /\ calls' = calls + 1
    /\ frameBefore' = Frame
    /\ UNCHANGED <<runActive, request, complete, core0, external, lights, displayOwned,
                   stage, runs, servedTicket>>

CallPost ==
    /\ pc1 = "fill"
    /\ request' = ticket1
    /\ pc1' = "wait"
    /\ UNCHANGED <<runActive, accepted, cancel, cancelAck, complete, op, result,
                   core0, external, lights, displayOwned, stage, ticket1, history>>

(* A stop, the run deadline or the call's own deadline: cancel, then wait    *)
(* until core 0 has let go of the slot.  The completion may come between the *)
(* last look at it and the store of the cancellation.                        *)
CallCancel ==
    /\ pc1 = "wait"
    /\ cancel' = ticket1
    /\ pc1' = "cancelled"
    /\ UNCHANGED <<runActive, request, accepted, cancelAck, complete, op, result,
                   core0, external, lights, displayOwned, stage, ticket1, history>>

(* Mutant: the caller does not wait for core 0 to let go of the slot. *)
CallCancelReturnAtOnce ==
    /\ pc1 = "cancelled"
    /\ pc1' = "script"
    /\ UNCHANGED <<control, core0, external, lights, displayOwned, stage, ticket1, history>>

CallCancelReturn ==
    /\ pc1 = "cancelled" /\ complete = ticket1
    /\ pc1' = "script"
    /\ UNCHANGED <<control, core0, external, lights, displayOwned, stage, ticket1, history>>

CallCompleted ==
    /\ pc1 = "wait" /\ complete = ticket1
    /\ pc1' = "read"
    /\ UNCHANGED <<control, core0, external, lights, displayOwned, stage, ticket1, history>>

(* result, output_length and data are copied out of the slot. *)
CallReturn ==
    /\ pc1 = "read"
    /\ pc1' = "script"
    /\ UNCHANGED <<control, core0, external, lights, displayOwned, stage, ticket1, history>>

(* The worker publishes its terminal state. *)
ScriptEnds ==
    /\ pc1 = "script"
    /\ pc1' = "ended"
    /\ UNCHANGED <<control, core0, external, lights, displayOwned, stage, ticket1, history>>

-----------------------------------------------------------------------------
(* Core 0: micropython_capability_bridge_tick. *)

TickReady == pc0 = "main" /\ runActive = 1 /\ extActive = 0 /\ request # complete

(* No run, or nothing posted: the tick returns. *)
TickIdle ==
    /\ pc0 = "main"
    /\ runActive = 0 \/ (extActive = 0 /\ request = complete)
    /\ UNCHANGED vars

(* Completion with the given result, acknowledging a cancellation.           *)
Finish(r, isCancelled) ==
    /\ result0' = r
    /\ pc0' = IF isCancelled THEN "storeAck" ELSE "store"

(* Mutant: a request cancelled before it was accepted is dropped. *)
TickRefuseSilent ==
    /\ TickReady /\ Cancelled(request)
    /\ UNCHANGED vars

TickRefuse ==
    /\ TickReady /\ Cancelled(request)
    /\ ticket0' = request
    /\ Finish("TIMEOUT", TRUE)
    /\ UNCHANGED <<control, external, lights, displayOwned, stage, core1, history>>

TickAccept ==
    /\ TickReady /\ ~Cancelled(request)
    /\ ticket0' = request
    /\ accepted' = request
    /\ pc0' = "exec"
    /\ UNCHANGED <<runActive, request, cancel, cancelAck, complete, op, result,
                   result0, external, lights, displayOwned, stage, core1, history>>

(* binding_execute finds the request cancelled: no effect. *)
ExecCancelled ==
    /\ pc0 = "exec" /\ op # "external"
    /\ Cancelled(ticket0)
    /\ result0' = "TIMEOUT"
    /\ pc0' = "final"
    /\ UNCHANGED <<control, ticket0, external, lights, displayOwned, stage, core1, history>>

Executing(o) == pc0 = "exec" /\ op = o /\ ~Cancelled(ticket0) /\ pc0' = "final"

ExecButtons ==
    /\ Executing("buttons")
    /\ result0' \in {"OK", "IO"}
    /\ UNCHANGED <<control, ticket0, external, lights, displayOwned, stage, core1, history>>

(* An argument out of range, or a display operation without the overlay.     *)
ExecRejected(o) ==
    /\ Executing(o)
    /\ result0' \in {"INVALID_ARGUMENT"} \cup
                    (IF o \in {"clear", "rect", "text", "present"} /\ displayOwned = 0
                     THEN {"NOT_ACTIVE"} ELSE {})
    /\ UNCHANGED <<control, ticket0, external, lights, displayOwned, stage, core1, history>>

CallId == (runs - 1) * MaxCalls + calls

(* Each drawing call is a transaction: k210_display_checkpoint notes the     *)
(* number of commands, to be restored if the call fails or is cancelled.     *)

(* Mutant: the first command is not saved before the erase replaces it. *)
ExecClearUnsaved ==
    /\ Executing("clear") /\ displayOwned = 1
    /\ checkpoint' = count
    /\ rollbackFirst' = NoCommand
    /\ \/ /\ commands' = [commands EXCEPT ![1] = Erase]
          /\ count' = 1 /\ result0' = "OK"
       \/ /\ UNCHANGED commands
          /\ count' = 0 /\ result0' = "IO"
    /\ UNCHANGED <<control, ticket0, external, lights, displayOwned, core1, history>>

(* clear: k210_display_restore(0) saves the first command, then the erase    *)
(* command takes its place.                                                  *)
ExecClear ==
    /\ Executing("clear") /\ displayOwned = 1
    /\ checkpoint' = count
    /\ rollbackFirst' = IF count # 0 THEN commands[1] ELSE NoCommand
    /\ \/ /\ commands' = [commands EXCEPT ![1] = Erase]
          /\ count' = 1 /\ result0' = "OK"
       \/ /\ UNCHANGED commands
          /\ count' = 0 /\ result0' = "IO"
    /\ UNCHANGED <<control, ticket0, external, lights, displayOwned, core1, history>>

(* rect stages one command, text a background and a text; the second may not *)
(* fit any more.                                                             *)
ExecDraw(o, n) ==
    /\ Executing(o) /\ displayOwned = 1
    /\ checkpoint' = count
    /\ rollbackFirst' = NoCommand
    /\ LET fits == IF MaxCommands - count < n THEN MaxCommands - count ELSE n
       IN  /\ commands' = [i \in 1 .. MaxCommands |->
                              IF i > count /\ i <= count + fits THEN CallId ELSE commands[i]]
           /\ count' = count + fits
           /\ result0' = IF fits = n THEN "OK" ELSE "LIMIT"
    /\ UNCHANGED <<control, ticket0, external, lights, displayOwned, core1, history>>

(* The staged frame survives a present: the batch is begun again and its     *)
(* commands are restored.                                                    *)
ExecPresent ==
    /\ Executing("present") /\ displayOwned = 1
    /\ rollbackFirst' = NoCommand
    /\ result0' \in {"OK", "IO"}
    /\ UNCHANGED <<control, ticket0, external, lights, displayOwned, commands, count,
                   checkpoint, core1, history>>

(* binding_claim_light and hk_lights_set_level: a light claimed by this very *)
(* call is given back to the settings when the write fails.                  *)
ExecLed ==
    /\ Executing("led")
    /\ \/ result0' = "OK" /\ lightOpen' = 1 /\ lightSuspended' = 1 /\ lightOwned' = 1
       \/ result0' = "IO" /\ UNCHANGED lights
    /\ UNCHANGED <<control, ticket0, external, displayOwned, stage, core1, history>>

(* Mutant: a claim that fails leaves the native service suspended. *)
ClaimExternalUnresumed(ok) ==
    /\ extOwned' = IF extOwned = 1 \/ ok THEN 1 ELSE 0
    /\ extSuspended' = 1

(* binding_claim_external: the native service is suspended for the script,   *)
(* and resumed at once if the connector cannot be opened.                    *)
ClaimExternal(ok) ==
    /\ extOwned' = IF extOwned = 1 \/ ok THEN 1 ELSE 0
    /\ extSuspended' = extOwned'

ExecUartRead ==
    /\ Executing("uart_read")
    /\ \E ok \in BOOLEAN :
          /\ ClaimExternal(ok)
          /\ result0' \in (IF extOwned' = 1 THEN {"OK", "IO"} ELSE {"IO"})
    /\ UNCHANGED <<control, ticket0, extActive, lights, displayOwned, stage, core1, history>>

(* The last look at the cancellation; a display transaction that failed or   *)
(* was cancelled is rolled back.                                             *)
ExecFinal ==
    /\ pc0 = "final"
    /\ LET rollback == Cancelled(ticket0) \/ result0 # "OK"
       IN  IF checkpoint >= 0 /\ rollback
           THEN /\ commands' = IF checkpoint > 0 /\ rollbackFirst # NoCommand
                               THEN [commands EXCEPT ![1] = rollbackFirst] ELSE commands
                /\ count' = checkpoint
           ELSE UNCHANGED <<commands, count>>
    /\ checkpoint' = -1
    /\ Finish(IF Cancelled(ticket0) THEN "TIMEOUT" ELSE result0, Cancelled(ticket0))
    /\ UNCHANGED <<control, ticket0, external, lights, displayOwned, rollbackFirst,
                   core1, history>>

(* binding_external_operation_start: an immediate answer, or an operation    *)
(* that this and later ticks advance.                                        *)
ExternalRefused ==
    /\ pc0 = "exec" /\ op = "external"
    /\ \E ok \in BOOLEAN : ClaimExternal(ok)
    /\ \E r \in {"OK", "IO", "LIMIT"} : Finish(r, FALSE)
    /\ UNCHANGED <<control, ticket0, extActive, lights, displayOwned, stage, core1, history>>

ExternalBegin ==
    /\ pc0 = "exec" /\ op = "external"
    /\ ClaimExternal(TRUE)
    /\ extActive' = 1
    /\ pc0' = "progress"
    /\ UNCHANGED <<control, ticket0, result0, lights, displayOwned, stage, core1, history>>

(* A later tick finds the operation active. *)
TickExternal ==
    /\ pc0 = "main" /\ runActive = 1 /\ extActive = 1
    /\ pc0' = "progress"
    /\ UNCHANGED <<control, ticket0, result0, external, lights, displayOwned, stage, core1, history>>

(* binding_external_operation_progress: poll, or cancel once cancelled. *)
ExternalPending ==
    /\ pc0 = "progress"
    /\ pc0' = "main"
    /\ UNCHANGED <<control, ticket0, result0, external, lights, displayOwned, stage, core1, history>>

ExternalDone ==
    /\ pc0 = "progress"
    /\ extActive' = 0
    /\ IF Cancelled(ticket0)
       THEN Finish("TIMEOUT", TRUE)
       ELSE \E r \in {"OK", "IO", "TIMEOUT"} : Finish(r, FALSE)
    /\ UNCHANGED <<control, ticket0, extOwned, extSuspended, lights, displayOwned, stage,
                   core1, history>>

(* binding_complete_request: the result, with the acknowledgement of a       *)
(* cancellation, then the ticket.                                            *)
StoreResult ==
    /\ pc0 \in {"store", "storeAck"}
    /\ result' = result0
    /\ cancelAck' = IF pc0 = "storeAck" THEN ticket0 ELSE cancelAck
    /\ servedTicket' = ticket0
    /\ pc0' = "signal"
    /\ UNCHANGED <<runActive, request, accepted, cancel, complete, op,
                   ticket0, result0, external, lights, displayOwned, stage, core1,
                   runs, calls, frameBefore>>

StoreComplete ==
    /\ pc0 = "signal"
    /\ complete' = ticket0
    /\ pc0' = "main"
    /\ UNCHANGED <<runActive, request, accepted, cancel, cancelAck, op, result,
                   ticket0, result0, external, lights, displayOwned, stage, core1, history>>

-----------------------------------------------------------------------------
(* Core 0: the run's beginning and end. *)

Prepare ==
    /\ pc0 = "main" /\ pc1 = "off" /\ runs < MaxRuns
    /\ runs' = runs + 1 /\ calls' = 0 /\ servedTicket' = 0
    /\ request' = 0 /\ accepted' = 0 /\ cancel' = 0 /\ cancelAck' = 0 /\ complete' = 0
    /\ op' = "none" /\ result' = "OK"
    /\ extOwned' = 0 /\ extActive' = 0 /\ lightOwned' = 0
    /\ displayOwned' \in {0, 1}
    /\ count' = 0 /\ checkpoint' = -1
    /\ runActive' = 1
    /\ pc1' = "script"
    /\ UNCHANGED <<core0, extSuspended, lightOpen, lightSuspended, commands, rollbackFirst, ticket1, frameBefore>>

(* A request still posted would be answered NOT_ACTIVE; then everything the  *)
(* script held is retired, and what was suspended for it is restored.        *)
Cleanup ==
    /\ pc0 = "main" /\ pc1 = "ended"
    /\ runActive' = 0
    /\ IF request # complete
       THEN cancel' = request /\ cancelAck' = request /\ complete' = request
            /\ result' = "NOT_ACTIVE"
       ELSE UNCHANGED <<cancel, cancelAck, complete, result>>
    /\ extActive' = 0 /\ extOwned' = 0
    /\ extSuspended' = IF extOwned = 1 THEN 0 ELSE extSuspended
    /\ lightOpen' = 0 /\ lightOwned' = 0
    /\ lightSuspended' = IF lightOwned = 1 THEN 0 ELSE lightSuspended
    /\ displayOwned' = 0
    /\ checkpoint' = -1
    /\ pc1' = "off"
    /\ UNCHANGED <<request, accepted, op, core0, commands, count, rollbackFirst, ticket1, history>>

-----------------------------------------------------------------------------
Core1Next ==
    \/ \E o \in Ops : CallBegin(o)
    \/ CallPost \/ CallCancel \/ CallCancelReturn \/ CallCompleted \/ CallReturn
    \/ ScriptEnds

Tick ==
    \/ TickRefuse \/ TickAccept \/ ExecCancelled
    \/ \E o \in Ops \ {"external"} : ExecRejected(o)
    \/ ExecButtons \/ ExecClear \/ ExecDraw("rect", 1) \/ ExecDraw("text", 2)
    \/ ExecPresent \/ ExecLed \/ ExecUartRead \/ ExecFinal
    \/ ExternalRefused \/ ExternalBegin \/ TickExternal \/ ExternalDone
    \/ StoreResult \/ StoreComplete

Next == Core1Next \/ TickIdle \/ Tick \/ ExternalPending \/ Prepare \/ Cleanup

Spec == Init /\ [][Next]_vars

(* Core 0 ticks the bridge in every iteration of its main loop; core 1 looks *)
(* at the completion again every millisecond; an operation of the external   *)
(* connector that is polled or cancelled ends.                               *)
Fairness ==
    /\ WF_vars(Tick \/ ExternalPending) /\ SF_vars(ExternalDone)
    /\ WF_vars(CallPost \/ CallCancelReturn \/ CallCompleted \/ CallReturn)

FairSpec == Spec /\ Fairness

-----------------------------------------------------------------------------
(* Properties. *)

(* While core 0 works on a request, at once or over several ticks, core 1 is *)
(* waiting for exactly that request: the slot's operation, arguments and     *)
(* data are never refilled under core 0, and core 0 never touches the slot   *)
(* of a call that has returned, cancelled or not.  The result that the call  *)
(* then reads was stored for it.                                             *)
SlotExclusive ==
    /\ pc0 # "main" \/ extActive = 1 =>
          pc1 \in {"wait", "cancelled"} /\ ticket0 = ticket1 /\ request = ticket1
    /\ pc1 = "read" => servedTicket = ticket1 /\ result # "BUSY"

(* A drawing call that failed, or whose cancellation was acknowledged, left  *)
(* the staged frame exactly as it was, an erased frame included.             *)
FailedCallRolledBack ==
    request = ticket1 /\ complete = request /\ pc1 \in {"wait", "cancelled", "read"}
        /\ (cancelAck = request \/ result # "OK")
        => Frame = frameBefore

(* After cleanup nothing is left leased to the script: the external service  *)
(* runs again, the settings own their light, the overlay is closed.          *)
LeasesReturned ==
    runActive = 0 =>
        /\ extActive = 0 /\ extOwned = 0 /\ extSuspended = 0
        /\ lightOpen = 0 /\ lightSuspended = 0 /\ displayOwned = 0

(* Every posted call returns to the script, cancelled or not.                *)
CallsReturn == pc1 \in {"fill", "wait", "cancelled"} ~> pc1 = "script"
=============================================================================
