------------------------------ MODULE JobSlot ------------------------------
(***************************************************************************)
(* What the core-1 executor promises to the features that share it: one    *)
(* slot, filled by core 0 only while it is empty; core 1 takes the job of  *)
(* the slot, runs it exactly once, and only then empties the slot.         *)
(*                                                                         *)
(* Core1Executor implements this specification (Core1Executor!Slot, proved *)
(* in Core1ExecutorProofs); the modules of the executor's clients are      *)
(* written against it.                                                     *)
(***************************************************************************)
EXTENDS Naturals

CONSTANTS Jobs,      \* the job functions that features submit
          NoJob      \* the empty slot

ASSUME NoJobAssumption == NoJob \notin Jobs

VARIABLES slot,      \* the submitted job that has not completed, or NoJob
          current,   \* the job core 1 is inside, or NoJob
          issued,    \* number of jobs accepted so far
          finished   \* number of jobs completed so far

slotVars == <<slot, current, issued, finished>>

SlotTypeOK ==
    /\ slot \in Jobs \cup {NoJob}
    /\ current \in Jobs \cup {NoJob}
    /\ issued \in Nat
    /\ finished \in Nat

SlotInit ==
    /\ slot = NoJob
    /\ current = NoJob
    /\ issued = 0
    /\ finished = 0

(* A ticket is the number of the submission it was returned for. *)
SlotIdle == slot = NoJob

SlotComplete(ticket) == ticket <= finished

SlotSubmit(j) ==
    /\ SlotIdle
    /\ slot' = j
    /\ issued' = issued + 1
    /\ UNCHANGED <<current, finished>>

SlotBegin ==
    /\ slot # NoJob
    /\ current = NoJob
    /\ current' = slot
    /\ UNCHANGED <<slot, issued, finished>>

SlotEnd ==
    /\ current # NoJob
    /\ slot' = NoJob
    /\ current' = NoJob
    /\ finished' = finished + 1
    /\ UNCHANGED issued

SlotNext ==
    \/ \E j \in Jobs : SlotSubmit(j)
    \/ SlotBegin
    \/ SlotEnd

SlotSpec == SlotInit /\ [][SlotNext]_slotVars
=============================================================================
