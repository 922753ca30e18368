--------------------------- MODULE Core1Executor ---------------------------
(***************************************************************************)
(* services/core1_executor.c: the mailbox through which the features of    *)
(* core 0 run one job at a time on core 1.                                 *)
(*                                                                         *)
(* Core 0 is one thread: a submission is a sequence of its steps (pc0).    *)
(* Core 1 runs the executor loop (pc1).  Every access to the shared        *)
(* control block that the other core could see happen is a step of its     *)
(* own; the block is read and written through the uncached alias with      *)
(* fences between the accesses, so steps are sequentially consistent.      *)
(*                                                                         *)
(* Tickets keep their width: TicketMax is the largest value of the ticket  *)
(* type (2^32 - 1 in the code) and 0 is never a ticket.                    *)
(***************************************************************************)
EXTENDS Integers

CONSTANTS Clients,     \* features that hold a ticket (MicroPython, AprilTag)
          Jobs,        \* the job functions they submit
          NoJob,       \* NULL
          NoClient,    \* no submission in progress
          TicketMax,   \* largest value of the ticket's integer type
          MaxSubmits   \* bound on the number of submissions explored

ASSUME TicketMaxAssumption ==
    /\ TicketMax \in Nat
    /\ TicketMax % 2 = 1
    /\ TicketMax >= 3

ASSUME NullAssumption == NoJob \notin Jobs /\ NoClient \notin Clients

ASSUME MaxSubmitsAssumption == MaxSubmits \in Nat

VARIABLES
    \* core1_executor_control_t
    started, online, startFailed, requestTicket, completeTicket, job,
    \* core 0: the submission in progress, and the ticket each feature keeps
    pc0, caller, arg, held,
    \* core 1: the executor loop and its locals
    pc1, ticket1, job1,
    \* history: submissions, jobs that returned, the submission of a ticket
    issued, returned, seq

control == <<started, online, startFailed, requestTicket, completeTicket, job>>
core0   == <<pc0, caller, arg, held>>
core1   == <<pc1, ticket1, job1>>
history == <<issued, returned, seq>>
vars    == <<control, core0, core1, history>>

-----------------------------------------------------------------------------
(* The ticket type. *)

Tickets == 0 .. TicketMax
Half == (TicketMax + 1) \div 2

NextTicket(t) == IF t = TicketMax THEN 1 ELSE t + 1

(* Mutant: a plain comparison instead of the signed difference. *)
ReachedUnsigned(completed, ticket) == completed >= ticket

(* (int32_t)(completed - ticket) >= 0, at the width of the ticket type. *)
Reached(completed, ticket) ==
    IF completed >= ticket
    THEN completed - ticket < Half
    ELSE completed - ticket + TicketMax + 1 < Half

Complete(ticket) == ticket # 0 /\ Reached(completeTicket, ticket)

Idle == online = 1 /\ requestTicket = completeTicket

-----------------------------------------------------------------------------
Flag == {0, 1}

TypeOK ==
    /\ started \in Flag /\ online \in Flag /\ startFailed \in Flag
    /\ requestTicket \in Tickets /\ completeTicket \in Tickets
    /\ job \in Jobs \cup {NoJob}
    /\ pc0 \in {"free", "init", "wait", "late", "gate", "store", "publish"}
    /\ caller \in Clients \cup {NoClient}
    /\ arg \in Jobs \cup {NoJob}
    /\ held \in [Clients -> Tickets]
    /\ pc1 \in {"off", "boot", "scan", "fetch", "run", "ret"}
    /\ ticket1 \in Tickets
    /\ job1 \in Jobs \cup {NoJob}
    /\ issued \in Nat /\ returned \in Nat
    /\ seq \in [Clients -> Nat]

Init ==
    /\ started = 0 /\ online = 0 /\ startFailed = 0
    /\ requestTicket = 0 /\ completeTicket = 0
    /\ job = NoJob
    /\ pc0 = "free" /\ caller = NoClient /\ arg = NoJob
    /\ held = [c \in Clients |-> 0]
    /\ pc1 = "off" /\ ticket1 = 0 /\ job1 = NoJob
    /\ issued = 0 /\ returned = 0
    /\ seq = [c \in Clients |-> 0]

-----------------------------------------------------------------------------
(* Core 0: core1_executor_submit, with core1_executor_init inside it. *)

(* The submission returns 0. *)
Refuse ==
    /\ pc0' = "free" /\ caller' = NoClient /\ arg' = NoJob
    /\ UNCHANGED held

(* A feature submits only when it keeps no ticket. *)
SubmitCall(c, j) ==
    /\ pc0 = "free" /\ held[c] = 0
    /\ issued < MaxSubmits
    /\ pc0' = "init" /\ caller' = c /\ arg' = j
    /\ UNCHANGED <<control, held, core1, history>>

InitOnline ==
    /\ pc0 = "init" /\ online = 1
    /\ pc0' = "gate"
    /\ UNCHANGED <<control, caller, arg, held, core1, history>>

InitRefused ==
    /\ pc0 = "init" /\ online = 0 /\ startFailed = 1
    /\ Refuse
    /\ UNCHANGED <<control, core1, history>>

(* hal_core1_start succeeds: core 1 boots into the loop. *)
InitStart ==
    /\ pc0 = "init" /\ online = 0 /\ startFailed = 0 /\ started = 0
    /\ started' = 1
    /\ pc1' = "boot"
    /\ pc0' = "wait"
    /\ UNCHANGED <<online, startFailed, requestTicket, completeTicket, job,
                   caller, arg, held, ticket1, job1, history>>

InitStartFails ==
    /\ pc0 = "init" /\ online = 0 /\ startFailed = 0 /\ started = 0
    /\ started' = 1 /\ startFailed' = 1
    /\ Refuse
    /\ UNCHANGED <<online, requestTicket, completeTicket, job, core1, history>>

InitWaited ==
    /\ pc0 = "wait" /\ online = 1
    /\ pc0' = "gate"
    /\ UNCHANGED <<control, caller, arg, held, core1, history>>

(* The start timeout expires with core 1 still silent: latched as a failure, *)
(* although core 1 may come online afterwards.                               *)
InitTimeout ==
    /\ pc0 = "wait" /\ online = 0
    /\ startFailed' = 1
    /\ pc0' = "late"
    /\ UNCHANGED <<started, online, requestTicket, completeTicket, job,
                   caller, arg, held, core1, history>>

(* return control->online != 0U, a second read of online. *)
InitReturn ==
    /\ pc0 = "late"
    /\ IF online = 1 THEN pc0' = "gate" /\ UNCHANGED <<caller, arg, held>> ELSE Refuse
    /\ UNCHANGED <<control, core1, history>>

(* Mutant: the submission checks that core 1 is online, not that it is idle. *)
SubmitGateOnlineOnly ==
    /\ pc0 = "gate"
    /\ IF online = 1 THEN pc0' = "store" /\ UNCHANGED <<caller, arg, held>> ELSE Refuse
    /\ UNCHANGED <<control, core1, history>>

SubmitGate ==
    /\ pc0 = "gate"
    /\ IF Idle THEN pc0' = "store" /\ UNCHANGED <<caller, arg, held>> ELSE Refuse
    /\ UNCHANGED <<control, core1, history>>

SubmitStore ==
    /\ pc0 = "store"
    /\ job' = arg
    /\ pc0' = "publish"
    /\ UNCHANGED <<started, online, startFailed, requestTicket, completeTicket,
                   caller, arg, held, core1, history>>

SubmitPublish ==
    /\ pc0 = "publish"
    /\ requestTicket' = NextTicket(requestTicket)
    /\ held' = [held EXCEPT ![caller] = NextTicket(requestTicket)]
    /\ issued' = issued + 1
    /\ seq' = [seq EXCEPT ![caller] = issued + 1]
    /\ pc0' = "free" /\ caller' = NoClient /\ arg' = NoJob
    /\ UNCHANGED <<started, online, startFailed, completeTicket, job, core1, returned>>

(* A feature polls its ticket and drops it once it is complete. *)
PollComplete(c) ==
    /\ pc0 = "free" /\ Complete(held[c])
    /\ held' = [held EXCEPT ![c] = 0]
    /\ UNCHANGED <<control, pc0, caller, arg, core1, history>>

(* micropython_runtime_poll drops its ticket on the worker's terminal state, *)
(* which can precede the completion store.                                   *)
DropTicket(c) ==
    /\ pc0 = "free" /\ held[c] # 0
    /\ held' = [held EXCEPT ![c] = 0]
    /\ UNCHANGED <<control, pc0, caller, arg, core1, history>>

-----------------------------------------------------------------------------
(* Core 1: core1_executor_loop. *)

LoopOnline ==
    /\ pc1 = "boot"
    /\ online' = 1
    /\ pc1' = "scan"
    /\ UNCHANGED <<started, startFailed, requestTicket, completeTicket, job,
                   core0, ticket1, job1, history>>

LoopIdle ==
    /\ pc1 = "scan" /\ requestTicket = completeTicket
    /\ UNCHANGED vars

(* Mutant: the loop looks for a larger ticket instead of a different one. *)
LoopTakeLarger ==
    /\ pc1 = "scan" /\ requestTicket > completeTicket
    /\ ticket1' = requestTicket
    /\ pc1' = "fetch"
    /\ UNCHANGED <<control, core0, job1, history>>

LoopTake ==
    /\ pc1 = "scan" /\ requestTicket # completeTicket
    /\ ticket1' = requestTicket
    /\ pc1' = "fetch"
    /\ UNCHANGED <<control, core0, job1, history>>

LoopFetch ==
    /\ pc1 = "fetch"
    /\ job1' = job
    /\ pc1' = "run"
    /\ UNCHANGED <<control, core0, ticket1, history>>

JobReturns ==
    /\ pc1 = "run"
    /\ returned' = returned + 1
    /\ pc1' = "ret"
    /\ UNCHANGED <<control, core0, ticket1, job1, issued, seq>>

LoopComplete ==
    /\ pc1 = "ret"
    /\ completeTicket' = ticket1
    /\ pc1' = "scan"
    /\ UNCHANGED <<started, online, startFailed, requestTicket, job,
                   core0, ticket1, job1, history>>

-----------------------------------------------------------------------------
Core0Next ==
    \/ \E c \in Clients, j \in Jobs : SubmitCall(c, j)
    \/ InitOnline \/ InitRefused \/ InitStart \/ InitStartFails
    \/ InitWaited \/ InitTimeout \/ InitReturn
    \/ SubmitGate \/ SubmitStore \/ SubmitPublish
    \/ \E c \in Clients : PollComplete(c) \/ DropTicket(c)

Core1Next ==
    \/ LoopOnline \/ LoopIdle \/ LoopTake \/ LoopFetch \/ JobReturns \/ LoopComplete

Next == Core0Next \/ Core1Next

Spec == Init /\ [][Next]_vars

(* Core 1 has nothing else to run, and the jobs of this firmware return. *)
FairSpec == Spec /\ WF_vars(Core1Next)
-----------------------------------------------------------------------------
(* Properties. *)

(* Number of jobs whose completion core 0 can see. *)
Completed == IF requestTicket = completeTicket THEN issued ELSE issued - 1

(* How many submissions were accepted after the one client c holds. *)
Age(c) == issued - seq[c]

(* The answer of core1_executor_complete: for a ticket that at most Half - 2 *)
(* newer submissions have followed, it is never TRUE before the ticket's own *)
(* job has returned, and it is TRUE once the loop has stored the completion, *)
(* whether or not the counter wrapped or newer jobs completed in between.    *)
CompletionSound ==
    \A c \in Clients :
        held[c] # 0 /\ Age(c) + 1 < Half =>
            /\ Complete(held[c]) => seq[c] <= returned
            /\ seq[c] <= Completed => Complete(held[c])

(* A core 1 that missed its start deadline is latched as failed: no later    *)
(* submission starts it or waits for it a second time.                       *)
StartLatched ==
    started = 1 /\ online = 0 /\ pc0 # "wait" => startFailed = 1

(* The mailbox is a one-job slot: core 1 runs exactly the job core 0 stored, *)
(* once, and the job and ticket fields are not rewritten before it completed.*)
Slot == INSTANCE JobSlot WITH
            slot <- IF requestTicket = completeTicket THEN NoJob ELSE job,
            current <- IF pc1 \in {"run", "ret"} THEN job1 ELSE NoJob,
            finished <- Completed

ImplementsSlot == Slot!SlotSpec

(* Every accepted submission is eventually seen complete.                    *)
JobsComplete ==
    \A n \in 1 .. MaxSubmits : issued >= n ~> Completed >= n
=============================================================================
