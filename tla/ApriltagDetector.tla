-------------------------- MODULE ApriltagDetector --------------------------
(***************************************************************************)
(* apps/apriltag/apriltag_detector.c with services/resource_cleanup.c: the *)
(* AprilTag detector lives on core 1 and is created, run and destroyed by  *)
(* executor jobs that core 0 submits; results come back through two banks. *)
(*                                                                         *)
(* The executor is JobSlot.  Core 0 is one thread (pc0): entering the app  *)
(* (init) blocks it while core 1 goes on.  Another feature may take the    *)
(* executor whenever it is free.  Sequence numbers keep a width            *)
(* (SequenceMax); session epochs are only compared for equality and are    *)
(* unbounded here.                                                         *)
(***************************************************************************)
EXTENDS JobSlot

CONSTANTS Detector,      \* apriltag_worker_job
          SequenceMax,   \* largest value of a sequence number
          MaxJobs,       \* bound on the jobs explored, destroy jobs aside
          MaxSessions    \* bound on the number of sessions explored

ASSUME WorkerJobAssumption == Detector \in Jobs

ASSUME SequenceAssumption ==
    SequenceMax \in Nat \ {0} /\ MaxJobs \in Nat /\ MaxSessions \in Nat

VARIABLES
    \* shared by both cores
    active, cleanupPending, workerState, jobKind, sessionEpoch,
    requestSequence, completeSequence, publishedSequence, requestEpoch,
    detector, bankEpoch,
    \* core 0: program counter, g_job_ticket, the cleanup scheduled for the
    \* system tick, whether the app is open, the bank whose items are used
    pc0, jobTicket, scheduled, entered, bank0,
    \* core 1: position inside apriltag_worker_job, and its locals
    pc1, seq1, epoch1, bank1

flags        == <<active, cleanupPending, sessionEpoch>>
sequences    == <<requestSequence, completeSequence, publishedSequence, requestEpoch>>
core0        == <<pc0, jobTicket, scheduled, entered, bank0>>
core1        == <<pc1, seq1, epoch1, bank1>>
detectorVars == <<slotVars, flags, workerState, jobKind, sequences, detector, bankEpoch,
                  core0, core1>>

Sequence == 0 .. SequenceMax

NextSequence(s) == IF s = SequenceMax THEN 1 ELSE s + 1

Bank(s) == s % 2

(* The type of every variable. *)
DetectorTypeOK ==
    /\ SlotTypeOK
    /\ active \in {0, 1} /\ cleanupPending \in {0, 1}
    /\ workerState \in {"OFF", "STARTING", "READY", "BUSY", "STOPPING", "ERROR"}
    /\ jobKind \in {"NONE", "CREATE", "DETECT", "DESTROY"}
    /\ sessionEpoch \in Nat /\ requestEpoch \in Nat
    /\ requestSequence \in Sequence /\ completeSequence \in Sequence
    /\ publishedSequence \in Sequence
    /\ detector \in {0, 1}
    /\ bankEpoch \in [{0, 1} -> Nat]
    /\ pc0 \in {"main", "tickFinish", "initPoll", "initFinish", "initWait", "createWait",
                "createTick", "createDone", "submit", "deinitTick", "deinitFinish",
                "deinitDone", "reading"}
    /\ jobTicket \in Nat /\ scheduled \in {0, 1} /\ entered \in {0, 1}
    /\ bank0 \in {0, 1} /\ bank1 \in {0, 1}
    /\ pc1 \in {"out", "create", "created", "detect", "writing", "publish", "complete",
                "after", "ready", "stopping", "destroy", "destroyed", "off", "return"}
    /\ seq1 \in Sequence /\ epoch1 \in Nat

DetectorInit ==
    /\ SlotInit
    /\ active = 0 /\ cleanupPending = 0 /\ workerState = "OFF" /\ jobKind = "NONE"
    /\ sessionEpoch = 0 /\ requestEpoch = 0
    /\ requestSequence = 0 /\ completeSequence = 0 /\ publishedSequence = 0
    /\ detector = 0 /\ bankEpoch = [b \in {0, 1} |-> 0]
    /\ pc0 = "main" /\ jobTicket = 0 /\ scheduled = 0 /\ entered = 0
    /\ bank0 = 0 /\ bank1 = 0
    /\ pc1 = "out" /\ seq1 = 0 /\ epoch1 = 0

-----------------------------------------------------------------------------
(* Core 0: apriltag_detector_service_tick, called from several places. *)

TicketAfterPoll ==
    IF jobTicket # 0 /\ SlotComplete(jobTicket) THEN 0 ELSE jobTicket

KindAfterPoll == IF TicketAfterPoll # jobTicket THEN "NONE" ELSE jobKind

CleanupDue == active = 0 /\ cleanupPending = 1 /\ TicketAfterPoll = 0

(* A destroy job that the executor refuses is submitted again by a later     *)
(* tick.                                                                     *)
ServiceTick ==
    /\ \/ /\ CleanupDue /\ detector = 1 /\ SlotIdle
          /\ SlotSubmit(Detector)
          /\ jobKind' = "DESTROY" /\ jobTicket' = issued + 1
          /\ UNCHANGED <<cleanupPending, workerState>>
       \/ /\ CleanupDue /\ detector = 1 /\ ~SlotIdle
          /\ jobKind' = "NONE" /\ jobTicket' = 0
          /\ UNCHANGED <<slotVars, cleanupPending, workerState>>
       \/ /\ CleanupDue /\ detector = 0
          /\ jobKind' = KindAfterPoll /\ jobTicket' = 0
          /\ cleanupPending' = 0 /\ workerState' = "OFF"
          /\ UNCHANGED slotVars
       \/ /\ ~CleanupDue
          /\ jobKind' = KindAfterPoll /\ jobTicket' = TicketAfterPoll
          /\ UNCHANGED <<slotVars, cleanupPending, workerState>>
    /\ UNCHANGED <<active, sessionEpoch, sequences, detector, bankEpoch, scheduled,
                   entered, bank0, core1>>

CleanupFinished == cleanupPending = 0 /\ jobTicket = 0

(* A step of core 0 that only moves on. *)
Goto(from, to) ==
    /\ pc0 = from /\ pc0' = to
    /\ UNCHANGED <<slotVars, flags, workerState, jobKind, sequences, detector, bankEpoch,
                   jobTicket, scheduled, entered, bank0, core1>>

(* The end of resource_cleanup_poll: its slot is emptied once finish_cleanup *)
(* reports that nothing is left to do.                                       *)
FinishPoll(from, to) ==
    /\ pc0 = from /\ pc0' = to
    /\ scheduled' = IF CleanupFinished THEN 0 ELSE scheduled
    /\ UNCHANGED <<slotVars, flags, workerState, jobKind, sequences, detector, bankEpoch,
                   jobTicket, entered, bank0, core1>>

(* resource_cleanup_poll from the system tick. *)
TickPoll == pc0 = "main" /\ scheduled = 1 /\ pc0' = "tickFinish" /\ ServiceTick

TickFinish == FinishPoll("tickFinish", "main")

-----------------------------------------------------------------------------
(* Core 0: apriltag_detector_init. *)

InitCall ==
    /\ pc0 = "main" /\ entered = 0
    /\ issued < MaxJobs /\ sessionEpoch < 2 * MaxSessions
    /\ entered' = 1
    /\ pc0' = IF scheduled = 1 THEN "initPoll" ELSE "initWait"
    /\ UNCHANGED <<slotVars, flags, workerState, jobKind, sequences, detector, bankEpoch,
                   jobTicket, scheduled, bank0, core1>>

InitPoll == pc0 = "initPoll" /\ pc0' = "initFinish" /\ ServiceTick

InitFinish == FinishPoll("initFinish", "initWait")

InitBusy == cleanupPending = 1 \/ ~SlotIdle

InitWait == pc0 = "initWait" /\ InitBusy /\ pc0' = "initWait" /\ ServiceTick

(* The clock or the start of core 1 fails before the wait, or the deadline of *)
(* the wait for a free executor passes.                                       *)
InitGiveUp ==
    /\ pc0 = "initWait"
    /\ workerState' = "ERROR"
    /\ pc0' = "main"
    /\ UNCHANGED <<slotVars, flags, jobKind, sequences, detector, bankEpoch,
                   jobTicket, scheduled, entered, bank0, core1>>

InitCreate ==
    /\ pc0 = "initWait" /\ ~InitBusy
    /\ sessionEpoch' = sessionEpoch + 1
    /\ active' = 1 /\ cleanupPending' = 0
    /\ workerState' = "STARTING" /\ jobKind' = "CREATE"
    /\ SlotSubmit(Detector) /\ jobTicket' = issued + 1
    /\ pc0' = "createWait"
    /\ UNCHANGED <<sequences, detector, bankEpoch, scheduled, entered, bank0, core1>>

(* Mutant: cleanup is armed only for a detector that already exists. *)
CreateTimeoutUnarmed ==
    /\ pc0 = "createWait" /\ ~SlotComplete(jobTicket)
    /\ active' = 0 /\ cleanupPending' = detector
    /\ workerState' = "ERROR"
    /\ scheduled' = 1
    /\ pc0' = "main"
    /\ UNCHANGED <<slotVars, sessionEpoch, jobKind, sequences, detector, bankEpoch,
                   jobTicket, entered, bank0, core1>>

(* core1_executor_wait times out: the job is still on core 1, or before it. *)
CreateTimeout ==
    /\ pc0 = "createWait" /\ ~SlotComplete(jobTicket)
    /\ active' = 0 /\ cleanupPending' = 1
    /\ workerState' = "ERROR"
    /\ scheduled' = 1
    /\ pc0' = "main"
    /\ UNCHANGED <<slotVars, sessionEpoch, jobKind, sequences, detector, bankEpoch,
                   jobTicket, entered, bank0, core1>>

CreateReturned == SlotComplete(jobTicket) /\ Goto("createWait", "createTick")

CreateTick == pc0 = "createTick" /\ pc0' = "createDone" /\ ServiceTick

CreateDone ==
    /\ pc0 = "createDone"
    /\ IF workerState = "READY"
       THEN UNCHANGED <<active, cleanupPending, scheduled>>
       ELSE /\ active' = 0
            /\ cleanupPending' = IF jobTicket # 0 \/ detector = 1 THEN 1 ELSE 0
            /\ scheduled' = 1
    /\ pc0' = "main"
    /\ UNCHANGED <<slotVars, sessionEpoch, workerState, jobKind, sequences, detector,
                   bankEpoch, jobTicket, entered, bank0, core1>>

-----------------------------------------------------------------------------
(* Core 0: apriltag_detector_deinit, when the app is left. *)

DeinitCall ==
    /\ pc0 = "main" /\ entered = 1
    /\ entered' = 0
    /\ sessionEpoch' = sessionEpoch + 1
    /\ active' = 0
    /\ cleanupPending' = IF jobTicket # 0 \/ detector = 1 THEN 1 ELSE 0
    /\ pc0' = "deinitTick"
    /\ UNCHANGED <<slotVars, workerState, jobKind, sequences, detector, bankEpoch,
                   jobTicket, scheduled, bank0, core1>>

DeinitTick == pc0 = "deinitTick" /\ pc0' = "deinitFinish" /\ ServiceTick

DeinitFinish == pc0 = "deinitFinish" /\ pc0' = "deinitDone" /\ ServiceTick

DeinitDone ==
    /\ pc0 = "deinitDone"
    /\ scheduled' = IF CleanupFinished THEN scheduled ELSE 1
    /\ pc0' = "main"
    /\ UNCHANGED <<slotVars, flags, workerState, jobKind, sequences, detector, bankEpoch,
                   jobTicket, entered, bank0, core1>>

-----------------------------------------------------------------------------
(* Core 0: apriltag_detector_submit. *)

SubmitCall ==
    /\ pc0 = "main" /\ entered = 1 /\ active = 1 /\ issued < MaxJobs
    /\ pc0' = "submit"
    /\ ServiceTick

MayDetect ==
    workerState = "READY" /\ requestSequence = completeSequence /\ jobTicket = 0

(* Busy: the frame is dropped. *)
SubmitDropped == ~MayDetect /\ Goto("submit", "main")

SubmitFrame ==
    /\ pc0 = "submit" /\ MayDetect /\ SlotIdle
    /\ requestEpoch' = sessionEpoch
    /\ jobKind' = "DETECT"
    /\ requestSequence' = NextSequence(requestSequence)
    /\ SlotSubmit(Detector) /\ jobTicket' = issued + 1
    /\ pc0' = "main"
    /\ UNCHANGED <<flags, workerState, completeSequence, publishedSequence, detector,
                   bankEpoch, scheduled, entered, bank0, core1>>

(* Mutant: the sequence number of a refused request is kept. *)
SubmitRefusedKept ==
    /\ pc0 = "submit" /\ MayDetect /\ ~SlotIdle
    /\ requestEpoch' = sessionEpoch
    /\ jobKind' = "NONE"
    /\ requestSequence' = NextSequence(requestSequence)
    /\ pc0' = "main"
    /\ UNCHANGED <<slotVars, flags, workerState, completeSequence, publishedSequence, detector,
                   bankEpoch, jobTicket, scheduled, entered, bank0, core1>>

(* Another feature has the executor: the request is taken back. *)
SubmitRefused ==
    /\ pc0 = "submit" /\ MayDetect /\ ~SlotIdle
    /\ requestEpoch' = sessionEpoch
    /\ jobKind' = "NONE"
    /\ requestSequence' = completeSequence
    /\ pc0' = "main"
    /\ UNCHANGED <<slotVars, flags, workerState, completeSequence, publishedSequence, detector,
                   bankEpoch, jobTicket, scheduled, entered, bank0, core1>>

(* Core 0: apriltag_detector_results, and the use of the items in the bank.  *)
ResultsVisible ==
    /\ active = 1 /\ publishedSequence # 0
    /\ bankEpoch[Bank(publishedSequence)] = sessionEpoch

ReadResults ==
    /\ pc0 = "main" /\ entered = 1 /\ ResultsVisible
    /\ bank0' = Bank(publishedSequence)
    /\ pc0' = "reading"
    /\ UNCHANGED <<slotVars, flags, workerState, jobKind, sequences, detector, bankEpoch,
                   jobTicket, scheduled, entered, core1>>

ReadDone == Goto("reading", "main")

(* Another feature's jobs. *)
OtherSubmit(j) ==
    /\ pc0 = "main" /\ issued < MaxJobs
    /\ SlotSubmit(j)
    /\ UNCHANGED <<flags, workerState, jobKind, sequences, detector, bankEpoch, core0, core1>>

OtherRuns ==
    /\ \/ slot # Detector /\ SlotBegin
       \/ current # Detector /\ SlotEnd
    /\ UNCHANGED <<flags, workerState, jobKind, sequences, detector, bankEpoch, core0, core1>>

-----------------------------------------------------------------------------
(* Core 1: apriltag_worker_job.  It reads the kind of the job and, to        *)
(* detect, the request.                                                      *)
JobBegin ==
    /\ slot = Detector /\ SlotBegin
    /\ seq1' = requestSequence /\ epoch1' = requestEpoch
    /\ pc1' = CASE jobKind = "CREATE" -> "create"
                [] jobKind = "DETECT" /\ detector = 1 -> "detect"
                [] jobKind = "DESTROY" -> "destroy"
                [] OTHER -> "return"
    /\ UNCHANGED bank1
    /\ workerState' = CASE pc1' = "create" -> "STARTING"
                        [] pc1' = "detect" -> "BUSY"
                        [] pc1' = "destroy" -> "STOPPING"
                        [] OTHER -> workerState
    /\ UNCHANGED <<flags, jobKind, sequences, detector, bankEpoch, core0>>

Step1(from, to) ==
    pc1 = from /\ pc1' = to /\ UNCHANGED <<seq1, epoch1, bank1>>

(* detector_create; a failure is cleaned up at once. *)
CreateDetector ==
    /\ Step1("create", "created")
    /\ detector' \in {0, 1}
    /\ UNCHANGED <<slotVars, flags, workerState, jobKind, sequences, bankEpoch, core0>>

Created ==
    /\ Step1("created", "return")
    /\ workerState' = IF detector = 1 THEN "READY" ELSE "ERROR"
    /\ UNCHANGED <<slotVars, flags, jobKind, sequences, detector, bankEpoch, core0>>

(* Mutant: the results go to the bank that is published. *)
TargetPublished == Bank(publishedSequence)

(* The bank of the sequence number to be published. *)
Target == Bank(NextSequence(publishedSequence))

(* detector_run: from here to the check, the items of the bank change. *)
WriteBank ==
    /\ pc1 = "detect" /\ pc1' = "writing"
    /\ bank1' = Target
    /\ bankEpoch' = [bankEpoch EXCEPT ![bank1'] = epoch1]
    /\ UNCHANGED <<slotVars, flags, workerState, jobKind, sequences, detector, core0,
                   seq1, epoch1>>

PublishCheck ==
    /\ Step1("writing", IF active = 1 /\ epoch1 = sessionEpoch THEN "publish" ELSE "complete")
    /\ UNCHANGED <<slotVars, flags, workerState, jobKind, sequences, detector, bankEpoch, core0>>

(* The session may have ended since the check. *)
Publish ==
    /\ Step1("publish", "complete")
    /\ publishedSequence' = NextSequence(publishedSequence)
    /\ UNCHANGED <<slotVars, flags, workerState, jobKind, requestSequence, completeSequence,
                   requestEpoch, detector, bankEpoch, core0>>

Complete ==
    /\ Step1("complete", "after")
    /\ completeSequence' = seq1
    /\ UNCHANGED <<slotVars, flags, workerState, jobKind, requestSequence, publishedSequence,
                   requestEpoch, detector, bankEpoch, core0>>

ActiveCheck ==
    /\ Step1("after", IF active = 1 THEN "ready" ELSE "stopping")
    /\ UNCHANGED <<slotVars, flags, workerState, jobKind, sequences, detector, bankEpoch, core0>>

AfterState ==
    /\ \/ Step1("ready", "return") /\ workerState' = "READY"
       \/ Step1("stopping", "return") /\ workerState' = "STOPPING"
    /\ UNCHANGED <<slotVars, flags, jobKind, sequences, detector, bankEpoch, core0>>

DestroyDetector ==
    /\ Step1("destroy", "destroyed")
    /\ detector' = 0
    /\ UNCHANGED <<slotVars, flags, workerState, jobKind, sequences, bankEpoch, core0>>

Destroyed ==
    /\ Step1("destroyed", "off")
    /\ completeSequence' = requestSequence
    /\ UNCHANGED <<slotVars, flags, workerState, jobKind, requestSequence, publishedSequence,
                   requestEpoch, detector, bankEpoch, core0>>

DestroyedState ==
    /\ Step1("off", "return")
    /\ workerState' = "OFF"
    /\ UNCHANGED <<slotVars, flags, jobKind, sequences, detector, bankEpoch, core0>>

JobEnd ==
    /\ Step1("return", "out")
    /\ SlotEnd
    /\ UNCHANGED <<flags, workerState, jobKind, sequences, detector, bankEpoch, core0>>

-----------------------------------------------------------------------------
(* Steps of core 0 that the calls in progress go on with. *)
Core0Step ==
    \/ TickPoll \/ TickFinish \/ InitPoll \/ InitFinish
    \/ InitGiveUp \/ InitCreate \/ CreateTimeout \/ CreateReturned \/ CreateTick \/ CreateDone
    \/ DeinitTick \/ DeinitFinish \/ DeinitDone
    \/ SubmitDropped \/ SubmitFrame \/ SubmitRefused \/ ReadDone

Core1Step ==
    \/ JobBegin \/ CreateDetector \/ Created \/ WriteBank \/ PublishCheck \/ Publish
    \/ Complete \/ ActiveCheck \/ AfterState \/ DestroyDetector \/ Destroyed \/ DestroyedState
    \/ JobEnd \/ OtherRuns

(* The rest of the main loop. *)
RestOfLoop == Goto("main", "main")

DetectorNext ==
    \/ Core0Step \/ Core1Step \/ InitWait
    \/ InitCall \/ DeinitCall \/ SubmitCall \/ ReadResults \/ RestOfLoop
    \/ \E j \in Jobs \ {Detector} : OtherSubmit(j)

DetectorSpec == DetectorInit /\ [][DetectorNext]_detectorVars

(* Every call returns, the system tick polls a scheduled cleanup whatever    *)
(* the app does, and core 1 runs its jobs.                                   *)
Fairness ==
    /\ WF_detectorVars(Core0Step) /\ SF_detectorVars(TickPoll)
    /\ WF_detectorVars(Core1Step)

FairDetectorSpec == DetectorSpec /\ Fairness

-----------------------------------------------------------------------------
(* Properties. *)

(* The bank whose items core 0 is using is not the bank core 1 is writing,   *)
(* except at the wrap of the sequence number: the largest value is odd and   *)
(* the number after it is 1.                                                 *)
BankStable ==
    pc0 = "reading" /\ pc1 = "writing" =>
        bank0 # bank1 \/ publishedSequence = SequenceMax

(* The detector of a closed session is destroyed, a creation that outlives   *)
(* its timeout included, and the executor is given back.                     *)
DetectorReclaimed ==
    active = 0 /\ (detector = 1 \/ jobTicket # 0) ~> detector = 0 /\ jobTicket = 0

(* No frame blocks the ones after it: a request is completed or taken back.  *)
FrameCompletes == requestSequence # completeSequence ~> requestSequence = completeSequence
=============================================================================
