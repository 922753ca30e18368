---------------------- MODULE MicroPythonRuntimeProofs ----------------------
(***************************************************************************)
(* One script run at a time, for any number of runs and of other jobs of   *)
(* the executor: core 0 never cleans up under a worker that can still use  *)
(* what it cleans, never rewrites the run's request under one, and gives   *)
(* up to the watchdog only a run that had its grace period and no result   *)
(* when it was last looked at.  Of the output ring, for every size of the  *)
(* ring and of a reader's buffer: what a reader is given and what is       *)
(* reported lost add up, and a copy is exact as long as the writer stays   *)
(* within one ring of its first byte.                                      *)
(***************************************************************************)
EXTENDS MicroPythonRuntime, OutputRing, Integers, TLAPS

(* The worker is in the slot and has not published its result. *)
Live == slot = Worker /\ pcw # "return"

(* The executor's slot, and the worker's place in it. *)
Executor ==
    /\ current # NoJob => current = slot
    /\ issued = finished + (IF slot = NoJob THEN 0 ELSE 1)
    /\ pcw # "none" <=> current = Worker

(* What core 0 leaves alone while the worker is live: the ticket is the last *)
(* one, so that it cannot be complete, and the state is an active one, so    *)
(* that neither of the two grounds for a retirement holds.                   *)
Running ==
    Live => /\ Active(state) /\ gTicket = issued /\ bridge = "open"
            /\ published = None
            /\ exitReason \in {"NONE", "REQUESTED", "TIMEOUT", "EXCEPTION", "COMPLETE"}
            /\ pcw \in {"none", "entry", "vm", "bind", "deinit"} => exitReason # "COMPLETE"
            /\ pcw = "publish" => exitReason # "NONE"
            /\ pc0 \notin {"retire", "settle"}

(* An accepted request that is not submitted yet. *)
Accepted ==
    /\ pc0 \in {"prepare", "submit"} =>
           /\ slot = NoJob /\ state = "STARTING" /\ exitReason = "NONE"
           /\ published = None
    /\ pc0 = "submit" => bridge = "open"

(* A result that core 0 has not stored over is a terminal state. *)
Settled == published # None /\ disturbed = 0 => ~Active(state)

(* While a run is under way core 0 has its ticket, its times are its own, and *)
(* whatever was published before the watchdog's second read stopped it there. *)
Watching ==
    /\ Active(state) /\ pc0 \notin {"settle", "prepare", "submit"} => gTicket # 0
    /\ pc0 \in {"recheck", "arm", "halted", "stopFlag", "stopState"} => gTicket # 0
    /\ Expired \/ pc0 \in {"recheck", "arm", "halted"} => overdue = 1
    /\ pc0 \in {"arm", "halted"} /\ published # None => late = 1 \/ disturbed = 1

IInv == TypeOK /\ Executor /\ Running /\ Accepted /\ Settled /\ Watching

-----------------------------------------------------------------------------
(* The worker is a job and an empty slot is none. *)
LEMMA WorkerFact == Worker \in Jobs /\ Worker # NoJob
  BY WorkerAssumption, NoJobAssumption

(* The initial state satisfies the invariant. *)
LEMMA InitIInv == Init => IInv
  BY WorkerFact
  DEF Init, SlotInit, IInv, TypeOK, SlotTypeOK, Executor, Running, Live, Accepted,
      Settled, Watching, Expired, Active, States, Exits

(* Every step keeps the types. *)
LEMMA TypeStep == ASSUME IInv, [Next]_vars PROVE TypeOK'
  <1> USE WorkerFact DEF IInv, TypeOK, SlotTypeOK, Executor, Running, Live,
              States, Exits, vars, slotVars, shared, clocks, core0, history
  <1>1. CASE UNCHANGED vars
    BY <1>1
  <1>2. CASE PollCheck
    BY <1>2 DEF PollCheck, SlotComplete
  <1>3. CASE PollRetire
    BY <1>3 DEF PollRetire
  <1>4. CASE PollSettle
    BY <1>4 DEF PollSettle
  <1>5. CASE PollWatch
    BY <1>5 DEF PollWatch
  <1>6. CASE PollRecheck
    BY <1>6 DEF PollRecheck
  <1>7. CASE PollArm
    BY <1>7 DEF PollArm
  <1>8. CASE StartOccupied
    BY <1>8 DEF StartOccupied, Occupied
  <1>9. CASE StartInvalid
    BY <1>9 DEF StartInvalid, RejectWith, Occupied
  <1>10. CASE StartNoCore
    BY <1>10 DEF StartNoCore, RejectWith, Occupied
  <1>11. CASE StartBusy
    BY <1>11 DEF StartBusy, RejectWith, Occupied
  <1>12. CASE StartAccept
    BY <1>12 DEF StartAccept, Occupied, SlotIdle
  <1>13. CASE StartPrepare
    BY <1>13 DEF StartPrepare
  <1>14. CASE StartSubmit
    BY <1>14 DEF StartSubmit, SlotSubmit, SlotIdle
  <1>15. CASE StopCheck
    BY <1>15 DEF StopCheck
  <1>16. CASE StopFlag
    BY <1>16 DEF StopFlag
  <1>17. CASE StopState
    BY <1>17 DEF StopState
  <1>18. CASE OtherRuns
    BY <1>18 DEF OtherRuns, SlotBegin, SlotEnd
  <1>19. CASE VmInterrupted
    BY <1>19 DEF VmInterrupted, Interrupt, InterruptReason
  <1>20. CASE VmRaises
    BY <1>20 DEF VmRaises
  <1>21. CASE VmEnds
    BY <1>21 DEF VmEnds
  <1>22. CASE VmBinds
    BY <1>22 DEF VmBinds
  <1>23. CASE WorkerBegin
    BY <1>23 DEF WorkerBegin, SlotBegin
  <1>24. CASE WorkerRunning
    BY <1>24 DEF WorkerRunning
  <1>25. CASE VmBound
    BY <1>25 DEF VmBound, Interrupt, InterruptReason
  <1>26. CASE WorkerReason
    BY <1>26 DEF WorkerReason
  <1>27. CASE WorkerPublish
    BY <1>27 DEF WorkerPublish, TerminalState
  <1>28. CASE WorkerReturn
    BY <1>28 DEF WorkerReturn, SlotEnd
  <1>29. CASE DeadlinePasses
    BY <1>29 DEF DeadlinePasses
  <1>30. CASE DeadlineGraceEnds
    BY <1>30 DEF DeadlineGraceEnds
  <1>31. CASE StopGraceEnds
    BY <1>31 DEF StopGraceEnds
  <1>32. ASSUME NEW c \in {"main", "start"}, PollCall(c) PROVE TypeOK'
    BY <1>32 DEF PollCall
  <1>33. ASSUME NEW j \in Jobs \ {Worker}, OtherSubmit(j) PROVE TypeOK'
    BY <1>33 DEF OtherSubmit, SlotSubmit, SlotIdle
  <1>34. CASE WatchdogResets
    BY <1>34, NoJobAssumption DEF WatchdogResets
  <1> HIDE DEF IInv, TypeOK, SlotTypeOK, Executor, Running, Live, States,
              Exits, vars, slotVars, shared, clocks, core0, history
  <1> QED
    BY <1>1, <1>2, <1>3, <1>4, <1>5, <1>6, <1>7, <1>8, <1>9, <1>10, <1>11,
       <1>12, <1>13, <1>14, <1>15, <1>16, <1>17, <1>18, <1>19, <1>20, <1>21,
       <1>22, <1>23, <1>24, <1>25, <1>26, <1>27, <1>28, <1>29, <1>30, <1>31,
       <1>32, <1>33, <1>34
    DEF Next, Poll, Start, Stop, Vm, WorkerStep, Time

(* The executor runs one job at a time, to its end. *)
LEMMA ExecutorStep == ASSUME IInv, [Next]_vars PROVE Executor'
  <1> USE WorkerFact DEF IInv, TypeOK, SlotTypeOK, Executor, vars, slotVars,
              shared, clocks, core0, history
  <1>1. CASE UNCHANGED vars
    BY <1>1
  <1>2. CASE PollCheck
    BY <1>2 DEF PollCheck, SlotComplete
  <1>3. CASE PollRetire
    BY <1>3 DEF PollRetire
  <1>4. CASE PollSettle
    BY <1>4 DEF PollSettle
  <1>5. CASE PollWatch
    BY <1>5 DEF PollWatch
  <1>6. CASE PollRecheck
    BY <1>6 DEF PollRecheck
  <1>7. CASE PollArm
    BY <1>7 DEF PollArm
  <1>8. CASE StartOccupied
    BY <1>8 DEF StartOccupied, Occupied
  <1>9. CASE StartInvalid
    BY <1>9 DEF StartInvalid, RejectWith, Occupied
  <1>10. CASE StartNoCore
    BY <1>10 DEF StartNoCore, RejectWith, Occupied
  <1>11. CASE StartBusy
    BY <1>11 DEF StartBusy, RejectWith, Occupied
  <1>12. CASE StartAccept
    BY <1>12 DEF StartAccept, Occupied, SlotIdle
  <1>13. CASE StartPrepare
    BY <1>13 DEF StartPrepare
  <1>14. CASE StartSubmit
    BY <1>14 DEF StartSubmit, SlotSubmit, SlotIdle
  <1>15. CASE StopCheck
    BY <1>15 DEF StopCheck
  <1>16. CASE StopFlag
    BY <1>16 DEF StopFlag
  <1>17. CASE StopState
    BY <1>17 DEF StopState
  <1>18. CASE OtherRuns
    BY <1>18 DEF OtherRuns, SlotBegin, SlotEnd
  <1>19. CASE VmInterrupted
    BY <1>19 DEF VmInterrupted, Interrupt, InterruptReason
  <1>20. CASE VmRaises
    BY <1>20 DEF VmRaises
  <1>21. CASE VmEnds
    BY <1>21 DEF VmEnds
  <1>22. CASE VmBinds
    BY <1>22 DEF VmBinds
  <1>23. CASE WorkerBegin
    BY <1>23 DEF WorkerBegin, SlotBegin
  <1>24. CASE WorkerRunning
    BY <1>24 DEF WorkerRunning
  <1>25. CASE VmBound
    BY <1>25 DEF VmBound, Interrupt, InterruptReason
  <1>26. CASE WorkerReason
    BY <1>26 DEF WorkerReason
  <1>27. CASE WorkerPublish
    BY <1>27 DEF WorkerPublish, TerminalState
  <1>28. CASE WorkerReturn
    BY <1>28 DEF WorkerReturn, SlotEnd
  <1>29. CASE DeadlinePasses
    BY <1>29 DEF DeadlinePasses
  <1>30. CASE DeadlineGraceEnds
    BY <1>30 DEF DeadlineGraceEnds
  <1>31. CASE StopGraceEnds
    BY <1>31 DEF StopGraceEnds
  <1>32. ASSUME NEW c \in {"main", "start"}, PollCall(c) PROVE Executor'
    BY <1>32 DEF PollCall
  <1>33. ASSUME NEW j \in Jobs \ {Worker}, OtherSubmit(j) PROVE Executor'
    BY <1>33, NoJobAssumption DEF OtherSubmit, SlotSubmit, SlotIdle
  <1>34. CASE WatchdogResets
    BY <1>34, NoJobAssumption DEF WatchdogResets
  <1> HIDE DEF IInv, TypeOK, SlotTypeOK, Executor, vars, slotVars, shared,
              clocks, core0, history
  <1> QED
    BY <1>1, <1>2, <1>3, <1>4, <1>5, <1>6, <1>7, <1>8, <1>9, <1>10, <1>11,
       <1>12, <1>13, <1>14, <1>15, <1>16, <1>17, <1>18, <1>19, <1>20, <1>21,
       <1>22, <1>23, <1>24, <1>25, <1>26, <1>27, <1>28, <1>29, <1>30, <1>31,
       <1>32, <1>33, <1>34
    DEF Next, Poll, Start, Stop, Vm, WorkerStep, Time

(* Core 0 leaves a live worker alone. *)
LEMMA RunningStep == ASSUME IInv, [Next]_vars PROVE (Running /\ Accepted)'
  <1> USE WorkerFact DEF IInv, TypeOK, SlotTypeOK, Executor, Running,
              Accepted, Live, Active, vars, slotVars, shared, clocks, core0,
              history
  <1>1. CASE UNCHANGED vars
    BY <1>1
  <1>2. CASE PollCheck
    BY <1>2 DEF PollCheck, SlotComplete
  <1>3. CASE PollRetire
    BY <1>3 DEF PollRetire
  <1>4. CASE PollSettle
    BY <1>4 DEF PollSettle
  <1>5. CASE PollWatch
    BY <1>5 DEF PollWatch
  <1>6. CASE PollRecheck
    BY <1>6 DEF PollRecheck
  <1>7. CASE PollArm
    BY <1>7 DEF PollArm
  <1>8. CASE StartOccupied
    BY <1>8 DEF StartOccupied, Occupied
  <1>9. CASE StartInvalid
    BY <1>9 DEF StartInvalid, RejectWith, Occupied
  <1>10. CASE StartNoCore
    BY <1>10 DEF StartNoCore, RejectWith, Occupied
  <1>11. CASE StartBusy
    BY <1>11 DEF StartBusy, RejectWith, Occupied
  <1>12. CASE StartAccept
    BY <1>12 DEF StartAccept, Occupied, SlotIdle
  <1>13. CASE StartPrepare
    BY <1>13 DEF StartPrepare
  <1>14. CASE StartSubmit
    BY <1>14 DEF StartSubmit, SlotSubmit, SlotIdle
  <1>15. CASE StopCheck
    BY <1>15 DEF StopCheck
  <1>16. CASE StopFlag
    BY <1>16 DEF StopFlag
  <1>17. CASE StopState
    BY <1>17 DEF StopState
  <1>18. CASE OtherRuns
    BY <1>18 DEF OtherRuns, SlotBegin, SlotEnd
  <1>19. CASE VmInterrupted
    BY <1>19 DEF VmInterrupted, Interrupt, InterruptReason
  <1>20. CASE VmRaises
    BY <1>20 DEF VmRaises
  <1>21. CASE VmEnds
    BY <1>21 DEF VmEnds
  <1>22. CASE VmBinds
    BY <1>22 DEF VmBinds
  <1>23. CASE WorkerBegin
    BY <1>23 DEF WorkerBegin, SlotBegin
  <1>24. CASE WorkerRunning
    BY <1>24 DEF WorkerRunning
  <1>25. CASE VmBound
    BY <1>25 DEF VmBound, Interrupt, InterruptReason
  <1>26. CASE WorkerReason
    BY <1>26 DEF WorkerReason
  <1>27. CASE WorkerPublish
    BY <1>27 DEF WorkerPublish, TerminalState
  <1>28. CASE WorkerReturn
    BY <1>28 DEF WorkerReturn, SlotEnd
  <1>29. CASE DeadlinePasses
    BY <1>29 DEF DeadlinePasses
  <1>30. CASE DeadlineGraceEnds
    BY <1>30 DEF DeadlineGraceEnds
  <1>31. CASE StopGraceEnds
    BY <1>31 DEF StopGraceEnds
  <1>32. ASSUME NEW c \in {"main", "start"}, PollCall(c) PROVE (Running /\ Accepted)'
    BY <1>32 DEF PollCall
  <1>33. ASSUME NEW j \in Jobs \ {Worker}, OtherSubmit(j) PROVE (Running /\ Accepted)'
    BY <1>33 DEF OtherSubmit, SlotSubmit, SlotIdle
  <1>34. CASE WatchdogResets
    BY <1>34, NoJobAssumption DEF WatchdogResets
  <1> HIDE DEF IInv, TypeOK, SlotTypeOK, Executor, Running, Accepted, Live,
              Active, vars, slotVars, shared, clocks, core0, history
  <1> QED
    BY <1>1, <1>2, <1>3, <1>4, <1>5, <1>6, <1>7, <1>8, <1>9, <1>10, <1>11,
       <1>12, <1>13, <1>14, <1>15, <1>16, <1>17, <1>18, <1>19, <1>20, <1>21,
       <1>22, <1>23, <1>24, <1>25, <1>26, <1>27, <1>28, <1>29, <1>30, <1>31,
       <1>32, <1>33, <1>34
    DEF Next, Poll, Start, Stop, Vm, WorkerStep, Time

(* Only core 0 turns a published result into an active state, and notes it. *)
LEMMA SettledStep == ASSUME IInv, [Next]_vars PROVE Settled'
  <1> USE WorkerFact DEF IInv, TypeOK, SlotTypeOK, Executor, Running,
              Accepted, Live, Settled, Active, vars, slotVars, shared, clocks,
              core0, history
  <1>1. CASE UNCHANGED vars
    BY <1>1
  <1>2. CASE PollCheck
    BY <1>2 DEF PollCheck, SlotComplete
  <1>3. CASE PollRetire
    BY <1>3 DEF PollRetire
  <1>4. CASE PollSettle
    BY <1>4 DEF PollSettle
  <1>5. CASE PollWatch
    BY <1>5 DEF PollWatch
  <1>6. CASE PollRecheck
    BY <1>6 DEF PollRecheck
  <1>7. CASE PollArm
    BY <1>7 DEF PollArm
  <1>8. CASE StartOccupied
    BY <1>8 DEF StartOccupied, Occupied
  <1>9. CASE StartInvalid
    BY <1>9 DEF StartInvalid, RejectWith, Occupied
  <1>10. CASE StartNoCore
    BY <1>10 DEF StartNoCore, RejectWith, Occupied
  <1>11. CASE StartBusy
    BY <1>11 DEF StartBusy, RejectWith, Occupied
  <1>12. CASE StartAccept
    BY <1>12 DEF StartAccept, Occupied, SlotIdle
  <1>13. CASE StartPrepare
    BY <1>13 DEF StartPrepare
  <1>14. CASE StartSubmit
    BY <1>14 DEF StartSubmit, SlotSubmit, SlotIdle
  <1>15. CASE StopCheck
    BY <1>15 DEF StopCheck
  <1>16. CASE StopFlag
    BY <1>16 DEF StopFlag
  <1>17. CASE StopState
    BY <1>17 DEF StopState
  <1>18. CASE OtherRuns
    BY <1>18 DEF OtherRuns, SlotBegin, SlotEnd
  <1>19. CASE VmInterrupted
    BY <1>19 DEF VmInterrupted, Interrupt, InterruptReason
  <1>20. CASE VmRaises
    BY <1>20 DEF VmRaises
  <1>21. CASE VmEnds
    BY <1>21 DEF VmEnds
  <1>22. CASE VmBinds
    BY <1>22 DEF VmBinds
  <1>23. CASE WorkerBegin
    BY <1>23 DEF WorkerBegin, SlotBegin
  <1>24. CASE WorkerRunning
    BY <1>24 DEF WorkerRunning
  <1>25. CASE VmBound
    BY <1>25 DEF VmBound, Interrupt, InterruptReason
  <1>26. CASE WorkerReason
    BY <1>26 DEF WorkerReason
  <1>27. CASE WorkerPublish
    BY <1>27 DEF WorkerPublish, TerminalState
  <1>28. CASE WorkerReturn
    BY <1>28 DEF WorkerReturn, SlotEnd
  <1>29. CASE DeadlinePasses
    BY <1>29 DEF DeadlinePasses
  <1>30. CASE DeadlineGraceEnds
    BY <1>30 DEF DeadlineGraceEnds
  <1>31. CASE StopGraceEnds
    BY <1>31 DEF StopGraceEnds
  <1>32. ASSUME NEW c \in {"main", "start"}, PollCall(c) PROVE Settled'
    BY <1>32 DEF PollCall
  <1>33. ASSUME NEW j \in Jobs \ {Worker}, OtherSubmit(j) PROVE Settled'
    BY <1>33 DEF OtherSubmit, SlotSubmit, SlotIdle
  <1>34. CASE WatchdogResets
    BY <1>34, NoJobAssumption DEF WatchdogResets
  <1> HIDE DEF IInv, TypeOK, SlotTypeOK, Executor, Running, Accepted, Live,
              Settled, Active, vars, slotVars, shared, clocks, core0, history
  <1> QED
    BY <1>1, <1>2, <1>3, <1>4, <1>5, <1>6, <1>7, <1>8, <1>9, <1>10, <1>11,
       <1>12, <1>13, <1>14, <1>15, <1>16, <1>17, <1>18, <1>19, <1>20, <1>21,
       <1>22, <1>23, <1>24, <1>25, <1>26, <1>27, <1>28, <1>29, <1>30, <1>31,
       <1>32, <1>33, <1>34
    DEF Next, Poll, Start, Stop, Vm, WorkerStep, Time

(* Only a run that is not retired and had its grace period is given up, and  *)
(* not for a result that was there to be seen.                               *)
LEMMA WatchingStep == ASSUME IInv, [Next]_vars PROVE Watching'
  <1> USE WorkerFact DEF IInv, TypeOK, SlotTypeOK, Executor, Running,
              Accepted, Live, Settled, Watching, Expired, Active, vars,
              slotVars, shared, clocks, core0, history
  <1>1. CASE UNCHANGED vars
    BY <1>1
  <1>2. CASE PollCheck
    BY <1>2 DEF PollCheck, SlotComplete
  <1>3. CASE PollRetire
    BY <1>3 DEF PollRetire
  <1>4. CASE PollSettle
    BY <1>4 DEF PollSettle
  <1>5. CASE PollWatch
    BY <1>5 DEF PollWatch
  <1>6. CASE PollRecheck
    BY <1>6 DEF PollRecheck
  <1>7. CASE PollArm
    BY <1>7 DEF PollArm
  <1>8. CASE StartOccupied
    BY <1>8 DEF StartOccupied, Occupied
  <1>9. CASE StartInvalid
    BY <1>9 DEF StartInvalid, RejectWith, Occupied
  <1>10. CASE StartNoCore
    BY <1>10 DEF StartNoCore, RejectWith, Occupied
  <1>11. CASE StartBusy
    BY <1>11 DEF StartBusy, RejectWith, Occupied
  <1>12. CASE StartAccept
    BY <1>12 DEF StartAccept, Occupied, SlotIdle
  <1>13. CASE StartPrepare
    BY <1>13 DEF StartPrepare
  <1>14. CASE StartSubmit
    BY <1>14 DEF StartSubmit, SlotSubmit, SlotIdle
  <1>15. CASE StopCheck
    BY <1>15 DEF StopCheck
  <1>16. CASE StopFlag
    BY <1>16 DEF StopFlag
  <1>17. CASE StopState
    BY <1>17 DEF StopState
  <1>18. CASE OtherRuns
    BY <1>18 DEF OtherRuns, SlotBegin, SlotEnd
  <1>19. CASE VmInterrupted
    BY <1>19 DEF VmInterrupted, Interrupt, InterruptReason
  <1>20. CASE VmRaises
    BY <1>20 DEF VmRaises
  <1>21. CASE VmEnds
    BY <1>21 DEF VmEnds
  <1>22. CASE VmBinds
    BY <1>22 DEF VmBinds
  <1>23. CASE WorkerBegin
    BY <1>23 DEF WorkerBegin, SlotBegin
  <1>24. CASE WorkerRunning
    BY <1>24 DEF WorkerRunning
  <1>25. CASE VmBound
    BY <1>25 DEF VmBound, Interrupt, InterruptReason
  <1>26. CASE WorkerReason
    BY <1>26 DEF WorkerReason
  <1>27. CASE WorkerPublish
    BY <1>27 DEF WorkerPublish, TerminalState
  <1>28. CASE WorkerReturn
    BY <1>28 DEF WorkerReturn, SlotEnd
  <1>29. CASE DeadlinePasses
    BY <1>29 DEF DeadlinePasses
  <1>30. CASE DeadlineGraceEnds
    BY <1>30 DEF DeadlineGraceEnds
  <1>31. CASE StopGraceEnds
    BY <1>31 DEF StopGraceEnds
  <1>32. ASSUME NEW c \in {"main", "start"}, PollCall(c) PROVE Watching'
    BY <1>32 DEF PollCall
  <1>33. ASSUME NEW j \in Jobs \ {Worker}, OtherSubmit(j) PROVE Watching'
    BY <1>33 DEF OtherSubmit, SlotSubmit, SlotIdle
  <1>34. CASE WatchdogResets
    BY <1>34, NoJobAssumption DEF WatchdogResets
  <1> HIDE DEF IInv, TypeOK, SlotTypeOK, Executor, Running, Accepted, Live,
              Settled, Watching, Expired, Active, vars, slotVars, shared,
              clocks, core0, history
  <1> QED
    BY <1>1, <1>2, <1>3, <1>4, <1>5, <1>6, <1>7, <1>8, <1>9, <1>10, <1>11,
       <1>12, <1>13, <1>14, <1>15, <1>16, <1>17, <1>18, <1>19, <1>20, <1>21,
       <1>22, <1>23, <1>24, <1>25, <1>26, <1>27, <1>28, <1>29, <1>30, <1>31,
       <1>32, <1>33, <1>34
    DEF Next, Poll, Start, Stop, Vm, WorkerStep, Time

-----------------------------------------------------------------------------
(* Every step preserves the invariant. *)
LEMMA NextIInv == IInv /\ [Next]_vars => IInv'
  BY TypeStep, ExecutorStep, RunningStep, SettledStep, WatchingStep DEF IInv

LEMMA Invariance == Spec => []IInv
  BY InitIInv, NextIInv, PTL DEF Spec

(* Two runs never meet: the capabilities of a run are closed only when its  *)
(* worker has no binding call left to make, although core 0 does not wait   *)
(* for the executor, and an accepted start finds no worker inside the       *)
(* memory it rewrites.                                                      *)
THEOREM RunsNeverMeet == Spec => [](TypeOK /\ RunsSeparated)
  <1>1. IInv => TypeOK /\ RunsSeparated
    BY WorkerFact DEF IInv, Executor, Running, Accepted, Live, RunsSeparated
  <1> QED BY <1>1, Invariance, PTL

(* From the second read of micropython_watchdog_poll until WDT1 fires, the    *)
(* run that is given up is not retired, has used up a grace period of its     *)
(* own, and had no result to be seen at that read, however the worker's last  *)
(* stores and a stop request fall between the reads, the arming and the reset.*)
THEOREM ResetMeansOverdue == Spec => []ResetOnlyOverdue
  <1>1. IInv => ResetOnlyOverdue
    BY DEF IInv, Watching, ResetOnlyOverdue
  <1> QED BY <1>1, Invariance, PTL


-----------------------------------------------------------------------------
(* The ring of the output: the writer on core 1, the readers on core 0. *)

(* The writer, between the published index and the end of its call. *)
Writing == write <= pos /\ pos <= end /\ dropped <= pos

(* The last Bytes positions written are in their cells. *)
Window == \A i \in Nat : i < pos /\ pos <= i + Bytes => cells[i % Bytes] = i

(* The reader that is copying has counted published bytes only. *)
Copying ==
    /\ seenRun <= run
    /\ who = "session" => seenRun = run
    /\ who # "none" => cursor[who] <= from /\ from + count <= write /\ copied <= count

(* A reader's place in the stream: where its copy starts, or its cursor. *)
Place(r) == IF who = r THEN from ELSE cursor[r]

(* A reader's account of the run it has seen, and of an earlier run. *)
Accounts ==
    \A r \in Readers :
        /\ got[r] + lost[r] <= MaxStream
        /\ (r = "session" => seenRun = run) =>
               cursor[r] <= write /\ got[r] + lost[r] = Place(r)

(* Every byte overwritten ahead of the app is in output_dropped, before the *)
(* app skips it and counts it lost.                                         *)
Overwritten ==
    /\ lost["app"] <= dropped
    /\ pos - Bytes - Place("app") <= dropped - lost["app"]

RingInv == RingTypeOK /\ Writing /\ Window /\ Copying /\ Accounts /\ Overwritten /\ CopyExact

-----------------------------------------------------------------------------
(* Positions less than one ring apart are in different cells. *)
LEMMA DifferentCells ==
    ASSUME NEW a \in Nat, NEW b \in Nat, a < b, b < a + Bytes
    PROVE  a % Bytes # b % Bytes
  <1> SUFFICES ASSUME a % Bytes = b % Bytes PROVE FALSE
    OBVIOUS
  <1> DEFINE k == (b \div Bytes) - (a \div Bytes)
  <1>1. \A i \in Nat : /\ i \div Bytes \in Int /\ i % Bytes \in Int
                      /\ i = Bytes * (i \div Bytes) + (i % Bytes)
    <2> TAKE i \in Nat
    <2>1. i \div Bytes \in Int
      BY RingAssumption
    <2>2. i % Bytes \in Int
      BY RingAssumption
    <2>3. i = Bytes * (i \div Bytes) + (i % Bytes)
      BY RingAssumption
    <2> QED BY <2>1, <2>2, <2>3
  <1>2. k \in Int /\ b - a = Bytes * k
    BY <1>1, RingAssumption
  <1> HIDE DEF k
  <1>3. k <= 0 => Bytes * k <= 0
    BY <1>2, RingAssumption
  <1>4. k >= 1 => Bytes * k >= Bytes
    BY <1>2, RingAssumption
  <1> QED BY <1>2, <1>3, <1>4, RingAssumption

(* Every position has a cell. *)
LEMMA CellExists == \A i \in Nat : i % Bytes \in 0..Bytes - 1
  BY RingAssumption

(* The empty ring satisfies the invariant. *)
LEMMA InitRingInv == RingInit => RingInv
  BY RingAssumption
  DEF RingInit, RingInv, RingTypeOK, Writing, Window, Copying, Accounts, Overwritten,
      CopyExact, Place, Readers

(* What a reader finds when it calls: its cursor is not past the published   *)
(* end, and the first byte it copies is the cursor or the oldest byte kept.  *)
LEMMA ReadCallFact ==
    ASSUME RingInv, NEW r \in Readers, ReadCall(r)
    PROVE  /\ First(r) \in Nat /\ cursor[r] <= First(r) /\ First(r) <= write
           /\ LostBytes(r) = First(r) - cursor[r]
           /\ write - Bytes <= First(r)
           /\ LostBytes(r) > 0 => First(r) = write - Bytes
           /\ count' \in 0..Capacity /\ First(r) + count' <= write
           /\ got[r] + lost[r] = cursor[r]
  <1>1. cursor[r] <= write /\ got[r] + lost[r] = cursor[r]
    BY DEF ReadCall, RingInv, Accounts, Place, Readers
  <1>2. cursor[r] \in Nat /\ write \in Nat
    BY RingAssumption DEF RingInv, RingTypeOK
  <1>3. /\ First(r) \in Nat /\ cursor[r] <= First(r) /\ First(r) <= write
        /\ LostBytes(r) = First(r) - cursor[r]
        /\ write - Bytes <= First(r)
        /\ LostBytes(r) > 0 => First(r) = write - Bytes
    BY <1>1, <1>2, RingAssumption DEF First, LostBytes, Oldest
  <1>4. count' \in 0..Capacity /\ First(r) + count' <= write
    BY <1>2, <1>3, RingAssumption DEF ReadCall, Least
  <1> QED BY <1>1, <1>3, <1>4

(* Every step keeps the types. *)
LEMMA RingTypeStep == ASSUME RingInv, [RingNext]_ringVars PROVE RingTypeOK'
  <1> SUFFICES ASSUME RingTypeOK, Writing, Copying, Accounts PROVE RingTypeOK'
    BY DEF RingInv
  <1> USE RingAssumption DEF RingTypeOK, ringVars, writer, reader
  <1>1. CASE UNCHANGED ringVars
    BY <1>1 DEF Writing
  <1>2. ASSUME NEW k \in 1..MaxStream, WriteCall(k) PROVE RingTypeOK'
    BY <1>2 DEF Writing, WriteCall, WriterIdle
  <1>3. CASE WriteCell
    <2>1. pos \in Nat /\ pos + 1 \in 0..MaxStream /\ pos \in 0..MaxStream - 1
      BY <1>3 DEF WriteCell
    <2>2. cells' \in [0..Bytes - 1 -> 0..MaxStream - 1]
      BY <1>3, <2>1, CellExists DEF WriteCell
    <2>3. dropped' \in 0..MaxStream
      BY <1>3, <2>1 DEF WriteCell, Writing
    <2> QED BY <1>3, <2>1, <2>2, <2>3 DEF WriteCell
  <1>4. CASE WritePublish
    BY <1>4 DEF Writing, WritePublish
  <1>5. CASE StartRun
    BY <1>5 DEF StartRun, WriterIdle, Readers
  <1>6. CASE SessionSeesRun
    BY <1>6 DEF SessionSeesRun, Readers
  <1>7. ASSUME NEW r \in Readers, ReadCall(r) PROVE RingTypeOK'
    <2>1. /\ First(r) \in Nat /\ cursor[r] <= First(r) /\ First(r) <= write
          /\ LostBytes(r) = First(r) - cursor[r] /\ write - Bytes <= First(r)
          /\ LostBytes(r) > 0 => First(r) = write - Bytes
          /\ got[r] + lost[r] = cursor[r]
      BY <1>7, ReadCallFact
    <2>2. First(r) \in 0..MaxStream /\ lost[r] + LostBytes(r) \in 0..MaxStream
      <3>1. /\ write \in Nat /\ write <= MaxStream /\ cursor[r] \in Nat
            /\ got[r] \in Nat /\ lost[r] \in Nat
        BY <1>7
      <3> HIDE DEF RingTypeOK
      <3> QED BY <2>1, <3>1
    <2>3. count' \in 0..Capacity
      BY <1>7, ReadCallFact
    <2>4. lost' \in [Readers -> 0..MaxStream]
      BY <1>7, <2>2 DEF ReadCall
    <2> QED BY <1>7, <2>2, <2>3, <2>4 DEF ReadCall
  <1>8. CASE ReadCell
    BY <1>8 DEF ReadCell, Copying
  <1>9. CASE ReadReturns
    <2>1. /\ who \in Readers /\ got[who] + lost[who] = from
          /\ from + count <= write
      BY <1>9 DEF ReadReturns, Accounts, Place, Copying, Readers
    <2>2. from + count \in 0..MaxStream /\ got[who] + count \in 0..MaxStream
      BY <2>1
    <2> QED BY <1>9, <2>1, <2>2 DEF ReadReturns
  <1>10. CASE Rest
    BY <1>10 DEF Writing, Rest
  <1> HIDE DEF RingTypeOK, ringVars, writer, reader
  <1> QED
    BY <1>1, <1>2, <1>3, <1>4, <1>5, <1>6, <1>7, <1>8, <1>9, <1>10
    DEF RingNext, Write, Read

(* The writer stays between its bounds. *)
LEMMA WritingStep == ASSUME RingInv, [RingNext]_ringVars PROVE Writing'
  <1> SUFFICES ASSUME RingTypeOK, Writing PROVE Writing'
    BY DEF RingInv
  <1> USE RingAssumption DEF RingTypeOK, ringVars, writer, reader
  <1>1. CASE UNCHANGED ringVars
    BY <1>1 DEF Writing
  <1>2. ASSUME NEW k \in 1..MaxStream, WriteCall(k) PROVE Writing'
    BY <1>2 DEF Writing, WriteCall, WriterIdle
  <1>3. CASE WriteCell
    BY <1>3 DEF Writing, WriteCell
  <1>4. CASE WritePublish
    BY <1>4 DEF Writing, WritePublish
  <1>5. CASE StartRun
    BY <1>5 DEF Writing, StartRun, WriterIdle
  <1>6. CASE SessionSeesRun
    BY <1>6 DEF Writing, SessionSeesRun
  <1>7. ASSUME NEW r \in Readers, ReadCall(r) PROVE Writing'
    BY <1>7 DEF Writing, ReadCall
  <1>8. CASE ReadCell
    BY <1>8 DEF Writing, ReadCell
  <1>9. CASE ReadReturns
    BY <1>9 DEF Writing, ReadReturns
  <1>10. CASE Rest
    BY <1>10 DEF Writing, Rest
  <1> HIDE DEF RingTypeOK, ringVars, writer, reader
  <1> QED
    BY <1>1, <1>2, <1>3, <1>4, <1>5, <1>6, <1>7, <1>8, <1>9, <1>10
    DEF RingNext, Write, Read

(* Writing a cell replaces the byte one ring back and no other. *)
LEMMA WindowStep == ASSUME RingInv, [RingNext]_ringVars PROVE Window'
  <1> SUFFICES ASSUME RingTypeOK, Writing, Window PROVE Window'
    BY DEF RingInv
  <1> USE RingAssumption DEF RingTypeOK, Writing, Window, ringVars, writer,
              reader
  <1>1. CASE UNCHANGED ringVars
    BY <1>1
  <1>2. ASSUME NEW k \in 1..MaxStream, WriteCall(k) PROVE Window'
    BY <1>2 DEF WriteCall, WriterIdle
  <1>3. CASE WriteCell
    <2> SUFFICES ASSUME NEW i \in Nat, i < pos', pos' <= i + Bytes
                 PROVE  cells'[i % Bytes] = i
      OBVIOUS
    <2>1. /\ pos' = pos + 1 /\ pos \in Nat
          /\ cells' = [cells EXCEPT ![pos % Bytes] = pos]
      BY <1>3 DEF WriteCell
    <2>2. CASE i = pos
      BY <2>1, <2>2, CellExists
    <2>3. CASE i < pos
      <3>1. i % Bytes # pos % Bytes
        <4>1. pos < i + Bytes
          BY <2>1
        <4> QED BY <4>1, <2>1, <2>3, DifferentCells
      <3>2. cells[i % Bytes] = i
        BY <2>1, <2>3
      <3> QED BY <2>1, <3>1, <3>2, CellExists
    <2> QED BY <2>1, <2>2, <2>3
  <1>4. CASE WritePublish
    BY <1>4 DEF WritePublish
  <1>5. CASE StartRun
    BY <1>5 DEF StartRun, WriterIdle
  <1>6. CASE SessionSeesRun
    BY <1>6 DEF SessionSeesRun
  <1>7. ASSUME NEW r \in Readers, ReadCall(r) PROVE Window'
    BY <1>7, ReadCallFact DEF ReadCall
  <1>8. CASE ReadCell
    BY <1>8 DEF ReadCell
  <1>9. CASE ReadReturns
    BY <1>9 DEF ReadReturns
  <1>10. CASE Rest
    BY <1>10 DEF Rest
  <1> HIDE DEF RingTypeOK, Writing, Window, ringVars, writer, reader
  <1> QED
    BY <1>1, <1>2, <1>3, <1>4, <1>5, <1>6, <1>7, <1>8, <1>9, <1>10
    DEF RingNext, Write, Read

(* A reader counts what is published, and the writer only adds to it. *)
LEMMA CopyingStep == ASSUME RingInv, [RingNext]_ringVars PROVE Copying'
  <1> SUFFICES ASSUME RingTypeOK, Writing, Copying PROVE Copying'
    BY DEF RingInv
  <1> USE RingAssumption DEF RingTypeOK, ringVars, writer, reader
  <1>1. CASE UNCHANGED ringVars
    BY <1>1 DEF Writing, Copying
  <1>2. ASSUME NEW k \in 1..MaxStream, WriteCall(k) PROVE Copying'
    BY <1>2 DEF Writing, Copying, WriteCall, WriterIdle
  <1>3. CASE WriteCell
    BY <1>3 DEF Writing, Copying, WriteCell
  <1>4. CASE WritePublish
    BY <1>4 DEF Writing, Copying, WritePublish
  <1>5. CASE StartRun
    BY <1>5 DEF Writing, Copying, StartRun, WriterIdle
  <1>6. CASE SessionSeesRun
    BY <1>6 DEF Writing, Copying, SessionSeesRun
  <1>7. ASSUME NEW r \in Readers, ReadCall(r) PROVE Copying'
    <2>1. /\ First(r) \in Nat /\ cursor[r] <= First(r) /\ First(r) <= write
          /\ LostBytes(r) = First(r) - cursor[r] /\ write - Bytes <= First(r)
          /\ LostBytes(r) > 0 => First(r) = write - Bytes
          /\ got[r] + lost[r] = cursor[r]
      BY <1>7, ReadCallFact
    <2>2. First(r) + count' <= write /\ count' \in 0..Capacity
      BY <1>7, ReadCallFact
    <2> QED BY <1>7, <2>1, <2>2 DEF ReadCall, Copying
  <1>8. CASE ReadCell
    BY <1>8 DEF Writing, Copying, ReadCell
  <1>9. CASE ReadReturns
    BY <1>9 DEF Writing, Copying, ReadReturns
  <1>10. CASE Rest
    BY <1>10 DEF Writing, Copying, Rest
  <1> HIDE DEF RingTypeOK, ringVars, writer, reader
  <1> QED
    BY <1>1, <1>2, <1>3, <1>4, <1>5, <1>6, <1>7, <1>8, <1>9, <1>10
    DEF RingNext, Write, Read

(* Delivered and skipped bytes add up. *)
LEMMA AccountsStep == ASSUME RingInv, [RingNext]_ringVars PROVE Accounts'
  <1> SUFFICES ASSUME RingTypeOK, Writing, Copying, Accounts PROVE Accounts'
    BY DEF RingInv
  <1> USE RingAssumption DEF RingTypeOK, ringVars, writer, reader
  <1>1. CASE UNCHANGED ringVars
    BY <1>1 DEF Writing, Copying, Accounts, Place
  <1>2. ASSUME NEW k \in 1..MaxStream, WriteCall(k) PROVE Accounts'
    BY <1>2 DEF Writing, Copying, Accounts, Place, WriteCall, WriterIdle
  <1>3. CASE WriteCell
    BY <1>3 DEF Writing, Copying, Accounts, Place, WriteCell
  <1>4. CASE WritePublish
    BY <1>4 DEF Writing, Copying, Accounts, Place, WritePublish
  <1>5. CASE StartRun
    <2>1. /\ run' = run + 1 /\ seenRun' = seenRun /\ seenRun' # run'
          /\ who' = "none" /\ write' = 0
      BY <1>5 DEF StartRun, Copying
    <2>2. /\ cursor'["app"] = 0 /\ got'["app"] = 0 /\ lost'["app"] = 0
          /\ got'["session"] = got["session"] /\ lost'["session"] = lost["session"]
      BY <1>5 DEF StartRun, Readers
    <2>3. ASSUME NEW q \in Readers PROVE got'[q] + lost'[q] <= MaxStream
      <3>1. q = "app" \/ q = "session"
        BY DEF Readers
      <3>2. got[q] + lost[q] <= MaxStream
        BY DEF Accounts
      <3> QED BY <2>2, <3>1, <3>2
    <2>4. ASSUME NEW q \in Readers, q = "session" => seenRun' = run'
          PROVE  cursor'[q] <= write' /\ got'[q] + lost'[q] = Place(q)'
      <3>1. q = "app"
        BY <2>1, <2>4 DEF Readers
      <3>2. Place(q)' = cursor'[q]
        BY <2>1, <3>1 DEF Place
      <3> QED BY <2>1, <2>2, <3>1, <3>2
    <2> QED BY <2>3, <2>4 DEF Accounts
  <1>6. CASE SessionSeesRun
    BY <1>6 DEF Writing, Copying, Accounts, Place, SessionSeesRun
  <1>7. ASSUME NEW r \in Readers, ReadCall(r) PROVE Accounts'
    <2>1. /\ First(r) \in Nat /\ cursor[r] <= First(r) /\ First(r) <= write
          /\ LostBytes(r) = First(r) - cursor[r] /\ write - Bytes <= First(r)
          /\ LostBytes(r) > 0 => First(r) = write - Bytes
          /\ got[r] + lost[r] = cursor[r]
      BY <1>7, ReadCallFact
    <2>4. /\ who = "none" /\ who' = r /\ from' = First(r) /\ got' = got
          /\ cursor' = cursor /\ write' = write /\ run' = run /\ seenRun' = seenRun
          /\ lost'[r] = lost[r] + LostBytes(r)
          /\ \A q \in Readers : q # r => lost'[q] = lost[q]
      BY <1>7 DEF ReadCall
    <2>5. got'[r] + lost'[r] = First(r)
      BY <2>1, <2>4
    <2>2. ASSUME NEW q \in Readers PROVE got'[q] + lost'[q] <= MaxStream
      <3>1. CASE q = r
        BY <2>1, <2>5, <3>1
      <3>2. CASE q # r
        BY <2>4, <3>2 DEF Accounts
      <3> QED BY <3>1, <3>2
    <2>3. ASSUME NEW q \in Readers, q = "session" => seenRun' = run'
          PROVE  cursor'[q] <= write' /\ got'[q] + lost'[q] = Place(q)'
      <3>1. CASE q = r
        <4>1. Place(q)' = First(r) /\ cursor'[q] = cursor[r] /\ write' = write
          BY <2>4, <3>1 DEF Place
        <4>2. cursor[r] <= First(r) /\ First(r) <= write /\ cursor[r] \in Nat
          BY <2>1
        <4>3. cursor[r] <= write
          BY <2>1, <4>2
        <4> QED BY <2>5, <3>1, <4>1, <4>3
      <3>2. CASE q # r
        <4>1. Place(q) = cursor[q] /\ Place(q)' = cursor[q]
          BY <2>4, <3>2 DEF Place, Readers
        <4>2. cursor[q] <= write /\ got[q] + lost[q] = Place(q)
          BY <2>3, <2>4 DEF Accounts
        <4> QED BY <2>4, <3>2, <4>1, <4>2
      <3> QED BY <3>1, <3>2
    <2> QED BY <2>2, <2>3 DEF Accounts
  <1>8. CASE ReadCell
    BY <1>8 DEF Writing, Copying, Accounts, Place, ReadCell
  <1>9. CASE ReadReturns
    <2>1. /\ who \in Readers /\ got[who] + lost[who] = from
          /\ from + count <= write
      BY <1>9 DEF ReadReturns, Accounts, Place, Copying, Readers
    <2>4. /\ who' = "none" /\ lost' = lost /\ write' = write
          /\ run' = run /\ seenRun' = seenRun
          /\ cursor'[who] = from + count /\ got'[who] = got[who] + count
          /\ \A q \in Readers : q # who => cursor'[q] = cursor[q] /\ got'[q] = got[q]
      BY <1>9, <2>1 DEF ReadReturns
    <2>5. got'[who] + lost'[who] = from + count
      <3>1. got[who] \in Nat /\ lost[who] \in Nat /\ count \in Nat /\ from \in Nat
        BY <2>1
      <3>2. got'[who] = got[who] + count /\ lost'[who] = lost[who]
        BY <2>4
      <3> HIDE DEF RingTypeOK
      <3> QED BY <2>1, <3>1, <3>2
    <2>2. ASSUME NEW q \in Readers PROVE got'[q] + lost'[q] <= MaxStream
      <3>1. CASE q = who
        BY <2>1, <2>5, <3>1
      <3>2. CASE q # who
        BY <2>4, <3>2 DEF Accounts
      <3> QED BY <3>1, <3>2
    <2>3. ASSUME NEW q \in Readers, q = "session" => seenRun' = run'
          PROVE  cursor'[q] <= write' /\ got'[q] + lost'[q] = Place(q)'
      <3>3. Place(q)' = cursor'[q]
        BY <2>4 DEF Place, Readers
      <3>1. CASE q = who
        BY <2>1, <2>4, <2>5, <3>1, <3>3
      <3>2. CASE q # who
        <4>1. Place(q) = cursor[q]
          BY <3>2 DEF Place
        <4>2. cursor[q] <= write /\ got[q] + lost[q] = Place(q)
          BY <2>3, <2>4 DEF Accounts
        <4> QED BY <2>4, <3>2, <3>3, <4>1, <4>2
      <3> QED BY <3>1, <3>2
    <2> QED BY <2>2, <2>3 DEF Accounts
  <1>10. CASE Rest
    BY <1>10 DEF Writing, Copying, Accounts, Place, Rest
  <1> HIDE DEF RingTypeOK, ringVars, writer, reader
  <1> QED
    BY <1>1, <1>2, <1>3, <1>4, <1>5, <1>6, <1>7, <1>8, <1>9, <1>10
    DEF RingNext, Write, Read

(* The writer counts what it overwrites before the app can miss it. *)
LEMMA OverwrittenStep == ASSUME RingInv, [RingNext]_ringVars PROVE Overwritten'
  <1> SUFFICES ASSUME RingTypeOK, Writing, Copying, Overwritten PROVE Overwritten'
    BY DEF RingInv
  <1> USE RingAssumption DEF RingTypeOK, ringVars, writer, reader
  <1>1. CASE UNCHANGED ringVars
    BY <1>1 DEF Writing, Copying, Overwritten, Place, Readers
  <1>2. ASSUME NEW k \in 1..MaxStream, WriteCall(k) PROVE Overwritten'
    BY <1>2 DEF Writing, Copying, Overwritten, Place, Readers, WriteCall,
       WriterIdle
  <1>3. CASE WriteCell
    <2>1. "app" \in Readers /\ Place("app") \in Nat /\ cursor["app"] \in Nat
      BY DEF Place, Readers
    <2>2. cursor["app"] <= Place("app")
      BY <2>1 DEF Place, Copying
    <2>3. Place("app")' = Place("app") /\ lost' = lost /\ pos' = pos + 1
      BY <1>3 DEF WriteCell, Place
    <2>4. dropped' = IF pos - cursor["app"] >= Bytes THEN dropped + 1 ELSE dropped
      BY <1>3 DEF WriteCell
    <2>5. lost["app"] \in Nat /\ pos \in Nat /\ dropped \in Nat
      BY <2>1
    <2>6. /\ lost["app"] <= dropped
          /\ pos - Bytes - Place("app") <= dropped - lost["app"]
      BY DEF Overwritten
    <2>7. /\ lost["app"] <= dropped'
          /\ pos + 1 - Bytes - Place("app") <= dropped' - lost["app"]
      <3>1. CASE pos - cursor["app"] >= Bytes
        <4>1. dropped' = dropped + 1
          BY <2>4, <3>1
        <4> HIDE DEF RingTypeOK
        <4>2. lost["app"] <= dropped + 1
          BY <2>5, <2>6
        <4>3. pos + 1 - Bytes - Place("app") <= dropped + 1 - lost["app"]
          BY <2>1, <2>5, <2>6
        <4> QED BY <2>1, <2>5, <4>1, <4>2, <4>3
      <3>2. CASE ~(pos - cursor["app"] >= Bytes)
        <4>1. dropped' = dropped
          BY <2>4, <3>2
        <4>2. pos + 1 - Bytes - Place("app") <= 0
          BY <2>1, <2>2, <2>5, <3>2
        <4> HIDE DEF RingTypeOK
        <4>3. 0 <= dropped - lost["app"]
          BY <2>5, <2>6
        <4>4. pos + 1 - Bytes - Place("app") <= dropped - lost["app"]
          BY <2>1, <2>5, <4>2, <4>3
        <4> QED BY <2>6, <4>1, <4>4
      <3> QED BY <3>1, <3>2
    <2>8. /\ lost'["app"] <= dropped'
          /\ pos' - Bytes - Place("app")' <= dropped' - lost'["app"]
      <3> HIDE DEF RingTypeOK
      <3>1. lost'["app"] = lost["app"]
        BY <2>3
      <3>2. pos' - Bytes - Place("app")' = pos + 1 - Bytes - Place("app")
        BY <2>1, <2>3, <2>5
      <3> QED BY <2>7, <3>1, <3>2
    <2> QED BY <2>8 DEF Overwritten
  <1>4. CASE WritePublish
    BY <1>4 DEF Writing, Copying, Overwritten, Place, Readers, WritePublish
  <1>5. CASE StartRun
    BY <1>5 DEF Writing, Copying, Overwritten, Place, Readers, StartRun,
       WriterIdle
  <1>6. CASE SessionSeesRun
    BY <1>6 DEF Writing, Copying, Overwritten, Place, Readers, SessionSeesRun
  <1>7. ASSUME NEW r \in Readers, ReadCall(r) PROVE Overwritten'
    <2>1. /\ First(r) \in Nat /\ cursor[r] <= First(r) /\ First(r) <= write
          /\ LostBytes(r) = First(r) - cursor[r] /\ write - Bytes <= First(r)
          /\ LostBytes(r) > 0 => First(r) = write - Bytes
          /\ got[r] + lost[r] = cursor[r]
      BY <1>7, ReadCallFact
    <2>2. CASE r = "app"
      <3>1. /\ Place("app")' = First("app") /\ Place("app") = cursor["app"]
            /\ lost'["app"] = lost["app"] + LostBytes("app")
            /\ dropped' = dropped /\ pos' = pos
        BY <1>7, <2>2 DEF ReadCall, Place, Readers
      <3>2. /\ lost["app"] <= dropped /\ write <= pos
            /\ pos - Bytes - cursor["app"] <= dropped - lost["app"]
        BY <3>1 DEF Overwritten, Writing
      <3>3. /\ lost["app"] \in Nat /\ cursor["app"] \in Nat
            /\ pos \in Nat /\ write \in Nat /\ dropped \in Nat
        BY DEF Readers
      <3>4. LostBytes("app") <= dropped - lost["app"]
        <4> HIDE DEF RingTypeOK
        <4>1. /\ First("app") \in Nat /\ LostBytes("app") = First("app") - cursor["app"]
              /\ LostBytes("app") > 0 => First("app") = write - Bytes
          BY <2>1, <2>2
        <4>2. CASE LostBytes("app") > 0
          BY <3>2, <3>3, <4>1, <4>2
        <4>3. CASE ~(LostBytes("app") > 0)
          BY <3>2, <3>3, <4>1, <4>3
        <4> QED BY <4>2, <4>3
      <3>5. /\ lost'["app"] <= dropped'
            /\ pos' - Bytes - Place("app")' <= dropped' - lost'["app"]
        <4> HIDE DEF RingTypeOK
        <4>1. /\ First("app") \in Nat /\ LostBytes("app") = First("app") - cursor["app"]
          BY <2>1, <2>2
        <4>2. pos - Bytes - First("app") <= dropped - (lost["app"] + LostBytes("app"))
          BY <3>2, <3>3, <4>1
        <4>3. lost["app"] + LostBytes("app") <= dropped
          BY <3>3, <3>4, <4>1
        <4> QED BY <3>1, <4>2, <4>3
      <3> QED BY <3>5 DEF Overwritten
    <2>3. CASE r # "app"
      BY <1>7, <2>3 DEF ReadCall, Overwritten, Place, Readers
    <2> QED BY <2>2, <2>3
  <1>8. CASE ReadCell
    BY <1>8 DEF Writing, Copying, Overwritten, Place, Readers, ReadCell
  <1>9. CASE ReadReturns
    <2>1. /\ lost' = lost /\ pos' = pos /\ dropped' = dropped /\ who \in Readers
          /\ Place("app")' = IF who = "app" THEN from + count ELSE cursor["app"]
          /\ Place("app") = IF who = "app" THEN from ELSE cursor["app"]
      BY <1>9 DEF Place, Readers, ReadReturns
    <2>2. /\ from \in Nat /\ count \in Nat /\ pos \in Nat /\ dropped \in Nat
          /\ cursor["app"] \in Nat /\ lost["app"] \in Nat
      BY DEF Readers
    <2> HIDE DEF RingTypeOK
    <2>3. lost["app"] <= dropped /\ pos - Bytes - Place("app") <= dropped - lost["app"]
      BY DEF Overwritten
    <2>4. Place("app") \in Nat /\ Place("app")' \in Nat /\ Place("app") <= Place("app")'
      BY <2>1, <2>2
    <2>5. pos - Bytes - Place("app")' <= dropped - lost["app"]
      BY <2>2, <2>3, <2>4
    <2>6. /\ lost'["app"] <= dropped'
          /\ pos' - Bytes - Place("app")' <= dropped' - lost'["app"]
      BY <2>1, <2>3, <2>5
    <2> QED BY <2>6 DEF Overwritten
  <1>10. CASE Rest
    BY <1>10 DEF Writing, Copying, Overwritten, Place, Readers, Rest
  <1> HIDE DEF RingTypeOK, ringVars, writer, reader
  <1> QED
    BY <1>1, <1>2, <1>3, <1>4, <1>5, <1>6, <1>7, <1>8, <1>9, <1>10
    DEF RingNext, Write, Read

(* A cell of the window is copied as it was written. *)
LEMMA CopyStep == ASSUME RingInv, [RingNext]_ringVars PROVE CopyExact'
  <1> SUFFICES ASSUME RingTypeOK, Writing, Window, Copying, CopyExact PROVE CopyExact'
    BY DEF RingInv
  <1> USE RingAssumption DEF RingTypeOK, ringVars, writer, reader
  <1>1. CASE UNCHANGED ringVars
    BY <1>1 DEF Writing, CopyExact
  <1>2. ASSUME NEW k \in 1..MaxStream, WriteCall(k) PROVE CopyExact'
    BY <1>2 DEF Writing, CopyExact, WriteCall, WriterIdle
  <1>3. CASE WriteCell
    BY <1>3 DEF Writing, CopyExact, WriteCell
  <1>4. CASE WritePublish
    BY <1>4 DEF Writing, CopyExact, WritePublish
  <1>5. CASE StartRun
    BY <1>5 DEF Writing, CopyExact, StartRun, WriterIdle
  <1>6. CASE SessionSeesRun
    BY <1>6 DEF Writing, CopyExact, SessionSeesRun
  <1>7. ASSUME NEW r \in Readers, ReadCall(r) PROVE CopyExact'
    BY <1>7 DEF Writing, CopyExact, ReadCall
  <1>8. CASE ReadCell
    <2> SUFFICES ASSUME pos <= from + Bytes PROVE torn' = 0
      BY <1>8 DEF ReadCell, CopyExact
    <2>1. torn = 0
      BY <1>8 DEF ReadCell, CopyExact
    <2>2. from + copied \in Nat /\ from + copied < pos /\ pos <= (from + copied) + Bytes
      BY <1>8 DEF ReadCell, Copying, Writing
    <2>3. cells[(from + copied) % Bytes] = from + copied
      BY <2>2 DEF Window
    <2> QED BY <1>8, <2>1, <2>3 DEF ReadCell
  <1>9. CASE ReadReturns
    BY <1>9 DEF Writing, CopyExact, ReadReturns
  <1>10. CASE Rest
    BY <1>10 DEF Writing, CopyExact, Rest
  <1> HIDE DEF RingTypeOK, ringVars, writer, reader
  <1> QED
    BY <1>1, <1>2, <1>3, <1>4, <1>5, <1>6, <1>7, <1>8, <1>9, <1>10
    DEF RingNext, Write, Read

-----------------------------------------------------------------------------
(* Every step preserves the invariant. *)
LEMMA RingStep == RingInv /\ [RingNext]_ringVars => RingInv'
  BY RingTypeStep, WritingStep, WindowStep, CopyingStep, AccountsStep, OverwrittenStep, CopyStep
  DEF RingInv

LEMMA RingInvariance == RingSpec => []RingInv
  BY InitRingInv, RingStep, PTL DEF RingSpec

(* Output is delivered or reported lost: a reader's bytes add up to its     *)
(* place in the stream, and output_dropped covers what the app skipped.     *)
THEOREM OutputNeverSilent == RingSpec => [](RingTypeOK /\ NothingSilent)
  <1>1. RingInv => RingTypeOK /\ NothingSilent
    BY DEF RingInv, Accounts, Overwritten, Place, NothingSilent
  <1> QED BY <1>1, RingInvariance, PTL

(* A reader whose first byte the writer has not passed by a ring copies     *)
(* exactly the bytes it counted, whatever the cells held before.            *)
THEOREM CopiesAreExact == RingSpec => []CopyExact
  <1>1. RingInv => CopyExact
    BY DEF RingInv
  <1> QED BY <1>1, RingInvariance, PTL
=============================================================================
