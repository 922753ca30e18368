------------------------ MODULE Core1ExecutorProofs ------------------------
(***************************************************************************)
(* The mailbox of core1_executor.c for every ticket width, any number of   *)
(* features and of submissions: completion answers are right, and the      *)
(* mailbox implements the one-job slot of JobSlot.                         *)
(***************************************************************************)
EXTENDS Core1Executor, TLAPS

(* Which steps of the two cores can coincide. *)
HandOff ==
    /\ online = 1 <=> pc1 \notin {"off", "boot"}
    /\ online = 0 => requestTicket = completeTicket
    /\ started = 0 => pc1 = "off" /\ pc0 # "wait"
    /\ pc0 \in {"gate", "store", "publish"} => online = 1
    /\ pc0 \in {"store", "publish"} => requestTicket = completeTicket
    /\ pc0 # "free" => caller \in Clients /\ arg \in Jobs
    /\ pc0 = "publish" => job = arg
    /\ pc1 \in {"fetch", "run", "ret"} =>
           requestTicket # completeTicket /\ ticket1 = requestTicket
    /\ requestTicket # completeTicket => job \in Jobs
    /\ pc1 \in {"run", "ret"} => job1 = job

(* The counters of the history and the tickets of the control block. *)
Counting ==
    /\ requestTicket # completeTicket =>
           requestTicket = NextTicket(completeTicket) /\ issued >= 1
    /\ completeTicket = 0 => Completed = 0
    /\ returned = IF pc1 = "ret" THEN issued ELSE Completed

(* A held ticket is Age submissions behind the request counter, counted over *)
(* the cycle 1 .. TicketMax.                                                 *)
Distance ==
    \A c \in Clients : held[c] # 0 =>
        /\ 1 <= seq[c] /\ seq[c] <= issued
        /\ Age(c) + 1 < Half =>
               \/ requestTicket = held[c] + Age(c)
               \/ requestTicket = held[c] + Age(c) - TicketMax

IInv == TypeOK /\ HandOff /\ StartLatched /\ Counting /\ Distance

-----------------------------------------------------------------------------
(* NextTicket: never 0, never the same ticket, and a ticket. *)
LEMMA NextTicketFact ==
    ASSUME NEW t \in Tickets
    PROVE  NextTicket(t) \in Tickets /\ NextTicket(t) # 0 /\ NextTicket(t) # t
  BY TicketMaxAssumption DEF NextTicket, Tickets

(* The zeroed control block satisfies the invariant. *)
LEMMA InitIInv == Init => IInv
  <1> SUFFICES ASSUME Init PROVE IInv
    OBVIOUS
  <1> USE DEF Init
  <1>1. TypeOK
    BY TicketMaxAssumption DEF TypeOK, Tickets, Flag
  <1>2. HandOff /\ StartLatched
    BY DEF HandOff, StartLatched
  <1>3. Counting
    BY DEF Counting, Completed
  <1>4. Distance
    BY DEF Distance
  <1> QED
    BY <1>1, <1>2, <1>3, <1>4 DEF IInv

(* Every step keeps the types; tickets stay within their width. *)
LEMMA TypeStep == ASSUME TypeOK, HandOff, [Next]_vars PROVE TypeOK'
  <1> USE DEF TypeOK, Flag, vars, control, core0, core1, history
  <1>1. CASE UNCHANGED vars
    BY <1>1
  <1>2. CASE Core1Next
    BY <1>2 DEF Core1Next, LoopOnline, LoopIdle, LoopTake, LoopFetch, JobReturns, LoopComplete
  <1>3. ASSUME NEW c \in Clients, NEW j \in Jobs, SubmitCall(c, j) PROVE TypeOK'
    BY <1>3 DEF SubmitCall
  <1>4. CASE InitOnline \/ InitRefused \/ InitStart \/ InitStartFails
             \/ InitWaited \/ InitTimeout \/ InitReturn \/ SubmitGate \/ SubmitStore
    BY <1>4 DEF InitOnline, InitRefused, InitStart, InitStartFails, InitWaited,
                InitTimeout, InitReturn, SubmitGate, SubmitStore, Refuse
  <1>5. CASE SubmitPublish
    <2>1. caller \in Clients
      BY <1>5 DEF SubmitPublish, HandOff
    <2> QED
      BY <1>5, <2>1, NextTicketFact DEF SubmitPublish
  <1>6. ASSUME NEW c \in Clients, PollComplete(c) \/ DropTicket(c) PROVE TypeOK'
    BY <1>6, TicketMaxAssumption DEF PollComplete, DropTicket, Tickets
  <1> QED
    BY <1>1, <1>2, <1>3, <1>4, <1>5, <1>6 DEF Next, Core0Next

(* The two cores never use the job and ticket fields at the same time. *)
LEMMA HandOffStep ==
    ASSUME TypeOK, HandOff, StartLatched, [Next]_vars PROVE HandOff' /\ StartLatched'
  <1> USE DEF TypeOK, Flag, HandOff, StartLatched, vars, control, core0, core1, history
  <1>1. CASE UNCHANGED vars
    BY <1>1
  <1>2. CASE LoopOnline
    BY <1>2 DEF LoopOnline
  <1>3. CASE LoopIdle
    BY <1>3 DEF LoopIdle
  <1>4. CASE LoopTake
    BY <1>4 DEF LoopTake
  <1>5. CASE LoopFetch
    BY <1>5 DEF LoopFetch
  <1>6. CASE JobReturns
    BY <1>6 DEF JobReturns
  <1>7. CASE LoopComplete
    BY <1>7 DEF LoopComplete
  <1>8. ASSUME NEW c \in Clients, NEW j \in Jobs, SubmitCall(c, j)
        PROVE  HandOff' /\ StartLatched'
    BY <1>8 DEF SubmitCall
  <1>9. CASE InitOnline \/ InitRefused
    BY <1>9 DEF InitOnline, InitRefused, Refuse
  <1>10. CASE InitStart
    BY <1>10 DEF InitStart
  <1>11. CASE InitStartFails
    BY <1>11 DEF InitStartFails, Refuse
  <1>12. CASE InitWaited \/ InitTimeout
    BY <1>12 DEF InitWaited, InitTimeout
  <1>13. CASE InitReturn
    BY <1>13 DEF InitReturn, Refuse
  <1>14. CASE SubmitGate
    BY <1>14 DEF SubmitGate, Idle, Refuse
  <1>15. CASE SubmitStore
    BY <1>15 DEF SubmitStore
  <1>16. CASE SubmitPublish
    BY <1>16, NextTicketFact DEF SubmitPublish
  <1>17. ASSUME NEW c \in Clients, PollComplete(c) \/ DropTicket(c)
         PROVE  HandOff' /\ StartLatched'
    BY <1>17 DEF PollComplete, DropTicket
  <1> QED
    BY <1>1, <1>2, <1>3, <1>4, <1>5, <1>6, <1>7, <1>8, <1>9, <1>10, <1>11,
       <1>12, <1>13, <1>14, <1>15, <1>16, <1>17 DEF Next, Core0Next, Core1Next

(* The tickets of the control block follow the submissions and completions. *)
LEMMA CountingStep ==
    ASSUME TypeOK, HandOff, Counting, [Next]_vars PROVE Counting'
  <1> USE DEF TypeOK, HandOff, Counting, Completed, vars, control, core0, core1, history
  <1>1. CASE UNCHANGED vars
    BY <1>1
  <1>2. CASE LoopOnline \/ LoopIdle \/ LoopTake \/ LoopFetch
    BY <1>2 DEF LoopOnline, LoopIdle, LoopTake, LoopFetch
  <1>3. CASE JobReturns
    BY <1>3 DEF JobReturns
  <1>4. CASE LoopComplete
    BY <1>4, NextTicketFact DEF LoopComplete
  <1>5. ASSUME NEW c \in Clients, NEW j \in Jobs, SubmitCall(c, j) PROVE Counting'
    BY <1>5 DEF SubmitCall
  <1>6. CASE InitOnline \/ InitRefused \/ InitStartFails
             \/ InitWaited \/ InitTimeout \/ InitReturn \/ SubmitGate \/ SubmitStore
    BY <1>6 DEF InitOnline, InitRefused, InitStartFails, InitWaited,
                InitTimeout, InitReturn, SubmitGate, SubmitStore, Refuse
  <1>7. CASE InitStart
    BY <1>7 DEF InitStart
  <1>8. CASE SubmitPublish
    BY <1>8, NextTicketFact DEF SubmitPublish
  <1>9. ASSUME NEW c \in Clients, PollComplete(c) \/ DropTicket(c) PROVE Counting'
    BY <1>9 DEF PollComplete, DropTicket
  <1> QED
    BY <1>1, <1>2, <1>3, <1>4, <1>5, <1>6, <1>7, <1>8, <1>9
    DEF Next, Core0Next, Core1Next

(* Only a new submission moves the request counter away from a held ticket. *)
LEMMA DistanceStep ==
    ASSUME TypeOK, HandOff, Counting, Distance, [Next]_vars PROVE Distance'
  <1> USE DEF Distance, Age
  <1>1. CASE UNCHANGED <<requestTicket, held, issued, seq>>
    BY <1>1
  <1>2. CASE SubmitPublish
    <2> SUFFICES ASSUME NEW c \in Clients, held'[c] # 0
                 PROVE  /\ 1 <= seq'[c] /\ seq'[c] <= issued'
                        /\ Age(c)' + 1 < Half =>
                              \/ requestTicket' = held'[c] + Age(c)'
                              \/ requestTicket' = held'[c] + Age(c)' - TicketMax
      OBVIOUS
    <2>1. CASE c = caller
      BY <1>2, <2>1, NextTicketFact, TicketMaxAssumption
      DEF SubmitPublish, TypeOK, Tickets
    <2>2. CASE c # caller
      BY <1>2, <2>2, TicketMaxAssumption
      DEF SubmitPublish, TypeOK, NextTicket, Half, Tickets
    <2> QED
      BY <2>1, <2>2
  <1>3. ASSUME NEW c \in Clients, PollComplete(c) \/ DropTicket(c) PROVE Distance'
    BY <1>3 DEF PollComplete, DropTicket, TypeOK, history, control
  <1>4. UNCHANGED <<requestTicket, held, issued, seq>> \/ SubmitPublish
        \/ \E c \in Clients : PollComplete(c) \/ DropTicket(c)
    BY DEF Next, Core0Next, Core1Next, SubmitCall, InitOnline, InitRefused, InitStart,
           InitStartFails, InitWaited, InitTimeout, InitReturn, SubmitGate, SubmitStore,
           LoopOnline, LoopIdle, LoopTake, LoopFetch, JobReturns, LoopComplete,
           Refuse, vars, control, core0, core1, history
  <1> QED
    BY <1>1, <1>2, <1>3, <1>4

(* The signed comparison answers right while the distance is below half. *)
LEMMA IInvSound == IInv => CompletionSound
  <1> SUFFICES ASSUME IInv, NEW c \in Clients, held[c] # 0, Age(c) + 1 < Half
               PROVE  /\ Complete(held[c]) => seq[c] <= returned
                      /\ seq[c] <= Completed => Complete(held[c])
    BY DEF CompletionSound
  <1> USE TicketMaxAssumption
      DEF IInv, TypeOK, HandOff, Counting, Distance, Completed, Age, Complete,
          Reached, NextTicket, Half, Tickets
  <1>1. CASE requestTicket = completeTicket
    BY <1>1
  <1>2. CASE requestTicket # completeTicket /\ seq[c] = issued
    BY <1>2
  <1>3. CASE requestTicket # completeTicket /\ seq[c] # issued
    BY <1>3
  <1> QED
    BY <1>1, <1>2, <1>3

(* The whole inductive invariant holds in every behaviour of the mailbox. *)
THEOREM Invariance == Spec => []IInv
  <1>1. Init => IInv
    BY InitIInv
  <1>2. IInv /\ [Next]_vars => IInv'
    BY TypeStep, HandOffStep, CountingStep, DistanceStep DEF IInv
  <1> QED
    BY <1>1, <1>2, PTL DEF Spec

(* core1_executor_complete answers correctly within half the ticket range,  *)
(* at every ticket width, and a missed start is latched.                    *)
THEOREM CompletionIsSound == Spec => [](TypeOK /\ CompletionSound /\ StartLatched)
  <1>1. IInv => TypeOK /\ CompletionSound /\ StartLatched
    BY IInvSound DEF IInv
  <1> QED
    BY <1>1, Invariance, PTL

-----------------------------------------------------------------------------
(* Every step of the mailbox is a step of the one-job slot, or leaves it as it *)
(* is: the job is stored while the slot is empty, begun when core 1 fetches it *)
(* and ended by the completion store.                                          *)
LEMMA SlotStep ==
    ASSUME IInv, IInv', [Next]_vars PROVE [Slot!SlotNext]_(Slot!slotVars)
  <1> USE NullAssumption DEF IInv, TypeOK, HandOff, Counting, Completed, Slot!slotVars
  <1>1. CASE SubmitPublish
    <2>1. Slot!SlotSubmit(job)
      BY <1>1, NextTicketFact DEF SubmitPublish, Slot!SlotSubmit, Slot!SlotIdle, core1
    <2> QED
      BY <1>1, <2>1 DEF SubmitPublish, Slot!SlotNext
  <1>2. CASE LoopFetch
    <2>1. Slot!SlotBegin
      BY <1>2 DEF LoopFetch, Slot!SlotBegin, control, core0, history
    <2> QED
      BY <2>1 DEF Slot!SlotNext
  <1>3. CASE LoopComplete
    <2>1. Slot!SlotEnd
      BY <1>3 DEF LoopComplete, Slot!SlotEnd, core0, history
    <2> QED
      BY <2>1 DEF Slot!SlotNext
  <1>4. CASE SubmitStore
    BY <1>4 DEF SubmitStore, core1, history
  <1>5. CASE LoopOnline
    BY <1>5 DEF LoopOnline, core0, history
  <1>6. CASE LoopTake \/ LoopIdle \/ JobReturns
    BY <1>6 DEF LoopTake, LoopIdle, JobReturns, vars, control, core0, core1, history
  <1>7. CASE InitStart
    BY <1>7 DEF InitStart, history
  <1>8. CASE UNCHANGED <<requestTicket, completeTicket, job, pc1, job1, issued>>
    BY <1>8
  <1>9. UNCHANGED <<requestTicket, completeTicket, job, pc1, job1, issued>>
        \/ SubmitPublish \/ SubmitStore \/ InitStart \/ LoopOnline \/ LoopTake
        \/ LoopIdle \/ LoopFetch \/ JobReturns \/ LoopComplete
    BY DEF Next, Core0Next, Core1Next, SubmitCall, InitOnline, InitRefused,
           InitStartFails, InitWaited, InitTimeout, InitReturn, SubmitGate,
           PollComplete, DropTicket, Refuse, vars, control, core0, core1, history
  <1> QED
    BY <1>1, <1>2, <1>3, <1>4, <1>5, <1>6, <1>7, <1>8, <1>9

(* The mailbox of core1_executor.c implements the one-job slot. *)
THEOREM MailboxImplementsSlot == Spec => ImplementsSlot
  <1>1. Init => Slot!SlotInit
    BY DEF Init, Slot!SlotInit, Completed
  <1> QED
    BY <1>1, SlotStep, Invariance, PTL DEF Spec, ImplementsSlot, Slot!SlotSpec
=============================================================================
