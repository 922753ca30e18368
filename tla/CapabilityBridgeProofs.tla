----------------------- MODULE CapabilityBridgeProofs -----------------------
(***************************************************************************)
(* The call mailbox of the script bridge, for any ticket width, any number *)
(* of runs and calls and any size of the overlay's stage: the slot has one *)
(* user at a time, a failed drawing call leaves no trace, and cleanup      *)
(* leaves nothing leased.                                                  *)
(***************************************************************************)
EXTENDS CapabilityBridge, TLAPS

(* Core 0 has a request in hand. *)
Serving == pc0 # "main" \/ extActive = 1

(* Core 1 is inside a call whose answer is not stored. *)
Open == pc1 \in {"fill", "wait", "cancelled"} /\ pc0 # "signal" /\ complete # ticket1

(* How the tickets in the slot follow the place of core 1 in a call, and     *)
(* which request core 0 has in hand.                                         *)
Tickets1 ==
    /\ pc1 = "off" <=> runActive = 0
    /\ pc1 \in {"off", "script", "read", "ended"} => request = complete
    /\ pc1 = "fill" => request = complete /\ ticket1 = NextTicket(request)
    /\ pc1 \in {"wait", "cancelled", "read"} => request = ticket1
    /\ pc1 \in {"fill", "wait", "cancelled", "read"} => ticket1 # 0 /\ calls >= 1
    /\ pc1 # "off" => runs >= 1
    /\ extActive = 1 => pc0 \in {"main", "progress"}
    /\ Serving => /\ pc1 \in {"wait", "cancelled"}
                  /\ ticket0 = ticket1 /\ complete # ticket1

(* Where the answer to the call is. *)
Answer ==
    /\ result0 # "BUSY"
    /\ pc0 = "signal" => servedTicket = ticket0 /\ result # "BUSY"
    /\ pc1 \in {"wait", "cancelled", "read"} /\ complete = ticket1 =>
           servedTicket = ticket1 /\ result # "BUSY"
    /\ Open => cancelAck = 0

(* The frame a rollback would restore. *)
Restored ==
    [i \in 1 .. checkpoint |->
        IF i = 1 /\ rollbackFirst # NoCommand THEN rollbackFirst ELSE commands[i]]

(* The staged frame against the one of the moment the call was posted: equal *)
(* until the call is executed, restorable until it is decided, and equal     *)
(* again when the call has failed.                                           *)
Transaction ==
    /\ checkpoint >= 0 => pc0 = "final"
    /\ \A i \in 1 .. MaxCommands :
           i <= count \/ i <= checkpoint => commands[i] # NoCommand
    /\ Open /\ pc0 \in {"main", "exec", "progress"} => Frame = frameBefore
    /\ pc0 = "final" => IF checkpoint >= 0 THEN Restored = frameBefore
                                           ELSE Frame = frameBefore
    /\ pc0 = "storeAck" \/ (pc0 = "store" /\ result0 # "OK") => Frame = frameBefore
    /\ pc0 = "signal" /\ (cancelAck = ticket0 \/ result # "OK") => Frame = frameBefore

(* What is suspended for the script is owned by it. *)
Leases ==
    /\ extSuspended = 1 => extOwned = 1
    /\ lightSuspended = 1 => lightOwned = 1

IInv ==
    /\ TypeOK /\ Tickets1 /\ Answer /\ Transaction /\ Leases
    /\ FailedCallRolledBack /\ LeasesReturned

-----------------------------------------------------------------------------
(* NextTicket: a ticket, never 0, never the same. *)
LEMMA NextTicketFact ==
    ASSUME NEW t \in Tickets
    PROVE  NextTicket(t) \in Tickets /\ NextTicket(t) # 0 /\ NextTicket(t) # t
  BY TicketAssumption DEF NextTicket, Tickets

(* A call that is under way has a number that is a drawing command. *)
LEMMA CallIdFact ==
    ASSUME TypeOK, runs >= 1, calls >= 1
    PROVE  CallId \in Command /\ CallId # NoCommand
  <1>1. runs \in Nat /\ calls \in Nat /\ runs <= MaxRuns /\ calls <= MaxCalls
    BY BoundAssumption DEF TypeOK
  <1>2. (runs - 1) * MaxCalls >= 0 /\ (runs - 1) * MaxCalls <= (MaxRuns - 1) * MaxCalls
    BY <1>1, BoundAssumption
  <1>3. (MaxRuns - 1) * MaxCalls + MaxCalls = MaxRuns * MaxCalls
    BY BoundAssumption
  <1>4. (runs - 1) * MaxCalls \in Int /\ MaxRuns * MaxCalls \in Int
    BY <1>1, BoundAssumption
  <1> QED
    BY <1>1, <1>2, <1>3, <1>4, BoundAssumption DEF CallId, Command, Erase, NoCommand

(* The initial state satisfies the invariant. *)
LEMMA InitIInv == Init => IInv
  <1> SUFFICES ASSUME Init PROVE IInv OBVIOUS
  <1> USE DEF Init
  <1>1. TypeOK
    <2>1. Erase \in Nat
      BY BoundAssumption DEF Erase
    <2> QED BY <2>1, TicketAssumption, BoundAssumption
            DEF TypeOK, Tickets, Ops, Results, Command, NoCommand
  <1>2. Tickets1 /\ Answer /\ Transaction /\ Leases
    BY BoundAssumption DEF Tickets1, Answer, Transaction, Leases, Serving, Open
  <1>3. FailedCallRolledBack /\ LeasesReturned
    BY DEF FailedCallRolledBack, LeasesReturned
  <1> QED BY <1>1, <1>2, <1>3 DEF IInv

-----------------------------------------------------------------------------
(* Every step keeps the types. *)
LEMMA TypeStep == ASSUME IInv, [Next]_vars PROVE TypeOK'
  <1> USE DEF IInv, TypeOK, Ops, Results, vars, control, core0, external, lights,
              stage, core1, history, Finish, Executing, ClaimExternal
  <1>t. 0 \in Tickets /\ \A t \in Tickets : NextTicket(t) \in Tickets
    <2> HIDE DEF IInv, TypeOK
    <2>1. 0 \in Tickets
      BY TicketAssumption DEF Tickets
    <2> QED BY <2>1, NextTicketFact
  <1>c. NoCommand \in Command /\ Erase \in Command
    BY BoundAssumption DEF NoCommand, Command, Erase
  <1>1. CASE UNCHANGED vars
    BY <1>1
  <1>2. CASE CallPost
    BY <1>2 DEF CallPost
  <1>3. CASE CallCancel
    BY <1>3 DEF CallCancel
  <1>4. CASE CallCancelReturn
    BY <1>4 DEF CallCancelReturn
  <1>5. CASE CallCompleted
    BY <1>5 DEF CallCompleted
  <1>6. CASE CallReturn
    BY <1>6 DEF CallReturn
  <1>7. CASE ScriptEnds
    BY <1>7 DEF ScriptEnds
  <1>8. CASE TickIdle
    BY <1>8 DEF TickIdle
  <1>9. CASE TickRefuse
    BY <1>9 DEF TickRefuse, TickReady
  <1>10. CASE TickAccept
    BY <1>10 DEF TickAccept, TickReady
  <1>11. CASE ExecCancelled
    BY <1>11 DEF ExecCancelled
  <1>12. CASE ExecButtons
    BY <1>12 DEF ExecButtons
  <1>13. CASE ExecClear
    BY <1>13, <1>c, BoundAssumption DEF ExecClear
  <1>14. CASE ExecPresent
    BY <1>14, <1>c DEF ExecPresent
  <1>15. CASE ExecLed
    BY <1>15 DEF ExecLed
  <1>16. CASE ExecUartRead
    BY <1>16 DEF ExecUartRead
  <1>17. CASE ExecFinal
    <2>1. commands' \in [1 .. MaxCommands -> Command] /\ count' \in 0 .. MaxCommands
      BY <1>17 DEF ExecFinal
    <2>2. result0' \in Results /\ pc0' \in {"store", "storeAck"} /\ checkpoint' = -1
      BY <1>17 DEF ExecFinal
    <2> QED BY <1>17, <2>1, <2>2, BoundAssumption DEF ExecFinal
  <1>18. CASE ExternalRefused
    BY <1>18 DEF ExternalRefused
  <1>19. CASE ExternalBegin
    BY <1>19 DEF ExternalBegin
  <1>20. CASE TickExternal
    BY <1>20 DEF TickExternal
  <1>21. CASE ExternalPending
    BY <1>21 DEF ExternalPending
  <1>22. CASE ExternalDone
    BY <1>22 DEF ExternalDone
  <1>23. CASE StoreResult
    BY <1>23 DEF StoreResult
  <1>24. CASE StoreComplete
    BY <1>24 DEF StoreComplete
  <1>25. CASE Prepare
    BY <1>25, <1>t, BoundAssumption DEF Prepare
  <1>26. CASE Cleanup
    <2>1. /\ cancel' \in Tickets /\ cancelAck' \in Tickets /\ complete' \in Tickets
          /\ result' \in Results
      BY <1>26 DEF Cleanup
    <2>2. /\ extSuspended' \in {0, 1} /\ lightSuspended' \in {0, 1}
      BY <1>26 DEF Cleanup
    <2> QED BY <1>26, <2>1, <2>2, BoundAssumption DEF Cleanup
  <1>27. ASSUME NEW o \in Ops, CallBegin(o) PROVE TypeOK'
    BY <1>27, <1>t, BoundAssumption DEF CallBegin
  <1>28. ASSUME NEW o \in Ops, ExecRejected(o) PROVE TypeOK'
    BY <1>28 DEF ExecRejected
  <1>29. ASSUME NEW o \in Ops, NEW k \in {1, 2}, ExecDraw(o, k) PROVE TypeOK'
    BY <1>29, <1>c, CallIdFact, BoundAssumption DEF ExecDraw, Tickets1, Serving
  <1> QED
    BY <1>1, <1>2, <1>3, <1>4, <1>5, <1>6, <1>7, <1>8, <1>9, <1>10, <1>11, <1>12, <1>13, <1>14, <1>15, <1>16, <1>17, <1>18, <1>19, <1>20, <1>21, <1>22, <1>23, <1>24, <1>25, <1>26, <1>27, <1>28, <1>29
    DEF Next, Core1Next, Tick

(* Core 0 and core 1 stay on the same ticket. *)
LEMMA TicketStep == ASSUME IInv, [Next]_vars PROVE Tickets1'
  <1> USE DEF IInv, TypeOK, Tickets1, Serving, vars, control, core0, external, lights,
              stage, core1, history, Finish, Executing, ClaimExternal
  <1>t. NextTicket(request) # 0 /\ NextTicket(request) # request
    BY NextTicketFact
  <1>1. CASE UNCHANGED vars
    BY <1>1
  <1>2. CASE CallPost
    BY <1>2 DEF CallPost
  <1>3. CASE CallCancel
    BY <1>3 DEF CallCancel
  <1>4. CASE CallCancelReturn
    BY <1>4 DEF CallCancelReturn
  <1>5. CASE CallCompleted
    BY <1>5 DEF CallCompleted
  <1>6. CASE CallReturn
    BY <1>6 DEF CallReturn
  <1>7. CASE ScriptEnds
    BY <1>7 DEF ScriptEnds
  <1>8. CASE TickIdle
    BY <1>8 DEF TickIdle
  <1>9. CASE TickRefuse
    BY <1>9 DEF TickRefuse, TickReady
  <1>10. CASE TickAccept
    BY <1>10 DEF TickAccept, TickReady
  <1>11. CASE ExecCancelled
    BY <1>11 DEF ExecCancelled
  <1>12. CASE ExecButtons
    BY <1>12 DEF ExecButtons
  <1>13. CASE ExecClear
    BY <1>13 DEF ExecClear
  <1>14. CASE ExecPresent
    BY <1>14 DEF ExecPresent
  <1>15. CASE ExecLed
    BY <1>15 DEF ExecLed
  <1>16. CASE ExecUartRead
    BY <1>16 DEF ExecUartRead
  <1>17. CASE ExecFinal
    BY <1>17 DEF ExecFinal
  <1>18. CASE ExternalRefused
    BY <1>18 DEF ExternalRefused
  <1>19. CASE ExternalBegin
    BY <1>19 DEF ExternalBegin
  <1>20. CASE TickExternal
    BY <1>20 DEF TickExternal
  <1>21. CASE ExternalPending
    BY <1>21 DEF ExternalPending
  <1>22. CASE ExternalDone
    BY <1>22 DEF ExternalDone
  <1>23. CASE StoreResult
    BY <1>23 DEF StoreResult
  <1>24. CASE StoreComplete
    BY <1>24 DEF StoreComplete
  <1>25. CASE Prepare
    BY <1>25, BoundAssumption DEF Prepare
  <1>26. CASE Cleanup
    BY <1>26 DEF Cleanup, LeasesReturned
  <1>27. ASSUME NEW o \in Ops, CallBegin(o) PROVE Tickets1'
    BY <1>27, <1>t, BoundAssumption DEF CallBegin
  <1>28. ASSUME NEW o \in Ops, ExecRejected(o) PROVE Tickets1'
    BY <1>28 DEF ExecRejected
  <1>29. ASSUME NEW o \in Ops, NEW k \in {1, 2}, ExecDraw(o, k) PROVE Tickets1'
    BY <1>29 DEF ExecDraw
  <1> HIDE DEF IInv, TypeOK, Tickets1, Serving, Finish, Executing, ClaimExternal, control, core0, external, lights, stage, core1, history
  <1> QED
    BY <1>1, <1>2, <1>3, <1>4, <1>5, <1>6, <1>7, <1>8, <1>9, <1>10, <1>11,
       <1>12, <1>13, <1>14, <1>15, <1>16, <1>17, <1>18, <1>19, <1>20, <1>21,
       <1>22, <1>23, <1>24, <1>25, <1>26, <1>27, <1>28, <1>29
    DEF Next, Core1Next, Tick, Ops

(* The answer that core 1 reads is its own. *)
LEMMA AnswerStep == ASSUME IInv, [Next]_vars PROVE Answer'
  <1> USE DEF IInv, TypeOK, Tickets1, Serving, Answer, Open, Results, vars, control, core0, external, lights,
              stage, core1, history, Finish, Executing, ClaimExternal
  <1>t. NextTicket(request) # 0 /\ NextTicket(request) # request
    BY NextTicketFact
  <1>1. CASE UNCHANGED vars
    BY <1>1
  <1>2. CASE CallPost
    BY <1>2, <1>t DEF CallPost
  <1>3. CASE CallCancel
    BY <1>3 DEF CallCancel
  <1>4. CASE CallCancelReturn
    BY <1>4 DEF CallCancelReturn
  <1>5. CASE CallCompleted
    BY <1>5 DEF CallCompleted
  <1>6. CASE CallReturn
    BY <1>6 DEF CallReturn
  <1>7. CASE ScriptEnds
    BY <1>7 DEF ScriptEnds
  <1>8. CASE TickIdle
    BY <1>8 DEF TickIdle
  <1>9. CASE TickRefuse
    BY <1>9 DEF TickRefuse, TickReady
  <1>10. CASE TickAccept
    BY <1>10 DEF TickAccept, TickReady
  <1>11. CASE ExecCancelled
    BY <1>11 DEF ExecCancelled
  <1>12. CASE ExecButtons
    BY <1>12 DEF ExecButtons
  <1>13. CASE ExecClear
    BY <1>13 DEF ExecClear
  <1>14. CASE ExecPresent
    BY <1>14 DEF ExecPresent
  <1>15. CASE ExecLed
    BY <1>15 DEF ExecLed
  <1>16. CASE ExecUartRead
    BY <1>16 DEF ExecUartRead
  <1>17. CASE ExecFinal
    BY <1>17 DEF ExecFinal
  <1>18. CASE ExternalRefused
    BY <1>18 DEF ExternalRefused
  <1>19. CASE ExternalBegin
    BY <1>19 DEF ExternalBegin
  <1>20. CASE TickExternal
    BY <1>20 DEF TickExternal
  <1>21. CASE ExternalPending
    BY <1>21 DEF ExternalPending
  <1>22. CASE ExternalDone
    BY <1>22 DEF ExternalDone
  <1>23. CASE StoreResult
    BY <1>23 DEF StoreResult
  <1>24. CASE StoreComplete
    BY <1>24 DEF StoreComplete
  <1>25. CASE Prepare
    BY <1>25 DEF Prepare
  <1>26. CASE Cleanup
    BY <1>26 DEF Cleanup
  <1>27. ASSUME NEW o \in Ops, CallBegin(o) PROVE Answer'
    BY <1>27, <1>t DEF CallBegin
  <1>28. ASSUME NEW o \in Ops, ExecRejected(o) PROVE Answer'
    BY <1>28 DEF ExecRejected
  <1>29. ASSUME NEW o \in Ops, NEW k \in {1, 2}, ExecDraw(o, k) PROVE Answer'
    BY <1>29 DEF ExecDraw
  <1> HIDE DEF IInv, TypeOK, Tickets1, Serving, Answer, Open, Results, Finish, Executing, ClaimExternal, control, core0, external, lights, stage, core1, history
  <1> QED
    BY <1>1, <1>2, <1>3, <1>4, <1>5, <1>6, <1>7, <1>8, <1>9, <1>10, <1>11,
       <1>12, <1>13, <1>14, <1>15, <1>16, <1>17, <1>18, <1>19, <1>20, <1>21,
       <1>22, <1>23, <1>24, <1>25, <1>26, <1>27, <1>28, <1>29
    DEF Next, Core1Next, Tick, Ops

(* What is suspended for the script is given back. *)
LEMMA LeaseStep == ASSUME IInv, [Next]_vars PROVE (Leases /\ LeasesReturned)'
  <1> USE DEF IInv, TypeOK, Tickets1, Serving, Leases, LeasesReturned, vars, control, core0, external, lights,
              stage, core1, history, Finish, Executing, ClaimExternal
  <1>1. CASE UNCHANGED vars
    BY <1>1
  <1>2. CASE CallPost
    BY <1>2 DEF CallPost
  <1>3. CASE CallCancel
    BY <1>3 DEF CallCancel
  <1>4. CASE CallCancelReturn
    BY <1>4 DEF CallCancelReturn
  <1>5. CASE CallCompleted
    BY <1>5 DEF CallCompleted
  <1>6. CASE CallReturn
    BY <1>6 DEF CallReturn
  <1>7. CASE ScriptEnds
    BY <1>7 DEF ScriptEnds
  <1>8. CASE TickIdle
    BY <1>8 DEF TickIdle
  <1>9. CASE TickRefuse
    BY <1>9 DEF TickRefuse, TickReady
  <1>10. CASE TickAccept
    BY <1>10 DEF TickAccept, TickReady
  <1>11. CASE ExecCancelled
    BY <1>11 DEF ExecCancelled
  <1>12. CASE ExecButtons
    BY <1>12 DEF ExecButtons
  <1>13. CASE ExecClear
    BY <1>13 DEF ExecClear
  <1>14. CASE ExecPresent
    BY <1>14 DEF ExecPresent
  <1>15. CASE ExecLed
    BY <1>15 DEF ExecLed
  <1>16. CASE ExecUartRead
    BY <1>16 DEF ExecUartRead
  <1>17. CASE ExecFinal
    BY <1>17 DEF ExecFinal
  <1>18. CASE ExternalRefused
    BY <1>18 DEF ExternalRefused
  <1>19. CASE ExternalBegin
    BY <1>19 DEF ExternalBegin
  <1>20. CASE TickExternal
    BY <1>20 DEF TickExternal
  <1>21. CASE ExternalPending
    BY <1>21 DEF ExternalPending
  <1>22. CASE ExternalDone
    BY <1>22 DEF ExternalDone
  <1>23. CASE StoreResult
    BY <1>23 DEF StoreResult
  <1>24. CASE StoreComplete
    BY <1>24 DEF StoreComplete
  <1>25. CASE Prepare
    BY <1>25 DEF Prepare
  <1>26. CASE Cleanup
    BY <1>26 DEF Cleanup
  <1>27. ASSUME NEW o \in Ops, CallBegin(o) PROVE (Leases /\ LeasesReturned)'
    BY <1>27 DEF CallBegin
  <1>28. ASSUME NEW o \in Ops, ExecRejected(o) PROVE (Leases /\ LeasesReturned)'
    BY <1>28 DEF ExecRejected
  <1>29. ASSUME NEW o \in Ops, NEW k \in {1, 2}, ExecDraw(o, k) PROVE (Leases /\ LeasesReturned)'
    BY <1>29 DEF ExecDraw
  <1> HIDE DEF IInv, TypeOK, Tickets1, Serving, Leases, LeasesReturned, Finish, Executing, ClaimExternal, control, core0, external, lights, stage, core1, history
  <1> QED
    BY <1>1, <1>2, <1>3, <1>4, <1>5, <1>6, <1>7, <1>8, <1>9, <1>10, <1>11,
       <1>12, <1>13, <1>14, <1>15, <1>16, <1>17, <1>18, <1>19, <1>20, <1>21,
       <1>22, <1>23, <1>24, <1>25, <1>26, <1>27, <1>28, <1>29
    DEF Next, Core1Next, Tick, Ops

(* Until a failed call is answered, the frame is there or can be restored. *)
LEMMA TransactionStep == ASSUME IInv, [Next]_vars PROVE (Transaction /\ FailedCallRolledBack)'
  <1> USE DEF IInv, TypeOK, Tickets1, Serving, Answer, Open, Transaction,
              FailedCallRolledBack, vars, control, core0, external, lights,
              stage, core1, history, Finish, Executing
  <1>t. NextTicket(request) # 0 /\ NextTicket(request) # request
    BY NextTicketFact
  <1>f. UNCHANGED stage => Frame' = Frame /\ Restored' = Restored
    BY DEF Frame, Restored
  <1>1. CASE UNCHANGED vars
    BY <1>1, <1>f
  <1>2. CASE CallPost
    BY <1>2, <1>t, <1>f DEF CallPost
  <1>3. CASE CallCancel
    BY <1>3, <1>f DEF CallCancel
  <1>4. CASE CallCancelReturn
    BY <1>4, <1>f DEF CallCancelReturn
  <1>5. CASE CallCompleted
    BY <1>5, <1>f DEF CallCompleted
  <1>6. CASE CallReturn
    BY <1>6, <1>f DEF CallReturn
  <1>7. CASE ScriptEnds
    BY <1>7, <1>f DEF ScriptEnds
  <1>8. CASE TickIdle
    BY <1>8, <1>f DEF TickIdle
  <1>9. CASE TickRefuse
    BY <1>9, <1>f DEF TickRefuse, TickReady
  <1>10. CASE TickAccept
    BY <1>10, <1>f DEF TickAccept, TickReady
  <1>11. CASE ExecCancelled
    BY <1>11, <1>f DEF ExecCancelled
  <1>12. CASE ExecButtons
    BY <1>12, <1>f DEF ExecButtons
  <1>13. CASE ExecClear
    <2>1. count \in 0 .. MaxCommands /\ count' \in 0 .. MaxCommands
      BY <1>13, BoundAssumption DEF ExecClear
    <2>2. \A i \in 1 .. MaxCommands : commands'[i] = IF i = 1 /\ count' = 1 THEN Erase
                                                                ELSE commands[i]
      BY <1>13, BoundAssumption DEF ExecClear
    <2>3. \A i \in 1 .. count :
             commands[i] = IF i = 1 /\ rollbackFirst' # NoCommand
                           THEN rollbackFirst' ELSE commands'[i]
      <3>1. count # 0 => rollbackFirst' = commands[1] /\ commands[1] # NoCommand
        BY <1>13, <2>1, BoundAssumption DEF ExecClear
      <3> QED BY <2>1, <2>2, <3>1, BoundAssumption
    <2>4. Restored' = Frame
      BY <1>13, <2>3 DEF ExecClear, Restored, Frame
    <2>5. \A i \in 1 .. MaxCommands :
             i <= count' \/ i <= checkpoint' => commands'[i] # NoCommand
      BY <1>13, <2>1, <2>2, CallIdFact, BoundAssumption DEF ExecClear, Erase, NoCommand
    <2> QED BY <1>13, <2>1, <2>4, <2>5 DEF ExecClear
  <1>14. CASE ExecPresent
    BY <1>14, <1>f DEF ExecPresent, Frame
  <1>15. CASE ExecLed
    BY <1>15, <1>f DEF ExecLed
  <1>16. CASE ExecUartRead
    BY <1>16, <1>f DEF ExecUartRead
  <1>17. CASE ExecFinal
    <2>1. CASE checkpoint >= 0 /\ (Cancelled(ticket0) \/ result0 # "OK")
      <3>1. count' = checkpoint /\ checkpoint \in 0 .. MaxCommands
        BY <1>17, <2>1, BoundAssumption DEF ExecFinal
      <3>2. \A i \in 1 .. MaxCommands :
               commands'[i] = IF i = 1 /\ checkpoint > 0 /\ rollbackFirst # NoCommand
                              THEN rollbackFirst ELSE commands[i]
        BY <1>17, <2>1, BoundAssumption DEF ExecFinal
      <3>3. Frame' = Restored
        BY <3>1, <3>2, BoundAssumption DEF Frame, Restored
      <3>4. \A i \in 1 .. MaxCommands :
               i <= count' \/ i <= checkpoint' => commands'[i] # NoCommand
        BY <1>17, <3>1, <3>2, BoundAssumption DEF ExecFinal
      <3> QED BY <1>17, <2>1, <3>3, <3>4 DEF ExecFinal
    <2>2. CASE ~(checkpoint >= 0 /\ (Cancelled(ticket0) \/ result0 # "OK"))
      <3>1. commands' = commands /\ count' = count /\ Frame' = Frame
        BY <1>17, <2>2 DEF ExecFinal, Frame
      <3> QED BY <1>17, <2>2, <3>1, BoundAssumption DEF ExecFinal
    <2> QED BY <2>1, <2>2
  <1>18. CASE ExternalRefused
    BY <1>18, <1>f DEF ExternalRefused
  <1>19. CASE ExternalBegin
    BY <1>19, <1>f DEF ExternalBegin
  <1>20. CASE TickExternal
    BY <1>20, <1>f DEF TickExternal
  <1>21. CASE ExternalPending
    BY <1>21, <1>f DEF ExternalPending
  <1>22. CASE ExternalDone
    BY <1>22, <1>f DEF ExternalDone
  <1>23. CASE StoreResult
    BY <1>23, <1>f DEF StoreResult
  <1>24. CASE StoreComplete
    BY <1>24, <1>f DEF StoreComplete
  <1>25. CASE Prepare
    BY <1>25, <1>f DEF Prepare
  <1>26. CASE Cleanup
    BY <1>26, <1>f DEF Cleanup
  <1>27. ASSUME NEW o \in Ops, CallBegin(o) PROVE (Transaction /\ FailedCallRolledBack)'
    BY <1>27, <1>t, <1>f DEF CallBegin
  <1>28. ASSUME NEW o \in Ops, ExecRejected(o) PROVE (Transaction /\ FailedCallRolledBack)'
    BY <1>28, <1>f DEF ExecRejected
  <1>29. ASSUME NEW o \in Ops, NEW k \in {1, 2}, ExecDraw(o, k) PROVE (Transaction /\ FailedCallRolledBack)'
    <2>1. CallId # NoCommand
      BY <1>29, CallIdFact DEF ExecDraw
    <2>2. PICK fits \in Nat : /\ count + fits <= MaxCommands /\ count' = count + fits
                             /\ commands' = [i \in 1 .. MaxCommands |->
                                   IF i > count /\ i <= count + fits THEN CallId ELSE commands[i]]
      <3> DEFINE fits == IF MaxCommands - count < k THEN MaxCommands - count ELSE k
      <3>1. fits \in Nat /\ count + fits <= MaxCommands
        BY BoundAssumption
      <3>2. /\ count' = count + fits
            /\ commands' = [i \in 1 .. MaxCommands |->
                  IF i > count /\ i <= count + fits THEN CallId ELSE commands[i]]
        BY <1>29 DEF ExecDraw
      <3> HIDE DEF fits
      <3> QED BY <3>1, <3>2
    <2>3. Restored' = Frame
      BY <1>29, <2>2, BoundAssumption DEF ExecDraw, Restored, Frame
    <2>4. \A i \in 1 .. MaxCommands :
             i <= count' \/ i <= checkpoint' => commands'[i] # NoCommand
      BY <1>29, <2>1, <2>2 DEF ExecDraw
    <2> QED BY <1>29, <2>3, <2>4 DEF ExecDraw
  <1> HIDE DEF IInv, TypeOK, Tickets1, Serving, Answer, Open, Transaction,
              FailedCallRolledBack, Finish, Executing, ClaimExternal, control, core0, external, lights, stage, core1, history
  <1> QED
    BY <1>1, <1>2, <1>3, <1>4, <1>5, <1>6, <1>7, <1>8, <1>9, <1>10, <1>11,
       <1>12, <1>13, <1>14, <1>15, <1>16, <1>17, <1>18, <1>19, <1>20, <1>21,
       <1>22, <1>23, <1>24, <1>25, <1>26, <1>27, <1>28, <1>29
    DEF Next, Core1Next, Tick, Ops

-----------------------------------------------------------------------------
(* Every step preserves the invariant. *)
LEMMA NextIInv == IInv /\ [Next]_vars => IInv'
  BY TypeStep, TicketStep, AnswerStep, LeaseStep, TransactionStep DEF IInv

LEMMA Invariance == Spec => []IInv
  BY InitIInv, NextIInv, PTL DEF Spec

(* The call slot has one user at a time: while core 0 works on a request,   *)
(* core 1 waits for exactly that request, cancelled or not, and the result  *)
(* a call reads was stored for it.  For every ticket width, although        *)
(* tickets are used again.                                                  *)
THEOREM SlotHasOneUser == Spec => [](TypeOK /\ SlotExclusive)
  <1>1. IInv => TypeOK /\ SlotExclusive
    BY DEF IInv, Tickets1, Answer, Serving, SlotExclusive
  <1> QED BY <1>1, Invariance, PTL

(* A drawing call that failed or whose cancellation was acknowledged leaves *)
(* the staged frame of the overlay as it was, the replaced erase of a clear *)
(* included.                                                                *)
THEOREM FailedCallLeavesNoTrace == Spec => []FailedCallRolledBack
  <1>1. IInv => FailedCallRolledBack
    BY DEF IInv
  <1> QED BY <1>1, Invariance, PTL

(* After the run's cleanup nothing is leased to the script any more, whatever *)
(* calls were under way or had failed.                                        *)
THEOREM NothingLeftLeased == Spec => []LeasesReturned
  <1>1. IInv => LeasesReturned
    BY DEF IInv
  <1> QED BY <1>1, Invariance, PTL

=============================================================================
