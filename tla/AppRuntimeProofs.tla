-------------------------- MODULE AppRuntimeProofs --------------------------
(***************************************************************************)
(* The foreground app runtime for any set of apps and sessions, any width  *)
(* of the generation and epoch counters and any number of instances: the   *)
(* switch and the runtime stay in line, nothing outlives an instance, a    *)
(* stale wakeup never reaches app code, and the life cycle of the contract *)
(* is implemented.                                                         *)
(***************************************************************************)
EXTENDS AppRuntime, TLAPS

Ended == state \in {"INACTIVE", "FAULTED"}

(* Which callback runs in which state, and with which flags. *)
Stages ==
    /\ pc = "main" => state \in {"INACTIVE", "FAULTED", "RUNNING"}
    /\ pc = "launch" => Ended
    /\ pc \in {"prepare", "start"} => state = "STARTING"
    /\ pc \in {"event", "poll", "render", "close"} => state = "RUNNING"
    /\ pc = "stop" => state = "STOPPING"
    /\ pc = "cleanup" => state \in {"STARTING", "STOPPING"}
    /\ callbackActive = 1 <=> pc \in {"start", "event", "render", "close", "stop"}
    /\ contextValid = 0 <=> Ended
    /\ Ended \/ pc = "prepare" => startEntered = 0
    /\ pc = "start" \/ state = "RUNNING" => startEntered = 1
    /\ pc \notin {"stop", "cleanup"} => stopCalled = 0 /\ teardownStarted = 0

(* The switch follows the runtime; a transaction is open only in a pass. *)
Switching ==
    /\ Ended => active = NoApp /\ descriptor = NoApp
    /\ ~Ended => active = descriptor /\ descriptor \in Apps
    /\ pc \in {"main", "event", "poll", "render"} => transition = 0 /\ opening = 0
    /\ pc \in {"main", "launch", "prepare", "start", "event", "poll"} =>
           surfaceValid = 0 /\ batch = "none" /\ hasDraw = 0
    /\ pc = "launch" \/ (caller = "switch" /\ pc \in {"close", "stop", "cleanup"}) =>
           target \in Apps
    /\ pc \in {"prepare", "start"} => caller = "open"

(* A token with the current generation is of the current instance, and       *)
(* between instances there is none.                                          *)
TokenAges ==
    /\ \A t \in tokens :
           /\ t.generation <= generation
           /\ t.generation = generation => t.instance = instances
           /\ state = "INACTIVE" => t.generation < generation
    /\ StaleWorkRejected

IInv == TypeOK /\ Stages /\ Switching /\ ScopeReturned /\ TokenAges /\ LockExcludesDraw

-----------------------------------------------------------------------------

(* The initial state of switch and runtime satisfies the invariant. *)
LEMMA InitIInv == Init => IInv
  <1> SUFFICES ASSUME Init PROVE IInv
    OBVIOUS
  <1> USE DEF Init
  <1>1. TypeOK
    BY BoundsAssumption DEF TypeOK, Errors, Reasons, Token, NoToken
  <1>2. Stages /\ Switching /\ ScopeReturned
    BY DEF Stages, Switching, ScopeReturned, Ended
  <1>3. TokenAges /\ LockExcludesDraw
    BY DEF TokenAges, StaleWorkRejected, LockExcludesDraw
  <1> QED
    BY <1>1, <1>2, <1>3 DEF IInv

(* Every step keeps the types; generations and epochs stop at their limit. *)
LEMMA TypeStep == ASSUME TypeOK, Switching, [Next]_vars PROVE TypeOK'
  <1> USE BoundsAssumption DEF TypeOK, Errors, Reasons, NoToken, vars, runtimeFlags, counters, scope,
        switchVars, display, history, Enter, Terminate, Retain, FailPoll, PollOver
  <1>1. CASE UNCHANGED vars \/ Idle
    BY <1>1 DEF Idle
  <1>2. CASE CloseReturns \/ PrepareFails \/ StartFails
    BY <1>2 DEF CloseReturns, PrepareFails, StartFails, Teardown
  <1>3. CASE StopReturns
    BY <1>3 DEF StopReturns
  <1>4. CASE Cleanup
    BY <1>4 DEF Cleanup, AfterTeardown, Exhausted
  <1>5. CASE LaunchRefused \/ Launch \/ Prepared
    BY <1>5 DEF LaunchRefused, Launch, Prepared, Switching
  <1>6. CASE StartReturns
    BY <1>6 DEF StartReturns, AfterStart, Token
  <1>7. CASE StartUntimed
    BY <1>7 DEF StartUntimed
  <1>8. CASE EventReturns \/ EventEnds \/ RenderEnds
    BY <1>8 DEF EventReturns, EventEnds, RenderEnds, CallbackEnds, Token
  <1>9. CASE RenderReturns \/ RenderOverBudget
    BY <1>9 DEF RenderReturns, RenderOverBudget, RenderAbort
  <1>10. CASE Poll
    BY <1>10 DEF Poll, TickOverBudget, RenderSkipped, RenderFails, RenderBegin
  <1>11. CASE Call
    <2>1. ASSUME NEW app \in Apps, OpenCall(app) PROVE TypeOK'
      BY <2>1 DEF OpenCall
    <2>2. ASSUME NEW r \in {"FORCED", "CALLBACK_FAILED"}, CloseCall(r) \/ CloseDuringStart(r)
          PROVE TypeOK'
      BY <2>2 DEF CloseCall, CloseDuringStart
    <2>3. CASE InputDuringStart \/ EventCall \/ TimerCall \/ PollCall
      BY <2>3 DEF InputDuringStart, EventCall, TimerCall, PollCall, Dispatch, Token
    <2>4. ASSUME NEW t \in tokens, WakeupCall(t) PROVE TypeOK'
      BY <2>4 DEF WakeupCall, Dispatch
    <2> QED
      BY <1>11, <2>1, <2>2, <2>3, <2>4 DEF Call
  <1>12. CASE AppCall
    <2>1. CASE RequestClose \/ RequestRender \/ SurfaceDraw \/ SurfaceLock
      BY <2>1 DEF RequestClose, RequestRender, SurfaceDraw, SurfaceLock
    <2>2. CASE WakeupToken
      BY <2>2 DEF WakeupToken, Token
    <2>3. ASSUME NEW s \in Sessions, OpenSession(s) \/ CloseSession(s) PROVE TypeOK'
      BY <2>3 DEF OpenSession, CloseSession
    <2> QED
      BY <1>12, <2>1, <2>2, <2>3 DEF AppCall
  <1> QED
    BY <1>1, <1>2, <1>3, <1>4, <1>5, <1>6, <1>7, <1>8, <1>9, <1>10, <1>11, <1>12 DEF Next, Return

(* Every step moves callback, state and flags together. *)
LEMMA StagesStep == ASSUME TypeOK, Stages, Switching, [Next]_vars PROVE Stages'
  <1> USE AppsAssumption DEF TypeOK, Stages, Switching, Ended, vars, runtimeFlags, counters, scope, switchVars, display,
        history, Enter, Terminate, Retain, FailPoll, PollOver
  <1>1. CASE UNCHANGED vars \/ Idle
    BY <1>1 DEF Idle
  <1>2. CASE CloseReturns \/ PrepareFails \/ StartFails
    BY <1>2 DEF CloseReturns, PrepareFails, StartFails, Teardown
  <1>3. CASE StopReturns
    BY <1>3 DEF StopReturns
  <1>4. CASE Cleanup
    BY <1>4 DEF Cleanup, AfterTeardown, Exhausted
  <1>5. CASE LaunchRefused \/ Launch \/ Prepared
    BY <1>5 DEF LaunchRefused, Launch, Launchable, Prepared
  <1>6. CASE StartReturns \/ StartUntimed
    BY <1>6 DEF StartReturns, StartUntimed, AfterStart
  <1>7. CASE EventReturns \/ EventEnds \/ RenderEnds
    BY <1>7 DEF EventReturns, EventEnds, RenderEnds, CallbackEnds
  <1>8. CASE RenderReturns \/ RenderOverBudget
    BY <1>8 DEF RenderReturns, RenderOverBudget, RenderAbort
  <1>9. CASE Poll
    BY <1>9 DEF Poll, TickOverBudget, RenderSkipped, RenderFails, RenderBegin
  <1>10. CASE Call
    <2>1. ASSUME NEW app \in Apps, OpenCall(app) PROVE Stages'
      BY <2>1 DEF OpenCall
    <2>2. ASSUME NEW r \in {"FORCED", "CALLBACK_FAILED"}, CloseCall(r) \/ CloseDuringStart(r)
          PROVE Stages'
      BY <2>2 DEF CloseCall, CloseDuringStart
    <2>3. CASE InputDuringStart \/ EventCall \/ TimerCall \/ PollCall
      BY <2>3 DEF InputDuringStart, EventCall, TimerCall, PollCall, Dispatch
    <2>4. ASSUME NEW t \in tokens, WakeupCall(t) PROVE Stages'
      BY <2>4 DEF WakeupCall, TokenValid, Dispatch
    <2> QED
      BY <1>10, <2>1, <2>2, <2>3, <2>4 DEF Call
  <1>11. CASE AppCall
    BY <1>11 DEF AppCall, RequestClose, RequestRender, SurfaceDraw, SurfaceLock, WakeupToken,
                 OpenSession, CloseSession, InCallback
  <1> QED
    BY <1>1, <1>2, <1>3, <1>4, <1>5, <1>6, <1>7, <1>8, <1>9, <1>10, <1>11 DEF Next, Return

(* Every step keeps the switch in line with the runtime. *)
LEMMA SwitchingStep == ASSUME TypeOK, Stages, Switching, [Next]_vars PROVE Switching'
  <1> USE AppsAssumption DEF TypeOK, Stages, Switching, Ended, vars, runtimeFlags, counters, scope, switchVars, display,
        history, Enter, Terminate, Retain, FailPoll, PollOver
  <1>1. CASE UNCHANGED vars \/ Idle
    BY <1>1 DEF Idle
  <1>2. CASE CloseReturns \/ PrepareFails \/ StartFails
    BY <1>2 DEF CloseReturns, PrepareFails, StartFails, Teardown
  <1>3. CASE StopReturns
    BY <1>3 DEF StopReturns
  <1>4. CASE Cleanup
    BY <1>4 DEF Cleanup, AfterTeardown, Exhausted
  <1>5. CASE LaunchRefused \/ Launch \/ Prepared
    BY <1>5 DEF LaunchRefused, Launch, Launchable, Prepared
  <1>6. CASE StartReturns \/ StartUntimed
    BY <1>6 DEF StartReturns, StartUntimed, AfterStart
  <1>7. CASE EventReturns \/ EventEnds \/ RenderEnds
    BY <1>7 DEF EventReturns, EventEnds, RenderEnds, CallbackEnds
  <1>8. CASE RenderReturns \/ RenderOverBudget
    BY <1>8 DEF RenderReturns, RenderOverBudget, RenderAbort
  <1>9. CASE Poll
    BY <1>9 DEF Poll, TickOverBudget, RenderSkipped, RenderFails, RenderBegin
  <1>10. CASE Call
    <2>1. ASSUME NEW app \in Apps, OpenCall(app) PROVE Switching'
      BY <2>1 DEF OpenCall
    <2>2. ASSUME NEW r \in {"FORCED", "CALLBACK_FAILED"}, CloseCall(r) \/ CloseDuringStart(r)
          PROVE Switching'
      BY <2>2 DEF CloseCall, CloseDuringStart
    <2>3. CASE InputDuringStart \/ EventCall \/ TimerCall \/ PollCall
      BY <2>3 DEF InputDuringStart, EventCall, TimerCall, PollCall, Dispatch
    <2>4. ASSUME NEW t \in tokens, WakeupCall(t) PROVE Switching'
      BY <2>4 DEF WakeupCall, TokenValid, Dispatch
    <2> QED
      BY <1>10, <2>1, <2>2, <2>3, <2>4 DEF Call
  <1>11. CASE AppCall
    BY <1>11 DEF AppCall, RequestClose, RequestRender, SurfaceDraw, SurfaceLock, WakeupToken,
                 OpenSession, CloseSession, InCallback
  <1> QED
    BY <1>1, <1>2, <1>3, <1>4, <1>5, <1>6, <1>7, <1>8, <1>9, <1>10, <1>11 DEF Next, Return

(* No step ends an instance with a session or a lights claim left. *)
LEMMA ScopeStep == ASSUME TypeOK, Stages, ScopeReturned, [Next]_vars PROVE ScopeReturned'
  <1> USE DEF TypeOK, Stages, ScopeReturned, Ended, vars, runtimeFlags, counters, scope, switchVars, display,
        history, Enter, Terminate, Retain, FailPoll, PollOver
  <1>1. CASE UNCHANGED vars \/ Idle
    BY <1>1 DEF Idle
  <1>2. CASE CloseReturns \/ PrepareFails \/ StartFails
    BY <1>2 DEF CloseReturns, PrepareFails, StartFails, Teardown
  <1>3. CASE StopReturns
    BY <1>3 DEF StopReturns
  <1>4. CASE Cleanup
    BY <1>4 DEF Cleanup, AfterTeardown, Exhausted
  <1>5. CASE LaunchRefused \/ Launch \/ Prepared
    BY <1>5 DEF LaunchRefused, Launch, Launchable, Prepared
  <1>6. CASE StartReturns \/ StartUntimed
    BY <1>6 DEF StartReturns, StartUntimed, AfterStart
  <1>7. CASE EventReturns \/ EventEnds \/ RenderEnds
    BY <1>7 DEF EventReturns, EventEnds, RenderEnds, CallbackEnds
  <1>8. CASE RenderReturns \/ RenderOverBudget
    BY <1>8 DEF RenderReturns, RenderOverBudget, RenderAbort
  <1>9. CASE Poll
    BY <1>9 DEF Poll, TickOverBudget, RenderSkipped, RenderFails, RenderBegin
  <1>10. CASE Call
    <2>1. ASSUME NEW app \in Apps, OpenCall(app) PROVE ScopeReturned'
      BY <2>1 DEF OpenCall
    <2>2. ASSUME NEW r \in {"FORCED", "CALLBACK_FAILED"}, CloseCall(r) \/ CloseDuringStart(r)
          PROVE ScopeReturned'
      BY <2>2 DEF CloseCall, CloseDuringStart
    <2>3. CASE InputDuringStart \/ EventCall \/ TimerCall \/ PollCall
      BY <2>3 DEF InputDuringStart, EventCall, TimerCall, PollCall, Dispatch
    <2>4. ASSUME NEW t \in tokens, WakeupCall(t) PROVE ScopeReturned'
      BY <2>4 DEF WakeupCall, TokenValid, Dispatch
    <2> QED
      BY <1>10, <2>1, <2>2, <2>3, <2>4 DEF Call
  <1>11. CASE AppCall
    BY <1>11 DEF AppCall, RequestClose, RequestRender, SurfaceDraw, SurfaceLock, WakeupToken,
                 OpenSession, CloseSession, InCallback
  <1> QED
    BY <1>1, <1>2, <1>3, <1>4, <1>5, <1>6, <1>7, <1>8, <1>9, <1>10, <1>11 DEF Next, Return

(* Every step keeps the tokens of earlier instances recognisable. *)
LEMMA TokenStep == ASSUME TypeOK, Stages, TokenAges, [Next]_vars PROVE TokenAges'
  <1> USE BoundsAssumption DEF TypeOK, Stages, TokenAges, StaleWorkRejected, Token, NoToken,
        Ended, vars, runtimeFlags, counters, scope, switchVars, display,
        history, Enter, Terminate, Retain, FailPoll, PollOver
  <1>1. CASE UNCHANGED vars \/ Idle
    BY <1>1 DEF Idle
  <1>2. CASE CloseReturns \/ PrepareFails \/ StartFails
    BY <1>2 DEF CloseReturns, PrepareFails, StartFails, Teardown
  <1>3. CASE StopReturns
    BY <1>3 DEF StopReturns
  <1>4. CASE Cleanup
    BY <1>4 DEF Cleanup, AfterTeardown, Exhausted
  <1>5. CASE LaunchRefused \/ Launch \/ Prepared
    BY <1>5 DEF LaunchRefused, Launch, Launchable, Prepared
  <1>6. CASE StartReturns \/ StartUntimed
    BY <1>6 DEF StartReturns, StartUntimed, AfterStart
  <1>7. CASE EventReturns \/ EventEnds \/ RenderEnds
    BY <1>7 DEF EventReturns, EventEnds, RenderEnds, CallbackEnds
  <1>8. CASE RenderReturns \/ RenderOverBudget
    BY <1>8 DEF RenderReturns, RenderOverBudget, RenderAbort
  <1>9. CASE Poll
    BY <1>9 DEF Poll, TickOverBudget, RenderSkipped, RenderFails, RenderBegin
  <1>10. CASE Call
    <2>1. ASSUME NEW app \in Apps, OpenCall(app) PROVE TokenAges'
      BY <2>1 DEF OpenCall
    <2>2. ASSUME NEW r \in {"FORCED", "CALLBACK_FAILED"}, CloseCall(r) \/ CloseDuringStart(r)
          PROVE TokenAges'
      BY <2>2 DEF CloseCall, CloseDuringStart
    <2>3. CASE InputDuringStart \/ EventCall \/ TimerCall \/ PollCall
      BY <2>3 DEF InputDuringStart, EventCall, TimerCall, PollCall, Dispatch
    <2>4. ASSUME NEW t \in tokens, WakeupCall(t) PROVE TokenAges'
      BY <2>4 DEF WakeupCall, TokenValid, Dispatch
    <2> QED
      BY <1>10, <2>1, <2>2, <2>3, <2>4 DEF Call
  <1>11. CASE AppCall
    BY <1>11 DEF AppCall, RequestClose, RequestRender, SurfaceDraw, SurfaceLock, WakeupToken,
                 OpenSession, CloseSession, InCallback
  <1> QED
    BY <1>1, <1>2, <1>3, <1>4, <1>5, <1>6, <1>7, <1>8, <1>9, <1>10, <1>11 DEF Next, Return

(* No step draws on a locked surface or locks a drawn one. *)
LEMMA LockStep == ASSUME TypeOK, LockExcludesDraw, [Next]_vars PROVE LockExcludesDraw'
  <1> USE DEF TypeOK, LockExcludesDraw, vars, runtimeFlags, counters, scope, switchVars, display,
        history, Enter, Terminate, Retain, FailPoll, PollOver
  <1>1. CASE UNCHANGED vars \/ Idle
    BY <1>1 DEF Idle
  <1>2. CASE CloseReturns \/ PrepareFails \/ StartFails
    BY <1>2 DEF CloseReturns, PrepareFails, StartFails, Teardown
  <1>3. CASE StopReturns
    BY <1>3 DEF StopReturns
  <1>4. CASE Cleanup
    BY <1>4 DEF Cleanup, AfterTeardown, Exhausted
  <1>5. CASE LaunchRefused \/ Launch \/ Prepared
    BY <1>5 DEF LaunchRefused, Launch, Launchable, Prepared
  <1>6. CASE StartReturns \/ StartUntimed
    BY <1>6 DEF StartReturns, StartUntimed, AfterStart
  <1>7. CASE EventReturns \/ EventEnds \/ RenderEnds
    BY <1>7 DEF EventReturns, EventEnds, RenderEnds, CallbackEnds
  <1>8. CASE RenderReturns \/ RenderOverBudget
    BY <1>8 DEF RenderReturns, RenderOverBudget, RenderAbort
  <1>9. CASE Poll
    BY <1>9 DEF Poll, TickOverBudget, RenderSkipped, RenderFails, RenderBegin
  <1>10. CASE Call
    <2>1. ASSUME NEW app \in Apps, OpenCall(app) PROVE LockExcludesDraw'
      BY <2>1 DEF OpenCall
    <2>2. ASSUME NEW r \in {"FORCED", "CALLBACK_FAILED"}, CloseCall(r) \/ CloseDuringStart(r)
          PROVE LockExcludesDraw'
      BY <2>2 DEF CloseCall, CloseDuringStart
    <2>3. CASE InputDuringStart \/ EventCall \/ TimerCall \/ PollCall
      BY <2>3 DEF InputDuringStart, EventCall, TimerCall, PollCall, Dispatch
    <2>4. ASSUME NEW t \in tokens, WakeupCall(t) PROVE LockExcludesDraw'
      BY <2>4 DEF WakeupCall, TokenValid, Dispatch
    <2> QED
      BY <1>10, <2>1, <2>2, <2>3, <2>4 DEF Call
  <1>11. CASE AppCall
    BY <1>11 DEF AppCall, RequestClose, RequestRender, SurfaceDraw, SurfaceLock, WakeupToken,
                 OpenSession, CloseSession, InCallback
  <1> QED
    BY <1>1, <1>2, <1>3, <1>4, <1>5, <1>6, <1>7, <1>8, <1>9, <1>10, <1>11 DEF Next, Return

(* The inductive invariant of the runtime, its switch and its tokens. *)
THEOREM Invariance == Spec => []IInv
  <1>1. Init => IInv
    BY InitIInv
  <1>2. IInv /\ [Next]_vars => IInv'
    BY TypeStep, StagesStep, SwitchingStep, ScopeStep, TokenStep, LockStep DEF IInv
  <1> QED
    BY <1>1, <1>2, PTL DEF Spec

(* hk_app_switch_* and the runtime agree whenever control is back in the     *)
(* main loop, no session and no claim on the lights outlives its instance,   *)
(* and drawing and locking exclude each other in a pass.                     *)
THEOREM SwitchAndScope == Spec => [](TypeOK /\ SwitchInSync /\ ScopeReturned /\ LockExcludesDraw)
  <1>1. IInv => TypeOK /\ SwitchInSync /\ ScopeReturned /\ LockExcludesDraw
    BY AppsAssumption DEF IInv, TypeOK, Stages, Switching, SwitchInSync, Ended
  <1> QED
    BY <1>1, Invariance, PTL

(* Wherever the counters stop, a wakeup token reaches app code only in the   *)
(* instance that handed it out.                                              *)
THEOREM StaleWorkIsRejected == Spec => []StaleWorkRejected
  <1>1. IInv => StaleWorkRejected
    BY DEF IInv, TokenAges
  <1> QED
    BY <1>1, Invariance, PTL

-----------------------------------------------------------------------------
(* Teardown never hands out a session. *)
LEMMA TeardownStep ==
    ASSUME IInv, [Next]_vars PROVE teardownStarted = 1 => sessions' \subseteq sessions
  <1> USE DEF IInv, Stages, TypeOK, vars, runtimeFlags, counters, scope, switchVars, display,
        history
  <1>1. CASE UNCHANGED sessions
    BY <1>1
  <1>2. CASE Cleanup
    BY <1>2 DEF Cleanup
  <1>3. CASE Prepared \/ PrepareFails
    BY <1>3 DEF Prepared, PrepareFails
  <1>4. ASSUME NEW s \in Sessions, OpenSession(s) \/ CloseSession(s)
        PROVE  teardownStarted = 1 => sessions' \subseteq sessions
    BY <1>4 DEF OpenSession, CloseSession
  <1>5. \/ UNCHANGED sessions \/ Cleanup \/ Prepared \/ PrepareFails
        \/ \E s \in Sessions : OpenSession(s) \/ CloseSession(s)
    BY DEF Next, Return, Poll, Call, AppCall, Idle, CloseReturns, StopReturns, LaunchRefused,
           Launch, StartFails, StartReturns, StartUntimed, EventReturns, EventEnds,
           CallbackEnds, RenderReturns, RenderEnds, RenderOverBudget, TickOverBudget,
           RenderSkipped, RenderFails, RenderBegin, OpenCall, CloseCall, CloseDuringStart,
           InputDuringStart, EventCall, TimerCall, PollCall, WakeupCall, Dispatch,
           RequestClose, RequestRender, WakeupToken, SurfaceDraw, SurfaceLock
  <1> QED
    BY <1>1, <1>2, <1>3, <1>4, <1>5

(* The context accessors refuse a new session once teardown has begun. *)
THEOREM TeardownOpensNothing == Spec => NoOpenInTeardown
  <1>1. IInv /\ [Next]_vars => [teardownStarted = 1 => sessions' \subseteq sessions]_vars
    BY TeardownStep
  <1> QED
    BY <1>1, Invariance, PTL DEF Spec, NoOpenInTeardown

-----------------------------------------------------------------------------
(* Every step of the runtime is one stage change of the contract's life      *)
(* cycle, or leaves the stage, the instance and its error as they are.       *)
LEMMA LifeStep ==
    ASSUME IInv, [Next]_vars PROVE [Life!LifeNext]_(Life!lifeVars)
  <1> USE DEF IInv, TypeOK, Stages, Ended, Errors, Phase, Life!Step, Life!Fail,
        Life!FirstErrorKept, Life!lifeVars, vars, runtimeFlags, counters, scope, switchVars,
        display, history, Enter, Terminate, Retain, FailPoll, PollOver
  <1>1. CASE UNCHANGED vars \/ Idle
    BY <1>1 DEF Idle
  <1>2. CASE CloseReturns
    <2>1. Life!Stop
      BY <1>2 DEF CloseReturns, Teardown, Life!Stop
    <2> QED
      BY <2>1 DEF Life!LifeNext
  <1>3. CASE PrepareFails
    <2>1. Life!PrepareFails
      BY <1>3 DEF PrepareFails, Teardown, Life!PrepareFails
    <2> QED
      BY <2>1 DEF Life!LifeNext
  <1>4. CASE StartFails
    <2>1. Life!StartFails
      BY <1>4 DEF StartFails, Teardown, Life!StartFails
    <2> QED
      BY <2>1 DEF Life!LifeNext
  <1>5. CASE StopReturns
    <2>1. Life!Clean
      BY <1>5 DEF StopReturns, Life!Clean
    <2> QED
      BY <2>1 DEF Life!LifeNext
  <1>6. CASE Cleanup
    <2>1. Life!Retire
      BY <1>6 DEF Cleanup, AfterTeardown, Life!Retire
    <2> QED
      BY <2>1 DEF Life!LifeNext
  <1>7. CASE Launch
    <2>1. Life!Prepare
      BY <1>7 DEF Launch, Launchable, Life!Prepare
    <2> QED
      BY <2>1 DEF Life!LifeNext
  <1>8. CASE Prepared
    <2>1. Life!Start
      BY <1>8 DEF Prepared, Life!Start
    <2> QED
      BY <2>1 DEF Life!LifeNext
  <1>9. CASE StartReturns \/ StartUntimed
    <2>1. Life!Run \/ Life!Close
      BY <1>9 DEF StartReturns, StartUntimed, AfterStart, Life!Run, Life!Close
    <2> QED
      BY <2>1 DEF Life!LifeNext
  <1>10. CASE EventEnds \/ RenderEnds \/ RenderOverBudget
    <2>1. Life!Close
      BY <1>10 DEF EventEnds, RenderEnds, CallbackEnds, RenderOverBudget, Life!Close
    <2> QED
      BY <2>1 DEF Life!LifeNext
  <1>11. CASE LaunchRefused \/ EventReturns \/ RenderReturns
    BY <1>11 DEF LaunchRefused, EventReturns, RenderReturns
  <1>12. CASE Poll
    <2>1. CASE TickOverBudget \/ RenderFails
      <3>1. Life!Close
        BY <2>1 DEF TickOverBudget, RenderFails, Life!Close
      <3> QED
        BY <3>1 DEF Life!LifeNext
    <2> QED
      BY <1>12, <2>1 DEF Poll, RenderSkipped, RenderBegin
  <1>13. CASE Call
    <2>1. ASSUME NEW app \in Apps, OpenCall(app), active # NoApp
          PROVE  Life!LifeNext
      <3>1. Life!Close
        BY <2>1 DEF OpenCall, Switching, Life!Close
      <3> QED
        BY <3>1 DEF Life!LifeNext
    <2>2. ASSUME NEW app \in Apps, OpenCall(app), active = NoApp
          PROVE  UNCHANGED Life!lifeVars
      BY <2>2, AppsAssumption DEF OpenCall, Switching
    <2>3. ASSUME NEW r \in {"FORCED", "CALLBACK_FAILED"}, CloseCall(r)
          PROVE  Life!LifeNext
      <3>1. Life!Close
        BY <2>3 DEF CloseCall, Switching, Life!Close
      <3> QED
        BY <3>1 DEF Life!LifeNext
    <2>4. ASSUME NEW r \in {"FORCED", "CALLBACK_FAILED"}, CloseDuringStart(r)
          PROVE  UNCHANGED Life!lifeVars
      BY <2>4 DEF CloseDuringStart
    <2>5. CASE InputDuringStart \/ EventCall \/ TimerCall \/ PollCall
      BY <2>5, AppsAssumption
         DEF Switching, InputDuringStart, EventCall, TimerCall, PollCall, Dispatch
    <2>6. ASSUME NEW t \in tokens, WakeupCall(t) PROVE UNCHANGED Life!lifeVars
      BY <2>6 DEF WakeupCall, Dispatch
    <2> QED
      BY <1>13, <2>1, <2>2, <2>3, <2>4, <2>5, <2>6 DEF Call
  <1>14. CASE AppCall
    BY <1>14 DEF AppCall, RequestClose, RequestRender, SurfaceDraw, SurfaceLock, WakeupToken,
                 OpenSession, CloseSession
  <1> QED
    BY <1>1, <1>2, <1>3, <1>4, <1>5, <1>6, <1>7, <1>8, <1>9, <1>10, <1>11, <1>12, <1>13, <1>14
       DEF Next, Return

(* runtime.c and switch.c take every instance through the stages of the      *)
(* contract, whichever call or failure ends it.                              *)
THEOREM RuntimeImplementsLifecycle == Spec => ImplementsLifecycle
  <1>1. Init => Life!LifeInit
    BY DEF Init, Phase, Life!LifeInit
  <1> QED
    BY <1>1, LifeStep, Invariance, PTL DEF Spec, ImplementsLifecycle, Life!LifeSpec
=============================================================================
