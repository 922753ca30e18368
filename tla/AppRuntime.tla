----------------------------- MODULE AppRuntime -----------------------------
(***************************************************************************)
(* app_runtime/runtime.c, app_runtime/switch.c, app_runtime/surface.c and  *)
(* runtime/app_runtime_integration.c: the foreground app, its callbacks    *)
(* and its teardown.                                                       *)
(*                                                                         *)
(* One thread.  Between callbacks the code runs to the next callback or    *)
(* back to the main loop in one action; inside a callback (pc) the app may *)
(* call what its context offers.  caller is the function that the callback *)
(* in progress, or the teardown in progress, returns to.                   *)
(*                                                                         *)
(* As the contract demands, apps do not call the switch themselves; only   *)
(* during start may a close or an input reach the switch re-entrantly.     *)
(* The BASE plane that prepare opens is never closed by the app itself.    *)
(***************************************************************************)
EXTENDS Naturals, FiniteSets

CONSTANTS Apps, NoApp,     \* the registered apps
          Invalid,         \* those whose descriptor does not validate
          Rendering,       \* those with a render callback
          Sessions,        \* lazily opened sessions; "lights" is one of them
          CounterMax,      \* largest value of a generation or an epoch
          MaxInstances,    \* bound on the number of instances explored
          MaxTokens        \* bound on the number of wakeup tokens explored

ASSUME AppsAssumption == NoApp \notin Apps /\ Invalid \subseteq Apps /\ Rendering \subseteq Apps

ASSUME SessionsAssumption == "lights" \in Sessions /\ "base" \notin Sessions

ASSUME BoundsAssumption ==
    CounterMax \in Nat \ {0} /\ MaxInstances \in Nat /\ MaxTokens \in Nat

VARIABLES
    \* hk_app_runtime_t
    state, descriptor, contextValid, generation, epoch, firstError, stopReason,
    startEntered, stopCalled, closeRequested, teardownStarted, callbackActive,
    retired, renderPending,
    \* the sessions opened through the context, and whether the settings have
    \* handed their lights over
    sessions, lightsSuspended,
    \* hk_app_switch_t: active app, transition_active, opening, pending close
    \* and input, and surface.valid
    active, transition, opening, pendingClose, pendingInput, surfaceValid,
    \* app_runtime_integration_t: the display transaction of a render pass
    batch, hasDraw,
    \* control: the callback in progress, who it returns to, the app to open
    pc, caller, target,
    \* wakeup tokens handed out; the one being delivered; instances so far
    tokens, delivered, instances

runtimeFlags == <<startEntered, stopCalled, closeRequested, teardownStarted>>
counters     == <<generation, epoch, retired>>
scope        == <<sessions, lightsSuspended>>
switchVars   == <<active, transition, opening, pendingClose, pendingInput>>
display      == <<surfaceValid, batch, hasDraw>>
history      == <<tokens, delivered, instances>>
vars == <<state, descriptor, contextValid, counters, firstError, stopReason, runtimeFlags,
          callbackActive, renderPending, scope, switchVars, display, pc, caller, target,
          history>>

NoToken == [generation |-> 0, epoch |-> 0, instance |-> 0]

Token == [generation : 0 .. CounterMax, epoch : 0 .. CounterMax, instance : Nat]

Errors == {"OK", "PREPARE", "START", "CALLBACK", "CLOSE", "STOP", "DEADLINE", "RETIRE"}

Reasons == {"COMPLETED", "SWITCH", "START_FAILED", "CALLBACK_FAILED", "DEADLINE", "FORCED"}

TypeOK ==
    /\ state \in {"INACTIVE", "STARTING", "RUNNING", "STOPPING", "FAULTED"}
    /\ descriptor \in Apps \cup {NoApp} /\ contextValid \in {0, 1}
    /\ generation \in 1 .. CounterMax /\ epoch \in 1 .. CounterMax /\ retired \in {0, 1}
    /\ firstError \in Errors /\ stopReason \in Reasons
    /\ startEntered \in {0, 1} /\ stopCalled \in {0, 1}
    /\ closeRequested \in {0, 1} /\ teardownStarted \in {0, 1}
    /\ callbackActive \in {0, 1} /\ renderPending \in {0, 1}
    /\ sessions \subseteq Sessions \cup {"base"} /\ lightsSuspended \in {0, 1}
    /\ active \in Apps \cup {NoApp} /\ transition \in {0, 1} /\ opening \in {0, 1}
    /\ pendingClose \in Reasons \cup {"none"} /\ pendingInput \in {0, 1}
    /\ surfaceValid \in {0, 1} /\ batch \in {"none", "batch", "locked"} /\ hasDraw \in {0, 1}
    /\ pc \in {"main", "launch", "prepare", "start", "event", "poll", "render", "close",
               "stop", "cleanup"}
    /\ caller \in {"open", "switch", "close", "event", "timer", "poll", "render"}
    /\ target \in Apps \cup {NoApp}
    /\ tokens \subseteq Token /\ delivered \in Token /\ instances \in Nat

Init ==
    /\ state = "INACTIVE" /\ descriptor = NoApp /\ contextValid = 0
    /\ generation = 1 /\ epoch = 1 /\ retired = 0
    /\ firstError = "OK" /\ stopReason = "COMPLETED"
    /\ startEntered = 0 /\ stopCalled = 0 /\ closeRequested = 0 /\ teardownStarted = 0
    /\ callbackActive = 0 /\ renderPending = 0
    /\ sessions = {} /\ lightsSuspended = 0
    /\ active = NoApp /\ transition = 0 /\ opening = 0
    /\ pendingClose = "none" /\ pendingInput = 0
    /\ surfaceValid = 0 /\ batch = "none" /\ hasDraw = 0
    /\ pc = "main" /\ caller = "event" /\ target = NoApp
    /\ tokens = {} /\ delivered = NoToken /\ instances = 0

(* retain_error *)
Retain(e) == firstError' = IF firstError = "OK" THEN e ELSE firstError

(* A callback begins: enter_callback. *)
Enter(p) == pc' = p /\ callbackActive' = 1

-----------------------------------------------------------------------------
(* teardown and terminate_running. *)

(* terminate_running delivers the Runtime Close event first. *)
Terminate(reason, to) ==
    /\ stopReason' = reason
    /\ Enter("close")
    /\ caller' = to

(* Mutant: an app whose start failed is not stopped. *)
TeardownStopsRunning(reason, errors) ==
    /\ teardownStarted' = 1 /\ stopReason' = reason
    /\ IF epoch # CounterMax
       THEN epoch' = epoch + 1 /\ UNCHANGED retired
       ELSE retired' = 1 /\ UNCHANGED epoch
    /\ \E e \in errors : Retain(e)
    /\ IF state = "RUNNING" /\ stopCalled = 0
       THEN state' = "STOPPING" /\ stopCalled' = 1 /\ Enter("stop")
       ELSE pc' = "cleanup" /\ callbackActive' = 0 /\ UNCHANGED <<state, stopCalled>>
    /\ UNCHANGED <<generation, startEntered>>

(* teardown: the epoch is retired, the deadline computed (or, that failing,  *)
(* already expired), and stop called if start was entered.                   *)
Teardown(reason, errors) ==
    /\ teardownStarted' = 1 /\ stopReason' = reason
    /\ IF epoch # CounterMax
       THEN epoch' = epoch + 1 /\ UNCHANGED retired
       ELSE retired' = 1 /\ UNCHANGED epoch
    /\ \E e \in errors : Retain(e)
    /\ IF startEntered = 1 /\ stopCalled = 0
       THEN state' = "STOPPING" /\ stopCalled' = 1 /\ Enter("stop")
       ELSE pc' = "cleanup" /\ callbackActive' = 0 /\ UNCHANGED <<state, stopCalled>>
    /\ UNCHANGED <<generation, startEntered>>

(* The callback for the Runtime Close event returns, with or without error.  *)
CloseReturns ==
    /\ pc = "close"
    /\ Teardown(stopReason, {"OK", "CLOSE", "DEADLINE"})
    /\ UNCHANGED <<descriptor, contextValid, closeRequested, renderPending, scope, switchVars,
                   display, caller, target, history>>

StopReturns ==
    /\ pc = "stop"
    /\ \E e \in {"OK", "STOP"} : Retain(e)
    /\ callbackActive' = 0
    /\ pc' = "cleanup"
    /\ UNCHANGED <<state, descriptor, contextValid, counters, stopReason, runtimeFlags,
                   renderPending, scope, switchVars, display, caller, target, history>>

(* invalidate_instance: generations do not wrap. *)
Exhausted == generation = CounterMax \/ epoch = CounterMax

(* What the caller of the teardown does next: the switch is brought in line  *)
(* with the runtime, and an app that waited for the old one is launched,     *)
(* unless the old one left an error.                                         *)
AfterTeardown(error) ==
    /\ active' = NoApp
    /\ surfaceValid' = 0
    /\ opening' = 0
    /\ pendingInput' = IF caller \in {"switch", "close"} THEN 0 ELSE pendingInput
    /\ UNCHANGED pendingClose
    /\ IF caller = "switch" /\ error = "OK"
       THEN pc' = "launch" /\ UNCHANGED <<transition, target>>
       ELSE pc' = "main" /\ transition' = 0 /\ target' = NoApp

(* Mutant: lights that the app claimed stay with it. *)
CleanupKeepsLights ==
    /\ pc = "cleanup"
    /\ sessions' = {} /\ UNCHANGED lightsSuspended
    /\ batch' = "none" /\ hasDraw' = 0
    /\ \E e \in {"OK", "RETIRE"} : Retain(e)
    /\ contextValid' = 0 /\ descriptor' = NoApp
    /\ startEntered' = 0 /\ stopCalled' = 0 /\ closeRequested' = 0 /\ teardownStarted' = 0
    /\ callbackActive' = 0 /\ renderPending' = 0
    /\ IF Exhausted
       THEN state' = "FAULTED" /\ retired' = 1 /\ UNCHANGED <<generation, epoch>>
       ELSE /\ state' = "INACTIVE" /\ retired' = 0
            /\ generation' = generation + 1 /\ epoch' = epoch + 1
    /\ AfterTeardown(firstError')
    /\ UNCHANGED <<stopReason, caller, history>>

(* Sessions are retired, which a failure of the provider does not prevent,   *)
(* the integration gives back what it holds, and the slot is invalidated.    *)
Cleanup ==
    /\ pc = "cleanup"
    /\ sessions' = {} /\ lightsSuspended' = 0
    /\ batch' = "none" /\ hasDraw' = 0
    /\ \E e \in {"OK", "RETIRE"} : Retain(e)
    /\ contextValid' = 0 /\ descriptor' = NoApp
    /\ startEntered' = 0 /\ stopCalled' = 0 /\ closeRequested' = 0 /\ teardownStarted' = 0
    /\ callbackActive' = 0 /\ renderPending' = 0
    /\ IF Exhausted
       THEN state' = "FAULTED" /\ retired' = 1 /\ UNCHANGED <<generation, epoch>>
       ELSE /\ state' = "INACTIVE" /\ retired' = 0
            /\ generation' = generation + 1 /\ epoch' = epoch + 1
    /\ AfterTeardown(firstError')
    /\ UNCHANGED <<stopReason, caller, history>>

-----------------------------------------------------------------------------
(* hk_app_switch_open and hk_app_runtime_launch. *)

(* Called from the main loop; an app that is open is closed first.           *)
OpenCall(app) ==
    /\ pc = "main" /\ transition = 0 /\ instances < MaxInstances
    /\ transition' = 1 /\ target' = app
    /\ IF active # NoApp
       THEN Terminate("SWITCH", "switch")
       ELSE pc' = "launch" /\ caller' = "open" /\ UNCHANGED <<stopReason, callbackActive>>
    /\ UNCHANGED <<state, descriptor, contextValid, counters, firstError, runtimeFlags,
                   renderPending, scope, active, opening, pendingClose, pendingInput,
                   display, history>>

Launchable == retired = 0 /\ state = "INACTIVE" /\ target \notin Invalid

LaunchRefused ==
    /\ pc = "launch" /\ ~Launchable
    /\ pendingClose' = "none" /\ pendingInput' = 0
    /\ active' = NoApp /\ opening' = 0 /\ transition' = 0 /\ target' = NoApp
    /\ pc' = "main"
    /\ UNCHANGED <<state, descriptor, contextValid, counters, firstError, stopReason,
                   runtimeFlags, callbackActive, renderPending, scope, display, caller, history>>

Launch ==
    /\ pc = "launch" /\ Launchable
    /\ opening' = 1 /\ pendingClose' = "none" /\ pendingInput' = 0
    /\ active' = target /\ descriptor' = target
    /\ firstError' = "OK" /\ stopReason' = "COMPLETED"
    /\ contextValid' = 1
    /\ state' = "STARTING"
    /\ caller' = "open"
    /\ instances' = instances + 1
    /\ pc' = "prepare"
    /\ UNCHANGED <<counters, runtimeFlags, callbackActive, renderPending, scope, transition,
                   display, target, tokens, delivered>>

(* prepare opens and binds the BASE plane. *)
Prepared ==
    /\ pc = "prepare"
    /\ sessions' = sessions \cup {"base"}
    /\ startEntered' = 1
    /\ Enter("start")
    /\ UNCHANGED <<state, descriptor, contextValid, counters, firstError, stopReason, stopCalled,
                   closeRequested, teardownStarted, renderPending, lightsSuspended, switchVars,
                   display, caller, target, history>>

(* The plane is busy, or it opens and cannot be bound. *)
PrepareFails ==
    /\ pc = "prepare"
    /\ sessions' \in {sessions, sessions \cup {"base"}}
    /\ Teardown("FORCED", {"PREPARE"})
    /\ UNCHANGED <<descriptor, contextValid, closeRequested, renderPending, lightsSuspended,
                   switchVars, display, caller, target, history>>

StartFails ==
    /\ pc = "start"
    /\ Teardown("START_FAILED", {"START"})
    /\ UNCHANGED <<descriptor, contextValid, closeRequested, renderPending, scope, switchVars,
                   display, caller, target, history>>

(* Mutant: a close that arrived during start is forgotten. *)
AfterStartForgetsClose ==
    IF pendingInput = 1
    THEN /\ Enter("event") /\ caller' = "event" /\ pendingInput' = 0
         /\ UNCHANGED <<stopReason, pendingClose>>
    ELSE /\ pc' = "main" /\ callbackActive' = 0 /\ pendingClose' = "none"
         /\ UNCHANGED <<stopReason, caller, pendingInput>>

(* What open does once the instance runs: a close that arrived during start  *)
(* is obeyed at once, an input that arrived then is dispatched.              *)
AfterStart ==
    \/ /\ pendingClose # "none"
       /\ Terminate(pendingClose, "close")
       /\ pendingClose' = "none" /\ UNCHANGED pendingInput
    \/ /\ pendingClose = "none" /\ pendingInput = 1
       /\ Enter("event") /\ caller' = "event" /\ pendingInput' = 0
       /\ UNCHANGED <<stopReason, pendingClose>>
    \/ /\ pendingClose = "none" /\ pendingInput = 0
       /\ pc' = "main" /\ callbackActive' = 0
       /\ UNCHANGED <<stopReason, caller, pendingClose, pendingInput>>

StartReturns ==
    /\ pc = "start"
    /\ state' = "RUNNING"
    /\ renderPending' = IF descriptor \in Rendering THEN 1 ELSE 0
    /\ closeRequested' = 0
    /\ opening' = 0 /\ transition' = 0 /\ target' = NoApp
    /\ delivered' = NoToken
    /\ AfterStart
    /\ UNCHANGED <<descriptor, contextValid, counters, firstError, startEntered, stopCalled,
                   teardownStarted, scope, active, display, tokens, instances>>

(* The first due time cannot be computed: the instance is stopped again.     *)
StartUntimed ==
    /\ pc = "start"
    /\ state' = "RUNNING"
    /\ renderPending' = IF descriptor \in Rendering THEN 1 ELSE 0
    /\ closeRequested' = 0
    /\ Terminate("DEADLINE", "open")
    /\ UNCHANGED <<descriptor, contextValid, counters, firstError, startEntered, stopCalled,
                   teardownStarted, scope, switchVars, display, target, history>>

-----------------------------------------------------------------------------
(* hk_app_switch_close from the main loop, and re-entrantly during start.    *)

CloseCall(reason) ==
    /\ pc = "main" /\ active # NoApp
    /\ transition' = 1
    /\ Terminate(reason, "close")
    /\ UNCHANGED <<state, descriptor, contextValid, counters, firstError, runtimeFlags,
                   renderPending, scope, active, opening, pendingClose, pendingInput,
                   display, target, history>>

CloseDuringStart(reason) ==
    /\ pc = "start" /\ pendingClose = "none"
    /\ pendingClose' = reason
    /\ UNCHANGED <<state, descriptor, contextValid, counters, firstError, stopReason,
                   runtimeFlags, callbackActive, renderPending, scope, active, transition,
                   opening, pendingInput, display, pc, caller, target, history>>

InputDuringStart ==
    /\ pc = "start"
    /\ pendingInput' = 1
    /\ UNCHANGED <<state, descriptor, contextValid, counters, firstError, stopReason,
                   runtimeFlags, callbackActive, renderPending, scope, active, transition,
                   opening, pendingClose, display, pc, caller, target, history>>

-----------------------------------------------------------------------------
(* Events: input, media, wakeup and timer. *)

Dispatch(to, token) ==
    /\ pc = "main" /\ state = "RUNNING"
    /\ Enter("event")
    /\ caller' = to
    /\ delivered' = token
    /\ UNCHANGED <<state, descriptor, contextValid, counters, firstError, stopReason,
                   runtimeFlags, renderPending, scope, switchVars, display, target,
                   tokens, instances>>

(* Input and media events; nothing happens when no app is active.            *)
EventCall == active # NoApp /\ Dispatch("event", NoToken)

(* hk_app_switch_poll: the tick is due ... *)
TimerCall == active # NoApp /\ Dispatch("timer", NoToken)

(* ... or it is not, or the clock fails before it. *)
PollCall ==
    /\ pc = "main" /\ active # NoApp
    /\ pc' = "poll" /\ caller' = "poll"
    /\ UNCHANGED <<state, descriptor, contextValid, counters, firstError, stopReason,
                   runtimeFlags, callbackActive, renderPending, scope, switchVars, display,
                   target, history>>

(* Mutant: a token of another instance passes. *)
TokenValidRunning(t) == state = "RUNNING" /\ contextValid = 1

(* hk_app_runtime_validate_wakeup_token *)
TokenValid(t) ==
    /\ state = "RUNNING" /\ contextValid = 1
    /\ t.generation = generation /\ t.epoch = epoch

WakeupCall(t) == t \in tokens /\ TokenValid(t) /\ Dispatch("event", t)

EventReturns ==
    /\ pc = "event" /\ closeRequested = 0
    /\ callbackActive' = 0
    /\ pc' = IF caller = "timer" THEN "poll" ELSE "main"
    /\ delivered' = NoToken
    /\ UNCHANGED <<state, descriptor, contextValid, counters, firstError, stopReason,
                   runtimeFlags, renderPending, scope, switchVars, display, caller, target,
                   tokens, instances>>

(* dispatch_result: a failure, or a close the app asked for. *)
CallbackEnds(p, to) ==
    /\ pc = p
    /\ \/ Retain("CALLBACK") /\ Terminate("CALLBACK_FAILED", to)
       \/ closeRequested = 1 /\ UNCHANGED firstError /\ Terminate("COMPLETED", to)
    /\ delivered' = NoToken
    /\ UNCHANGED <<state, descriptor, contextValid, counters, runtimeFlags, renderPending,
                   scope, switchVars, display, target, tokens, instances>>

EventEnds == CallbackEnds("event", "event")

-----------------------------------------------------------------------------
(* The end of poll_tick, and poll_render. *)

(* deadline_failure and callback_failure: hk_app_switch_close. *)
FailPoll(reason) == transition' = 1 /\ Terminate(reason, "close")

PollOver ==
    /\ pc' = "main"
    /\ UNCHANGED <<transition, stopReason, callbackActive, caller>>

(* The timer callback took longer than its budget, or the clock failed       *)
(* before or after it.                                                       *)
TickOverBudget ==
    /\ pc = "poll" /\ FailPoll("DEADLINE")
    /\ UNCHANGED <<state, descriptor, contextValid, counters, firstError, runtimeFlags,
                   renderPending, scope, active, opening, pendingClose, pendingInput,
                   display, target, history>>

(* Nothing to render, or the display is busy: the request stays.  That the   *)
(* display is absent (the request is dropped) needs a BASE plane closed.     *)
RenderSkipped ==
    /\ pc = "poll" /\ PollOver
    /\ UNCHANGED <<state, descriptor, contextValid, counters, firstError, runtimeFlags,
                   renderPending, scope, active, opening, pendingClose, pendingInput,
                   display, target, history>>

(* render_begin, an invalidation or the clock fails.  What was begun is      *)
(* aborted; the abort may fail too, and the close then clears the rest.      *)
RenderFails ==
    /\ pc = "poll" /\ renderPending = 1
    /\ FailPoll("CALLBACK_FAILED") \/ FailPoll("DEADLINE")
    /\ batch' \in {"none", "batch"} /\ hasDraw' = 0
    /\ UNCHANGED <<state, descriptor, contextValid, counters, firstError, runtimeFlags,
                   renderPending, scope, active, opening, pendingClose, pendingInput,
                   surfaceValid, target, history>>

(* The pending requests are consumed before the callback. *)
RenderBegin ==
    /\ pc = "poll" /\ renderPending = 1
    /\ batch' = "batch" /\ hasDraw' = 0 /\ surfaceValid' = 1
    /\ renderPending' = 0
    /\ Enter("render")
    /\ caller' = "render"
    /\ UNCHANGED <<state, descriptor, contextValid, counters, firstError, stopReason,
                   runtimeFlags, scope, switchVars, target, history>>

(* render_abort, which leaves the transaction as it is if the display fails. *)
RenderAbort ==
    \/ batch' = "none" /\ hasDraw' = 0
    \/ UNCHANGED <<batch, hasDraw>>

(* The pass took too long, or presenting fails: the transaction is aborted   *)
(* and the app closed.                                                       *)
RenderOverBudget ==
    /\ pc = "render" /\ closeRequested = 0
    /\ surfaceValid' = 0 /\ RenderAbort
    /\ FailPoll("DEADLINE") \/ FailPoll("CALLBACK_FAILED")
    /\ UNCHANGED <<state, descriptor, contextValid, counters, firstError, runtimeFlags,
                   renderPending, scope, active, opening, pendingClose, pendingInput,
                   target, history>>

(* Mutant: the requests are consumed after the pass. *)
RenderReturnsCommits ==
    /\ pc = "render" /\ closeRequested = 0 /\ batch # "none"
    /\ surfaceValid' = 0 /\ batch' = "none" /\ hasDraw' = 0
    /\ renderPending' = 0
    /\ pc' = "main" /\ callbackActive' = 0
    /\ UNCHANGED <<state, descriptor, contextValid, counters, firstError, stopReason,
                   runtimeFlags, scope, switchVars, caller, target, history>>

(* The pass is presented; without a transaction that fails. *)
RenderReturns ==
    /\ pc = "render" /\ closeRequested = 0 /\ batch # "none"
    /\ surfaceValid' = 0 /\ batch' = "none" /\ hasDraw' = 0
    /\ pc' = "main" /\ callbackActive' = 0
    /\ UNCHANGED <<state, descriptor, contextValid, counters, firstError, stopReason,
                   runtimeFlags, renderPending, scope, switchVars, caller, target, history>>

RenderEnds == CallbackEnds("render", "render")

-----------------------------------------------------------------------------
(* What an app may call from inside a callback. *)

InCallback == callbackActive = 1 /\ contextValid = 1

RequestClose ==
    /\ InCallback /\ state = "RUNNING"
    /\ closeRequested' = 1
    /\ UNCHANGED <<state, descriptor, contextValid, counters, firstError, stopReason,
                   startEntered, stopCalled, teardownStarted, callbackActive, renderPending,
                   scope, switchVars, display, pc, caller, target, history>>

RequestRender ==
    /\ InCallback /\ state = "RUNNING" /\ descriptor \in Rendering
    /\ renderPending' = 1
    /\ UNCHANGED <<state, descriptor, contextValid, counters, firstError, stopReason,
                   runtimeFlags, callbackActive, scope, switchVars, display, pc, caller,
                   target, history>>

WakeupToken ==
    /\ InCallback /\ state = "RUNNING" /\ Cardinality(tokens) < MaxTokens
    /\ tokens' = tokens \cup {[generation |-> generation, epoch |-> epoch,
                               instance |-> instances]}
    /\ UNCHANGED <<state, descriptor, contextValid, counters, firstError, stopReason,
                   runtimeFlags, callbackActive, renderPending, scope, switchVars, display,
                   pc, caller, target, delivered, instances>>

(* hk_app_context_lights, _display and _external_link: a new session, but    *)
(* not once teardown has begun; the settings hand over the lights first, and *)
(* get them back if the session does not open.                               *)
OpenSession(s) ==
    /\ InCallback /\ s \notin sessions /\ teardownStarted = 0
    /\ sessions' = sessions \cup {s}
    /\ lightsSuspended' = IF s = "lights" THEN 1 ELSE lightsSuspended
    /\ UNCHANGED <<state, descriptor, contextValid, counters, firstError, stopReason,
                   runtimeFlags, callbackActive, renderPending, switchVars, display, pc,
                   caller, target, history>>

(* hk_lights_close, hk_display_close, hk_external_link_close by the app.  The *)
(* settings get the lights back only when the instance ends.                 *)
CloseSession(s) ==
    /\ InCallback /\ s \in sessions
    /\ sessions' = sessions \ {s}
    /\ UNCHANGED <<state, descriptor, contextValid, counters, firstError, stopReason,
                   runtimeFlags, callbackActive, renderPending, lightsSuspended, switchVars,
                   display, pc, caller, target, history>>

(* hk_app_surface_clear, _fill_rect, _stroke_rect, _text, _blit: on a valid  *)
(* surface, whichever callback is running, but not on a locked one.          *)
SurfaceDraw ==
    /\ InCallback /\ surfaceValid = 1 /\ batch = "batch"
    /\ hasDraw' = 1
    /\ UNCHANGED <<state, descriptor, contextValid, counters, firstError, stopReason,
                   runtimeFlags, callbackActive, renderPending, scope, switchVars,
                   surfaceValid, batch, pc, caller, target, history>>

(* hk_app_surface_lock: only in a pass that has drawn nothing; the batch is  *)
(* given up first, so a lock that fails leaves no transaction.               *)
SurfaceLock ==
    /\ InCallback /\ surfaceValid = 1 /\ batch # "locked" /\ hasDraw = 0
    /\ batch' \in {"locked", "none"}
    /\ UNCHANGED <<state, descriptor, contextValid, counters, firstError, stopReason,
                   runtimeFlags, callbackActive, renderPending, scope, switchVars,
                   surfaceValid, hasDraw, pc, caller, target, history>>

-----------------------------------------------------------------------------
(* A callback returns; the code after it runs to the next callback. *)
Return ==
    \/ CloseReturns \/ StopReturns \/ Cleanup \/ LaunchRefused \/ Launch \/ Prepared
    \/ PrepareFails \/ StartFails \/ StartReturns \/ StartUntimed
    \/ EventReturns \/ EventEnds \/ RenderReturns \/ RenderEnds \/ RenderOverBudget

Poll == TickOverBudget \/ RenderSkipped \/ RenderFails \/ RenderBegin

Call ==
    \/ \E app \in Apps : OpenCall(app)
    \/ \E reason \in {"FORCED", "CALLBACK_FAILED"} : CloseCall(reason) \/ CloseDuringStart(reason)
    \/ InputDuringStart \/ EventCall \/ TimerCall \/ PollCall
    \/ \E t \in tokens : WakeupCall(t)

AppCall ==
    \/ RequestClose \/ RequestRender \/ WakeupToken \/ SurfaceDraw \/ SurfaceLock
    \/ \E s \in Sessions : OpenSession(s) \/ CloseSession(s)

(* The main loop with no app open, or a call that changes nothing. *)
Idle == pc = "main" /\ UNCHANGED vars

Next == Return \/ Poll \/ Call \/ AppCall \/ Idle

Spec == Init /\ [][Next]_vars

(* Callbacks are bounded; the main loop polls a running app again and again, *)
(* and the display is not busy for ever.                                     *)
Fairness ==
    /\ WF_vars(Return) /\ WF_vars(Poll)
    /\ SF_vars(TimerCall) /\ SF_vars(RenderBegin)

FairSpec == Spec /\ Fairness

-----------------------------------------------------------------------------
(* Properties. *)

(* The stage of docs/spec/APP_RUNTIME.md that the instance is in. *)
Phase ==
    IF state = "FAULTED" THEN "faulted"
    ELSE IF state = "INACTIVE" THEN "none"
    ELSE IF pc = "prepare" THEN "preparing"
    ELSE IF pc = "start" THEN "starting"
    ELSE IF pc = "close" THEN "closing"
    ELSE IF pc = "stop" THEN "stopping"
    ELSE IF pc = "cleanup" THEN "cleaning"
    ELSE "running"

(* Every instance goes through the stages of the contract in their order,    *)
(* whichever call, failure or close ends it: the close event, stop and       *)
(* cleanup run exactly once where the failure table says so, and the first   *)
(* error is kept.                                                            *)
Life == INSTANCE AppLifecycle WITH NoError <- "OK", phase <- Phase,
            instance <- instances, error <- firstError

ImplementsLifecycle == Life!LifeSpec

(* Back in the main loop the switch and the runtime agree, and nothing of a  *)
(* finished transition, render pass or instance is left.                     *)
SwitchInSync ==
    pc = "main" =>
        /\ active = descriptor /\ (active # NoApp <=> state = "RUNNING")
        /\ transition = 0 /\ opening = 0 /\ callbackActive = 0
        /\ surfaceValid = 0 /\ batch = "none" /\ hasDraw = 0

(* No session and no claim on the settings' lights outlives its instance;    *)
(* stop runs with every session of the instance, and no other one.           *)
ScopeReturned ==
    state \in {"INACTIVE", "FAULTED"} => sessions = {} /\ lightsSuspended = 0

(* Once teardown has begun, the app cannot obtain a session any more, also   *)
(* not from its stop callback, whose context is still valid.                 *)
NoOpenInTeardown == [][teardownStarted = 1 => sessions' \subseteq sessions]_vars

(* A wakeup reaches app code only in the instance that handed out its token, *)
(* also when generations run out.                                            *)
StaleWorkRejected ==
    pc = "event" /\ delivered # NoToken => delivered.instance = instances

(* Drawing commands and locking the surface exclude each other in a pass.    *)
LockExcludesDraw == batch = "locked" => hasDraw = 0

(* A render request of a running app is served by a later pass, also one     *)
(* made inside the pass that is in progress, unless the app ends first.      *)
RenderServed ==
    renderPending = 1 ~> (pc = "render" /\ renderPending = 0) \/ state # "RUNNING"

(* A close that arrives during start is obeyed: the instance is not left     *)
(* running.                                                                  *)
PendingCloseObeyed == pendingClose # "none" ~> state \in {"INACTIVE", "FAULTED"}
=============================================================================
