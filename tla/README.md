# HackyLens firmware: TLA+ models, checks and proofs

HackyLens is firmware for a camera board with a two-core K210 chip: a menu of
applications on core 0, one job at a time on core 1 (a MicroPython VM or the
AprilTag detector), user programs and settings on the internal flash, and a host
protocol (HMPY) over the console. This directory holds the specifications of
its control logic, the TLC configurations that check them, and TLAPS proofs of
every safety property they check. Paths below are relative to `firmware/src`
unless they begin with `docs/`.

Run a check with `tlc -workers 2 -config X.cfg M` and a proof with
`tlapm MProofs.tla`. `PROJECT.json` lists components, runs, mutants, the map from
definitions to source lines, hazards and theorems.

## 1. Inventory

| Component | State | Operations | What is hard |
|---|---|---|---|
| Core-1 executor (`services/core1_executor.c`) | control block shared by the cores: started, online, start-failed latch, request and complete ticket, job | init, submit, complete, wait; the loop on core 1 | two cores, words stored separately, tickets that wrap, a start that times out late |
| MicroPython runtime (`services/micropython_runtime.c`) | shared block: state, exit reason, run id, stop flag, deadlines; `g_ticket`; the output ring | start, request_stop, poll, worker, VM hook, watchdog, output write and read | core 0 and core 1 both store the state; the terminal state precedes the end of the job; the watchdog may reset the chip |
| Capability bridge (`adapters/micropython/micropython_capability_bridge.c`) | one request slot with ticket, accept, cancel, acknowledge and complete words; display stage, leases | call on core 1; tick, prepare, cleanup on core 0 | cancellation against execution, rollback of a failed drawing call, leases left by a script |
| AprilTag detector (`apps/apriltag/apriltag_detector.c`) | worker state, job kind, sequences, two result banks, the detector | init, submit, results, deinit, service tick; create, detect, destroy jobs | jobs that outlive their session, time-outs, bank reuse |
| Application runtime and switch (`app_runtime/`, `runtime/app_runtime_integration.c`) | runtime state, generation and epoch, sessions, tokens; switch with pending close and input; render surface | open, close, dispatch, poll, render; the context calls of an app | re-entrant close during start, failures in teardown, stale tokens |
| Program store (`storage/userfs.c`) | littlefs volume: files, `.startup`, temporaries; the upload in RAM | mount, unmount, format, list, stat, read, remove, upload begin/write/commit/abort, set/get startup | power loss and failing flash between any two littlefs calls |
| HMPY session (`services/hmpy_session.c`) | session, lease, upload id and last chunk, read stream, cursors | a handler per request, pumps, tick | lost and repeated frames, a host that disappears, other users of the store |
| Settings store (`storage/settings_store.c`, `services/settings_persistence.c`) | two flash slots; sequence, slot in use, dirty flag, countdown | init, save, mark dirty, tick, flush | power loss while saving, bad programs, old record versions |
| Internal and boot flash (`storage/internal_flash.c`, `drivers/boot_flash.c`) | initialized, faulted, capacity | init, read, erase, program | the fault latch decides what later calls of the stores can do |
| Camera pipeline (`drivers/camera_stream.c`, `services/camera_session*.c`, `services/camera_capture.c`, `services/frame_pool.c`) | frame slots, capture slot, pause and sync flags, leases; session flags; the snapshot; who holds the pool | start, stop, pause, resume, acquire, release, drop; snapshot; DVP start and finish interrupts | the interrupt against the lease of the main loop, every way a snapshot can end |
| AI model runtime (`services/ai_model_runtime.c`, `services/camera_ai_input.c`), object and face detection | model state, owner, busy flag; AI planes and who reads them; epochs and result banks | load, run, collect, request unload, tick, limit unload; arm, take, release | the KPU interrupt, unload while it runs, planes written by the camera and read by the accelerator |
| Display capability (`capabilities/display.c`, `platforms/k210/capabilities/display_adapter.c`) | panel, shadow, batch, committed overlay, repair lists, workspace | acquire, open, draw, borrow and write the shadow, present, abort, checkpoint, restore, release, retire | transfers that stop half-way, lists that overflow, memory shared with the camera |
| Lights, input, time, power capabilities | sessions | open, claim, release, register access | none of their own |
| External link (`capabilities/external_link.c`, `platforms/k210/capabilities/external_link_adapter.c`, `services/external_link_service.c`, `services/external_link_protocol.c`) | claimant, mode, operation and its generation; UART ring, target buffers and events; parser, response, transport | claim, configure, read, write, begin, poll, cancel, preload, release, retire; service tick; suspend and resume; I2C interrupts | interrupts filling buffers behind a slow caller, deadlines, one memory for parser and response |
| Shell and main loop (`runtime/hk_main.c`, `core/`, `controllers/`) | menu, display ownership, sleep, autostart | rounds of the main loop | display ownership between menu and applications |
| FAT32 and SD card (`storage/fat32_*.c`, `drivers/sd_spi.c`) | FAT, directory, card state | mount, read, create, write | failing writes half-way |
| Applications, decoders, drawing | user interface state | menus and rendering | little control; byte-level decoding |

How they interact. The main loop on core 0 gives every controller a tick in every
round: the application switch, the runtime's poll, the bridge's tick, the
HMPY session, the settings countdown, the cleanup of retired resources. Core 1
runs the executor loop only, and sees core 0 through three blocks of shared memory:
the executor's control block, the runtime's shared block and the bridge's slot
(and the detector's own words while its job runs). The runtime and the detector
are the two clients of the executor. The HMPY session, the MicroPython app and
the power-off sequence are the users of the program store; settings and program
store share the flash.
The camera's interrupts feed one frame pool, from which the display takes its
workspace when the camera does not run; the detectors share the AI planes and the
accelerator; the native service and scripts share the external connector, and
scripts reach connector, lights and overlay through the bridge.

What makes each of them correct is the list of properties in section 4; the
places where it could go wrong are the `hazards` of `PROJECT.json`.

## 2. Plan

Done, in this order: the executor and its one-slot contract; the runtime on top of
that contract; the bridge; the AprilTag detector; the application runtime; the
program store and the HMPY session composed with it; the output ring; the settings
store; the camera stream and the model runtime, composed with the applications
that use them; the external connector composed with its service, the script and
the device at the other end; the display. Every invariant, action property and
refinement of the runs has since been proved.

What could be added:

1. `FatChain`: cluster allocation and directory entries across a failing write.
2. The MicroPython application: its list of programs, which other users of the
   store change under it, and its view of a run.
3. `Shell`: menu, display ownership, sleep and autostart over `AppLifecycle`.

## 3. Modules

| Module | Models | Composition |
|---|---|---|
| `JobSlot` | abstract: the executor runs one job at a time | base of the two clients |
| `Core1Executor` | the executor at the grain of its shared words | implements `JobSlot` |
| `MicroPythonRuntime` | start, stop, poll, watchdog; the worker | EXTENDS `JobSlot` |
| `OutputRing` | the ring of script output, its writer and two readers | |
| `CapabilityBridge` | the request slot and what core 0 does for it | |
| `ApriltagDetector` | detector jobs, banks and the deferred cleanup | EXTENDS `JobSlot` |
| `AppLifecycle` | abstract: the life of an application instance | |
| `AppRuntime` | runtime, switch, surface and integration | implements `AppLifecycle` |
| `UserFs` | the program store, one littlefs call a step | |
| `HmpySession` | the HMPY session | EXTENDS `UserFs` |
| `DurableSettings` | abstract: one cell that survives power loss | |
| `SettingsStore` | two slots, delayed saves | implements `DurableSettings` |
| `CameraStream` | frame slots, pool, DVP peripheral and AI planes, as operators on one record | |
| `AiModelRuntime` | the model runtimes and the accelerator, as operators on one record | |
| `VisionApps` | session, preview loop, detectors, photo, QR, console | EXTENDS `CameraStream`, `AiModelRuntime` |
| `ExternalLink` | the connector: claim, modes, buffers, interrupts, as operators on one record | |
| `LinkService` | native service, parser, script bridge, the device on the cable | EXTENDS `ExternalLink` |
| `Display` | planes, batches, overlay, repair lists, workspace, panel | |
| `Core1ExecutorProofs`, `AppRuntimeProofs`, `CapabilityBridgeProofs`, `SettingsStoreProofs` | theorems of the module of that name | EXTENDS it |
| `UserFsProofs` | theorems of `UserFs`, and of `HmpySession` over it | EXTENDS both |
| `MicroPythonRuntimeProofs` | theorems of `MicroPythonRuntime` and `OutputRing` | EXTENDS both |
| `VisionAppsProofs` | theorems of `VisionApps` and `ApriltagDetector` | EXTENDS both |
| `AdapterProofs` | theorems of `LinkService` and `Display` | EXTENDS both |
| `MC*` | TLC instances | |

Modules that share a proof module keep their specifications apart by name: `DetectorSpec`,
`RingSpec`, `LinkSpec`, `DisplaySpec`; every other one is `Spec`, and `SessionSpec` is the
session's over `Spec` of the store.

### How state and steps correspond to the code

*Two cores.* In `Core1Executor`, `MicroPythonRuntime`, `CapabilityBridge`,
`ApriltagDetector` and `OutputRing` each core is a program counter (`pc0`, `pc1`,
`pcw`, or the position of a call), and a step is the code up to the next access
that the other core can observe. The shared blocks are accessed through the
uncached alias and with fences, so the steps are sequentially consistent.
Time is what the code compares it with: `deadline` and `stopClock` say which limit
has passed.

*Executor.* `InitStart`/`InitWaited`/`InitTimeout`/`InitReturn` are
`core1_executor_init`; `SubmitCall`, `SubmitGate`, `SubmitStore`, `SubmitPublish`
are `core1_executor_submit`; the `Loop...` actions are the loop; `Complete` is
`core1_executor_complete` with its signed difference of tickets of width
`TicketMax + 1`. The clients of the executor see only `JobSlot`: submit when idle, a
job begins, returns, and is complete. `ImplementsSlot` is what justifies it.

*Runtime.* `Poll...`, `Start...` and `Stop...` are the functions of those names,
split where the worker can interfere; `Worker...` and `Vm...` are
`micropython_worker` with the VM as a choice of what a script may do (run on, end,
raise, make a binding call, be interrupted by the hook). The watchdog is four steps: the
decision (`PollWatch`), the second read of the state (`PollRecheck`), the arming
(`PollArm`), and `WatchdogResets` a time-out later, after which the SoC boots into `Init`;
core 1 goes on between any two of them. `overdue` and `late` are history: that the run has used
up a grace period, and that its result came after the second read. `OtherSubmit` and
`OtherRuns` are the other client of the executor.

*Bridge.* `Call...` is a binding call on core 1, `Tick...`, `Exec...` and
`External...` the service tick and each kind of command, `Prepare` and `Cleanup`
what the runtime calls; the staged display commands are a sequence of call ids.

*AprilTag.* `Init...`, `Create...`, `Submit...`, `ReadResults`, `Deinit...` are the
functions of the detector that the controller calls, `Tick...` the cleanup's service
tick, the rest the three jobs on core 1. Image data is not modelled; a bank
carries the epoch of its session.

*Application runtime.* One thread; `pc` is the callback that is running, and the
code between two callbacks is one action. Inside a callback the app may make every
call of its context (`RequestClose`, `OpenSession`, `WakeupToken`, ...). Each
callback may fail. Three assumptions: apps re-enter the switch only from start
(the contract says so and no app of the repository does otherwise), the app does
not close the BASE plane it was given (so the branch of `poll_render` for a missing display,
which drops the render request, is not taken), and a session whose retirement fails is
quarantined by the platform, that is, it counts as returned.

*Program store.* The disk is `files`, `startup` (the content of `.startup`),
`metaTemp` and `temporary`; `state` to `remount` are the variables of `userfs.c`
and `power_shutdown.c`; `op` is the next littlefs call of the running operation.
littlefs is external: a create, remove, rename or sync changes the disk atomically,
written data reaches it at the sync, `lfs_unmount` touches no flash. A file is
a sequence of chunks from `Data`; its CRC is its content. `device` is
the driver's fault latch: an access that times out sets it and every later access
fails until the next boot; a read that succeeds may come from the caches of
littlefs. A silent misread is excluded. The results NO_SPACE and EXISTS are
merged into IO, since no caller tells them apart in what it does. `published`
is history: what the uploader declared for each name.

*HMPY session.* `Handle...` is the handler of each request, `PumpRead` the read
stream, `LeaseExpires` and `SessionClose` the two ends. The wire is not modelled:
any request may arrive at any tick, which covers lost, repeated, delayed and
reordered frames, and `HostGone` is a host that sends nothing more. `OtherCall`
is the MicroPython app, the line console and the power-off sequence, which use the store
between two ticks. A chunk of the session is empty or one chunk of the store.

*Output ring.* A cell holds the stream position of the byte last written to it, so
that `torn` can say whether a copied byte is the one its offset names. `got` and
`lost` count what each reader was given and what it skipped. A behaviour has one
HMPY session throughout.

*Settings.* The settings are three parts (`core`, `app`, `autostart`), because
records of versions 1, 2 and 3 differ in which of them they hold (`Known`). Encoding and
decoding of a part are taken to be exact inverses for the values the menus can
set; that is a claim about `settings_payload_codec.c`, which is not
modelled (section 6). Sequence numbers do not wrap: 2^32 saves are far beyond
what the flash endures. A slot that is erased, torn or of a wrong checksum is
`NoRecord`.

*Camera and accelerator.* A function of the stream masks the DVP interrupt while it
works, so each is one operator on `cam`; an interrupt may come between any two
of them, and `pc` names the place inside a function of the main loop where it matters
(between acquiring a frame and pausing, between reading the AI state and taking
the input, between the calls of an unload). `pix` and `aiPix` are history: which image a
buffer holds, or none while it is torn. The face detector has the control of the
object detector without the banks; both share the planes and the accelerator.
`cleanup` is the poll that goes on after the application is closed. A model load
or a sensor start is one step that succeeds or fails. The accelerator may never
finish. `restarted` notes the one way in which stale planes can pass for a frame
(section 7).

*External link.* The adapter and its peripherals are the record `link`; a call
runs on core 0 with only interrupts in between, so each call is an operator, and the
interrupts (`Wire...` of the UART, `ControllerIrq`, `TargetIrq`) are actions. A byte is
a token: byte `i` of frame `f`. `peer` is the device on the cable, which asks and
waits for the answer; the line may lose bytes. Losses, deadlines that pass while a
response waits, transport switches and script runs are bounded together by
`FaultMax`. Three simplifications: generations are a ring, where the code refuses the
one after 2^32 - 1; the bytes of a frame behind its magic contain no second magic; and the
target's interrupt keeps up with the bus, that is, its FIFO does not overrun.

*Display.* All calls run on core 0, so a call is an action, and what varies is
where a transfer stops: `panel` then shows the new picture on the rectangles
transferred so far and on a prefix, in scan order, of the one under way. A rectangle
is its set of pixels; `dirty_add` is the least box that absorbs what it
overlaps. The overlay's marks are not modelled: no client marks a region in an overlay
batch. `set_clip` has no caller. `loose` (pixels written in the borrowed
shadow and not yet sent) and `lost` (pixels of the panel changed without an entry
on a repair list, section 7) are history.

## 4. Runs

Every passing run has, for each of its properties, a mutant in `PROJECT.json`: a plausible
bug in one definition under which TLC finds the property violated.

| Run | Bounds | Shows |
|---|---|---|
| `executor` | 2 clients, 2 jobs, tickets 0..7, 9 submissions | `CompletionSound`, `ImplementsSlot`, `JobsComplete` |
| `runtime` | 3 jobs in all | `RunsSeparated`, `ResetOnlyOverdue`, `EveryRunEnds` |
| `bridge` | tickets 0..2, 3 staged commands, 2 runs of 3 calls | `SlotExclusive`, `FailedCallRolledBack`, `LeasesReturned`, `CallsReturn` |
| `apriltag` | 2 sessions, 5 jobs, sequences 0..3 | `BankStable`, `DetectorReclaimed`, `FrameCompletes` |
| `apps` | 3 apps, 2 lazy sessions, counters to 5, 4 instances, 1 token | `ScopeReturned`, `StaleWorkRejected`, `ImplementsLifecycle`, `RenderServed`, `PendingCloseObeyed` |
| `userfs` | 2 names, files of up to 1 chunk, 1 upload id, both kinds of fault | `StartupExists`, `FilesPublished` |
| `hmpy` | 1 name, files of up to 2 chunks of one value, 2 upload ids, no fault | `UploadOwned`, `AckMeansStored`, `NoLeftovers`, `ReadConsistent`, `LeaseEnds` |
| `output` | ring of 2, capacity 1, streams of 4 bytes, 2 runs | `NothingSilent`, `CopyExact`, `ReaderCatchesUp` |
| `settings` | 2 values a part, delay 2, 2 changes, 4 sequence numbers, bad programs and faults | `CleanIsStored`, `ImplementsDurable`, `ChangeSaved` |
| `vision` | 2 slots, 2 leases, 2 frames a session, 2 applications opened, epochs to 3 | `FramesIntact`, `CameraConsistent`, `ResultsCurrent`, `NoOrphanModel` |
| `link` | frames 1..2 in a ring, UART ring of 5, two target buffers of 3, FIFOs of 2, reads of 3, 2 faults | `NoLateEffect`, `TransfersWhole`, `RequestsAnswered` |
| `display` | 2 x 2 pixels, lists of 2 rectangles, batches of 2 commands, 3 colours, 2 failing transfers | `DamageAccounted`, `WorkspaceExact` |

The type invariants are proved (section 5), except that of `VisionApps`, whose parts `CamInv` and
`ModelInv` type the records its theorems are about. All hold in the instances above and are
left out of the configurations, whose properties are about behaviour. So is `StartLatched` of the executor, which is proved. Deadlock is not
checked in `vision`, where every bound may be used up, and in `link`, where a connector that is
quarantined serves nobody until the next boot.

Why the bounds are enough. Ticket and sequence widths are small so that the counters
wrap within a run, with at least one submission beyond the wrap. Two clients, two
sessions, two runs or two uploads let everything an old one left behind meet its
successor. Two names are needed for a selection that is not the file being
removed; one chunk suffices there because a file is verified as a whole, and the session run
has two chunks so that a repeated one can be told from the next. A ring of two
cells read one at a time has all three cases of a cursor: inside, lapped, past the
end. Three changes of a slot are needed for the slots to be used in turn and come
back, which four sequence numbers allow, also after a boot with an old record.
The program store appears twice: `userfs` has the faults and two chunk
values, so that a commit can fail its verification, and shows safety under faults;
`hmpy` has a flash that works and shows what holds only then (`NoLeftovers`).
Files of two chunks make the session's uploads and reads take several frames.
Two slots and two leases are enough for one frame to be held while another is
captured and a third finds no slot, and the last lease id is reached; two
applications let a second one meet the pending unload of the first. Both
target buffers fill, the event queue overflows and a frame is longer than the caller takes; a
frame lost on the line makes the parser swallow the head of the next. Four
pixels give rectangles that overlap, merge and overflow the list of two, and two failing
transfers let the second one meet the repair list of the first.

### Fairness

Liveness is stated under what the main loop guarantees and no more. Core 0 goes
on with a call it has begun and core 1 with a job it has begun (weak fairness of
their steps). A poll or tick that the main loop makes in every round is strongly
fair (`PollCall`, `TickPoll`, `TimerCall`, `RenderBegin`, `ReadCall`,
`LeaseExpires` of a silent host): other code of the same round may disable it for a
moment, and no round is skipped for ever. Scripts need not end: `EveryRunEnds` comes
from the hook, the deadline and the watchdog, whose WDT1 nobody feeds or clears once it is
armed (weak fairness of `WatchdogResets`). The external bus finishes an
operation in the end, since the adapter has time-outs of its own. In `link` the main loop ticks the service and the peer
goes on asking (weak fairness of both); `RequestsAnswered` is claimed once the
service holds the line for good. Nothing is
assumed of the user, of the host or of an application, except that callbacks
return, as the contract of the applications demands. `LeaseEnds` excepts a firmware that has
stopped at the assertion of a file used after it was closed. `ChangeSaved` further needs that a
flash which keeps accepting programs does not corrupt every one of them (strong
fairness of a good program): a save that does not verify is retried at the next
tick, and nothing but a good program ends the retries.

## 5. Proofs

Each proof module EXTENDS the model and states an inductive invariant `IInv`; a
lemma shows `Init => IInv`, another `IInv /\ [Next]_vars => IInv'` with one step
per action, and the theorems combine them. All constants are arbitrary, under the
named assumptions of the modules.

| Theorem | States | Invariant and why it is needed |
|---|---|---|
| `Core1ExecutorProofs!CompletionIsSound` | `Spec => []CompletionSound` | `HandOff` (which steps of the cores can coincide), `Counting` and `Distance` (a held ticket is `Age` submissions behind the counter, modulo the wrap): only the distance makes the signed comparison meaningful. For any odd `TicketMax`. |
| `Core1ExecutorProofs!MailboxImplementsSlot` | `Spec => ImplementsSlot` | the same invariant; each step is a step of `JobSlot` or a stutter |
| `AppRuntimeProofs!SwitchAndScope` | types, `SwitchInSync`, `ScopeReturned`, `LockExcludesDraw` | `Stages` (which callback runs in which state and with which flags) and `Switching` (the switch follows the runtime) |
| `AppRuntimeProofs!StaleWorkIsRejected` | `[]StaleWorkRejected` | `TokenAges`: a token with the current generation is of the current instance, and generations only grow |
| `AppRuntimeProofs!TeardownOpensNothing` | the action property `NoOpenInTeardown` | `Stages` |
| `AppRuntimeProofs!RuntimeImplementsLifecycle` | `Spec => ImplementsLifecycle` | the same invariant, refinement mapping `Phase` |
| `UserFsProofs!StoredAsDeclared` | `[](TypeOK /\ FilesPublished)` | `Pending`: what the next littlefs call of an operation may rely on, in particular that a temporary about to be renamed has been verified and that a file about to be removed is unselected or the flash is faulted |
| `UserFsProofs!StartupNeverDangles` | `[]StartupExists` | the same; without the fault latch in `Pending` it would be false: a selection that could not be read would be left dangling |
| `UserFsProofs!NothingLeftBehind` | `Spec => []NoLeftovers`, where `Faults = {}` | `Tidy`: which temporaries exist during which operation, and that a mount removes them before the store is ready. With a failing flash it is false, since the removal itself may fail. |
| `UserFsProofs!SessionImplementsStore` | `SessionSpec => Spec` | every step of the session is a step of the store or leaves it alone; `SInv` bounds what the session hands to the store (ids, offsets, chunks) |
| `UserFsProofs!SessionLeavesNothing` | `SessionSpec => []NoLeftovers`, where `Faults = {}` | the two above |
| `UserFsProofs!UploadHasOwner` | `[](SessionTypeOK /\ UploadOwned)` | `SInv`: `Owned` (an active upload is the session's), `Committing`, `Running`, `Streaming` (what the session remembers of the operation under way) |
| `UserFsProofs!AckIsStored` | `[]AckMeansStored` | `SInv`: `Stored` (the remembered chunk ends at the offset of the upload) and `Closed` (a file closed by a failed commit was complete, so only a chunk without bytes fits behind it) |
| `UserFsProofs!ReadsOneVersion` | the action property `ReadConsistent` | `SInv` |
| `MicroPythonRuntimeProofs!RunsNeverMeet` | `[](TypeOK /\ RunsSeparated)` | `Executor` (how ticket, slot and worker agree), `Running` (while the worker is live its ticket is the last one and its state an active one, so that core 0 has no ground to retire it), `Accepted`, `Settled` (a published result is terminal) |
| `MicroPythonRuntimeProofs!ResetMeansOverdue` | `[]ResetOnlyOverdue` | the same with `Watching`: whenever a state is active core 0 holds the ticket of its run, a time that has run out is the run's own, and a result that was published before the second read and not stored over has stopped the watchdog there |
| `CapabilityBridgeProofs!SlotHasOneUser` | `[](TypeOK /\ SlotExclusive)` | `Tickets1` (a call waits for its own ticket, and core 0 serves that ticket or none) and `Answer` (the words of a reply belong to the ticket completed last) |
| `CapabilityBridgeProofs!FailedCallLeavesNoTrace` | `[]FailedCallRolledBack` | `Transaction`: the frame is the one of the moment the call was posted until it is executed, can be restored to it until it is decided, and equals it again after a failure |
| `CapabilityBridgeProofs!NothingLeftLeased` | `[]LeasesReturned` | `Leases`: what is suspended for the script is owned by it, which is what cleanup goes by |
| `MicroPythonRuntimeProofs!OutputNeverSilent` | `[](TypeOK /\ NothingSilent)` | `Writing` and `Accounts`: given and lost bytes of a reader add up to its cursor; `Overwritten`: a byte overwritten ahead of the app is in `output_dropped` before the app skips it |
| `MicroPythonRuntimeProofs!CopiesAreExact` | `[]CopyExact` | `Window` (the last `Bytes` positions are in their cells), `Copying` (a reader copies published bytes only). Rests on the lemma that two positions less than a ring apart have different cells. |
| `VisionAppsProofs!BanksKeptApart` | `[](DetectorTypeOK /\ BankStable)` | `BankInv`: `WorkerInside` (core 1 is inside the worker job exactly while the executor runs it, and writes the bank of the next number) and `ReaderHolds` (while a job that has not published is in the slot, the bank being read is the published one). The property speaks of a moment at which both are busy; the second is what holds before core 1 has begun to write. Rests on lemmas about `Bank` and the successor that skips zero. |
| `VisionAppsProofs!DetectionsAreCurrent` | `[]ResultsCurrent` | `ObjInv`: no bank and no inference is of a later epoch than the session, and what is of its epoch has not been withdrawn |
| `VisionAppsProofs!ModelHasKeeper` | `[]NoOrphanModel` | `ModelInv`: `Engine` (the runtime not unloaded is the owner; the accelerator works for the owner) and `Keeper` (a model in use belongs to the open application with no cleanup pending; one that waits, to the cleanup poll or to the unload under way). One lemma per operator of `AiModelRuntime`. |
| `VisionAppsProofs!FramesStayIntact` | `[]FramesIntact` | `CamInv`, with `ModelInv`: `Slots` (the slot in capture is the one the peripheral converts into, and the image numbers and sequence numbers of a running stream differ by the frame not handed over yet), `Input` (an AI input that is not disabled is that of the open detector, and what `AiOk` says of the image in it) and `Accel` (while an inference runs, the input is taken or disabled or the camera is off). One lemma per operator of `CameraStream`. |
| `VisionAppsProofs!CameraStaysConsistent` | `[]CameraConsistent` | the same, with `Sess`: the one lease that may be out, and at which places of the main loop it is held by the preview and at which by a snapshot |
| `AdapterProofs!NothingLeftAtWork` | `[](LinkTypeOK /\ NoLateEffect)` | `LinkInv`: `Held`, `Operating`, `SwitchedOn` (claimant, mode, operation and peripheral agree, field by field), `Sending` (no byte on its way out is one of a buffer that was used again) and `ServiceInSync` (the service knows whether it has the connector, in which mode, and which write is its own). Without the last, the end of one user's operation could not be told from that of the other's. |
| `AdapterProofs!TransactionsWhole` | `[]TransfersWhole` | `LinkInv` with `TargetInv`: `Exclusive` (a buffer of the target is with the write being received, one queued event, the response to come or the response being read, and with one of them only), `Delivers` (unless a loss is to be reported, the queued writes are the transactions owed, in order and whole), `Responds`, and `OnTheBus` (what is in the FIFO and in the receive buffer is what the master has sent so far; what it has read is one response, then fill) |
| `AdapterProofs!DamageIsAccounted` | `[](DisplayTypeOK /\ DamageAccounted)` | `DisplayInv`: `ListsOK` (the rectangles of a list are disjoint and fit into it), `Drawn` (what the commands paint is covered by the batch's dirty list), `RepairOK` (a closed plane has nothing to repair; an overlay's dirty rectangles lie in its repair list while there is one) and `CountsOK`. A present compares the pictures only inside its lists, so that each list covers what it stands for is the property's whole content. |
| `AdapterProofs!WorkspaceHeldExactly` | `[]WorkspaceExact` | the same; `CountsOK` and the first half of `RepairOK` are what the test for an idle workspace goes by |
| `AdapterProofs!CleanupAlwaysFits` | `[]CleanupFits` | the same, `RepairOK` above all. `k210_display_close` adds the overlay's dirty rectangles to the plane's repair list and does not look at the result (`display_adapter.c`); there is always room, because the list is empty or already holds them. |
| `SettingsStoreProofs!CleanSettingsAreStored` | `[](TypeOK /\ CleanIsStored)` | `InUse` (the slot in use is the newest valid one), `Saving` (the target is not the slot in use), `Clean`, `Booting` |
| `SettingsStoreProofs!SlotsImplementCell` | `Spec => ImplementsDurable` | the same; refinement mapping `Stored`, what a boot would select |

Assumptions on constants, beyond types: `RingAssumption` (a stream may have at least one
byte), `BoundsAssumption` of the store (a file may have at least one chunk, as
`USERFS_FILE_MAX` says), `DetectorAssumption` of the camera applications (each detector
has a runtime object and is a user of the AI input), `ServiceAssumption` of the connector (which
modes the service and the script declare, and frames numbered from 1) and `DisplayAssumption`
(drawing commands, writes and regions arrive clipped to rectangles on the screen, as the
adapter's clipping leaves them). The store's theorems hold for
every set of `Faults`, except the two about leftovers, which are about a flash that works.

Every invariant was checked by TLC on small instances before it was proved. One of them
corrected the model: `Closed` showed that a file closed by a failed commit still takes a
chunk without bytes (`UploadWriteClosed`; littlefs asserts that the file is open, see
section 7), which the session had been denied.

The proof of `FramesIntact` is where the three parts of the camera meet. That the accelerator
never reads planes which the camera writes is not a fact of the stream, of the input or of the
model runtime alone: opening the settings turns the output off one step before it
disables the input, and an inference may run on through both; resuming must leave an input
alone that a running model still reads, which holds because a detector whose model is in FAULT
has no camera; and the console's HKCAMPROBE, the one caller that restarts the stream
without asking the detector, is the case `restarted` records.

The display's lists are sets of disjoint rectangles. The box which `dirty_add` grows until
nothing in the list meets it is `Merged`, the least rectangle that absorbs what it meets; that
there is a least one is a lemma (rectangles are closed under intersection). A run of
`dirty_add` over a list is the recursive function `DirtyAdds`, and what a run leaves (a
list that is disjoint, fits and covers what was added, unless it was full) is proved without an
induction theorem: a run that breaks it would have a least number of additions
(`LeastNatural`, from well-foundedness), and the run shorter by one does not.

Only model-checked are the eleven liveness properties, since the prover handles neither fairness nor
ENABLED: `JobsComplete`, `EveryRunEnds`, `CallsReturn`, `DetectorReclaimed`, `FrameCompletes`,
`RenderServed`, `PendingCloseObeyed`, `LeaseEnds`, `ReaderCatchesUp`, `ChangeSaved` and
`RequestsAnswered`. The invariants above are what a proof of them would start from.

## 6. Not modelled

The definitions of `PROJECT.json`'s map stand for some 9,100 lines of the firmware. Of the
68,700 lines of the repository that count as implementation, 24,300 are images and tables
in header files and 18,000 the sources of the AprilTag and QR libraries; what is
left is about 26,400 lines, of which a third is modelled. The rest is:

- drawing, layout, fonts and text of the user interface (`ui/`, the views of the
  applications), and single-threaded menus: output without a state that
  anything else depends on;
- image, GIF, PNG, BMP and QR decoding and the tensor arithmetic of the
  detectors: byte-level computation over large inputs, out of a model checker's reach;
- packings of fields into bytes with no control of their own (`hmpy_codec.c`,
  `settings_payload_codec.c`): the models take a frame to arrive intact or not
  at all and a payload to survive its round trip;
- register sequences of the drivers, board tables;
- FAT32 and the SD card, the MicroPython application and the menu shell, which do have
  control and are in the plan;
- littlefs, the MicroPython VM and the AprilTag library, seen only through
  their use; host tools, tests and model data.

## 7. Cases met while modelling

The properties of the runs are the guarantees that hold outside these
cases. Each was read in the code, and where a property would be broken by it,
the property names the exception.

Runtime and executor:

- A start refused because the worker has published and not yet left its job stores BUSY over
  the exit reason (`services/micropython_runtime.c:191`), against the comment
  at the guard (line 175).
- A stop request that checked the state before the worker's last store overwrites
  the result, and the poll reports a failure of core 1
  (`services/micropython_runtime.c:250`). `ResetOnlyOverdue` allows for it (`disturbed`).
- A worker that publishes after the watchdog's second read of the state, before WDT1 is armed or
  while it counts, is reset all the same and its result is lost with the SoC
  (`services/micropython_runtime.c:111`); the comment above the read, "so a just-completed core-1
  job wins the race", holds for a job completed before the read. `ResetOnlyOverdue` excepts it
  (`late`).
- The writer of the output ring may overwrite cells that a reader has counted and not yet copied;
  the reader then delivers newer bytes under older offsets with no loss reported
  (`services/micropython_runtime.c:346`), where `docs/HMPY_PROTOCOL.md:277` and 326 promise
  offsets and losses that a host can rely on. `CopyExact` is what holds.
- `run_selected_file` stores the new run id as observed and leaves `g_last_dropped` of the run
  before (`apps/micropython/micropython_app.c:703`). If the new run loses bytes before the first
  poll, the console reports too few or none of them; runs started elsewhere are
  found new by the poll, which resets the count. The console's reports are not modelled.

Program store and session:

- A commit repeated after a failed one (for example a wrong CRC) syncs and closes
  a littlefs file that is already closed (`storage/userfs.c:574`); the assertions that the
  build keeps enabled stop the firmware there, and so does an empty chunk sent to that file
  (`storage/userfs.c:534`). `LeaseEnds` excepts both.
- An empty chunk at the offset of the previous upload's last chunk passes for its
  repetition, since `hmpy_handle_upload_begin` resets only the remembered length
  (`services/hmpy_session.c:482`). `AckMeansStored` excepts chunks without bytes.

Applications and detectors:

- A render callback that asks for close has close and stop run while the surface is
  still valid (`app_runtime/switch.c:339`), where `docs/spec/APP_RUNTIME.md:170`
  says it is invalidated before any later app work.
- At the wrap of the frame sequence, which skips zero, two consecutive frames use
  one bank (`apps/apriltag/apriltag_detector.c:196`). `BankStable` excepts the wrap.
- An application that is reopened and closed again while its old unload is pending
  requests a second unload; with the accelerator still busy, the resources
  cannot be released and the runtime goes to FAULT (`services/ai_model_runtime.c:311`), where
  `docs/AI_MODELS.md:27` says that it completes a deferred unload. `NoOrphanModel` allows
  for the fault, which the next start clears.
- The console's HKCAMPROBE restarts the stream while the AI input is being captured, and
  planes of the old stream can be taken for a frame of the new one.
  `FramesIntact` excepts it (`restarted`).

External link:

- `docs/EXTERNAL_LINK_PROTOCOL.md:60` says that the response cursor continues across
  several I2C reads; STOP discards the response, and the next read gets the fill
  byte (`external_link_adapter.c`, `target_event`).
- A write joined to a read by a repeated start leaves the receive buffer active,
  and the master's next write is appended to it. The peer of the model does not join them.
- A session that is retired when its deadline has passed quarantines the connector until the
  next boot; after 2^32 - 1 operations every further one is refused.

Display:

- A transfer whose first slice reached the panel while its write reported a failure counts as
  no progress, and no repair is recorded, where `docs/spec/capabilities/DISPLAY.md:168` says
  that failure after any physical progress records the affected regions.
- Releasing the base plane repairs the panel without the overlay
  (`display_adapter.c:1211`) and so erases a committed overlay there.
  `DamageAccounted` has both in `lost`.
- An overlay batch that only marks a region would leave dirty rectangles in an
  overlay whose workspace is given back; no client does so.
- `hk_ui_display_shadow_pixel`, and text drawn with an empty string, abort the surface of
  the frame under way (`ui/display_binding.c`).
