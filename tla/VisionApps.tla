----------------------------- MODULE VisionApps -----------------------------
(***************************************************************************)
(* The camera applications over the frame stream and the accelerator:      *)
(* the camera session (services/camera_session.c, camera_capture.c,        *)
(* camera_frame_access.c), the preview loop                                *)
(* (controllers/camera_runtime_controller.c), the object and face          *)
(* detectors and their controllers, photo, QR and the debug console's      *)
(* camera commands.                                                        *)
(*                                                                         *)
(* The main loop runs one function at a time; pc names the place inside it *)
(* at which an interrupt (frame start or finish, inference done) can still *)
(* change what the function has read.                                      *)
(***************************************************************************)
EXTENDS CameraStream, AiModelRuntime

CONSTANTS MaxOpens,    \* bound on the applications opened
          EpochBound   \* bound on the detector's session epochs

VARIABLES
    app, mode, failed,   \* the open application, its screen, g_error
    pc, held, why,       \* place in the main loop, preview lease, snapshot user
    sess, snap,          \* camera session flags, g_snapshot_frame's lease
    obj, result,         \* object_detect_detector.c, each detector's g_result
    cleanup,             \* resource_cleanup.c: the detector still to be polled
    opens, restarted     \* history: applications opened; stream restarted
                         \* under an attached detector

main   == <<app, mode, failed, pc, held, why>>
vars   == <<cam, kpu, main, sess, snap, obj, result, cleanup, opens, restarted>>

Detectors  == {"object", "face"}
CameraApps == Detectors \cup {"photo", "qr"}
Apps       == CameraApps \cup {"files"}

(* Each detector has a runtime object and a name as a user of the AI input. *)
ASSUME DetectorAssumption == Detectors \subseteq Runtimes \cap Owners

NoFrame == [lease |-> 0, seq |-> 0]

NoBank == [seq |-> 0, epoch |-> 0, stale |-> 0]

Object == [active |-> 0, unloading |-> 0, paused |-> 0, epoch |-> 0,
           infEpoch |-> 0, infStale |-> 0, published |-> 0, next |-> 0,
           bank |-> [b \in {0, 1} |-> NoBank]]

Init ==
    /\ \E preview \in Flag : cam = InitCam(preview)
    /\ kpu = InitKpu
    /\ app = "none" /\ mode = "live" /\ failed = 0
    /\ pc = "loop" /\ held = NoFrame /\ why = "none"
    /\ sess = [initialized |-> 0, ready |-> 0, frozen |-> 0]
    /\ snap = 0
    /\ obj = Object /\ result = [d \in Detectors |-> "ok"]
    /\ cleanup = NoRuntime /\ opens = 0 /\ restarted = 0

-----------------------------------------------------------------------------
(* The camera session. *)

(* camera_service_capture_ready *)
CaptureReady == sess.ready = 1 /\ sess.frozen = 0

(* camera_capture_reset_session *)
Reset(c) == StreamStop(Release(c, snap))

(* camera_service_start, after camera_service_enter_begin: the sensor answers *)
(* and takes its configuration, or not.                                       *)
Entered(c, sensor) == IF sensor /\ sess.initialized = 0 THEN StreamStart(Reset(c)) ELSE Reset(c)

EnteredSession(sensor) ==
    LET s == [sess EXCEPT !.frozen = 0] IN
    IF sess.initialized = 1 THEN s
    ELSE IF sensor /\ StreamStarts(cam) THEN [s EXCEPT !.initialized = 1, !.ready = 1]
    ELSE [s EXCEPT !.ready = 0]

(* camera_session_mark_stopped *)
Stopped == [initialized |-> 0, ready |-> 0, frozen |-> 0]

(* camera_stop *)
CamStopped(c) == IF sess.initialized = 1 THEN Reset(Output(c, 0)) ELSE c
SessStopped   == IF sess.initialized = 1 THEN Stopped ELSE sess
SnapStopped   == IF sess.initialized = 1 THEN 0 ELSE snap

(* Mutant: the snapshot's lease is forgotten, not returned. *)
SnapshotDoneKept(c, resume) == IF resume THEN StreamResume(c) ELSE c

(* camera_capture_snapshot_done *)
SnapshotDone(c, resume) ==
    IF resume THEN StreamResume(Release(c, snap)) ELSE Release(c, snap)

-----------------------------------------------------------------------------
(* The detectors. *)

NextEpoch(e) == e + 1

(* Mutant: the results are withdrawn but an inference under way stays valid. *)
InvalidatedSameEpoch(o) ==
    [o EXCEPT !.published = 0, !.infStale = 1,
              !.bank = [b \in {0, 1} |-> [@[b] EXCEPT !.stale = 1]]]

(* object_detect_detector_invalidate_results *)
Invalidated(o) ==
    [o EXCEPT !.epoch = NextEpoch(@), !.published = 0, !.infStale = 1,
              !.bank = [b \in {0, 1} |-> [@[b] EXCEPT !.stale = 1]]]

(* object_detect_detector_service_tick and face_detect_detector_service_tick *)
Serviced(k, d) ==
    IF d = "object" /\ obj.unloading = 1 /\ k.state[d] \notin {"UNLOADED", "UNLOAD_PENDING"}
      THEN Tick(IF UnloadWaits(k, d) THEN UnloadStore(UnloadTest(k, d), d)
                                     ELSE UnloadTest(k, d), d)
      ELSE Tick(k, d)

ServicedCam(c, k, d) == IF k.state[d] = "UNLOADED" THEN AiRelease(c, d) ELSE c

ServicedObj(o, k) == IF k.state["object"] = "UNLOADED" THEN [o EXCEPT !.unloading = 0] ELSE o

(* Mutant: a pending unload is taken for a finished one. *)
UnloadOverEarly(k, d) == k.state[d] # "RUNNING"

(* finish_unload *)
UnloadOver(k, d) == k.state[d] \in {"UNLOADED", "FAULT"}

(* resource_cleanup_poll: the detector scheduled is serviced. *)
PolledKpu == IF cleanup = NoRuntime THEN kpu ELSE Serviced(kpu, cleanup)
PolledCam == IF cleanup = NoRuntime THEN cam ELSE ServicedCam(cam, PolledKpu, cleanup)
PolledObj == IF cleanup = "object" THEN ServicedObj(obj, PolledKpu) ELSE obj
PolledCleanup ==
    IF cleanup # NoRuntime /\ UnloadOver(PolledKpu, cleanup) THEN NoRuntime ELSE cleanup

(* face_detect_detector_ready, object_detect_detector_ready *)
DetectorReady(d) ==
    /\ result[d] = "ok" /\ IsLoaded(kpu, d)
    /\ d = "object" => obj.active = 1

(* ai_model_runtime_get_output *)
OutputThere(d) == kpu.owner = d /\ kpu.state[d] = "READY" /\ kpu.loaded = 1 /\ kpu.busy = 0

(* finish_inference of the object detector: the bank of the parity of the    *)
(* sequence; published only while the session of the inference goes on.      *)
FinishedObj ==
    LET n == obj.next + 1
        b == [seq |-> n, epoch |-> obj.infEpoch, stale |-> obj.infStale]
    IN  [obj EXCEPT !.next = n, !.bank[n % 2] = b,
                    !.published = IF obj.active = 1 /\ obj.infEpoch = obj.epoch THEN n ELSE @]

(* object_detect_detector_results: what the screen and the link may show. *)
Visible ==
    LET b == obj.bank[obj.published % 2] IN
    /\ obj.active = 1 /\ obj.published # 0
    /\ b.epoch = obj.epoch /\ b.seq = obj.published

-----------------------------------------------------------------------------
(* Opening an application. *)

(* object_detect_start, face_detect_start: poll what is left of an earlier   *)
(* detector, claim the AI input, load the model, start the camera, attach.   *)
StartDetector(d, card, sensor) ==
    LET k == IF d = "object" THEN Serviced(PolledKpu, d) ELSE Tick(PolledKpu, d)
        c == IF d = "object" THEN ServicedCam(PolledCam, k, d) ELSE PolledCam
        free == k.state[d] = "UNLOADED"
        gets == free /\ AiFree(c, d)
        fresh == [Object EXCEPT !.epoch = NextEpoch(obj.epoch), !.active = obj.active,
                                !.unloading = IF free THEN 0 ELSE PolledObj.unloading]
        o == IF d = "object" /\ free THEN fresh ELSE PolledObj
        loads == gets /\ ~LoadRefused(k, d) /\ card
        wait == k.state[d] # "FAULT" /\ (~gets \/ LoadRefused(k, d))
    IN  /\ kpu' = IF loads THEN Loaded(k, d) ELSE k
        /\ cleanup' = PolledCleanup
        /\ obj' = IF loads /\ d = "object"
                    THEN [o EXCEPT !.active = 1, !.unloading = 0] ELSE o
        /\ result' = [result EXCEPT ![d] = IF loads THEN "ok" ELSE IF wait THEN "busy" ELSE "bad"]
        /\ mode' = IF wait THEN "loading" ELSE "live"
        /\ failed' = IF loads \/ wait THEN 0 ELSE 1
        /\ IF loads
             THEN /\ cam' = AiAttach(Entered(AiAcquire(c, d), sensor), d)
                  /\ sess' = EnteredSession(sensor) /\ snap' = 0
             ELSE /\ cam' = IF gets THEN AiRelease(AiAcquire(c, d), d) ELSE c
                  /\ UNCHANGED <<sess, snap>>

OpenDetector(d, card, sensor) ==
    /\ pc = "loop" /\ app = "none" /\ opens < MaxOpens /\ obj.epoch < EpochBound
    /\ app' = d /\ opens' = opens + 1
    /\ StartDetector(d, card, sensor)
    /\ UNCHANGED <<pc, held, why, restarted>>

(* The controller's tick while the accelerator belongs to someone else. *)
RetryDetector(card, sensor) ==
    /\ pc = "loop" /\ app \in Detectors /\ mode = "loading" /\ obj.epoch < EpochBound
    /\ StartDetector(app, card, sensor)
    /\ UNCHANGED <<app, opens, pc, held, why, restarted>>

(* camera_controller_enter, qr_camera_controller_enter *)
OpenCamera(a, sensor) ==
    /\ pc = "loop" /\ app = "none" /\ opens < MaxOpens
    /\ app' = a /\ opens' = opens + 1 /\ mode' = "live" /\ failed' = 0
    /\ cam' = Entered(cam, sensor) /\ sess' = EnteredSession(sensor) /\ snap' = 0
    /\ UNCHANGED <<kpu, pc, held, why, obj, result, cleanup, restarted>>

(* The file viewer plays an animation: its backup frame is pool memory. *)
OpenAnimation ==
    /\ pc = "loop" /\ app = "none" /\ opens < MaxOpens
    /\ app' = "files" /\ opens' = opens + 1 /\ mode' = "live" /\ failed' = 0
    /\ cam' = Borrow(cam)
    /\ UNCHANGED <<kpu, pc, held, why, sess, snap, obj, result, cleanup, restarted>>

-----------------------------------------------------------------------------
(* The preview: lease the newest frame, feed it to the detector, release.    *)

PreviewAcquire ==
    /\ pc = "loop" /\ app \in CameraApps /\ mode = "live" /\ failed = 0
    /\ CaptureReady /\ CanAcquire(cam)
    /\ LET s == Newest(cam)
           c == Acquire(cam)
       IN  /\ cam' = AiPreparePreview(c, c.slot[s].seq)
           /\ held' = [lease |-> c.lease, seq |-> c.slot[s].seq]
    /\ pc' = IF app = "object" THEN "process" ELSE "release"
    /\ UNCHANGED <<kpu, app, mode, failed, why, sess, snap, obj, result, cleanup,
                   opens, restarted>>

After == IF app = "object" THEN "release" ELSE "after"

(* process_frame up to finish_inference. *)
Process ==
    /\ pc = "process"
    /\ IF DetectorReady(app) /\ kpu.pending[app] = 1
         THEN /\ kpu' = [kpu EXCEPT !.pending[app] = 0]
              /\ obj' = IF app = "object" /\ OutputThere(app) THEN FinishedObj ELSE obj
              /\ result' = IF OutputThere(app) THEN result ELSE [result EXCEPT ![app] = "kpu"]
              /\ cam' = IF app = "object" /\ obj.paused = 1 THEN AiCancel(cam, app)
                        ELSE AiArm(AiCancel(cam, app), app)
              /\ pc' = After
         ELSE /\ pc' = IF DetectorReady(app) THEN "take" ELSE After
              /\ UNCHANGED <<kpu, obj, result, cam>>
    /\ UNCHANGED <<app, mode, failed, held, why, sess, snap, cleanup, opens, restarted>>

(* process_frame: the input is taken once the accelerator is free. *)
Take ==
    /\ pc = "take"
    /\ IF ~IsBusy(kpu, app) /\ AiCanTake(cam, app)
         THEN /\ cam' = AiTake(cam) /\ pc' = "run"
              /\ obj' = IF app = "object"
                          THEN [obj EXCEPT !.infEpoch = obj.epoch, !.infStale = 0] ELSE obj
         ELSE pc' = After /\ UNCHANGED <<cam, obj>>
    /\ UNCHANGED <<kpu, app, mode, failed, held, why, sess, snap, result, cleanup,
                   opens, restarted>>

Run(starts) ==
    /\ pc = "run" /\ pc' = After
    /\ IF starts /\ ~RunRefused(kpu, app)
         THEN kpu' = RunStarted(kpu, app) /\ UNCHANGED <<cam, result>>
         ELSE /\ kpu' = IF RunRefused(kpu, app) THEN kpu ELSE RunFailed(kpu, app)
              /\ result' = [result EXCEPT ![app] = "kpu"]
              /\ cam' = IF app = "object" /\ obj.paused = 1 THEN cam ELSE AiArm(cam, app)
    /\ UNCHANGED <<app, mode, failed, held, why, sess, snap, obj, cleanup, opens, restarted>>

(* camera_service_preview_release; the tick ends here when the frame could   *)
(* not be composed or presented.                                             *)
PreviewRelease(presented) ==
    /\ pc = "release"
    /\ cam' = Release(cam, held.lease) /\ held' = NoFrame
    /\ pc' = IF ~presented THEN "loop"
             ELSE CASE app = "object" -> "after" [] app = "face" -> "process" [] OTHER -> "loop"
    /\ UNCHANGED <<kpu, app, mode, failed, why, sess, snap, obj, result, cleanup,
                   opens, restarted>>

(* The controllers' tick after the frame: a detector that broke is unloaded. *)
AfterFrame ==
    /\ pc = "after" /\ DetectorReady(app) /\ pc' = "loop"
    /\ UNCHANGED <<cam, kpu, app, mode, failed, held, why, sess, snap, obj, result,
                   cleanup, opens, restarted>>

-----------------------------------------------------------------------------
(* Unloading: object_detect_detector_unload, face_detect_detector_unload,    *)
(* after camera_stop.                                                        *)

UnloadDetector(d) ==
    /\ cam' = AiCancel(CamStopped(cam), d)
    /\ sess' = SessStopped /\ snap' = SnapStopped
    /\ obj' = IF d = "object"
                THEN [obj EXCEPT !.active = 0, !.paused = 1, !.epoch = NextEpoch(@),
                                 !.unloading = 1, !.infStale = 1,
                                 !.bank = [b \in {0, 1} |-> [@[b] EXCEPT !.stale = 1]]]
                ELSE obj
    /\ kpu' = UnloadTest(kpu, d)
    /\ pc' = IF UnloadWaits(kpu, d) THEN "store" ELSE "unloaded"

DetectorBroke ==
    /\ pc = "after" /\ ~DetectorReady(app) /\ failed' = 1
    /\ UnloadDetector(app)
    /\ UNCHANGED <<app, mode, held, why, result, cleanup, opens, restarted>>

CloseDetector ==
    /\ pc = "loop" /\ app \in Detectors
    /\ UnloadDetector(app) /\ mode' = "closed"
    /\ UNCHANGED <<app, failed, held, why, result, cleanup, opens, restarted>>

Store ==
    /\ pc = "store" /\ pc' = "unloaded"
    /\ kpu' = UnloadStore(kpu, app)
    /\ UNCHANGED <<cam, app, mode, failed, held, why, sess, snap, obj, result, cleanup,
                   opens, restarted>>

Unloaded ==
    /\ pc = "unloaded" /\ pc' = "loop"
    /\ kpu' = Serviced(kpu, app)
    /\ cam' = ServicedCam(cam, kpu', app)
    /\ obj' = IF app = "object" THEN ServicedObj(obj, kpu') ELSE obj
    /\ result' = IF kpu'.state[app] = "FAULT" THEN [result EXCEPT ![app] = "kpu"] ELSE result
    /\ cleanup' = IF UnloadOver(kpu', app) THEN cleanup
                  ELSE IF cleanup = NoRuntime THEN app ELSE cleanup
    /\ app' = IF mode = "closed" THEN "none" ELSE app
    /\ mode' = "live"
    /\ UNCHANGED <<failed, held, why, sess, snap, opens, restarted>>

(* system_tick: resource_cleanup_poll. *)
CleanupPoll ==
    /\ pc = "loop" /\ cleanup # NoRuntime
    /\ kpu' = PolledKpu /\ cam' = PolledCam /\ obj' = PolledObj /\ cleanup' = PolledCleanup
    /\ UNCHANGED <<app, mode, failed, pc, held, why, sess, snap, result, opens, restarted>>

(* camera_controller_exit, qr_camera_controller_exit, the viewer's close. *)
CloseApp ==
    /\ pc = "loop" /\ app \in Apps \ Detectors /\ app' = "none"
    /\ mode' = "live" /\ failed' = 0
    /\ IF app = "files"
         THEN cam' = GiveBack(cam) /\ UNCHANGED <<sess, snap>>
         ELSE cam' = CamStopped(cam) /\ sess' = SessStopped /\ snap' = SnapStopped
    /\ UNCHANGED <<kpu, pc, held, why, obj, result, cleanup, opens, restarted>>

-----------------------------------------------------------------------------
(* Settings inside a camera application. *)

(* The object detector withdraws its results, freezes the stream and takes   *)
(* the AI input off it; face detection has no settings.                      *)
OpenSettings ==
    /\ pc = "loop" /\ app \in CameraApps \ {"face"} /\ mode = "live"
    /\ obj.epoch < EpochBound
    /\ sess' = [sess EXCEPT !.frozen = 1] /\ cam' = StreamPause(cam)
    /\ IF app = "object" THEN obj' = Invalidated(obj) /\ pc' = "pause" /\ UNCHANGED mode
                         ELSE mode' = "settings" /\ UNCHANGED <<obj, pc>>
    /\ UNCHANGED <<kpu, app, failed, held, why, snap, result, cleanup, opens, restarted>>

(* object_detect_detector_pause_capture: the output, then the state. *)
PauseOutput ==
    /\ pc = "pause" /\ pc' = "paused"
    /\ obj' = [obj EXCEPT !.paused = 1]
    /\ cam' = IF cam.aiOwner = "object" THEN Output(cam, 0) ELSE cam
    /\ UNCHANGED <<kpu, app, mode, failed, held, why, sess, snap, result, cleanup,
                   opens, restarted>>

PauseState ==
    /\ pc = "paused" /\ pc' = "loop" /\ mode' = "settings"
    /\ cam' = IF cam.aiOwner = "object" THEN [cam EXCEPT !.aiSeq = 0, !.ai = "disabled"] ELSE cam
    /\ UNCHANGED <<kpu, app, failed, held, why, sess, snap, obj, result, cleanup,
                   opens, restarted>>

(* Leaving the settings: a new frame size restarts the photo camera. *)
CloseSettings ==
    /\ pc = "loop" /\ mode = "settings" /\ obj.epoch < EpochBound
    /\ sess' = [sess EXCEPT !.frozen = 0]
    /\ cam' = SnapshotDone(cam, TRUE) /\ snap' = 0
    /\ mode' = "live"
    /\ IF app = "object" THEN obj' = Invalidated(obj) /\ pc' = "resume"
                         ELSE UNCHANGED <<obj, pc>>
    /\ UNCHANGED <<kpu, app, failed, held, why, result, cleanup, opens, restarted>>

Reinit(sensor) ==
    /\ pc = "loop" /\ mode = "settings" /\ app = "photo"
    /\ mode' = "live" /\ snap' = 0
    /\ cam' = IF sensor THEN StreamStart(CamStopped(cam)) ELSE Reset(CamStopped(cam))
    /\ sess' = IF sensor THEN [initialized |-> 1, ready |-> 1, frozen |-> 0] ELSE Stopped
    /\ UNCHANGED <<kpu, app, failed, pc, held, why, obj, result, cleanup, opens, restarted>>

(* object_detect_detector_resume_capture *)
ResumeInput(c, k) == IF IsBusy(k, "object") THEN c ELSE AiArm(c, "object")

ResumeCapture ==
    /\ pc = "resume" /\ pc' = "loop"
    /\ obj' = [obj EXCEPT !.paused = 0]
    /\ cam' = ResumeInput(cam, kpu)
    /\ UNCHANGED <<kpu, app, mode, failed, held, why, sess, snap, result, cleanup,
                   opens, restarted>>

-----------------------------------------------------------------------------
(* A snapshot: a photo, a QR decode, or the console's HKFRAME.               *)

SnapshotUser(w) ==
    CASE w = "photo" -> app = "photo" /\ mode = "live" /\ CaptureReady
      [] w = "qr"    -> app = "qr" /\ mode = "live"
      [] w = "frame" -> TRUE

(* camera_capture_snapshot: the lease, then the pause. *)
SnapshotLease(w) ==
    /\ pc = "loop" /\ SnapshotUser(w)
    /\ sess.ready = 1 /\ snap = 0 /\ CanAcquire(cam)
    /\ cam' = Acquire(cam) /\ held' = [lease |-> cam.lease + 1, seq |-> 0]
    /\ why' = w /\ pc' = "snap"
    /\ UNCHANGED <<kpu, app, mode, failed, sess, snap, obj, result, cleanup, opens, restarted>>

SnapshotHold ==
    /\ pc = "snap" /\ pc' = "snapped"
    /\ cam' = StreamPause(cam) /\ snap' = held.lease /\ held' = NoFrame
    /\ sess' = IF why = "frame" THEN sess ELSE [sess EXCEPT !.frozen = 1]
    /\ UNCHANGED <<kpu, app, mode, failed, why, obj, result, cleanup, opens, restarted>>

(* The photo is saved, with a look at the preview, or the frame sent or      *)
(* decoded without a result.                                                 *)
SnapshotEnd ==
    /\ pc = "snapped" /\ pc' = "loop" /\ why' = "none"
    /\ cam' = SnapshotDone(cam, sess.ready = 1 /\ (why = "frame" => CaptureReady))
    /\ snap' = 0
    /\ sess' = IF why = "frame" THEN sess ELSE [sess EXCEPT !.frozen = 0]
    /\ UNCHANGED <<kpu, app, mode, failed, held, obj, result, cleanup, opens, restarted>>

PhotoReview ==
    /\ pc = "snapped" /\ why = "photo" /\ CanAcquire(cam)
    /\ cam' = LET c == Acquire(cam) IN Release(c, c.lease)
    /\ UNCHANGED <<kpu, main, sess, snap, obj, result, cleanup, opens, restarted>>

(* QR: the result stays on the screen with its snapshot, until closed. *)
QrFound ==
    /\ pc = "snapped" /\ why = "qr" /\ pc' = "loop" /\ mode' = "result"
    /\ sess' = [sess EXCEPT !.frozen = 1] /\ cam' = StreamPause(cam) /\ why' = "none"
    /\ UNCHANGED <<kpu, app, failed, held, snap, obj, result, cleanup, opens, restarted>>

QrClose ==
    /\ pc = "loop" /\ mode = "result" /\ mode' = "live"
    /\ sess' = [sess EXCEPT !.frozen = 0]
    /\ cam' = SnapshotDone(cam, sess.ready = 1) /\ snap' = 0
    /\ UNCHANGED <<kpu, app, failed, pc, held, why, obj, result, cleanup, opens, restarted>>

-----------------------------------------------------------------------------
(* The debug console. *)

(* camera_capture_control_available *)
ControlAvailable == snap = 0 /\ Leased(cam) = {}

(* HKCAMREGS and HKCAMBAR stop the stream while they talk to the sensor. *)
SensorTalk ==
    /\ pc = "loop" /\ pc' = "sensor"
    /\ \/ ControlAvailable /\ why' = "regs"
       \/ sess.ready = 1 /\ why' = "bar"
    /\ cam' = StreamPause(cam)
    /\ UNCHANGED <<kpu, app, mode, failed, held, sess, snap, obj, result, cleanup,
                   opens, restarted>>

SensorDone(answers) ==
    /\ pc = "sensor" /\ pc' = "loop" /\ why' = "none"
    /\ IF ~answers /\ why = "bar"
         THEN sess' = [sess EXCEPT !.ready = 0] /\ UNCHANGED <<cam, snap>>
         ELSE /\ sess' = sess
              /\ IF CaptureReady THEN cam' = SnapshotDone(cam, TRUE) /\ snap' = 0
                                  ELSE UNCHANGED <<cam, snap>>
    /\ UNCHANGED <<kpu, app, mode, failed, held, obj, result, cleanup, opens, restarted>>

(* HKCAMPROBE restarts the sensor, and a running session with it. *)
Probe(bus, sensor) ==
    /\ pc = "loop" /\ ControlAvailable
    /\ LET was == sess.initialized = 1 IN
       /\ cam' = IF ~was THEN cam ELSE IF bus /\ sensor THEN StreamStart(Reset(cam)) ELSE Reset(cam)
       /\ sess' = IF was /\ bus /\ sensor
                    THEN [initialized |-> 1, ready |-> 1, frozen |-> IF CaptureReady THEN 0 ELSE 1]
                  ELSE IF was THEN Stopped
                  ELSE IF bus THEN sess ELSE [sess EXCEPT !.ready = 0]
       /\ restarted' = IF was /\ cam.aiOwner # NoOwner THEN 1 ELSE restarted
    /\ UNCHANGED <<kpu, main, snap, obj, result, cleanup, opens>>

-----------------------------------------------------------------------------
Interrupt == Irq \/ FrameBegins \/ FrameEnds

Hardware ==
    \/ Interrupt /\ UNCHANGED <<kpu, main, sess, snap, obj, result, cleanup, opens, restarted>>
    \/ /\ InferenceDone \/ UnloadExpires
       /\ UNCHANGED <<cam, main, sess, snap, obj, result, cleanup, opens, restarted>>

Open ==
    \/ \E d \in Detectors, card, sensor \in BOOLEAN : OpenDetector(d, card, sensor)
    \/ \E card, sensor \in BOOLEAN : RetryDetector(card, sensor)
    \/ \E a \in {"photo", "qr"}, sensor \in BOOLEAN : OpenCamera(a, sensor)
    \/ OpenAnimation

Preview ==
    \/ PreviewAcquire \/ Process \/ Take
    \/ \E starts \in BOOLEAN : Run(starts)
    \/ \E presented \in BOOLEAN : PreviewRelease(presented)
    \/ AfterFrame

Unload == DetectorBroke \/ CloseDetector \/ Store \/ Unloaded \/ CloseApp

Settings ==
    \/ OpenSettings \/ PauseOutput \/ PauseState \/ CloseSettings \/ ResumeCapture
    \/ \E sensor \in BOOLEAN : Reinit(sensor)

Snapshot ==
    \/ \E w \in {"photo", "qr", "frame"} : SnapshotLease(w)
    \/ SnapshotHold \/ SnapshotEnd \/ PhotoReview \/ QrFound \/ QrClose

Console ==
    \/ SensorTalk
    \/ \E answers \in BOOLEAN : SensorDone(answers)
    \/ \E bus, sensor \in BOOLEAN : Probe(bus, sensor)

MainLoop == Open \/ Preview \/ Unload \/ CleanupPoll \/ Settings \/ Snapshot \/ Console

Next == Hardware \/ MainLoop

Spec == Init /\ [][Next]_vars

-----------------------------------------------------------------------------
(* The type of the camera, the accelerator and the screens. *)
TypeOK ==
    /\ cam \in Cam /\ kpu \in Kpu
    /\ app \in Apps \cup {"none"} /\ mode \in {"live", "loading", "settings", "result", "closed"}

(* A frame that is ready or leased is the whole image its sequence number    *)
(* names, and the peripheral is not writing into it; the slot in capture is  *)
(* the one the next finish interrupt hands over, or no frame would come any  *)
(* more; an animation's backup frame never overlaps a capture                *)
(* (camera_stream.c, frame_pool.c).  While the accelerator runs, its model   *)
(* stays loaded and owned, and the camera does not write the planes it       *)
(* reads; an input that is taken is the whole image of its sequence number,  *)
(* unless the console restarted the stream under it (camera_ai_input.c,      *)
(* ai_model_runtime.c).                                                      *)
FramesIntact ==
    /\ \A s \in Ready(cam) \cup Leased(cam) :
          /\ cam.pix[s] = cam.slot[s].seq
          /\ ~(cam.conv = 1 /\ cam.addr = s)
    /\ \A s \in SlotIds : cam.slot[s].state = "capturing" <=> cam.capture = s
    /\ cam.work = 1 => cam.conv = 0 /\ cam.reserved = 0
    /\ kpu.engine = 1 =>
          /\ ~(cam.conv = 1 /\ cam.aiOut = 1)
          /\ kpu.loaded = 1 /\ kpu.owner # NoRuntime
          /\ cam.aiOwner = kpu.owner
          /\ kpu.state[kpu.owner] \in {"RUNNING", "UNLOAD_PENDING", "FAULT"}
    /\ cam.ai = "busy" /\ restarted = 0 => cam.aiPix = cam.aiSeq

(* At the top of the main loop a camera that is ready and not frozen is      *)
(* delivering frames, the session agrees with the stream, and the only lease *)
(* left is the snapshot behind an open QR result (camera_session_state.c).   *)
CameraConsistent ==
    pc = "loop" =>
       /\ CaptureReady => cam.running = 1 /\ cam.paused = 0
       /\ sess.initialized = cam.running
       /\ {cam.slot[s].lease : s \in Leased(cam)} = IF snap = 0 THEN {} ELSE {snap}
       /\ snap # 0 => mode = "result"

(* The detections shown and published come from an inference whose frame was *)
(* taken after the results were last withdrawn (object_detect_detector.c).   *)
ResultsCurrent == Visible => obj.bank[obj.published % 2].stale = 0

(* A model in the accelerator always has someone to take it out: its open    *)
(* application, or the cleanup poll, which stops the accelerator at the      *)
(* deadline; only a fault, raised by a second unload under a pending one,    *)
(* is left to the next start (resource_cleanup.c, ai_model_runtime.c).       *)
NoOrphanModel ==
    pc = "loop" /\ kpu.owner # NoRuntime =>
       \/ kpu.state[kpu.owner] = "UNLOAD_PENDING" /\ cleanup = kpu.owner
       \/ kpu.state[kpu.owner] \in {"READY", "RUNNING"} /\ app = kpu.owner /\ failed = 0
       \/ kpu.state[kpu.owner] = "FAULT"

=============================================================================
