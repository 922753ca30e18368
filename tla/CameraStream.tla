---------------------------- MODULE CameraStream ----------------------------
(***************************************************************************)
(* drivers/camera_stream.c with the frame pool, the DVP peripheral it      *)
(* drives (platforms/k210/hal/hal_dvp.c) and the AI input channel          *)
(* (services/camera_ai_input.c) that rides on its conversion hooks.        *)
(*                                                                         *)
(* The DVP interrupt moves a frame slot from capture to ready while the    *)
(* main loop leases, releases, pauses, resumes and restarts.  A main-loop  *)
(* function masks the interrupt, so each is one operator on the whole      *)
(* record cam; VisionApps composes them into the steps of the main loop.   *)
(* pix and aiPix are history: which image a buffer holds, 0 while torn.    *)
(***************************************************************************)
EXTENDS Integers, FiniteSets

CONSTANTS SlotCount,   \* FRAME_POOL_CAMERA_SLOT_COUNT
          LeaseMax,    \* UINT32_MAX: the last lease id ever given out
          MaxFrames,   \* bound on the images of one stream session
          Owners,      \* users of the AI input: the detectors' runtimes
          NoOwner

ASSUME StreamAssumption ==
    /\ SlotCount \in Nat \ {0} /\ LeaseMax \in Nat /\ MaxFrames \in Nat
    /\ NoOwner \notin Owners

VARIABLE cam

SlotIds == 0 .. SlotCount - 1
NoSlot  == -1
Flag    == {0, 1}

SlotStates == {"free", "capturing", "ready", "leased"}
AiStates   == {"disabled", "armed", "capturing", "ready", "busy"}

Slot == [state : SlotStates, seq : Nat, lease : Nat]

Cam == [slot : [SlotIds -> Slot], running : Flag, paused : Flag, sync : Flag,
        capture : SlotIds \cup {NoSlot}, seq : Nat, lease : Nat,
        reserved : Flag, work : Flag,
        \* the peripheral: interrupt enabled, status flags, a conversion in
        \* progress and its target, the sensor between or inside a frame
        irq : Flag, start : Flag, finish : Flag, conv : Flag, addr : SlotIds,
        inFrame : Flag, images : Nat, pix : [SlotIds -> Nat],
        \* AI output enabled, on since the conversion began, image it holds
        aiOut : Flag, aiWhole : Flag, aiPix : Nat,
        aiOwner : Owners \cup {NoOwner}, hooks : Owners \cup {NoOwner},
        ai : AiStates, aiSeq : Nat, preview : Flag]

FreeSlot == [state |-> "free", seq |-> 0, lease |-> 0]

InitCam(preview) ==
    [slot |-> [s \in SlotIds |-> FreeSlot], running |-> 0, paused |-> 0, sync |-> 0,
     capture |-> NoSlot, seq |-> 0, lease |-> 0, reserved |-> 0, work |-> 0,
     irq |-> 0, start |-> 0, finish |-> 0, conv |-> 0, addr |-> 0, inFrame |-> 0,
     images |-> 0, pix |-> [s \in SlotIds |-> 0], aiOut |-> 0, aiWhole |-> 0,
     aiPix |-> 0, aiOwner |-> NoOwner, hooks |-> NoOwner, ai |-> "disabled",
     aiSeq |-> 0, preview |-> preview]

-----------------------------------------------------------------------------
(* The AI output switch of the peripheral: turning it on in mid-frame tears  *)
(* the planes, turning it off leaves them incomplete.                        *)
Output(c, on) ==
    [c EXCEPT !.aiOut = on,
              !.aiWhole = IF on = 1 THEN @ ELSE 0,
              !.aiPix = IF c.conv = 1 /\ on = 1 THEN 0 ELSE @]

(* hal_dvp_start_convert, after hal_dvp_set_display_addr. *)
StartConvert(c, s) ==
    [c EXCEPT !.start = 0, !.finish = 0, !.conv = 1, !.addr = s, !.pix[s] = 0,
              !.aiWhole = c.aiOut, !.aiPix = IF c.aiOut = 1 THEN 0 ELSE @]

(* camera_ai_convert_start and camera_ai_convert_finish, when installed. *)
StartHook(c) ==
    IF c.hooks # NoOwner /\ c.hooks = c.aiOwner /\ c.ai = "armed"
      THEN [Output(c, 1) EXCEPT !.ai = "capturing"]
      ELSE c

FinishHook(c) ==
    IF c.hooks # NoOwner /\ c.hooks = c.aiOwner /\ c.ai = "capturing"
      THEN [Output(c, 0) EXCEPT !.ai = "ready", !.aiSeq = c.seq]
      ELSE c

Ready(c)  == {s \in SlotIds : c.slot[s].state = "ready"}
Free(c)   == {s \in SlotIds : c.slot[s].state = "free"}
Leased(c) == {s \in SlotIds : c.slot[s].state = "leased"}

Oldest(c) == CHOOSE s \in Ready(c) : \A t \in Ready(c) : c.slot[s].seq <= c.slot[t].seq
Newest(c) == CHOOSE s \in Ready(c) : \A t \in Ready(c) : c.slot[t].seq <= c.slot[s].seq

(* camera_stream_capture_candidate: the first free slot, else the oldest     *)
(* frame that nobody has leased, else none.                                  *)
Candidate(c) ==
    IF Free(c) # {} THEN CHOOSE s \in Free(c) : \A t \in Free(c) : s <= t
    ELSE IF Ready(c) # {} THEN Oldest(c)
    ELSE NoSlot

(* camera_stream_on_event, frame finish: the slot is handed over.  Only here *)
(* does a slot get its sequence number; nobody reads that of a free slot,    *)
(* which is 0 in the model.                                                  *)
FinishEvent(c) ==
    IF c.capture # NoSlot /\ c.slot[c.capture].state = "capturing"
      THEN FinishHook([c EXCEPT !.seq = @ + 1, !.capture = NoSlot,
                                !.slot[c.capture].seq = c.seq + 1,
                                !.slot[c.capture].state = "ready"])
      ELSE c

(* camera_stream_on_event, frame start: the first start after a pause or a   *)
(* restart only synchronises; a later one claims a slot and converts.        *)
StartEvent(c) ==
    IF c.running = 0 \/ c.paused = 1 \/ c.capture # NoSlot THEN c
    ELSE IF c.sync = 1 THEN [c EXCEPT !.sync = 0]
    ELSE LET s == Candidate(c) IN
         IF s = NoSlot THEN c
         ELSE StartConvert(StartHook([c EXCEPT !.slot[s] = [FreeSlot EXCEPT !.state = "capturing"],
                                               !.capture = s]), s)

(* hal_dvp_irq_handler: the status is read once, finish is served first. *)
IrqHandler(c) ==
    LET f == IF c.finish = 1 THEN FinishEvent([c EXCEPT !.finish = 0]) ELSE c
    IN  IF c.start = 1 THEN StartEvent([f EXCEPT !.start = 0]) ELSE f

Irq == /\ cam.irq = 1
       /\ cam.start = 1 \/ cam.finish = 1
       /\ cam' = IrqHandler(cam)

(* The sensor begins a frame, while the stream listens. *)
FrameBegins ==
    /\ cam.irq = 1 /\ cam.inFrame = 0 /\ cam.images < MaxFrames
    /\ cam' = [cam EXCEPT !.inFrame = 1, !.start = 1]

(* The frame ends: a conversion completes its buffers. *)
FrameEnds ==
    /\ cam.inFrame = 1
    /\ cam' = IF cam.conv = 0 THEN [cam EXCEPT !.inFrame = 0]
              ELSE [cam EXCEPT !.inFrame = 0, !.conv = 0, !.finish = 1,
                               !.images = @ + 1, !.pix[cam.addr] = cam.images + 1,
                               !.aiPix = IF cam.aiWhole = 1 THEN cam.images + 1
                                         ELSE IF cam.aiOut = 1 THEN 0 ELSE @]

-----------------------------------------------------------------------------
(* The main loop's operations. *)

FreeAll(c) == [c EXCEPT !.slot = [s \in SlotIds |-> FreeSlot],
                        !.pix = [s \in SlotIds |-> 0], !.images = 0]

(* camera_stream_stop: interrupt and conversion off before a slot is freed. *)
StreamStop(c) ==
    [FreeAll(IF c.running = 1
               THEN [c EXCEPT !.irq = 0, !.start = 0, !.finish = 0, !.conv = 0,
                              !.inFrame = 0, !.aiWhole = 0]
               ELSE c)
       EXCEPT !.running = 0, !.paused = 1, !.sync = 1, !.capture = NoSlot, !.reserved = 0]

(* camera_stream_start: refused while an image decoder has the pool's memory. *)
StreamStarts(c) == c.work = 0

StreamStart(c) ==
    LET d == StreamStop(c) IN
    IF ~StreamStarts(c) THEN d
    ELSE [d EXCEPT !.reserved = 1,
                   !.paused = 0, !.sync = 1, !.capture = NoSlot, !.seq = 0,
                   !.running = 1, !.irq = 1, !.start = 0, !.finish = 0,
                   !.aiOut = 0, !.aiWhole = 0, !.aiPix = 0]

(* camera_stream_pause, camera_stream_resume *)
StreamPause(c) == IF c.running = 0 THEN c ELSE [c EXCEPT !.paused = 1]

StreamResume(c) ==
    IF c.running = 0 THEN c
    ELSE [c EXCEPT !.slot = [s \in SlotIds |->
                               IF @[s].state = "ready" THEN FreeSlot ELSE @[s]],
                   !.paused = 0, !.sync = 1, !.start = 0]

(* camera_stream_acquire_latest: the newest ready frame is leased under a    *)
(* fresh id, the other ready frames are dropped.                             *)
CanAcquire(c) == c.running = 1 /\ Ready(c) # {} /\ c.lease # LeaseMax

(* Mutant: a dropped frame is marked free even when it is being captured. *)
AcquireDropsAll(c) ==
    [c EXCEPT !.lease = @ + 1,
              !.slot = [s \in SlotIds |->
                          IF s = Newest(c)
                            THEN [@[s] EXCEPT !.state = "leased", !.lease = c.lease + 1]
                            ELSE FreeSlot]]

Acquire(c) ==
    [c EXCEPT !.lease = @ + 1,
              !.slot = [s \in SlotIds |->
                          IF s = Newest(c)
                            THEN [@[s] EXCEPT !.state = "leased", !.lease = c.lease + 1]
                          ELSE IF @[s].state = "ready" THEN FreeSlot
                          ELSE @[s]]]

(* camera_stream_release: only the slot that holds this lease. *)
Release(c, id) ==
    IF id = 0 \/ c.running = 0 THEN c
    ELSE [c EXCEPT !.slot = [s \in SlotIds |->
                               IF @[s].state = "leased" /\ @[s].lease = id
                                 THEN FreeSlot ELSE @[s]]]

(* frame_workspace_borrow and _release, for an animation's backup frame. *)
CanBorrow(c) == c.reserved = 0 /\ c.work = 0

Borrow(c) == IF CanBorrow(c) THEN [c EXCEPT !.work = 1] ELSE c
GiveBack(c) == [c EXCEPT !.work = 0]

-----------------------------------------------------------------------------
(* camera_ai_input_acquire, attach, arm, cancel, release, take and           *)
(* prepare_preview.  A call by anyone but the owner changes nothing.         *)
AiFree(c, o) == c.aiOwner \in {o, NoOwner}

AiAcquire(c, o) == [c EXCEPT !.aiOwner = o, !.ai = "disabled", !.aiSeq = 0, !.aiPix = 0]

AiAttach(c, o) ==
    IF c.aiOwner # o THEN c
    ELSE [Output(IF c.preview = 1 THEN c ELSE Output(c, 1), 0)
            EXCEPT !.hooks = IF c.preview = 1 THEN @ ELSE o, !.aiSeq = 0, !.ai = "armed"]

AiArm(c, o) == IF c.aiOwner # o THEN c
               ELSE [Output(c, 0) EXCEPT !.aiSeq = 0, !.ai = "armed"]

AiCancel(c, o) == IF c.aiOwner # o THEN c
                  ELSE [Output(c, 0) EXCEPT !.aiSeq = 0, !.ai = "disabled"]

AiRelease(c, o) ==
    IF c.aiOwner # o THEN c
    ELSE [AiCancel(c, o) EXCEPT !.hooks = IF @ = o THEN NoOwner ELSE @, !.aiOwner = NoOwner]

AiCanTake(c, o) == c.aiOwner = o /\ c.ai = "ready"
AiTake(c) == [c EXCEPT !.ai = "busy"]

AiPreparePreview(c, sequence) ==
    IF c.aiOwner # NoOwner /\ c.preview = 1 /\ c.ai = "armed" /\ sequence # 0
      THEN [c EXCEPT !.aiSeq = sequence, !.ai = "ready", !.aiPix = sequence]
      ELSE c

=============================================================================
