-------------------------- MODULE VisionAppsProofs --------------------------
(***************************************************************************)
(* The camera applications for every size of the frame pool, every bound   *)
(* and every interrupt between two steps of the main loop: the detections  *)
(* on the screen are current, a model never stays in the accelerator with  *)
(* nobody to take it out, no frame is written while it is read, and the    *)
(* camera session agrees with the frame stream.  At the end, the AprilTag  *)
(* detector on core 1: the bank that is read is not the one being written. *)
(***************************************************************************)
EXTENDS VisionApps, ApriltagDetector, WellFoundedInduction, TLAPS

(* Every step of the main loop and every interrupt is one of these. *)
LEMMA Steps ==
    [Next]_vars =>
      \/ UNCHANGED vars
      \/ Hardware
      \/ \E d \in Detectors, card, sensor \in BOOLEAN : OpenDetector(d, card, sensor)
      \/ \E card, sensor \in BOOLEAN : RetryDetector(card, sensor)
      \/ \E a \in {"photo", "qr"}, sensor \in BOOLEAN : OpenCamera(a, sensor)
      \/ OpenAnimation
      \/ PreviewAcquire \/ Process \/ Take
      \/ \E starts \in BOOLEAN : Run(starts)
      \/ \E presented \in BOOLEAN : PreviewRelease(presented)
      \/ AfterFrame
      \/ DetectorBroke \/ CloseDetector \/ Store \/ Unloaded \/ CloseApp
      \/ CleanupPoll
      \/ OpenSettings \/ PauseOutput \/ PauseState \/ CloseSettings \/ ResumeCapture
      \/ \E sensor \in BOOLEAN : Reinit(sensor)
      \/ \E w \in {"photo", "qr", "frame"} : SnapshotLease(w)
      \/ SnapshotHold \/ SnapshotEnd \/ PhotoReview \/ QrFound \/ QrClose
      \/ SensorTalk
      \/ \E answers \in BOOLEAN : SensorDone(answers)
      \/ \E bus, sensor \in BOOLEAN : Probe(bus, sensor)
  BY DEF Next, MainLoop, Open, Preview, Unload, Settings, Snapshot, Console

-----------------------------------------------------------------------------
(* The object detector's banks of results. *)

Banks == [{0, 1} -> [seq : Nat, epoch : Nat, stale : {0, 1}]]

ObjType(o) ==
    o \in [active : {0, 1}, unloading : {0, 1}, paused : {0, 1}, epoch : Nat,
           infEpoch : Nat, infStale : {0, 1}, published : Nat, next : Nat, bank : Banks]

(* Whatever carries the epoch of the session has not been withdrawn. *)
Current(o) ==
    /\ o.infEpoch <= o.epoch /\ (o.infEpoch = o.epoch => o.infStale = 0)
    /\ \A b \in {0, 1} :
          /\ o.bank[b].epoch <= o.epoch
          /\ o.bank[b].epoch = o.epoch => o.bank[b].stale = 0

ObjInv(o) == ObjType(o) /\ Current(o)

(* Withdrawing the results starts an epoch nothing carries yet. *)
LEMMA InvalidatedOk == \A o : ObjInv(o) => ObjInv(Invalidated(o))
  <1> SUFFICES ASSUME NEW o, ObjType(o), Current(o) PROVE ObjInv(Invalidated(o))
    BY DEF ObjInv
  <1> DEFINE p == Invalidated(o)
  <1>1. \A b \in {0, 1} : o.bank[b] \in [seq : Nat, epoch : Nat, stale : {0, 1}]
    BY DEF ObjType, Banks
  <1>2. /\ p.epoch = o.epoch + 1 /\ p.infEpoch = o.infEpoch
        /\ \A b \in {0, 1} : p.bank[b].epoch = o.bank[b].epoch
    BY <1>1 DEF ObjType, Invalidated, NextEpoch
  <1>3. ObjType(p)
    <2> DEFINE w == [b \in {0, 1} |-> [o.bank[b] EXCEPT !.stale = 1]]
    <2>1. w \in Banks
      BY <1>1 DEF Banks
    <2>2. p = [o EXCEPT !.epoch = o.epoch + 1, !.published = 0, !.infStale = 1, !.bank = w]
      BY DEF Invalidated, NextEpoch
    <2>3. o.epoch + 1 \in Nat
      BY DEF ObjType
    <2> HIDE DEF w, p, Banks
    <2> QED BY <2>1, <2>2, <2>3 DEF ObjType
  <1>4. o.epoch \in Nat /\ o.infEpoch \in Nat /\ \A b \in {0, 1} : o.bank[b].epoch \in Nat
    BY <1>1 DEF ObjType
  <1>5. Current(p)
    <2> HIDE DEF p
    <2> QED BY <1>2, <1>4 DEF Current
  <1> QED BY <1>3, <1>5 DEF ObjInv

(* A bank takes the epoch of the inference that fills it. *)
LEMMA FinishedOk == ObjInv(obj) => ObjInv(FinishedObj)
  <1> SUFFICES ASSUME ObjType(obj), Current(obj) PROVE ObjInv(FinishedObj)
    BY DEF ObjInv
  <1> DEFINE n == obj.next + 1
             b == [seq |-> n, epoch |-> obj.infEpoch, stale |-> obj.infStale]
             e == obj.bank
  <1>1. /\ n \in Nat /\ n % 2 \in {0, 1}
        /\ b \in [seq : Nat, epoch : Nat, stale : {0, 1}]
        /\ e \in Banks
    BY DEF ObjType
  <1> DEFINE f == [e EXCEPT ![n % 2] = b]
  <1>2. f \in Banks /\ \A i \in {0, 1} : f[i] = b \/ f[i] = e[i]
    BY <1>1 DEF Banks
  <1>3. /\ FinishedObj.bank = f /\ FinishedObj.epoch = obj.epoch
        /\ FinishedObj.infEpoch = obj.infEpoch /\ FinishedObj.infStale = obj.infStale
    BY DEF ObjType, FinishedObj
  <1>4. ObjType(FinishedObj)
    BY <1>1, <1>2 DEF ObjType, FinishedObj
  <1>5. Current(FinishedObj)
    <2>1. b.epoch <= obj.epoch /\ (b.epoch = obj.epoch => b.stale = 0)
      BY DEF Current
    <2>2. \A i \in {0, 1} : f[i].epoch <= obj.epoch /\ (f[i].epoch = obj.epoch => f[i].stale = 0)
      <3> HIDE DEF f, b
      <3> QED BY <1>2, <2>1 DEF Current
    <2> HIDE DEF f, b
    <2> QED BY <1>3, <2>2 DEF Current
  <1> QED BY <1>4, <1>5 DEF ObjInv

(* The end of an unload leaves the results alone. *)
LEMMA ServicedObjOk == \A o, k : ObjInv(o) => ObjInv(ServicedObj(o, k))
  BY DEF ObjInv, ObjType, Current, Banks, ServicedObj

LEMMA PolledObjOk == ObjInv(obj) => ObjInv(PolledObj)
  BY ServicedObjOk DEF PolledObj

(* Changes of the object detector that touch neither results nor epochs. *)
LEMMA FlagsOk ==
    ASSUME NEW o, ObjInv(o), NEW a \in {0, 1}, NEW u \in {0, 1}
    PROVE  /\ ObjInv([o EXCEPT !.active = a, !.unloading = u])
           /\ ObjInv([o EXCEPT !.paused = a])
  BY DEF ObjInv, ObjType, Current, Banks

(* A detector is started with a new epoch and empty banks. *)
LEMMA StartObj ==
    ASSUME NEW d \in Detectors, NEW card \in BOOLEAN, NEW sensor \in BOOLEAN,
           ObjInv(obj), StartDetector(d, card, sensor)
    PROVE  ObjInv(obj')
  <1> DEFINE k == IF d = "object" THEN Serviced(PolledKpu, d) ELSE Tick(PolledKpu, d)
             free == k.state[d] = "UNLOADED"
             u == IF free THEN 0 ELSE PolledObj.unloading
             fresh == [Object EXCEPT !.epoch = NextEpoch(obj.epoch), !.active = obj.active,
                                     !.unloading = u]
  <1>1. ObjInv(PolledObj) /\ PolledObj.unloading \in {0, 1}
    BY PolledObjOk DEF ObjInv, ObjType
  <1>2. ObjInv(fresh)
    <2>1. u \in {0, 1} /\ obj.active \in {0, 1} /\ NextEpoch(obj.epoch) \in Nat
          /\ NextEpoch(obj.epoch) # 0
      BY <1>1 DEF ObjInv, ObjType, NextEpoch
    <2>2. /\ [b \in {0, 1} |-> NoBank] \in Banks
          /\ \A b \in {0, 1} : [c \in {0, 1} |-> NoBank][b].epoch = 0
      BY DEF Banks, NoBank
    <2> DEFINE e == [c \in {0, 1} |-> NoBank]
               n == NextEpoch(obj.epoch)
               a == obj.active
    <2> HIDE DEF u, e, n, a
    <2>8. /\ Object = [active |-> 0, unloading |-> 0, paused |-> 0, epoch |-> 0,
                       infEpoch |-> 0, infStale |-> 0, published |-> 0, next |-> 0,
                       bank |-> e]
          /\ fresh = [Object EXCEPT !.epoch = n, !.active = a, !.unloading = u]
      BY DEF Object, e, n, a
    <2>3. fresh = [active |-> a, unloading |-> u, paused |-> 0, epoch |-> n,
                   infEpoch |-> 0, infStale |-> 0, published |-> 0, next |-> 0, bank |-> e]
      <3> HIDE DEF fresh
      <3> QED BY <2>8
    <2> HIDE DEF fresh
    <2>4. ObjType(fresh)
      BY <2>1, <2>2, <2>3 DEF ObjType, e, n, a
    <2>5. fresh.epoch = n /\ fresh.infEpoch = 0 /\ fresh.bank = e /\ n \in Nat /\ n # 0
      BY <2>1, <2>3 DEF n
    <2>6. \A b \in {0, 1} : e[b].epoch = 0
      BY <2>2 DEF e
    <2>7. Current(fresh)
      BY <2>5, <2>6 DEF Current
    <2> QED BY <2>4, <2>7 DEF ObjInv
  <1>3. \/ obj' = PolledObj \/ obj' = fresh
        \/ obj' = [PolledObj EXCEPT !.active = 1, !.unloading = 0]
        \/ obj' = [fresh EXCEPT !.active = 1, !.unloading = 0]
    BY DEF StartDetector
  <1> HIDE DEF fresh
  <1> QED BY <1>1, <1>2, <1>3, FlagsOk

(* Unloading the detector withdraws its results. *)
LEMMA UnloadObj ==
    ASSUME NEW d, ObjInv(obj), UnloadDetector(d)
    PROVE  ObjInv(obj')
  <1>1. CASE d = "object"
    <2> DEFINE q == [Invalidated(obj) EXCEPT !.published = obj.published]
    <2>1. ObjInv(q)
      BY InvalidatedOk DEF ObjInv, ObjType, Current
    <2>2. obj' = [[q EXCEPT !.active = 0, !.unloading = 1] EXCEPT !.paused = 1]
      BY <1>1 DEF UnloadDetector, Invalidated, ObjInv, ObjType
    <2> HIDE DEF q
    <2>3. ObjInv([q EXCEPT !.active = 0, !.unloading = 1])
      BY <2>1, FlagsOk
    <2> QED BY <2>2, <2>3, FlagsOk
  <1>2. CASE d # "object"
    BY <1>2 DEF UnloadDetector
  <1> QED BY <1>1, <1>2

(* Every step keeps the banks current. *)
LEMMA ObjStep == ObjInv(obj) /\ [Next]_vars => ObjInv(obj')
  <1> SUFFICES ASSUME ObjInv(obj), [Next]_vars PROVE ObjInv(obj')
    OBVIOUS
  <1>1. CASE UNCHANGED vars
    BY <1>1 DEF vars
  <1>2. CASE Hardware
    BY <1>2 DEF Hardware
  <1>3. ASSUME NEW d \in Detectors, NEW card \in BOOLEAN, NEW sensor \in BOOLEAN,
               OpenDetector(d, card, sensor)
        PROVE  ObjInv(obj')
    BY <1>3, StartObj DEF OpenDetector
  <1>4. ASSUME NEW card \in BOOLEAN, NEW sensor \in BOOLEAN, RetryDetector(card, sensor)
        PROVE  ObjInv(obj')
    BY <1>4, StartObj DEF RetryDetector
  <1>5. ASSUME NEW a \in {"photo", "qr"}, NEW sensor \in BOOLEAN, OpenCamera(a, sensor)
        PROVE  ObjInv(obj')
    BY <1>5 DEF OpenCamera
  <1>6. CASE OpenAnimation \/ PreviewAcquire \/ AfterFrame \/ Store \/ CloseApp
    BY <1>6 DEF OpenAnimation, PreviewAcquire, AfterFrame, Store, CloseApp
  <1>7. CASE Process
    BY <1>7, FinishedOk DEF Process
  <1>8. CASE Take
    <2> DEFINE q == [obj EXCEPT !.infEpoch = obj.epoch, !.infStale = 0]
    <2>1. ObjType(q)
      BY DEF ObjInv, ObjType
    <2>2. /\ q.epoch = obj.epoch /\ q.infEpoch = obj.epoch /\ q.infStale = 0
          /\ q.bank = obj.bank /\ obj.epoch \in Nat
      BY DEF ObjInv, ObjType
    <2>3. Current(q)
      <3> HIDE DEF q
      <3> QED BY <2>2 DEF ObjInv, Current
    <2>4. obj' = q \/ obj' = obj
      BY <1>8 DEF Take
    <2> HIDE DEF q
    <2> QED BY <2>1, <2>3, <2>4 DEF ObjInv
  <1>9. ASSUME NEW starts \in BOOLEAN, Run(starts) PROVE ObjInv(obj')
    BY <1>9 DEF Run
  <1>10. ASSUME NEW presented \in BOOLEAN, PreviewRelease(presented) PROVE ObjInv(obj')
    BY <1>10 DEF PreviewRelease
  <1>11. CASE DetectorBroke \/ CloseDetector
    BY <1>11, UnloadObj DEF DetectorBroke, CloseDetector
  <1>12. CASE Unloaded
    BY <1>12, ServicedObjOk DEF Unloaded
  <1>13. CASE CleanupPoll
    BY <1>13, PolledObjOk DEF CleanupPoll
  <1>14. CASE OpenSettings \/ CloseSettings
    BY <1>14, InvalidatedOk DEF OpenSettings, CloseSettings
  <1>15. CASE PauseOutput \/ PauseState \/ ResumeCapture
    BY <1>15, FlagsOk DEF PauseOutput, PauseState, ResumeCapture
  <1>16. ASSUME NEW sensor \in BOOLEAN, Reinit(sensor) PROVE ObjInv(obj')
    BY <1>16 DEF Reinit
  <1>17. ASSUME NEW w \in {"photo", "qr", "frame"}, SnapshotLease(w) PROVE ObjInv(obj')
    BY <1>17 DEF SnapshotLease
  <1>18. CASE SnapshotHold \/ SnapshotEnd \/ PhotoReview \/ QrFound \/ QrClose \/ SensorTalk
    BY <1>18 DEF SnapshotHold, SnapshotEnd, PhotoReview, QrFound, QrClose, SensorTalk
  <1>19. ASSUME NEW answers \in BOOLEAN, SensorDone(answers) PROVE ObjInv(obj')
    BY <1>19 DEF SensorDone
  <1>20. ASSUME NEW bus \in BOOLEAN, NEW sensor \in BOOLEAN, Probe(bus, sensor)
         PROVE  ObjInv(obj')
    BY <1>20 DEF Probe
  <1> QED
    BY <1>1, <1>2, <1>3, <1>4, <1>5, <1>6, <1>7, <1>8, <1>9, <1>10, <1>11, <1>12,
       <1>13, <1>14, <1>15, <1>16, <1>17, <1>18, <1>19, <1>20, Steps

(* The detections on the screen and on the link come from an inference       *)
(* whose frame was taken after the results were last withdrawn, whatever     *)
(* settings, unloads and late inferences came between.                       *)
THEOREM DetectionsAreCurrent == Spec => []ResultsCurrent
  <1> DEFINE Inv == ObjInv(obj)
  <1>1. Init => Inv
    BY DEF Init, Object, NoBank, ObjInv, ObjType, Current, Banks
  <1>3. Inv /\ [Next]_vars => Inv'
    BY ObjStep
  <1>2. Inv => ResultsCurrent
    <2>1. ObjInv(obj) => obj.published % 2 \in {0, 1}
      BY DEF ObjInv, ObjType
    <2> QED BY <2>1 DEF ObjInv, Current, ResultsCurrent, Visible
  <1> HIDE DEF Inv
  <1> QED BY <1>1, <1>2, <1>3, PTL DEF Spec

-----------------------------------------------------------------------------
(* The accelerator. *)

(* The runtime whose model is in the accelerator is its owner, and while the *)
(* accelerator is busy it works for the owner.                               *)
Engine(k) ==
    /\ k \in Kpu
    /\ \A r \in Runtimes : k.state[r] # "UNLOADED" <=> k.owner = r
    /\ k.loaded = 1 <=> k.owner # NoRuntime
    /\ k.busy = k.engine
    /\ \A r \in Runtimes : k.state[r] = "RUNNING" => k.busy = 1
    /\ k.busy = 1 =>
          /\ k.owner # NoRuntime /\ k.done = k.owner
          /\ k.state[k.owner] \in {"RUNNING", "UNLOAD_PENDING", "FAULT"}

(* Operators on one runtime leave the state of the others alone. *)
Others(k, m, r) == \A q \in Runtimes \ {r} : m.state[q] = k.state[q]

LEMMA CompletedOk ==
    ASSUME NEW k, Engine(k), k.engine = 1
    PROVE  /\ Engine(Completed(k))
           /\ \A r \in Runtimes :
                 \/ Completed(k).state[r] = k.state[r]
                 \/ k.state[r] = "RUNNING" /\ Completed(k).state[r] = "READY"
  <1> DEFINE r == k.done
             m == Completed(k)
  <1>1. /\ k.busy = 1 /\ r = k.owner /\ r \in Runtimes
        /\ k.state[r] \in {"RUNNING", "UNLOAD_PENDING", "FAULT"}
    BY DEF Engine, Kpu
  <1>2. CASE k.state[r] = "RUNNING"
    <2>1. m = [k EXCEPT !.engine = 0, !.busy = 0, !.state = [k.state EXCEPT ![r] = "READY"],
                        !.pending = [k.pending EXCEPT ![r] = 1]]
      BY <1>1, <1>2, RuntimeAssumption DEF Completed, Kpu, Engine
    <2>2. /\ m \in Kpu /\ m.state = [k.state EXCEPT ![r] = "READY"] /\ m.owner = k.owner
          /\ m.loaded = k.loaded /\ m.busy = 0 /\ m.engine = 0
      <3> DEFINE st == [k.state EXCEPT ![r] = "READY"]
                 pd == [k.pending EXCEPT ![r] = 1]
      <3>1. st \in [Runtimes -> ModelStates] /\ pd \in [Runtimes -> {0, 1}] /\ k \in Kpu
        BY DEF Engine, Kpu, ModelStates
      <3>2. m = [k EXCEPT !.engine = 0, !.busy = 0, !.state = st, !.pending = pd]
        BY <2>1
      <3> HIDE DEF st, pd, m
      <3> QED BY <3>1, <3>2 DEF Kpu, st
    <2>3. /\ k.state \in [Runtimes -> ModelStates]
          /\ \A q \in Runtimes : k.state[q] = "RUNNING" => q = r
      BY <1>1 DEF Engine, Kpu
    <2> HIDE DEF m, r
    <2>4. \A q \in Runtimes : m.state[q] = IF q = r THEN "READY" ELSE k.state[q]
      BY <2>2, <2>3
    <2>5. Engine(m)
      BY <1>1, <1>2, <2>2, <2>3, <2>4 DEF Engine
    <2> QED BY <1>2, <2>4, <2>5 DEF m
  <1>3. CASE k.state[r] # "RUNNING"
    <2>1. m = [k EXCEPT !.engine = 0, !.busy = 0]
      BY <1>3 DEF Completed
    <2>2. \A q \in Runtimes : k.state[q] # "RUNNING"
      BY <1>1, <1>3 DEF Engine
    <2>3. m \in Kpu /\ m.state = k.state /\ m.owner = k.owner /\ m.loaded = k.loaded
          /\ m.busy = 0 /\ m.engine = 0
      BY <2>1 DEF Engine, Kpu
    <2>4. \A q \in Runtimes : k.state[q] # "UNLOADED" <=> k.owner = q
      BY DEF Engine
    <2> HIDE DEF m, r
    <2>5. Engine(m)
      BY <2>2, <2>3, <2>4 DEF Engine
    <2> QED BY <2>3, <2>5 DEF m
  <1> QED BY <1>2, <1>3

LEMMA ReleasedOk ==
    ASSUME NEW k, Engine(k), NEW r \in Runtimes, k.state[r] # "UNLOADED", k.busy = 0
    PROVE  /\ Engine(Released(k, r)) /\ Others(k, Released(k, r), r)
           /\ Released(k, r).state[r] = "UNLOADED"
  <1> DEFINE m == Released(k, r)
  <1>1. k.owner = r /\ r # NoRuntime /\ k.state \in [Runtimes -> ModelStates]
    BY RuntimeAssumption DEF Engine, Kpu
  <1>2. m = [k EXCEPT !.loaded = 0, !.done = NoRuntime, !.late = 0,
                      !.state = [k.state EXCEPT ![r] = "UNLOADED"],
                      !.pending = [k.pending EXCEPT ![r] = 0], !.owner = NoRuntime]
    BY <1>1 DEF Released, Clear, Kpu, Engine
  <1>3. /\ m \in Kpu /\ m.state = [k.state EXCEPT ![r] = "UNLOADED"]
        /\ m.owner = NoRuntime /\ m.loaded = 0 /\ m.busy = 0 /\ m.engine = 0
    <2> DEFINE st == [k.state EXCEPT ![r] = "UNLOADED"]
               pd == [k.pending EXCEPT ![r] = 0]
    <2>1. /\ st \in [Runtimes -> ModelStates] /\ pd \in [Runtimes -> {0, 1}]
          /\ k \in Kpu /\ k.engine = 0
      BY DEF Engine, Kpu, ModelStates
    <2>2. m = [k EXCEPT !.loaded = 0, !.done = NoRuntime, !.late = 0, !.state = st,
                        !.pending = pd, !.owner = NoRuntime]
      BY <1>2
    <2> HIDE DEF st, pd, m
    <2> QED BY <2>1, <2>2 DEF Kpu, st
  <1> HIDE DEF m
  <1>4. \A q \in Runtimes : m.state[q] = IF q = r THEN "UNLOADED" ELSE k.state[q]
    BY <1>1, <1>3
  <1>5. \A q \in Runtimes : m.state[q] = "UNLOADED"
    BY <1>1, <1>4 DEF Engine
  <1>6. Engine(m)
    BY <1>3, <1>5, RuntimeAssumption DEF Engine
  <1> QED BY <1>4, <1>6 DEF m, Others

LEMMA TickOk ==
    ASSUME NEW k, Engine(k), NEW r \in Runtimes
    PROVE  /\ Engine(Tick(k, r)) /\ Others(k, Tick(k, r), r)
           /\ \/ Tick(k, r) = k
              \/ k.state[r] = "UNLOAD_PENDING" /\ Tick(k, r).state[r] = "UNLOADED"
  <1>1. CASE k.state[r] # "UNLOAD_PENDING" \/ (k.busy # 0 /\ k.late = 0)
    BY <1>1 DEF Tick, Others
  <1>2. CASE k.state[r] = "UNLOAD_PENDING" /\ k.busy = 0
    BY <1>2, ReleasedOk DEF Tick
  <1>3. CASE k.state[r] = "UNLOAD_PENDING" /\ k.busy # 0 /\ k.late # 0
    <2> DEFINE m == StopAndReset(k)
    <2>1. /\ Engine(m) /\ m.busy = 0 /\ m.state = k.state
      BY <1>3, RuntimeAssumption DEF StopAndReset, Engine, Kpu, ModelStates
    <2>2. Tick(k, r) = Released(m, r)
      BY <1>3 DEF Tick
    <2> HIDE DEF m
    <2>3. Engine(Released(m, r)) /\ Others(m, Released(m, r), r)
          /\ Released(m, r).state[r] = "UNLOADED"
      BY <1>3, <2>1, ReleasedOk
    <2> QED BY <1>3, <2>1, <2>2, <2>3 DEF Others
  <1> QED BY <1>1, <1>2, <1>3

LEMMA UnloadTestOk ==
    ASSUME NEW k, Engine(k), NEW r \in Runtimes
    PROVE  /\ Engine(UnloadTest(k, r)) /\ Others(k, UnloadTest(k, r), r)
           /\ UnloadTest(k, r).state[r] =
                 IF k.state[r] = "RUNNING" THEN "RUNNING"
                 ELSE IF k.state[r] # "UNLOADED" /\ k.busy = 1 THEN "FAULT"
                 ELSE "UNLOADED"
  <1> DEFINE q == [k EXCEPT !.pending[r] = 0]
  <1>1. Engine(q) /\ q.state = k.state /\ q.busy = k.busy
    BY DEF Engine, Kpu
  <1>2. CASE k.state[r] = "UNLOADED"
    BY <1>2 DEF UnloadTest, Others
  <1>3. CASE k.state[r] = "RUNNING"
    BY <1>1, <1>3 DEF UnloadTest, UnloadWaits, Others
  <1>4. CASE k.state[r] \notin {"UNLOADED", "RUNNING"} /\ k.busy = 1
    BY <1>4, RuntimeAssumption
    DEF Engine, Kpu, ModelStates, UnloadTest, UnloadWaits, Others
  <1>5. CASE k.state[r] \notin {"UNLOADED", "RUNNING"} /\ k.busy # 1
    <2>1. UnloadTest(k, r) = Released(q, r)
      BY <1>5 DEF UnloadTest, UnloadWaits
    <2>2. q.busy = 0
      BY <1>1, <1>5 DEF Engine, Kpu
    <2> HIDE DEF q
    <2>3. /\ Engine(Released(q, r)) /\ Others(q, Released(q, r), r)
          /\ Released(q, r).state[r] = "UNLOADED"
      BY <1>1, <1>5, <2>2, ReleasedOk
    <2> QED BY <1>1, <1>5, <2>1, <2>3 DEF Others
  <1> QED BY <1>2, <1>3, <1>4, <1>5

LEMMA UnloadStoreOk ==
    ASSUME NEW k, Engine(k), NEW r \in Runtimes, k.state[r] \in {"READY", "RUNNING"}
    PROVE  /\ Engine(UnloadStore(k, r)) /\ Others(k, UnloadStore(k, r), r)
           /\ UnloadStore(k, r).state[r] = "UNLOAD_PENDING"
  BY RuntimeAssumption DEF Engine, Kpu, ModelStates, UnloadStore, Others

(* A model that is being unloaded stays so, or is gone. *)
LEMMA ServicedOk ==
    ASSUME NEW k, Engine(k), NEW d \in Detectors, k.state[d] \notin {"READY", "RUNNING"}
    PROVE  /\ Engine(Serviced(k, d)) /\ Others(k, Serviced(k, d), d)
           /\ \/ Serviced(k, d).state[d] = "UNLOADED"
              \/ Serviced(k, d).state[d] = k.state[d]
           /\ k.state[d] = "UNLOAD_PENDING" => Serviced(k, d) = Tick(k, d)
  <1>1. d \in Runtimes
    BY DetectorAssumption
  <1>2. k.state[d] \in {"UNLOADED", "UNLOAD_PENDING", "FAULT"}
    BY <1>1 DEF Engine, Kpu, ModelStates
  <1>3. CASE d = "object" /\ obj.unloading = 1
             /\ k.state[d] \notin {"UNLOADED", "UNLOAD_PENDING"}
    <2> DEFINE m == UnloadTest(k, d)
    <2>1. Serviced(k, d) = Tick(m, d)
      BY <1>2, <1>3 DEF Serviced, UnloadWaits
    <2>2. /\ Engine(m) /\ Others(k, m, d)
          /\ m.state[d] \in {"FAULT", "UNLOADED"}
      BY <1>1, <1>2, UnloadTestOk
    <2> HIDE DEF m
    <2>3. Tick(m, d) = m
      BY <2>2 DEF Tick
    <2> QED BY <1>2, <1>3, <2>1, <2>2, <2>3
  <1>4. CASE ~(d = "object" /\ obj.unloading = 1
               /\ k.state[d] \notin {"UNLOADED", "UNLOAD_PENDING"})
    <2>1. Serviced(k, d) = Tick(k, d)
      BY <1>4 DEF Serviced
    <2> QED BY <1>1, <2>1, TickOk
  <1> QED BY <1>3, <1>4

LEMMA LoadedOk ==
    ASSUME NEW k, Engine(k), NEW r \in Runtimes, ~LoadRefused(k, r)
    PROVE  /\ Engine(Loaded(k, r)) /\ Others(k, Loaded(k, r), r)
           /\ Loaded(k, r).state[r] = "READY" /\ Loaded(k, r).owner = r
           /\ \A q \in Runtimes : k.state[q] = "UNLOADED"
  <1> DEFINE m == Loaded(k, r)
  <1>1. /\ k.owner = NoRuntime /\ k.busy = 0 /\ k.loaded = 0
        /\ k.state \in [Runtimes -> ModelStates]
    BY DEF LoadRefused, Engine, Kpu
  <1>2. \A q \in Runtimes : k.state[q] = "UNLOADED"
    BY <1>1, RuntimeAssumption DEF Engine
  <1>3. m = [k EXCEPT !.state = [k.state EXCEPT ![r] = "READY"], !.owner = r, !.loaded = 1]
    BY DEF Loaded
  <1>4. /\ m \in Kpu /\ m.state = [k.state EXCEPT ![r] = "READY"]
        /\ m.owner = r /\ m.loaded = 1 /\ m.busy = 0 /\ m.engine = 0
    <2> DEFINE st == [k.state EXCEPT ![r] = "READY"]
    <2>1. st \in [Runtimes -> ModelStates] /\ k \in Kpu /\ k.engine = 0
      BY <1>1 DEF Engine, Kpu, ModelStates
    <2>2. m = [k EXCEPT !.state = st, !.owner = r, !.loaded = 1]
      BY <1>3
    <2> HIDE DEF st, m
    <2> QED BY <1>1, <2>1, <2>2 DEF Kpu, st
  <1> HIDE DEF m
  <1>5. \A q \in Runtimes : m.state[q] = IF q = r THEN "READY" ELSE "UNLOADED"
    BY <1>1, <1>2, <1>4
  <1>6. Engine(m)
    BY <1>4, <1>5, RuntimeAssumption DEF Engine
  <1> QED BY <1>2, <1>4, <1>5, <1>6 DEF m, Others

LEMMA RunOk ==
    ASSUME NEW k, Engine(k), NEW r \in Runtimes, ~RunRefused(k, r)
    PROVE  /\ Engine(RunStarted(k, r)) /\ Others(k, RunStarted(k, r), r)
           /\ RunStarted(k, r).state[r] = "RUNNING"
           /\ RunStarted(k, r).owner = k.owner
           /\ Engine(RunFailed(k, r)) /\ RunFailed(k, r).state = k.state
           /\ RunFailed(k, r).owner = k.owner
  BY RuntimeAssumption DEF Engine, Kpu, ModelStates, RunRefused, RunStarted, RunFailed, Others

Live(r)  == kpu.state[r] \in {"READY", "RUNNING"}
Waits(r) == kpu.state[r] = "UNLOAD_PENDING"

(* Every model has its keeper: a model in use its open application, a model *)
(* that waits for the accelerator the cleanup poll, or the unload that is    *)
(* about to hand it over.                                                    *)
Keeper ==
    /\ kpu.owner \in Detectors \cup {NoRuntime}
    /\ cleanup \in Detectors \cup {NoRuntime}
    /\ cleanup # NoRuntime => ~Live(cleanup)
    /\ \A r \in Detectors : Live(r) =>
          /\ app = r /\ cleanup = NoRuntime /\ mode # "loading"
          /\ pc # "unloaded" /\ (failed = 0 \/ pc = "store")
    /\ \A r \in Detectors : Waits(r) =>
          cleanup = r \/ (cleanup = NoRuntime /\ pc = "unloaded" /\ app = r)
    /\ pc \in {"store", "unloaded"} => app \in Detectors
    /\ pc = "store" => Live(app)
    /\ pc \in {"process", "take", "run", "after"} => app \in Detectors

ModelInv == Engine(kpu) /\ Keeper

(* The poll keeps an unload that still waits, and forgets any other. *)
LEMMA PollOk ==
    ASSUME ModelInv, pc = "loop"
    PROVE  /\ Engine(PolledKpu)
           /\ \A r \in Runtimes : PolledKpu.state[r] \in {kpu.state[r], "UNLOADED"}
           /\ \A r \in Detectors : PolledKpu.state[r] = "UNLOAD_PENDING" => PolledCleanup = r
           /\ PolledCleanup \in Detectors \cup {NoRuntime}
           /\ PolledCleanup # NoRuntime =>
                 /\ PolledKpu = kpu /\ Tick(kpu, PolledCleanup) = kpu
                 /\ Waits(PolledCleanup)
  <1> USE RuntimeAssumption
  <1>d. \A r \in Detectors : r \in Runtimes
    BY DetectorAssumption
  <1>s. \A r \in Detectors : kpu.state[r] \in ModelStates
    BY <1>d DEF ModelInv, Engine, Kpu
  <1>1. CASE cleanup = NoRuntime
    BY <1>1 DEF PolledKpu, PolledCleanup, ModelInv, Keeper, Waits
  <1>2. CASE cleanup # NoRuntime
    <2> DEFINE c == cleanup
               m == Serviced(kpu, c)
    <2>1. c \in Detectors /\ ~Live(c) /\ Engine(kpu)
      BY <1>2 DEF ModelInv, Keeper
    <2>2. /\ Engine(m) /\ Others(kpu, m, c)
          /\ m.state[c] = "UNLOADED" \/ m.state[c] = kpu.state[c]
          /\ kpu.state[c] = "UNLOAD_PENDING" => m = Tick(kpu, c)
      BY <2>1, ServicedOk DEF Live
    <2>3. PolledKpu = m
      BY <1>2 DEF PolledKpu
    <2>4. PolledCleanup = IF m.state[c] \in {"UNLOADED", "FAULT"} THEN NoRuntime ELSE c
      BY <1>2, <2>3 DEF PolledCleanup, UnloadOver
    <2> HIDE DEF m
    <2>5. /\ \A r \in Runtimes : r # c => m.state[r] = kpu.state[r]
          /\ \A r \in Detectors : r # c => ~Waits(r)
      BY <1>2, <2>2 DEF Others, ModelInv, Keeper
    <2>6. m.state[c] \notin {"UNLOADED", "FAULT"} => Waits(c) /\ m.state[c] = kpu.state[c]
      BY <1>s, <2>1, <2>2 DEF Live, Waits, ModelStates
    <2>7. m.state[c] = "UNLOAD_PENDING" => m = kpu /\ Tick(kpu, c) = kpu
      BY <1>d, <2>1, <2>2, TickOk
    <2>8. \A r \in Runtimes : m.state[r] \in {kpu.state[r], "UNLOADED"}
      BY <2>2, <2>5
    <2>9. \A r \in Detectors : m.state[r] = "UNLOAD_PENDING" => r = c /\ PolledCleanup = c
      BY <1>d, <2>4, <2>5 DEF Waits
    <2>10. PolledCleanup # NoRuntime =>
             PolledCleanup = c /\ Waits(c) /\ m = kpu /\ Tick(kpu, c) = kpu
      BY <2>4, <2>6, <2>7 DEF Waits
    <2>11. PolledCleanup \in Detectors \cup {NoRuntime}
      BY <2>1, <2>4
    <2> QED BY <2>2, <2>3, <2>8, <2>9, <2>10, <2>11
  <1> QED BY <1>1, <1>2

(* A detector that is started takes an accelerator nobody uses, or none. *)
LEMMA StartKpu ==
    ASSUME ModelInv, pc = "loop", NEW d \in Detectors, \A r \in Detectors : ~Live(r),
           NEW card \in BOOLEAN, NEW sensor \in BOOLEAN, StartDetector(d, card, sensor)
    PROVE  /\ Engine(kpu') /\ kpu'.owner \in Detectors \cup {NoRuntime}
           /\ cleanup' \in Detectors \cup {NoRuntime}
           /\ \A r \in Detectors : kpu'.state[r] = "UNLOAD_PENDING" => cleanup' = r
           /\ \A r \in Detectors : kpu'.state[r] \in {"READY", "RUNNING"} =>
                 r = d /\ cleanup' = NoRuntime /\ mode' = "live" /\ failed' = 0
  <1> DEFINE k == IF d = "object" THEN Serviced(PolledKpu, d) ELSE Tick(PolledKpu, d)
             free == k.state[d] = "UNLOADED"
             loads == (free /\ AiFree(IF d = "object" THEN ServicedCam(PolledCam, k, d)
                                      ELSE PolledCam, d))
                      /\ ~LoadRefused(k, d) /\ card
  <1>d. \A r \in Detectors : r \in Runtimes
    BY DetectorAssumption
  <1>1. /\ Engine(PolledKpu)
        /\ \A r \in Runtimes : PolledKpu.state[r] \in {kpu.state[r], "UNLOADED"}
        /\ \A r \in Detectors : PolledKpu.state[r] = "UNLOAD_PENDING" => PolledCleanup = r
        /\ PolledCleanup \in Detectors \cup {NoRuntime}
        /\ PolledCleanup # NoRuntime =>
              /\ PolledKpu = kpu /\ Tick(kpu, PolledCleanup) = kpu
              /\ Waits(PolledCleanup)
    BY PollOk
  <1>2. \A r \in Detectors : PolledKpu.state[r] \notin {"READY", "RUNNING"}
    <2> SUFFICES ASSUME NEW r \in Detectors PROVE PolledKpu.state[r] \notin {"READY", "RUNNING"}
      OBVIOUS
    <2>1. kpu.state[r] \notin {"READY", "RUNNING"}
      BY DEF Live
    <2>2. PolledKpu.state[r] \in {kpu.state[r], "UNLOADED"}
      BY <1>d, <1>1
    <2> QED BY <2>1, <2>2
  <1>3. /\ Engine(k) /\ Others(PolledKpu, k, d)
        /\ k.state[d] \in {PolledKpu.state[d], "UNLOADED"}
        /\ PolledKpu.state[d] = "UNLOAD_PENDING" => k = Tick(PolledKpu, d)
    BY <1>d, <1>1, <1>2, ServicedOk, TickOk
  <1>4. /\ cleanup' = PolledCleanup
        /\ kpu' = IF loads THEN Loaded(k, d) ELSE k
        /\ loads => mode' = "live" /\ failed' = 0
    BY DEF StartDetector
  <1>5. loads => ~LoadRefused(k, d)
    OBVIOUS
  <1> HIDE DEF k, loads
  <1>6. \A r \in Detectors : k.state[r] \in {PolledKpu.state[r], "UNLOADED"}
    BY <1>d, <1>3 DEF Others
  <1>7. CASE loads
    <2>1. /\ Engine(Loaded(k, d)) /\ Others(k, Loaded(k, d), d)
          /\ Loaded(k, d).state[d] = "READY" /\ Loaded(k, d).owner = d
          /\ \A q \in Runtimes : k.state[q] = "UNLOADED"
      BY <1>d, <1>3, <1>5, <1>7, LoadedOk
    <2>2. \A r \in Detectors : r # d => Loaded(k, d).state[r] = "UNLOADED"
      BY <1>d, <2>1 DEF Others
    <2>3. PolledCleanup = NoRuntime
      <3> SUFFICES ASSUME PolledCleanup # NoRuntime PROVE FALSE
        OBVIOUS
      <3>1. /\ PolledKpu = kpu /\ Tick(kpu, PolledCleanup) = kpu
            /\ kpu.state[PolledCleanup] = "UNLOAD_PENDING" /\ PolledCleanup \in Detectors
        BY <1>1 DEF Waits
      <3>2. PolledCleanup = d
        BY <1>d, <1>3, <2>1, <3>1 DEF Others
      <3>3. k = kpu
        BY <1>3, <3>1, <3>2
      <3> QED BY <1>d, <2>1, <3>1, <3>3
    <2> QED BY <1>4, <1>7, <2>1, <2>2, <2>3
  <1>8. CASE ~loads
    <2>1. k.owner \in Detectors \cup {NoRuntime}
      <3>1. \A r \in Runtimes : k.owner = r => PolledKpu.owner = r
        <4> SUFFICES ASSUME NEW r \in Runtimes, k.owner = r PROVE PolledKpu.owner = r
          OBVIOUS
        <4>1. k.state[r] # "UNLOADED"
          BY <1>3 DEF Engine
        <4>2. k.state[r] = PolledKpu.state[r]
          BY <1>3, <4>1 DEF Others
        <4> QED BY <1>1, <4>1, <4>2 DEF Engine
      <3>2. \A r \in Runtimes : PolledKpu.owner = r => kpu.owner = r
        BY <1>1 DEF ModelInv, Engine
      <3> QED BY <1>3, <3>1, <3>2 DEF ModelInv, Keeper, Engine, Kpu
    <2> QED BY <1>1, <1>2, <1>3, <1>4, <1>6, <1>8, <2>1
  <1> QED BY <1>7, <1>8

(* A step that leaves the accelerator and its users alone. *)
LEMMA FrameOk ==
    ASSUME ModelInv, UNCHANGED <<kpu, app, cleanup>>, mode' # "loading" \/ mode' = mode,
           failed' = failed, pc \notin {"store", "unloaded"},
           pc' \notin {"store", "unloaded"},
           pc' \in {"process", "take", "run", "after"} => app \in Detectors
    PROVE  ModelInv'
  <1>1. Engine(kpu)'
    BY DEF ModelInv, Engine
  <1>2. \A r \in Detectors : (Live(r)' <=> Live(r)) /\ (Waits(r)' <=> Waits(r))
    BY DEF Live, Waits
  <1>3. cleanup' # NoRuntime => ~Live(cleanup)'
    BY DEF ModelInv, Keeper, Live
  <1>4. Keeper'
    BY <1>2, <1>3 DEF ModelInv, Keeper
  <1> QED BY <1>1, <1>4 DEF ModelInv

(* An application that is no detector, or none, has nothing in use. *)
LEMMA SwitchOk ==
    ASSUME ModelInv, UNCHANGED <<kpu, pc, cleanup>>, app \notin Detectors, pc = "loop"
    PROVE  ModelInv'
  <1>1. Engine(kpu)'
    BY DEF ModelInv, Engine
  <1>2. \A r \in Detectors : ~Live(r)' /\ (Waits(r)' => cleanup' = r)
    BY DEF ModelInv, Keeper, Live, Waits
  <1>3. cleanup' # NoRuntime => ~Live(cleanup)'
    BY DEF ModelInv, Keeper, Live
  <1>4. Keeper'
    BY <1>2, <1>3 DEF ModelInv, Keeper
  <1> QED BY <1>1, <1>4 DEF ModelInv

(* No step but a load gives the accelerator an owner. *)
LEMMA OwnerOk ==
    ASSUME NEW k, NEW m, Engine(k), Engine(m), k.owner \in Detectors \cup {NoRuntime},
           \A r \in Runtimes : m.state[r] # "UNLOADED" => k.state[r] # "UNLOADED"
    PROVE  m.owner \in Detectors \cup {NoRuntime}
  BY DEF Engine, Kpu

(* A step of the accelerator under the same application: no model comes into *)
(* use that was not, and no new unload waits.                                *)
LEMMA EngineStepOk ==
    ASSUME ModelInv, Engine(kpu'), UNCHANGED <<app, mode, failed, cleanup>>,
           \A r \in Runtimes :
              \/ kpu'.state[r] = kpu.state[r]
              \/ kpu.state[r] \in {"READY", "RUNNING"} /\ kpu'.state[r] \in {"READY", "RUNNING"},
           pc' = pc \/ (pc \notin {"store", "unloaded"} /\ pc' \notin {"store", "unloaded"}),
           pc' \in {"process", "take", "run", "after"} => app \in Detectors
    PROVE  ModelInv'
  <1>d. \A r \in Detectors : r \in Runtimes
    BY DetectorAssumption
  <1>1. \A r \in Detectors : (Live(r)' <=> Live(r)) /\ (Waits(r)' <=> Waits(r))
    BY <1>d DEF Live, Waits
  <1>2. kpu'.owner \in Detectors \cup {NoRuntime}
    BY OwnerOk DEF ModelInv, Keeper
  <1>3. cleanup' # NoRuntime => ~Live(cleanup)'
    BY <1>1 DEF ModelInv, Keeper, Live
  <1>4. pc' = "store" => Live(app)'
    BY <1>1 DEF ModelInv, Keeper, Live
  <1>5. Keeper'
    BY <1>1, <1>2, <1>3, <1>4 DEF ModelInv, Keeper
  <1>6. Engine(kpu)'
    BY DEF Engine
  <1> QED BY <1>5, <1>6 DEF ModelInv

(* A detector's unload begins: a running model waits for its store. *)
LEMMA UnloadKpu ==
    ASSUME ModelInv, pc \in {"loop", "after"}, app \in Detectors, UnloadDetector(app),
           UNCHANGED <<app, cleanup>>, mode' # "loading" \/ mode' = mode
    PROVE  ModelInv'
  <1>d. \A r \in Detectors : r \in Runtimes
    BY DetectorAssumption
  <1>1. /\ Engine(kpu') /\ Others(kpu, kpu', app)
        /\ kpu'.state[app] = IF kpu.state[app] = "RUNNING" THEN "RUNNING"
                             ELSE IF kpu.state[app] # "UNLOADED" /\ kpu.busy = 1 THEN "FAULT"
                             ELSE "UNLOADED"
        /\ pc' = IF kpu.state[app] = "RUNNING" THEN "store" ELSE "unloaded"
    BY <1>d, UnloadTestOk DEF UnloadDetector, ModelInv, UnloadWaits
  <1>2. \A r \in Detectors : Live(r)' =>
           r = app /\ Live(r) /\ pc' = "store" /\ kpu.state[r] = "RUNNING"
    BY <1>d, <1>1 DEF ModelInv, Keeper, Live, Others
  <1>3. \A r \in Detectors : Waits(r)' => r # app /\ Waits(r)
    BY <1>d, <1>1 DEF Waits, Others
  <1>4. kpu'.owner \in Detectors \cup {NoRuntime}
    <2>1. \A r \in Runtimes : kpu'.state[r] # "UNLOADED" => kpu.state[r] # "UNLOADED"
      BY <1>1 DEF Others
    <2> QED BY <1>1, <2>1, OwnerOk DEF ModelInv, Keeper
  <1>5. cleanup' # NoRuntime => ~Live(cleanup)'
    <2> SUFFICES ASSUME cleanup # NoRuntime, Live(cleanup)' PROVE FALSE
      OBVIOUS
    <2>1. cleanup \in Detectors /\ ~Live(cleanup)
      BY DEF ModelInv, Keeper
    <2>2. kpu'.state[cleanup] \in {"READY", "RUNNING"}
      BY DEF Live
    <2> QED BY <1>d, <1>1, <2>1, <2>2 DEF Others, Live
  <1>6. pc' = "store" => Live(app)'
    BY <1>1 DEF Live
  <1>7. Keeper'
    BY <1>1, <1>2, <1>3, <1>4, <1>5, <1>6 DEF ModelInv, Keeper
  <1>8. Engine(kpu)'
    BY <1>1 DEF Engine
  <1> QED BY <1>7, <1>8 DEF ModelInv

(* A new model comes in with its application open. *)
LEMMA StartOk ==
    ASSUME ModelInv, pc = "loop", UNCHANGED pc, NEW d \in Detectors, app' = d,
           \A r \in Detectors : ~Live(r),
           NEW card \in BOOLEAN, NEW sensor \in BOOLEAN, StartDetector(d, card, sensor)
    PROVE  ModelInv'
  <1>1. /\ Engine(kpu') /\ kpu'.owner \in Detectors \cup {NoRuntime}
        /\ cleanup' \in Detectors \cup {NoRuntime}
        /\ \A r \in Detectors : kpu'.state[r] = "UNLOAD_PENDING" => cleanup' = r
        /\ \A r \in Detectors : kpu'.state[r] \in {"READY", "RUNNING"} =>
              r = d /\ cleanup' = NoRuntime /\ mode' = "live" /\ failed' = 0
    BY StartKpu
  <1>2. \A r \in Detectors : /\ Live(r)' => app' = r /\ cleanup' = NoRuntime
                                              /\ mode' = "live" /\ failed' = 0
                             /\ Waits(r)' => cleanup' = r
    BY <1>1 DEF Live, Waits
  <1>3. cleanup' # NoRuntime => ~Live(cleanup)'
    <2> SUFFICES ASSUME cleanup' # NoRuntime, Live(cleanup)' PROVE FALSE
      OBVIOUS
    <2> QED BY <1>1 DEF Live
  <1>4. Keeper'
    BY <1>1, <1>2, <1>3 DEF Keeper
  <1>5. Engine(kpu)'
    BY <1>1 DEF Engine
  <1> QED BY <1>4, <1>5 DEF ModelInv

LEMMA RunStep ==
    ASSUME ModelInv, NEW starts \in BOOLEAN, Run(starts)
    PROVE  ModelInv'
  <1>1. app \in Detectors /\ app \in Runtimes /\ pc = "run"
    BY DetectorAssumption DEF Run, ModelInv, Keeper
  <1>2. pc' \in {"release", "after"}
    BY DEF Run, After
  <1>3. \/ kpu' = kpu
        \/ ~RunRefused(kpu, app) /\ kpu' \in {RunStarted(kpu, app), RunFailed(kpu, app)}
    BY DEF Run
  <1>4. UNCHANGED <<app, mode, failed, cleanup>>
    BY DEF Run
  <1>5. Engine(kpu') /\ \A r \in Runtimes :
             \/ kpu'.state[r] = kpu.state[r]
             \/ kpu.state[r] \in {"READY", "RUNNING"} /\ kpu'.state[r] \in {"READY", "RUNNING"}
    <2>1. CASE kpu' = kpu
      BY <2>1 DEF ModelInv
    <2>2. CASE ~RunRefused(kpu, app) /\ kpu' \in {RunStarted(kpu, app), RunFailed(kpu, app)}
      <3>1. /\ Engine(RunStarted(kpu, app)) /\ Others(kpu, RunStarted(kpu, app), app)
            /\ RunStarted(kpu, app).state[app] = "RUNNING"
            /\ Engine(RunFailed(kpu, app)) /\ RunFailed(kpu, app).state = kpu.state
        BY <1>1, <2>2, RunOk DEF ModelInv
      <3>2. kpu.state[app] = "READY"
        BY <2>2 DEF RunRefused
      <3> QED BY <1>1, <2>2, <3>1, <3>2 DEF Others
    <2> QED BY <1>3, <2>1, <2>2
  <1> QED BY <1>1, <1>2, <1>4, <1>5, EngineStepOk

LEMMA ProcessStep ==
    ASSUME ModelInv, Process
    PROVE  ModelInv'
  <1>1. app \in Detectors /\ app \in Runtimes /\ pc = "process"
    BY DetectorAssumption DEF Process, ModelInv, Keeper
  <1>2. pc' \in {"take", "release", "after"} /\ UNCHANGED <<app, mode, failed, cleanup>>
    BY DEF Process, After
  <1>3. kpu' = kpu \/ kpu' = [kpu EXCEPT !.pending[app] = 0]
    BY DEF Process
  <1>4. Engine(kpu') /\ kpu'.state = kpu.state
    BY <1>1, <1>3 DEF ModelInv, Engine, Kpu
  <1> QED BY <1>1, <1>2, <1>4, EngineStepOk

LEMMA StoreStep ==
    ASSUME ModelInv, Store
    PROVE  ModelInv'
  <1>1. /\ app \in Detectors /\ app \in Runtimes /\ Live(app) /\ cleanup = NoRuntime
        /\ UNCHANGED <<app, mode, failed, cleanup>> /\ pc' = "unloaded"
    BY DetectorAssumption DEF Store, ModelInv, Keeper
  <1>2. /\ Engine(kpu') /\ Others(kpu, kpu', app) /\ kpu'.state[app] = "UNLOAD_PENDING"
    BY <1>1, UnloadStoreOk DEF Store, ModelInv, Live
  <1>3. \A r \in Detectors : r # app => ~Live(r) /\ ~Waits(r)
    BY <1>1, RuntimeAssumption, DetectorAssumption DEF ModelInv, Keeper, Store
  <1>4. \A r \in Detectors : ~Live(r)' /\ (Waits(r)' => r = app)
    BY <1>2, <1>3, DetectorAssumption DEF Live, Waits, Others
  <1>5. kpu'.owner \in Detectors \cup {NoRuntime}
    <2>1. \A r \in Runtimes : kpu'.state[r] # "UNLOADED" => kpu.state[r] # "UNLOADED"
      BY <1>1, <1>2 DEF Others, Live
    <2> QED BY <1>2, <2>1, OwnerOk DEF ModelInv, Keeper
  <1>6. Keeper'
    BY <1>1, <1>4, <1>5 DEF Keeper
  <1>7. Engine(kpu)'
    BY <1>2 DEF Engine
  <1> QED BY <1>6, <1>7 DEF ModelInv

LEMMA UnloadedStep ==
    ASSUME ModelInv, Unloaded
    PROVE  ModelInv'
  <1>1. /\ app \in Detectors /\ app \in Runtimes /\ \A r \in Detectors : ~Live(r)
        /\ pc = "unloaded" /\ pc' = "loop" /\ kpu' = Serviced(kpu, app)
        /\ cleanup' = IF UnloadOver(kpu', app) THEN cleanup
                      ELSE IF cleanup = NoRuntime THEN app ELSE cleanup
    BY DetectorAssumption DEF Unloaded, ModelInv, Keeper
  <1>2. /\ Engine(kpu') /\ Others(kpu, kpu', app)
        /\ kpu'.state[app] = "UNLOADED" \/ kpu'.state[app] = kpu.state[app]
    BY <1>1, ServicedOk DEF ModelInv, Live
  <1>3. \A r \in Detectors : ~Live(r)' /\ (Waits(r)' => Waits(r))
    BY <1>1, <1>2, DetectorAssumption DEF Live, Waits, Others
  <1>4. \A r \in Detectors : Waits(r)' => cleanup' = r
    <2> SUFFICES ASSUME NEW r \in Detectors, kpu'.state[r] = "UNLOAD_PENDING", Waits(r)
                 PROVE  cleanup' = r
      BY <1>3 DEF Waits
    <2>1. r \in Runtimes /\ r # NoRuntime
      BY RuntimeAssumption, DetectorAssumption
    <2>2. CASE r = app
      <3>1. cleanup = app \/ cleanup = NoRuntime
        BY <2>2 DEF ModelInv, Keeper
      <3>2. ~UnloadOver(kpu', app)
        BY <2>2 DEF UnloadOver
      <3> QED BY <1>1, <2>2, <3>1, <3>2
    <2>3. CASE r # app
      <3>1. cleanup = r
        BY <2>3 DEF ModelInv, Keeper
      <3> QED BY <1>1, <2>1, <3>1
    <2> QED BY <2>2, <2>3
  <1>5. kpu'.owner \in Detectors \cup {NoRuntime}
    <2>1. \A r \in Runtimes : kpu'.state[r] # "UNLOADED" => kpu.state[r] # "UNLOADED"
      BY <1>1, <1>2 DEF Others
    <2> QED BY <1>2, <2>1, OwnerOk DEF ModelInv, Keeper
  <1>6. cleanup' \in Detectors \cup {NoRuntime}
    BY <1>1 DEF ModelInv, Keeper
  <1>7. cleanup' # NoRuntime => ~Live(cleanup)'
    <2> SUFFICES ASSUME cleanup' # NoRuntime, kpu'.state[cleanup'] \in {"READY", "RUNNING"}
                 PROVE  FALSE
      BY DEF Live
    <2> QED BY <1>3, <1>6 DEF Live
  <1>8. Keeper'
    BY <1>1, <1>3, <1>4, <1>5, <1>6, <1>7 DEF Keeper
  <1>9. Engine(kpu)'
    BY <1>2 DEF Engine
  <1> QED BY <1>8, <1>9 DEF ModelInv

LEMMA PollStep ==
    ASSUME ModelInv, CleanupPoll
    PROVE  ModelInv'
  <1>1. /\ pc = "loop" /\ cleanup \in Detectors /\ \A r \in Detectors : ~Live(r)
        /\ kpu' = PolledKpu /\ cleanup' = PolledCleanup
        /\ UNCHANGED <<app, mode, failed, pc>>
    BY DEF CleanupPoll, ModelInv, Keeper
  <1>2. /\ Engine(kpu')
        /\ \A r \in Runtimes : kpu'.state[r] \in {kpu.state[r], "UNLOADED"}
        /\ \A r \in Detectors : kpu'.state[r] = "UNLOAD_PENDING" => cleanup' = r
        /\ cleanup' \in Detectors \cup {NoRuntime}
    BY <1>1, PollOk
  <1>3. \A r \in Detectors : kpu'.state[r] \notin {"READY", "RUNNING"}
    <2> SUFFICES ASSUME NEW r \in Detectors
                 PROVE  kpu'.state[r] \notin {"READY", "RUNNING"}
      OBVIOUS
    <2>1. kpu'.state[r] \in {kpu.state[r], "UNLOADED"}
      BY <1>2, DetectorAssumption
    <2> QED BY <1>1, <2>1 DEF Live
  <1>4. kpu'.owner \in Detectors \cup {NoRuntime}
    <2>1. \A r \in Runtimes : kpu'.state[r] # "UNLOADED" => kpu.state[r] # "UNLOADED"
      BY <1>2
    <2> QED BY <1>2, <2>1, OwnerOk DEF ModelInv, Keeper
  <1>5. Keeper'
    BY <1>1, <1>2, <1>3, <1>4 DEF Keeper, Live, Waits
  <1>6. Engine(kpu)'
    BY <1>2 DEF Engine
  <1> QED BY <1>5, <1>6 DEF ModelInv

LEMMA HardwareStep ==
    ASSUME ModelInv, Hardware
    PROVE  ModelInv'
  <1>1. UNCHANGED <<app, mode, failed, cleanup, pc>>
    BY DEF Hardware, main
  <1>2. pc' \in {"process", "take", "run", "after"} => app \in Detectors
    BY <1>1 DEF ModelInv, Keeper
  <1>3. CASE UNCHANGED kpu
    BY <1>1, <1>2, <1>3, EngineStepOk DEF ModelInv
  <1>4. CASE InferenceDone
    <2>1. kpu.engine = 1 /\ kpu' = Completed(kpu)
      BY <1>4 DEF InferenceDone
    <2>2. /\ Engine(kpu')
          /\ \A r \in Runtimes :
                \/ kpu'.state[r] = kpu.state[r]
                \/ kpu.state[r] = "RUNNING" /\ kpu'.state[r] = "READY"
      BY <2>1, CompletedOk DEF ModelInv
    <2> QED BY <1>1, <1>2, <2>2, EngineStepOk
  <1>5. CASE UnloadExpires
    <2>1. kpu' = [kpu EXCEPT !.late = 1] /\ Engine(kpu)
      BY <1>5 DEF UnloadExpires, ModelInv
    <2>2. Engine(kpu') /\ kpu'.state = kpu.state
      BY <2>1 DEF Engine, Kpu
    <2> QED BY <1>1, <1>2, <2>2, EngineStepOk
  <1> QED BY <1>3, <1>4, <1>5 DEF Hardware

LEMMA ModelStep == ModelInv /\ [Next]_vars => ModelInv'
  <1> SUFFICES ASSUME ModelInv, [Next]_vars PROVE ModelInv'
    OBVIOUS
  <1>1. CASE UNCHANGED vars
    BY <1>1 DEF vars, main, ModelInv, Engine, Keeper, Live, Waits
  <1>2. CASE Hardware
    BY <1>2, HardwareStep
  <1>3. ASSUME NEW d \in Detectors, NEW card \in BOOLEAN, NEW sensor \in BOOLEAN,
               OpenDetector(d, card, sensor)
        PROVE  ModelInv'
    <2>1. /\ pc = "loop" /\ UNCHANGED pc /\ app' = d /\ \A r \in Detectors : ~Live(r)
          /\ StartDetector(d, card, sensor)
      BY <1>3 DEF OpenDetector, ModelInv, Keeper, Detectors
    <2> QED BY <2>1, StartOk
  <1>4. ASSUME NEW card \in BOOLEAN, NEW sensor \in BOOLEAN, RetryDetector(card, sensor)
        PROVE  ModelInv'
    <2>1. /\ pc = "loop" /\ UNCHANGED pc /\ app' = app /\ app \in Detectors
          /\ \A r \in Detectors : ~Live(r) /\ StartDetector(app, card, sensor)
      BY <1>4 DEF RetryDetector, ModelInv, Keeper
    <2> QED BY <2>1, StartOk
  <1>5. ASSUME NEW a \in {"photo", "qr"}, NEW sensor \in BOOLEAN, OpenCamera(a, sensor)
        PROVE  ModelInv'
    <2>1. /\ pc = "loop" /\ app \notin Detectors /\ UNCHANGED <<kpu, pc, cleanup>>
      BY <1>5 DEF OpenCamera, Detectors
    <2> QED BY <2>1, SwitchOk
  <1>6. CASE OpenAnimation \/ CloseApp
    <2>1. /\ pc = "loop" /\ app \notin Detectors /\ UNCHANGED <<kpu, pc, cleanup>>
      BY <1>6 DEF OpenAnimation, CloseApp, Detectors
    <2> QED BY <2>1, SwitchOk
  <1>7. CASE PreviewAcquire
    <2>1. /\ pc = "loop" /\ pc' \in {"process", "release"}
          /\ UNCHANGED <<kpu, app, cleanup, mode, failed>>
          /\ pc' = "process" => app \in Detectors
      BY <1>7 DEF PreviewAcquire, Detectors
    <2> QED BY <2>1, FrameOk
  <1>8. CASE Process
    BY <1>8, ProcessStep
  <1>9. CASE Take
    <2>1. /\ pc = "take" /\ pc' \in {"run", "release", "after"}
          /\ UNCHANGED <<kpu, app, cleanup, mode, failed>>
          /\ app \in Detectors
      BY <1>9 DEF Take, After, ModelInv, Keeper
    <2> QED BY <2>1, FrameOk
  <1>10. ASSUME NEW starts \in BOOLEAN, Run(starts) PROVE ModelInv'
    BY <1>10, RunStep
  <1>11. ASSUME NEW presented \in BOOLEAN, PreviewRelease(presented) PROVE ModelInv'
    <2>1. /\ pc = "release" /\ pc' \in {"loop", "after", "process"}
          /\ UNCHANGED <<kpu, app, cleanup, mode, failed>>
          /\ pc' \in {"after", "process"} => app \in Detectors
      BY <1>11 DEF PreviewRelease, Detectors
    <2> QED BY <2>1, FrameOk
  <1>12. CASE AfterFrame
    <2>1. /\ pc = "after" /\ pc' = "loop" /\ UNCHANGED <<kpu, app, cleanup, mode, failed>>
      BY <1>12 DEF AfterFrame
    <2> QED BY <2>1, FrameOk
  <1>13. CASE DetectorBroke \/ CloseDetector
    <2>1. /\ pc \in {"loop", "after"} /\ app \in Detectors /\ UnloadDetector(app)
          /\ UNCHANGED <<app, cleanup>>
          /\ mode' # "loading" \/ mode' = mode
      BY <1>13 DEF DetectorBroke, CloseDetector, ModelInv, Keeper
    <2> QED BY <2>1, UnloadKpu
  <1>14. CASE Store
    BY <1>14, StoreStep
  <1>15. CASE Unloaded
    BY <1>15, UnloadedStep
  <1>16. CASE CleanupPoll
    BY <1>16, PollStep
  <1>17. CASE OpenSettings \/ PauseOutput \/ PauseState \/ CloseSettings \/ ResumeCapture
    <2>1. /\ pc \in {"loop", "pause", "paused", "resume"}
          /\ pc' \in {"loop", "pause", "paused", "resume"}
          /\ UNCHANGED <<kpu, app, cleanup, failed>>
          /\ mode' # "loading" \/ mode' = mode
      BY <1>17 DEF OpenSettings, PauseOutput, PauseState, CloseSettings, ResumeCapture
    <2> QED BY <2>1, FrameOk
  <1>18. ASSUME NEW sensor \in BOOLEAN, Reinit(sensor) PROVE ModelInv'
    <2>1. /\ pc = "loop" /\ pc' = "loop" /\ UNCHANGED <<kpu, app, cleanup, failed>>
          /\ mode' # "loading"
      BY <1>18 DEF Reinit
    <2> QED BY <2>1, FrameOk
  <1>19. ASSUME NEW w \in {"photo", "qr", "frame"}, SnapshotLease(w) PROVE ModelInv'
    <2>1. /\ pc = "loop" /\ pc' = "snap" /\ UNCHANGED <<kpu, app, cleanup, mode, failed>>
      BY <1>19 DEF SnapshotLease
    <2> QED BY <2>1, FrameOk
  <1>20. CASE SnapshotHold \/ SnapshotEnd \/ PhotoReview \/ QrFound \/ QrClose \/ SensorTalk
    <2>1. /\ pc \in {"loop", "snap", "snapped"} /\ pc' \in {"loop", "snapped", "sensor"}
          /\ UNCHANGED <<kpu, app, cleanup, failed>>
          /\ mode' # "loading" \/ mode' = mode
      BY <1>20 DEF SnapshotHold, SnapshotEnd, PhotoReview, QrFound, QrClose, SensorTalk, main
    <2> QED BY <2>1, FrameOk
  <1>21. ASSUME NEW answers \in BOOLEAN, SensorDone(answers) PROVE ModelInv'
    <2>1. /\ pc = "sensor" /\ pc' = "loop" /\ UNCHANGED <<kpu, app, cleanup, mode, failed>>
      BY <1>21 DEF SensorDone
    <2> QED BY <2>1, FrameOk
  <1>22. ASSUME NEW bus \in BOOLEAN, NEW sensor \in BOOLEAN, Probe(bus, sensor)
         PROVE  ModelInv'
    <2>1. /\ pc = "loop" /\ pc' = "loop" /\ UNCHANGED <<kpu, app, cleanup, mode, failed>>
      BY <1>22 DEF Probe, main
    <2> QED BY <2>1, FrameOk
  <1> QED
    BY <1>1, <1>2, <1>3, <1>4, <1>5, <1>6, <1>7, <1>8, <1>9, <1>10, <1>11, <1>12,
       <1>13, <1>14, <1>15, <1>16, <1>17, <1>18, <1>19, <1>20, <1>21, <1>22, Steps

LEMMA ModelInit == Init => ModelInv
  BY RuntimeAssumption, DetectorAssumption
  DEF Init, InitKpu, ModelInv, Engine, Kpu, ModelStates, Keeper, Live, Waits, Detectors

(* A model in the accelerator always has someone to take it out, whatever    *)
(* interrupt comes between the test of an unload and its store, and whoever  *)
(* is opened while an earlier unload still waits.                            *)
THEOREM ModelHasKeeper == Spec => []NoOrphanModel
  <1>1. ModelInv => NoOrphanModel
    <2> SUFFICES ASSUME ModelInv, pc = "loop", kpu.owner # NoRuntime PROVE NoOrphanModel
      BY DEF NoOrphanModel
    <2>1. kpu.owner \in Detectors /\ kpu.owner \in Runtimes
      BY DetectorAssumption DEF ModelInv, Keeper
    <2>2. kpu.state[kpu.owner] \in ModelStates \ {"UNLOADED"}
      BY <2>1 DEF ModelInv, Engine, Kpu
    <2> QED BY <2>1, <2>2 DEF ModelInv, Keeper, Live, Waits, ModelStates, NoOrphanModel
  <1> QED BY <1>1, ModelInit, ModelStep, PTL DEF Spec

-----------------------------------------------------------------------------
(* Every nonempty set of natural numbers has a least member. *)
LEMMA Least ==
    ASSUME NEW T \in SUBSET Nat, T # {}
    PROVE  \E n \in T : \A m \in T : n <= m
  <1> DEFINE R == OpToRel(<, Nat)
  <1>1. IsWellFoundedOn(R, Nat)
    BY NatLessThanWellFounded
  <1>2. \A m, n \in Nat : <<m, n>> \in R <=> m < n
    BY DEF OpToRel
  <1> HIDE DEF R
  <1>3. PICK n \in T : \A m \in T : ~ (<<m, n>> \in R)
    BY <1>1, WFMin
  <1>4. \A m \in T : n <= m
    <2> SUFFICES ASSUME NEW m \in T PROVE n <= m
      OBVIOUS
    <2>1. m \in Nat /\ n \in Nat
      OBVIOUS
    <2>2. ~ (m < n)
      BY <1>2, <1>3, <2>1
    <2> HIDE <1>2, <1>3
    <2> QED BY <2>1, <2>2
  <1> QED BY <1>4

-----------------------------------------------------------------------------
(* The frame stream. *)

(* The slots against the capture under way, the images they hold and the     *)
(* numbers given out; a stream that does not run has nothing of this.        *)
Slots(c) ==
    /\ c \in Cam
    /\ \A s \in SlotIds : c.slot[s].state = "capturing" <=> c.capture = s
    /\ \A s \in Ready(c) \cup Leased(c) : c.pix[s] = c.slot[s].seq /\ c.slot[s].seq <= c.seq
    /\ \A s \in Leased(c) : c.slot[s].lease \in 1 .. c.lease
    /\ c.running = c.reserved /\ (c.work = 1 => c.running = 0)
    /\ c.running = 0 =>
          /\ c.irq = 0 /\ c.start = 0 /\ c.finish = 0 /\ c.conv = 0 /\ c.capture = NoSlot
          /\ Ready(c) \cup Leased(c) = {}
    /\ c.running = 1 => c.images = c.seq + c.finish
    /\ c.conv = 1 => c.capture = c.addr /\ c.finish = 0
    /\ c.finish = 1 => c.capture = c.addr /\ c.conv = 0 /\ c.pix[c.addr] = c.images

(* The leases that are out. *)
Leases(c) == {c.slot[s].lease : s \in Leased(c)}

(* d has the frames of c. *)
SameFrames(c, d) ==
    /\ d.slot = c.slot /\ d.pix = c.pix /\ d.seq = c.seq /\ d.lease = c.lease
    /\ d.running = c.running /\ d.reserved = c.reserved /\ d.work = c.work
    /\ d.finish = c.finish /\ d.conv = c.conv /\ d.capture = c.capture
    /\ d.addr = c.addr /\ d.images = c.images

LEMMA SameFramesOk ==
    ASSUME NEW c, NEW d, Slots(c), d \in Cam, SameFrames(c, d),
           d.running = 0 => d.irq = 0 /\ d.start = 0
    PROVE  Slots(d)
  BY DEF Slots, SameFrames, Ready, Leased

(* The AI input of d is that of c. *)
SameAi(c, d) ==
    /\ d.aiOut = c.aiOut /\ d.aiWhole = c.aiWhole /\ d.aiPix = c.aiPix /\ d.hooks = c.hooks
    /\ d.aiOwner = c.aiOwner /\ d.ai = c.ai /\ d.aiSeq = c.aiSeq /\ d.preview = c.preview

(* The image in the AI input, unless the stream was restarted under it (~r)  *)
(* or the settings have just taken its output away (~p).                     *)
AiOk(c, r, p) ==
    /\ c.aiOut = 1 => c.ai = "capturing"
    /\ c.aiWhole = 1 => c.aiOut = 1
    /\ c.ai = "capturing" /\ r /\ p =>
          /\ c.aiOut = 1
          /\ c.conv = 1 => c.aiWhole = 1
          /\ c.finish = 1 => c.aiPix = c.images
    /\ c.ai = "ready" /\ r /\ p => c.aiPix = c.aiSeq
    /\ c.ai = "busy" /\ r => c.aiPix = c.aiSeq

LEMMA SameAiOk ==
    ASSUME NEW c, NEW d, SameAi(c, d),
           d.conv = c.conv, d.finish = c.finish, d.images = c.images
    PROVE  \A r, p \in BOOLEAN : AiOk(c, r, p) => AiOk(d, r, p)
  BY DEF SameAi, AiOk

LEMMA NewestOk ==
    ASSUME NEW c, Slots(c), Ready(c) # {}
    PROVE  Newest(c) \in Ready(c)
  <1> DEFINE T == {n \in Nat : \E s \in Ready(c) : n = c.seq - c.slot[s].seq}
  <1>1. \A s \in Ready(c) : /\ c.slot[s].seq \in Nat /\ c.seq \in Nat
                            /\ c.slot[s].seq <= c.seq
    BY DEF Slots, Cam, Slot, Ready
  <1>2. \A s \in Ready(c) : c.seq - c.slot[s].seq \in T
    <2> SUFFICES ASSUME NEW s \in Ready(c) PROVE c.seq - c.slot[s].seq \in Nat
      OBVIOUS
    <2> QED BY <1>1
  <1>3. T # {}
    BY <1>2
  <1>4. PICK n \in T : \A m \in T : n <= m
    <2> HIDE DEF T
    <2>1. T \in SUBSET Nat
      BY DEF T
    <2> QED BY <1>3, <2>1, Least
  <1>5. PICK s \in Ready(c) : n = c.seq - c.slot[s].seq
    OBVIOUS
  <1>6. \A t \in Ready(c) : c.slot[t].seq <= c.slot[s].seq
    <2> SUFFICES ASSUME NEW t \in Ready(c) PROVE c.slot[t].seq <= c.slot[s].seq
      OBVIOUS
    <2>1. c.seq - c.slot[s].seq <= c.seq - c.slot[t].seq
      BY <1>2, <1>4, <1>5
    <2>2. c.seq \in Nat /\ c.slot[s].seq \in Nat /\ c.slot[t].seq \in Nat
      BY <1>1
    <2> HIDE DEF T
    <2> QED BY <2>1, <2>2
  <1> HIDE DEF T
  <1> QED BY <1>6 DEF Newest

LEMMA OldestOk ==
    ASSUME NEW c, Slots(c), Ready(c) # {}
    PROVE  Oldest(c) \in Ready(c)
  <1> DEFINE T == {c.slot[s].seq : s \in Ready(c)}
  <1>1. T \in SUBSET Nat /\ T # {}
    <2>1. \A s \in Ready(c) : c.slot[s].seq \in Nat
      BY DEF Slots, Cam, Slot, Ready
    <2> QED BY <2>1
  <1>2. PICK n \in T : \A m \in T : n <= m
    <2> HIDE DEF T
    <2> QED BY <1>1, Least
  <1>3. PICK s \in Ready(c) : n = c.slot[s].seq
    OBVIOUS
  <1>4. \A t \in Ready(c) : c.slot[s].seq <= c.slot[t].seq
    BY <1>2, <1>3
  <1> HIDE DEF T
  <1> QED BY <1>4 DEF Oldest

LEMMA CandidateOk ==
    ASSUME NEW c, Slots(c)
    PROVE  Candidate(c) \in Free(c) \cup Ready(c) \cup {NoSlot}
  <1>1. CASE Free(c) # {}
    <2>1. Free(c) \in SUBSET Nat
      BY StreamAssumption DEF Free, SlotIds
    <2>2. PICK s \in Free(c) : \A t \in Free(c) : s <= t
      BY <1>1, <2>1, Least
    <2> QED BY <1>1, <2>2 DEF Candidate
  <1>2. CASE Free(c) = {} /\ Ready(c) # {}
    BY <1>2, OldestOk DEF Candidate
  <1>3. CASE Free(c) = {} /\ Ready(c) = {}
    BY <1>3 DEF Candidate
  <1> QED BY <1>1, <1>2, <1>3

(* d has the frames of c, but for slots that are given up, none of them being *)
(* captured.                                                                   *)
Given(c, d) ==
    /\ d.pix = c.pix /\ d.seq = c.seq /\ d.lease = c.lease
    /\ d.running = c.running /\ d.reserved = c.reserved /\ d.work = c.work
    /\ d.finish = c.finish /\ d.conv = c.conv /\ d.capture = c.capture
    /\ d.addr = c.addr /\ d.images = c.images
    /\ \A s \in SlotIds :
          \/ d.slot[s] = c.slot[s]
          \/ d.slot[s] = FreeSlot /\ c.slot[s].state \in {"ready", "leased"}

LEMMA GivenOk ==
    ASSUME NEW c, NEW d, Slots(c), d \in Cam, Given(c, d),
           d.running = 0 => d.irq = 0 /\ d.start = 0
    PROVE  /\ Slots(d)
           /\ Leased(d) = {s \in Leased(c) : d.slot[s] = c.slot[s]}
           /\ Ready(d) \subseteq Ready(c)
  <1>2. \A s \in SlotIds : d.slot[s].state = "capturing" <=> c.slot[s].state = "capturing"
    BY DEF Given, FreeSlot
  <1>3. Ready(d) \subseteq {s \in Ready(c) : d.slot[s] = c.slot[s]}
    BY DEF Given, FreeSlot, Ready
  <1>4. Leased(d) = {s \in Leased(c) : d.slot[s] = c.slot[s]}
    BY DEF Given, FreeSlot, Leased
  <1>5. Slots(d)
    BY <1>2, <1>3, <1>4 DEF Slots, Given
  <1> QED BY <1>3, <1>4, <1>5

LEMMA ReleaseOk ==
    ASSUME NEW c, Slots(c), NEW id
    PROVE  /\ Slots(Release(c, id)) /\ Given(c, Release(c, id)) /\ SameAi(c, Release(c, id))
           /\ Release(c, id).paused = c.paused
           /\ Leased(Release(c, id)) =
                 IF id = 0 THEN Leased(c) ELSE {s \in Leased(c) : c.slot[s].lease # id}
  <1> DEFINE f == [s \in SlotIds |-> IF c.slot[s].state = "leased" /\ c.slot[s].lease = id
                                       THEN FreeSlot ELSE c.slot[s]]
             d == [c EXCEPT !.slot = f]
  <1>1. c \in Cam
    BY DEF Slots
  <1>2. CASE id = 0
    BY <1>2 DEF Release, Given, SameAi
  <1>3. CASE c.running = 0 /\ id # 0
    BY <1>3 DEF Release, Given, Slots, SameAi
  <1>4. CASE id # 0 /\ c.running # 0
    <2>1. Release(c, id) = d
      BY <1>4 DEF Release
    <2>2. f \in [SlotIds -> Slot]
      BY <1>1 DEF Cam, Slot, FreeSlot, SlotStates
    <2>3. \A s \in SlotIds :
             f[s] = IF c.slot[s].state = "leased" /\ c.slot[s].lease = id
                      THEN FreeSlot ELSE c.slot[s]
      OBVIOUS
    <2> HIDE DEF f
    <2>4. /\ d \in Cam /\ d.slot = f
          /\ d.pix = c.pix /\ d.seq = c.seq /\ d.lease = c.lease
          /\ d.running = c.running /\ d.reserved = c.reserved /\ d.work = c.work
          /\ d.finish = c.finish /\ d.conv = c.conv /\ d.capture = c.capture
          /\ d.addr = c.addr /\ d.images = c.images /\ SameAi(c, d) /\ d.paused = c.paused
      BY <1>1, <2>2 DEF Cam, SameAi
    <2> HIDE DEF d
    <2>5. Given(c, d)
      BY <2>3, <2>4 DEF Given
    <2>6. Slots(d) /\ Leased(d) = {s \in Leased(c) : d.slot[s] = c.slot[s]}
      BY <1>4, <2>4, <2>5, GivenOk
    <2>7. Leased(d) = {s \in Leased(c) : c.slot[s].lease # id}
      BY <2>3, <2>4, <2>6 DEF Leased, FreeSlot
    <2> QED BY <1>4, <2>1, <2>4, <2>5, <2>6, <2>7
  <1> QED BY <1>2, <1>3, <1>4

LEMMA StopOk ==
    ASSUME NEW c, Slots(c)
    PROVE  /\ Slots(StreamStop(c)) /\ StreamStop(c).running = 0
           /\ StreamStop(c).conv = 0 /\ StreamStop(c).finish = 0
           /\ StreamStop(c).work = c.work /\ Leased(StreamStop(c)) = {}
           /\ StreamStop(c).images = 0
           /\ StreamStop(c).ai = c.ai /\ StreamStop(c).aiOwner = c.aiOwner
           /\ StreamStop(c).aiOut = c.aiOut
           /\ \A r, p \in BOOLEAN : AiOk(c, r, p) => AiOk(StreamStop(c), r, p)
  <1> DEFINE f == [s \in SlotIds |-> FreeSlot]
             img == [s \in SlotIds |-> 0]
             b == IF c.running = 1
                    THEN [c EXCEPT !.irq = 0, !.start = 0, !.finish = 0, !.conv = 0,
                                   !.inFrame = 0, !.aiWhole = 0]
                    ELSE c
             d == [b EXCEPT !.slot = f, !.pix = img, !.images = 0, !.running = 0, !.paused = 1,
                            !.sync = 1, !.capture = NoSlot, !.reserved = 0]
  <1>1. StreamStop(c) = d
    BY DEF StreamStop, FreeAll
  <1>2. f \in [SlotIds -> Slot] /\ img \in [SlotIds -> Nat]
        /\ \A s \in SlotIds : f[s].state = "free"
    BY DEF Slot, FreeSlot, SlotStates
  <1>3. /\ b \in Cam /\ b.irq = 0 /\ b.start = 0 /\ b.finish = 0 /\ b.conv = 0 /\ b.work = c.work
        /\ b.aiOut = c.aiOut /\ b.aiPix = c.aiPix /\ b.aiOwner = c.aiOwner /\ b.ai = c.ai
        /\ b.aiSeq = c.aiSeq /\ (b.aiWhole = 1 => c.aiWhole = 1)
    <2>1. c \in Cam
      BY DEF Slots
    <2>2. CASE c.running = 1
      BY <2>1, <2>2, ZenonT(60) DEF Cam, Flag
    <2>3. CASE c.running # 1
      BY <2>1, <2>3 DEF Slots, Cam, Flag
    <2> QED BY <2>2, <2>3
  <1> HIDE DEF f, img, b
  <1>4. /\ d \in Cam /\ d.slot = f /\ d.running = 0 /\ d.reserved = 0 /\ d.capture = NoSlot
        /\ d.irq = 0 /\ d.start = 0 /\ d.finish = 0 /\ d.conv = 0 /\ d.work = c.work
        /\ d.aiOut = c.aiOut /\ d.aiPix = c.aiPix /\ d.aiOwner = c.aiOwner /\ d.ai = c.ai
        /\ d.aiSeq = c.aiSeq /\ (d.aiWhole = 1 => c.aiWhole = 1)
        /\ d.images = 0
    BY <1>2, <1>3, ZenonT(60) DEF Cam, Flag, NoSlot
  <1> HIDE DEF d
  <1>5. Ready(d) = {} /\ Leased(d) = {}
    BY <1>2, <1>4 DEF Ready, Leased
  <1>6. Slots(d)
    BY <1>2, <1>4, <1>5 DEF Slots, NoSlot, SlotIds
  <1>7. \A r, p \in BOOLEAN : AiOk(c, r, p) => AiOk(d, r, p)
    BY <1>4 DEF AiOk
  <1> QED BY <1>1, <1>4, <1>5, <1>6, <1>7

LEMMA StartOkStream ==
    ASSUME NEW c, Slots(c)
    PROVE  /\ Slots(StreamStart(c)) /\ Leased(StreamStart(c)) = {}
           /\ StreamStart(c).running = IF StreamStarts(c) THEN 1 ELSE 0
           /\ StreamStart(c).conv = 0 /\ StreamStart(c).finish = 0
           /\ StreamStart(c).work = c.work
           /\ StreamStarts(c) => StreamStart(c).paused = 0
           /\ StreamStart(c).ai = c.ai /\ StreamStart(c).aiOwner = c.aiOwner
           /\ StreamStart(c).aiOut = 1 => c.aiOut = 1
           /\ \A r, p \in BOOLEAN :
                 AiOk(c, r, p) /\ (~r \/ c.ai \in {"disabled", "armed"}) =>
                    AiOk(StreamStart(c), r, p)
  <1> DEFINE d == StreamStop(c)
             e == [d EXCEPT !.reserved = 1, !.paused = 0, !.sync = 1, !.capture = NoSlot,
                            !.seq = 0, !.running = 1, !.irq = 1, !.start = 0, !.finish = 0,
                            !.aiOut = 0, !.aiWhole = 0, !.aiPix = 0]
  <1>1. /\ Slots(d) /\ d.running = 0 /\ d.conv = 0 /\ d.finish = 0 /\ d.work = c.work
        /\ Leased(d) = {} /\ d.images = 0
        /\ d.ai = c.ai /\ d.aiOwner = c.aiOwner /\ d.aiOut = c.aiOut
        /\ \A r, p \in BOOLEAN : AiOk(c, r, p) => AiOk(d, r, p)
    BY StopOk
  <1>2. StreamStart(c) = IF StreamStarts(c) THEN e ELSE d
    BY DEF StreamStart
  <1> HIDE DEF d
  <1>3. /\ e \in Cam /\ e.slot = d.slot /\ e.running = 1 /\ e.reserved = 1
        /\ e.capture = NoSlot /\ e.seq = 0 /\ e.images = 0 /\ e.paused = 0
        /\ e.finish = 0 /\ e.conv = 0 /\ e.work = c.work
        /\ e.ai = c.ai /\ e.aiOwner = c.aiOwner /\ e.aiOut = 0 /\ e.aiWhole = 0
    <2>1. d \in Cam
      BY <1>1 DEF Slots
    <2> QED BY <1>1, <2>1, ZenonT(60) DEF Cam, Flag, NoSlot
  <1> HIDE DEF e
  <1>4. Ready(e) = {} /\ Leased(e) = {}
    BY <1>1, <1>3 DEF Slots, Ready, Leased
  <1>5. StreamStarts(c) => Slots(e)
    BY <1>1, <1>3, <1>4 DEF Slots, StreamStarts, Cam, Flag
  <1>6. \A r, p \in BOOLEAN :
           AiOk(c, r, p) /\ (~r \/ c.ai \in {"disabled", "armed"}) => AiOk(e, r, p)
    BY <1>3 DEF AiOk
  <1> QED BY <1>1, <1>2, <1>3, <1>4, <1>5, <1>6

LEMMA PauseOk ==
    ASSUME NEW c, Slots(c)
    PROVE  /\ Slots(StreamPause(c)) /\ SameFrames(c, StreamPause(c)) /\ SameAi(c, StreamPause(c))
           /\ StreamPause(c).paused = 1 \/ StreamPause(c).running = 0
  <1>1. /\ StreamPause(c) \in Cam /\ SameFrames(c, StreamPause(c)) /\ SameAi(c, StreamPause(c))
        /\ StreamPause(c).irq = c.irq /\ StreamPause(c).start = c.start
        /\ StreamPause(c).paused = 1 \/ StreamPause(c).running = 0
    BY DEF StreamPause, Slots, Cam, Flag, SameFrames, SameAi
  <1>2. c.running = 0 => c.irq = 0 /\ c.start = 0
    BY DEF Slots
  <1> DEFINE d == StreamPause(c)
  <1> HIDE DEF d
  <1>3. Slots(d)
    BY <1>1, <1>2, SameFramesOk DEF SameFrames, d
  <1> QED BY <1>1, <1>3 DEF d

LEMMA ResumeOk ==
    ASSUME NEW c, Slots(c)
    PROVE  /\ Slots(StreamResume(c)) /\ Given(c, StreamResume(c))
           /\ SameAi(c, StreamResume(c))
           /\ Leased(StreamResume(c)) = Leased(c)
           /\ \A s \in Leased(c) : StreamResume(c).slot[s] = c.slot[s]
           /\ c.running = 1 => StreamResume(c).paused = 0
  <1> DEFINE f == [s \in SlotIds |-> IF c.slot[s].state = "ready" THEN FreeSlot ELSE c.slot[s]]
             d == [c EXCEPT !.slot = f, !.paused = 0, !.sync = 1, !.start = 0]
  <1>0. c \in Cam
    BY DEF Slots
  <1>1. CASE c.running = 0
    BY <1>0, <1>1 DEF StreamResume, Given, SameAi
  <1>2. CASE c.running # 0
    <2>1. StreamResume(c) = d
      BY <1>2 DEF StreamResume
    <2>2. f \in [SlotIds -> Slot]
      BY <1>0 DEF Cam, Slot, FreeSlot, SlotStates
    <2>3. \A s \in SlotIds : f[s] = IF c.slot[s].state = "ready" THEN FreeSlot ELSE c.slot[s]
      OBVIOUS
    <2> HIDE DEF f
    <2>4. /\ d \in Cam /\ d.slot = f /\ d.paused = 0
          /\ d.pix = c.pix /\ d.seq = c.seq /\ d.lease = c.lease
          /\ d.running = c.running /\ d.reserved = c.reserved /\ d.work = c.work
          /\ d.finish = c.finish /\ d.conv = c.conv /\ d.capture = c.capture
          /\ d.addr = c.addr /\ d.images = c.images /\ SameAi(c, d)
      BY <1>0, <2>2, ZenonT(60) DEF Cam, Flag, SameAi
    <2> HIDE DEF d
    <2>5. Given(c, d)
      BY <2>3, <2>4 DEF Given
    <2>6. Slots(d) /\ Leased(d) = {s \in Leased(c) : d.slot[s] = c.slot[s]}
      BY <1>2, <2>4, <2>5, GivenOk
    <2>7. \A s \in Leased(c) : d.slot[s] = c.slot[s]
      BY <2>3, <2>4 DEF Leased
    <2> QED BY <2>1, <2>4, <2>5, <2>6, <2>7
  <1> QED BY <1>1, <1>2

(* The newest frame is leased under a fresh id, the other ready ones dropped. *)
LEMMA AcquireOk ==
    ASSUME NEW c, Slots(c), CanAcquire(c)
    PROVE  /\ Slots(Acquire(c)) /\ SameAi(c, Acquire(c))
           /\ Newest(c) \in Ready(c)
           /\ Acquire(c).conv = c.conv /\ Acquire(c).finish = c.finish
           /\ Acquire(c).images = c.images /\ Acquire(c).running = c.running
           /\ Acquire(c).paused = c.paused /\ Acquire(c).work = c.work
           /\ Acquire(c).lease = c.lease + 1
           /\ Leased(Acquire(c)) = Leased(c) \cup {Newest(c)}
           /\ Newest(c) \notin Leased(c)
           /\ Acquire(c).slot[Newest(c)].lease = c.lease + 1
           /\ \A s \in Leased(c) : Acquire(c).slot[s] = c.slot[s]
  <1> DEFINE n == Newest(c)
             l == [c.slot[n] EXCEPT !.state = "leased", !.lease = c.lease + 1]
             f == [s \in SlotIds |-> IF s = n THEN l
                                      ELSE IF c.slot[s].state = "ready" THEN FreeSlot
                                      ELSE c.slot[s]]
             d == [c EXCEPT !.lease = c.lease + 1, !.slot = f]
  <1>0. c \in Cam /\ c.lease \in Nat
    BY DEF Slots, Cam
  <1>1. n \in Ready(c) /\ n \in SlotIds /\ c.slot[n].state = "ready"
    BY NewestOk DEF CanAcquire, Ready
  <1>2. /\ l \in Slot /\ l.state = "leased" /\ l.lease = c.lease + 1
        /\ l.seq = c.slot[n].seq
    <2>1. c.slot[n] \in Slot /\ c.lease + 1 \in Nat
      BY <1>0, <1>1 DEF Cam
    <2> HIDE DEF n
    <2> QED BY <2>1 DEF Slot, SlotStates
  <1>3. Acquire(c) = d
    BY <1>0 DEF Acquire, Cam
  <1> HIDE DEF n, l
  <1>4. f \in [SlotIds -> Slot]
    BY <1>0, <1>2 DEF Cam, Slot, FreeSlot, SlotStates
  <1>5. \A s \in SlotIds : f[s] = IF s = n THEN l
                                  ELSE IF c.slot[s].state = "ready" THEN FreeSlot
                                  ELSE c.slot[s]
    OBVIOUS
  <1> HIDE DEF f
  <1>6. /\ d \in Cam /\ d.slot = f /\ d.lease = c.lease + 1
        /\ d.pix = c.pix /\ d.seq = c.seq /\ d.paused = c.paused
        /\ d.running = c.running /\ d.reserved = c.reserved /\ d.work = c.work
        /\ d.irq = c.irq /\ d.start = c.start
        /\ d.finish = c.finish /\ d.conv = c.conv /\ d.capture = c.capture
        /\ d.addr = c.addr /\ d.images = c.images /\ SameAi(c, d)
    <2>1. c.lease + 1 \in Nat
      BY <1>0
    <2>2. d \in Cam
      BY <1>0, <1>4, <2>1 DEF Cam
    <2> QED BY <1>0, <2>2 DEF Cam, SameAi
  <1> HIDE DEF d
  <1>7. \A s \in SlotIds : d.slot[s].state = "capturing" <=> c.slot[s].state = "capturing"
    BY <1>1, <1>2, <1>5, <1>6 DEF FreeSlot
  <1>8. Ready(d) = {}
    BY <1>2, <1>5, <1>6 DEF Ready, FreeSlot
  <1>9. /\ Leased(d) = Leased(c) \cup {n} /\ n \notin Leased(c)
        /\ \A s \in Leased(c) : d.slot[s] = c.slot[s]
        /\ d.slot[n] = l
    BY <1>1, <1>2, <1>5, <1>6 DEF Leased, FreeSlot
  <1>10. \A s \in Leased(d) : d.pix[s] = d.slot[s].seq /\ d.slot[s].seq <= d.seq
    BY <1>1, <1>2, <1>6, <1>9 DEF Slots
  <1>11. \A s \in Leased(d) : d.slot[s].lease \in 1 .. d.lease
    <2>1. \A s \in Leased(c) : c.slot[s].lease \in 1 .. c.lease
      BY DEF Slots
    <2> QED BY <1>0, <1>2, <1>6, <1>9, <2>1
  <1>12. Slots(d)
    <2>1. d.running = 1
      BY <1>6 DEF CanAcquire
    <2> QED BY <1>6, <1>7, <1>8, <1>10, <1>11, <2>1 DEF Slots
  <1> QED BY <1>1, <1>2, <1>3, <1>6, <1>9, <1>12 DEF n

LEMMA BorrowOk ==
    ASSUME NEW c, Slots(c)
    PROVE  /\ Slots(Borrow(c)) /\ SameAi(c, Borrow(c))
           /\ Slots(GiveBack(c)) /\ SameAi(c, GiveBack(c))
           /\ Leased(Borrow(c)) = Leased(c) /\ Leased(GiveBack(c)) = Leased(c)
           /\ Borrow(c).slot = c.slot /\ GiveBack(c).slot = c.slot
           /\ Borrow(c).conv = c.conv /\ Borrow(c).finish = c.finish
           /\ Borrow(c).images = c.images /\ Borrow(c).running = c.running
           /\ Borrow(c).paused = c.paused
           /\ GiveBack(c).conv = c.conv /\ GiveBack(c).finish = c.finish
           /\ GiveBack(c).images = c.images /\ GiveBack(c).running = c.running
           /\ GiveBack(c).paused = c.paused
           /\ GiveBack(c).work = 0
  <1>0. c \in Cam
    BY DEF Slots
  <1>1. \A w \in Flag : Slots([c EXCEPT !.work = w]) \/ (w = 1 /\ c.running = 1)
    <2> SUFFICES ASSUME NEW w \in Flag, w = 1 => c.running # 1
                 PROVE  Slots([c EXCEPT !.work = w])
      OBVIOUS
    <2> DEFINE d == [c EXCEPT !.work = w]
    <2>1. /\ d \in Cam /\ d.slot = c.slot /\ d.lease = c.lease
          /\ d.pix = c.pix /\ d.seq = c.seq /\ d.work = w
          /\ d.running = c.running /\ d.reserved = c.reserved
          /\ d.irq = c.irq /\ d.start = c.start
          /\ d.finish = c.finish /\ d.conv = c.conv /\ d.capture = c.capture
          /\ d.addr = c.addr /\ d.images = c.images
      BY <1>0 DEF Cam
    <2> HIDE DEF d
    <2>2. Ready(d) = Ready(c) /\ Leased(d) = Leased(c)
      BY <2>1 DEF Ready, Leased
    <2>3. w = 1 => d.running = 0
      BY <2>1 DEF Cam, Flag
    <2>4. Slots(d)
      BY <2>1, <2>2, <2>3 DEF Slots
    <2> QED BY <2>4 DEF d
  <1>2. c.reserved = 0 => c.running = 0
    BY DEF Slots
  <1> QED BY <1>0, <1>1, <1>2 DEF Borrow, CanBorrow, GiveBack, SameAi, Leased, Cam, Flag

-----------------------------------------------------------------------------
(* The AI input. *)

(* d has the stream of c, the AI input may differ. *)
SameStream(c, d) ==
    SameFrames(c, d) /\ d.irq = c.irq /\ d.start = c.start /\ d.paused = c.paused

LEMMA SameStreamOk ==
    ASSUME NEW c, NEW d, Slots(c), d \in Cam, SameStream(c, d)
    PROVE  Slots(d) /\ Leased(d) = Leased(c)
  <1>1. c.running = 0 => c.irq = 0 /\ c.start = 0
    BY DEF Slots
  <1>2. Slots(d)
    BY <1>1, SameFramesOk DEF SameStream, SameFrames
  <1> QED BY <1>2 DEF SameStream, SameFrames, Leased

(* The AI input of d is owned as that of c, and its output is off. *)
Idle(c, d, a) ==
    d.aiOut = 0 /\ d.aiWhole = 0 /\ d.ai = a /\ d.aiOwner = c.aiOwner

LEMMA IdleOk ==
    ASSUME NEW c, NEW d, NEW a \in {"disabled", "armed"}, Idle(c, d, a)
    PROVE  \A r, p \in BOOLEAN : AiOk(d, r, p)
  BY DEF Idle, AiOk

LEMMA OutputOk ==
    ASSUME NEW c \in Cam, NEW on \in Flag
    PROVE  /\ Output(c, on) \in Cam /\ SameStream(c, Output(c, on))
           /\ Output(c, on).aiOut = on
           /\ Output(c, on).aiWhole = IF on = 1 THEN c.aiWhole ELSE 0
           /\ Output(c, on).aiPix = IF c.conv = 1 /\ on = 1 THEN 0 ELSE c.aiPix
           /\ Output(c, on).ai = c.ai /\ Output(c, on).aiOwner = c.aiOwner
           /\ Output(c, on).aiSeq = c.aiSeq /\ Output(c, on).hooks = c.hooks
           /\ Output(c, on).preview = c.preview
  BY ZenonT(60) DEF Output, Cam, Flag, SameStream, SameFrames

LEMMA AiCallsOk ==
    ASSUME NEW c \in Cam, NEW o \in Owners
    PROVE  /\ AiAcquire(c, o) \in Cam /\ SameStream(c, AiAcquire(c, o))
           /\ AiAcquire(c, o).aiOwner = o /\ AiAcquire(c, o).ai = "disabled"
           /\ AiAcquire(c, o).aiOut = c.aiOut /\ AiAcquire(c, o).aiWhole = c.aiWhole
           /\ AiArm(c, o) \in Cam /\ SameStream(c, AiArm(c, o))
           /\ IF c.aiOwner = o THEN Idle(c, AiArm(c, o), "armed") ELSE AiArm(c, o) = c
           /\ AiCancel(c, o) \in Cam /\ SameStream(c, AiCancel(c, o))
           /\ IF c.aiOwner = o THEN Idle(c, AiCancel(c, o), "disabled") ELSE AiCancel(c, o) = c
           /\ AiAttach(c, o) \in Cam /\ SameStream(c, AiAttach(c, o))
           /\ IF c.aiOwner = o THEN Idle(c, AiAttach(c, o), "armed") ELSE AiAttach(c, o) = c
  <1> DEFINE e == Output(c, 0)
             m == IF c.preview = 1 THEN c ELSE Output(c, 1)
             g == Output(m, 0)
  <1>1. 0 \in Flag /\ 1 \in Flag /\ "armed" \in AiStates /\ "disabled" \in AiStates
    BY DEF Flag, AiStates
  <1>2. e \in Cam /\ SameStream(c, e) /\ e.aiOut = 0 /\ e.aiWhole = 0 /\ e.aiOwner = c.aiOwner
    BY <1>1, OutputOk
  <1>3. m \in Cam /\ SameStream(c, m) /\ m.aiOwner = c.aiOwner
    BY <1>1, OutputOk DEF SameStream, SameFrames
  <1> HIDE DEF m
  <1>4. g \in Cam /\ SameStream(m, g) /\ g.aiOut = 0 /\ g.aiWhole = 0 /\ g.aiOwner = c.aiOwner
    BY <1>1, <1>3, OutputOk
  <1>5. SameStream(c, g)
    BY <1>3, <1>4 DEF SameStream, SameFrames
  <1> HIDE DEF e, g
  <1>6. \A a \in {"armed", "disabled"} :
           /\ [e EXCEPT !.aiSeq = 0, !.ai = a] \in Cam
           /\ SameStream(e, [e EXCEPT !.aiSeq = 0, !.ai = a])
           /\ Idle(e, [e EXCEPT !.aiSeq = 0, !.ai = a], a)
    BY <1>1, <1>2, ZenonT(60) DEF Cam, SameStream, SameFrames, Idle
  <1>7. \A a \in {"armed", "disabled"} :
           /\ SameStream(c, [e EXCEPT !.aiSeq = 0, !.ai = a])
           /\ Idle(c, [e EXCEPT !.aiSeq = 0, !.ai = a], a)
    BY <1>1, <1>2 DEF Cam, SameStream, SameFrames, Idle
  <1>8. AiAcquire(c, o) \in Cam /\ SameStream(c, AiAcquire(c, o))
        /\ AiAcquire(c, o).aiOwner = o /\ AiAcquire(c, o).ai = "disabled"
        /\ AiAcquire(c, o).aiOut = c.aiOut /\ AiAcquire(c, o).aiWhole = c.aiWhole
    BY <1>1 DEF AiAcquire, Cam, SameStream, SameFrames
  <1>9. SameStream(c, c)
    BY DEF SameStream, SameFrames
  <1>10. /\ AiArm(c, o) \in Cam /\ SameStream(c, AiArm(c, o))
         /\ IF c.aiOwner = o THEN Idle(c, AiArm(c, o), "armed") ELSE AiArm(c, o) = c
    BY <1>6, <1>7, <1>9 DEF AiArm, e
  <1>11. /\ AiCancel(c, o) \in Cam /\ SameStream(c, AiCancel(c, o))
         /\ IF c.aiOwner = o THEN Idle(c, AiCancel(c, o), "disabled") ELSE AiCancel(c, o) = c
    BY <1>6, <1>7, <1>9 DEF AiCancel, e
  <1>12. /\ AiAttach(c, o) \in Cam /\ SameStream(c, AiAttach(c, o))
         /\ IF c.aiOwner = o THEN Idle(c, AiAttach(c, o), "armed") ELSE AiAttach(c, o) = c
    <2>1. CASE c.aiOwner # o
      BY <1>9, <2>1 DEF AiAttach
    <2>2. CASE c.aiOwner = o
      <3> DEFINE h == IF c.preview = 1 THEN g.hooks ELSE o
                 d == [g EXCEPT !.hooks = h, !.aiSeq = 0, !.ai = "armed"]
      <3>1. AiAttach(c, o) = d
        BY <2>2 DEF AiAttach, g, m
      <3>2. h \in Owners \cup {NoOwner}
        BY <1>4 DEF Cam
      <3> HIDE DEF h
      <3>3. d \in Cam
        BY <1>1, <1>4, <3>2 DEF Cam
      <3>4. SameStream(c, d) /\ Idle(c, d, "armed")
        BY <1>4, <1>5 DEF Cam, SameStream, SameFrames, Idle
      <3> QED BY <2>2, <3>1, <3>3, <3>4
    <2> QED BY <2>1, <2>2
  <1> QED BY <1>8, <1>10, <1>11, <1>12

LEMMA AiReleaseOk ==
    ASSUME NEW c \in Cam, NEW o \in Owners
    PROVE  /\ AiRelease(c, o) \in Cam /\ SameStream(c, AiRelease(c, o))
           /\ c.aiOwner # o => AiRelease(c, o) = c
           /\ c.aiOwner = o =>
                 /\ AiRelease(c, o).aiOut = 0 /\ AiRelease(c, o).aiWhole = 0
                 /\ AiRelease(c, o).ai = "disabled" /\ AiRelease(c, o).aiOwner = NoOwner
  <1> DEFINE e == AiCancel(c, o)
             h == IF e.hooks = o THEN NoOwner ELSE e.hooks
             d == [e EXCEPT !.hooks = h, !.aiOwner = NoOwner]
  <1>1. e \in Cam /\ SameStream(c, e) /\ (c.aiOwner = o => Idle(c, e, "disabled"))
    BY AiCallsOk
  <1>2. c.aiOwner = o => AiRelease(c, o) = d
    BY <1>1 DEF AiRelease, Cam
  <1>3. c.aiOwner # o => AiRelease(c, o) = c
    BY DEF AiRelease
  <1> HIDE DEF e
  <1>4. h \in Owners \cup {NoOwner}
    BY <1>1 DEF Cam
  <1> HIDE DEF h
  <1>5. d \in Cam
    BY <1>1, <1>4 DEF Cam
  <1>6. SameStream(e, d) /\ d.ai = e.ai /\ d.aiOut = e.aiOut /\ d.aiWhole = e.aiWhole
        /\ d.aiOwner = NoOwner
    BY <1>1 DEF Cam, SameStream, SameFrames
  <1> HIDE DEF d
  <1>7. SameStream(c, d) /\ SameStream(c, c)
    BY <1>1, <1>6 DEF SameStream, SameFrames
  <1> QED BY <1>1, <1>2, <1>3, <1>5, <1>6, <1>7 DEF Idle

LEMMA AiTakeOk ==
    ASSUME NEW c \in Cam
    PROVE  /\ AiTake(c) \in Cam /\ SameStream(c, AiTake(c))
           /\ AiTake(c).ai = "busy" /\ AiTake(c).aiOwner = c.aiOwner
           /\ AiTake(c).aiOut = c.aiOut /\ AiTake(c).aiWhole = c.aiWhole
           /\ AiTake(c).aiPix = c.aiPix /\ AiTake(c).aiSeq = c.aiSeq
  BY DEF AiTake, Cam, AiStates, SameStream, SameFrames

LEMMA AiPrepareOk ==
    ASSUME NEW c \in Cam, NEW n \in Nat
    PROVE  /\ AiPreparePreview(c, n) \in Cam /\ SameStream(c, AiPreparePreview(c, n))
           /\ AiPreparePreview(c, n).aiOwner = c.aiOwner
           /\ \/ AiPreparePreview(c, n) = c
              \/ /\ c.ai = "armed" /\ AiPreparePreview(c, n).ai = "ready"
                 /\ AiPreparePreview(c, n).aiOut = c.aiOut
                 /\ AiPreparePreview(c, n).aiWhole = c.aiWhole
                 /\ AiPreparePreview(c, n).aiPix = n /\ AiPreparePreview(c, n).aiSeq = n
  BY ZenonT(60) DEF AiPreparePreview, Cam, AiStates, SameStream, SameFrames

-----------------------------------------------------------------------------
(* The interrupts. *)

LEMMA HooksOk ==
    ASSUME NEW c \in Cam
    PROVE  /\ FinishHook(c) \in Cam /\ SameStream(c, FinishHook(c))
           /\ FinishHook(c).aiOwner = c.aiOwner
           /\ \/ FinishHook(c) = c
              \/ /\ c.ai = "capturing" /\ FinishHook(c).ai = "ready"
                 /\ FinishHook(c).aiOut = 0 /\ FinishHook(c).aiWhole = 0
                 /\ FinishHook(c).aiPix = c.aiPix /\ FinishHook(c).aiSeq = c.seq
           /\ StartHook(c) \in Cam /\ SameStream(c, StartHook(c))
           /\ StartHook(c).aiOwner = c.aiOwner
           /\ \/ StartHook(c) = c
              \/ /\ c.ai = "armed" /\ StartHook(c).ai = "capturing"
                 /\ StartHook(c).aiOut = 1 /\ StartHook(c).aiSeq = c.aiSeq
  <1> DEFINE e == Output(c, 0)
             b == Output(c, 1)
             f == [e EXCEPT !.ai = "ready", !.aiSeq = c.seq]
             h == [b EXCEPT !.ai = "capturing"]
  <1>1. 0 \in Flag /\ 1 \in Flag /\ "ready" \in AiStates /\ "capturing" \in AiStates
        /\ c.seq \in Nat
    BY DEF Flag, AiStates, Cam
  <1>2. e \in Cam /\ SameStream(c, e) /\ e.aiOut = 0 /\ e.aiWhole = 0 /\ e.aiOwner = c.aiOwner
        /\ e.aiPix = c.aiPix
    BY <1>1, OutputOk
  <1>3. b \in Cam /\ SameStream(c, b) /\ b.aiOut = 1 /\ b.aiOwner = c.aiOwner
        /\ b.aiSeq = c.aiSeq
    BY <1>1, OutputOk
  <1>4. FinishHook(c) \in {c, f} /\ (FinishHook(c) = f \/ FinishHook(c) = c)
        /\ (FinishHook(c) # c => c.ai = "capturing")
    BY DEF FinishHook
  <1>5. (StartHook(c) = h \/ StartHook(c) = c) /\ (StartHook(c) # c => c.ai = "armed")
    BY DEF StartHook
  <1> HIDE DEF e, b
  <1>6. /\ f \in Cam /\ SameStream(c, f) /\ f.ai = "ready" /\ f.aiOut = 0 /\ f.aiWhole = 0
        /\ f.aiPix = c.aiPix /\ f.aiSeq = c.seq /\ f.aiOwner = c.aiOwner
    BY <1>1, <1>2 DEF Cam, SameStream, SameFrames
  <1>7. /\ h \in Cam /\ SameStream(c, h) /\ h.ai = "capturing" /\ h.aiOut = 1
        /\ h.aiSeq = c.aiSeq /\ h.aiOwner = c.aiOwner
    BY <1>1, <1>3 DEF Cam, SameStream, SameFrames
  <1>8. SameStream(c, c)
    BY DEF SameStream, SameFrames
  <1> HIDE DEF f, h
  <1> QED BY <1>4, <1>5, <1>6, <1>7, <1>8

(* What an interrupt leaves alone, whatever the stream does.                 *)
Quiet(c, d) ==
    /\ Leased(d) = Leased(c) /\ \A s \in Leased(c) : d.slot[s] = c.slot[s]
    /\ d.lease = c.lease /\ d.running = c.running /\ d.paused = c.paused /\ d.work = c.work
    /\ d.aiOwner = c.aiOwner
    /\ d.ai = c.ai \/ (c.ai \in {"armed", "capturing"} /\ d.ai \in {"capturing", "ready"})
    /\ (c.paused = 1 \/ c.running = 0) /\ c.aiOut = 0 => d.aiOut = 0
    /\ \A r, p \in BOOLEAN : AiOk(c, r, p) => AiOk(d, r, p)

LEMMA QuietTrans ==
    ASSUME NEW c, NEW d, NEW e, Quiet(c, d), Quiet(d, e)
    PROVE  Quiet(c, e)
  BY DEF Quiet

LEMMA NoSlotOk == \A s \in SlotIds : s # NoSlot
  BY StreamAssumption DEF SlotIds, NoSlot

LEMMA FinishOk ==
    ASSUME NEW c, Slots(c), c.finish = 1
    PROVE  LET d == FinishEvent([c EXCEPT !.finish = 0]) IN
           /\ Slots(d) /\ Quiet(c, d) /\ d.capture = NoSlot /\ d.start = c.start
  <1> DEFINE z == [c EXCEPT !.finish = 0]
             a == c.addr
             w == [c.slot[a] EXCEPT !.seq = c.seq + 1, !.state = "ready"]
             f == [c.slot EXCEPT ![a] = w]
             d == [c EXCEPT !.finish = 0, !.seq = c.seq + 1, !.capture = NoSlot, !.slot = f]
  <1>0. c \in Cam /\ c.seq \in Nat /\ c.slot \in [SlotIds -> Slot]
    BY DEF Slots, Cam
  <1>1. /\ a \in SlotIds /\ c.capture = a /\ c.slot[a].state = "capturing" /\ a # NoSlot
        /\ c.running = 1 /\ c.conv = 0 /\ c.images = c.seq + 1 /\ c.pix[a] = c.images
    BY <1>0, NoSlotOk DEF Slots, Cam, Flag
  <1>2. FinishEvent(z) = FinishHook(d)
    <2>1. z.capture = a /\ z.slot = c.slot /\ z.seq = c.seq
      BY <1>0, <1>1 DEF Cam
    <2> DEFINE g == [c.slot EXCEPT ![a].seq = c.seq + 1]
    <2>3. g \in [SlotIds -> Slot] /\ g[a] = [c.slot[a] EXCEPT !.seq = c.seq + 1]
          /\ \A s \in SlotIds : s # a => g[s] = c.slot[s]
      <3>1. c.slot[a] \in Slot /\ c.seq + 1 \in Nat
        BY <1>0, <1>1
      <3>2. [c.slot[a] EXCEPT !.seq = c.seq + 1] \in Slot
        BY <3>1 DEF Slot
      <3> HIDE DEF a
      <3> QED BY <1>0, <1>1, <3>2
    <2>4. f = [g EXCEPT ![a].state = "ready"]
      <3> HIDE DEF a, g
      <3> QED BY <1>0, <1>1, <2>3
    <2>2. d = [z EXCEPT !.seq = @ + 1, !.capture = NoSlot, !.slot[z.capture].seq = z.seq + 1,
                        !.slot[z.capture].state = "ready"]
      <3> HIDE DEF f
      <3> QED BY <1>0, <1>1, <2>1, <2>4, ZenonT(60) DEF Cam
    <2> HIDE DEF z, d, f
    <2> QED BY <1>1, <2>1, <2>2 DEF FinishEvent
  <1>3. /\ f \in [SlotIds -> Slot]
        /\ \A s \in SlotIds : s # a => f[s] = c.slot[s]
        /\ f[a].state = "ready" /\ f[a].seq = c.seq + 1
    <2>1. c.slot[a] \in Slot /\ c.seq + 1 \in Nat
      BY <1>0, <1>1
    <2>2. w \in Slot /\ w.state = "ready" /\ w.seq = c.seq + 1
      BY <2>1 DEF Slot, SlotStates
    <2> HIDE DEF w, a
    <2> QED BY <1>0, <1>1, <2>2
  <1> HIDE DEF f, a, w
  <1>4. /\ d \in Cam /\ d.slot = f /\ d.lease = c.lease /\ d.seq = c.seq + 1
        /\ d.pix = c.pix /\ d.paused = c.paused
        /\ d.running = c.running /\ d.reserved = c.reserved /\ d.work = c.work
        /\ d.irq = c.irq /\ d.start = c.start
        /\ d.finish = 0 /\ d.conv = c.conv /\ d.capture = NoSlot
        /\ d.addr = c.addr /\ d.images = c.images /\ SameAi(c, d)
    <2>1. c.seq + 1 \in Nat
      BY <1>0
    <2>2. d \in Cam
      BY <1>0, <1>3, <2>1 DEF Cam, Flag
    <2> QED BY <1>0, <2>2 DEF Cam, SameAi
  <1> HIDE DEF d
  <1>5. /\ Leased(d) = Leased(c) /\ \A s \in Leased(c) : d.slot[s] = c.slot[s]
        /\ Ready(d) = Ready(c) \cup {a}
    BY <1>1, <1>3, <1>4 DEF Leased, Ready
  <1>6. Slots(d)
    <2>1. \A s \in SlotIds : d.slot[s].state = "capturing" <=> d.capture = s
      BY <1>1, <1>3, <1>4, NoSlotOk DEF Slots
    <2>2. \A s \in Ready(d) \cup Leased(d) : d.pix[s] = d.slot[s].seq /\ d.slot[s].seq <= d.seq
      <3> SUFFICES ASSUME NEW s \in Ready(d) \cup Leased(d)
                   PROVE  d.pix[s] = d.slot[s].seq /\ d.slot[s].seq <= d.seq
        OBVIOUS
      <3>1. CASE s = a
        BY <1>0, <1>1, <1>3, <1>4, <3>1
      <3>2. CASE s # a
        <4>1. s \in SlotIds /\ s \in Ready(c) \cup Leased(c)
          BY <1>5, <3>2 DEF Ready, Leased
        <4>2. c.pix[s] = c.slot[s].seq /\ c.slot[s].seq <= c.seq /\ c.slot[s].seq \in Nat
          BY <1>0, <4>1 DEF Slots, Slot
        <4> QED BY <1>0, <1>3, <1>4, <3>2, <4>1, <4>2
      <3> QED BY <3>1, <3>2
    <2>3. \A s \in Leased(d) : d.slot[s].lease \in 1 .. d.lease
      BY <1>4, <1>5 DEF Slots
    <2>4. d.running = d.reserved /\ d.work # 1 /\ d.running = 1 /\ d.conv = 0 /\ d.finish = 0
      BY <1>1, <1>4 DEF Slots
    <2>5. d.images = d.seq + d.finish
      BY <1>0, <1>1, <1>4
    <2> QED BY <1>4, <2>1, <2>2, <2>3, <2>4, <2>5 DEF Slots
  <1> DEFINE e == FinishHook(d)
  <1>7. /\ e \in Cam /\ SameStream(d, e) /\ e.aiOwner = d.aiOwner
        /\ \/ e = d
           \/ /\ d.ai = "capturing" /\ e.ai = "ready" /\ e.aiOut = 0 /\ e.aiWhole = 0
              /\ e.aiPix = d.aiPix /\ e.aiSeq = d.seq
    BY <1>4, HooksOk
  <1> HIDE DEF e
  <1>8. Slots(e) /\ Leased(e) = Leased(d)
    BY <1>6, <1>7, SameStreamOk
  <1>9. \A r, p \in BOOLEAN : AiOk(c, r, p) => AiOk(e, r, p)
    BY <1>1, <1>4, <1>7 DEF AiOk, SameAi, SameStream, SameFrames
  <1>10. Quiet(c, e)
    BY <1>4, <1>5, <1>7, <1>8, <1>9 DEF Quiet, SameAi, SameStream, SameFrames
  <1> QED BY <1>2, <1>4, <1>7, <1>8, <1>10 DEF SameStream, SameFrames, e

(* A step that keeps the stream and the AI input is quiet. *)
LEMMA SameQuiet ==
    ASSUME NEW c, NEW d, SameFrames(c, d), d.paused = c.paused, SameAi(c, d)
    PROVE  Quiet(c, d)
  BY SameAiOk DEF Quiet, SameFrames, SameAi, Leased

(* A frame start claims a slot and converts. *)
LEMMA ClaimOk ==
    ASSUME NEW c, Slots(c), c.running = 1, c.paused # 1, c.capture = NoSlot,
           NEW s \in Free(c) \cup Ready(c)
    PROVE  LET e == [c EXCEPT !.slot[s] = [FreeSlot EXCEPT !.state = "capturing"], !.capture = s]
               d == StartConvert(StartHook(e), s)
           IN  Slots(d) /\ Quiet(c, d)
  <1> DEFINE w == [FreeSlot EXCEPT !.state = "capturing"]
             f == [c.slot EXCEPT ![s] = w]
             e == [c EXCEPT !.slot = f, !.capture = s]
             h == StartHook(e)
             p == [h.pix EXCEPT ![s] = 0]
             n == IF h.aiOut = 1 THEN 0 ELSE h.aiPix
             d == [h EXCEPT !.start = 0, !.finish = 0, !.conv = 1, !.addr = s, !.pix = p,
                            !.aiWhole = h.aiOut, !.aiPix = n]
  <1>0. c \in Cam /\ c.slot \in [SlotIds -> Slot]
    BY DEF Slots, Cam
  <1>1. s \in SlotIds /\ s # NoSlot /\ c.slot[s].state \in {"free", "ready"}
    BY NoSlotOk DEF Free, Ready
  <1>2. c.conv = 0 /\ c.finish = 0 /\ c.images = c.seq
    <2>1. c.conv # 1 /\ c.finish # 1
      BY <1>0, NoSlotOk DEF Slots, Cam
    <2> QED BY <1>0, <2>1 DEF Slots, Cam, Flag
  <1>3. w \in Slot /\ w.state = "capturing"
    BY DEF FreeSlot, Slot, SlotStates
  <1>4. [c EXCEPT !.slot[s] = w, !.capture = s] = e
    OBVIOUS
  <1>5. StartConvert(h, s) = d
    BY DEF StartConvert
  <1> HIDE DEF w
  <1>6. /\ f \in [SlotIds -> Slot] /\ f[s].state = "capturing"
        /\ \A t \in SlotIds : t # s => f[t] = c.slot[t]
    BY <1>0, <1>1, <1>3
  <1> HIDE DEF f
  <1>7. /\ e \in Cam /\ e.slot = f /\ e.capture = s
        /\ e.pix = c.pix /\ e.seq = c.seq /\ e.lease = c.lease
        /\ e.running = c.running /\ e.reserved = c.reserved /\ e.work = c.work
        /\ e.finish = c.finish /\ e.conv = c.conv /\ e.addr = c.addr
        /\ e.images = c.images /\ e.paused = c.paused /\ SameAi(c, e)
    <2>1. e \in Cam
      BY <1>0, <1>1, <1>6, ZenonT(60) DEF Cam
    <2> QED BY <1>0, <2>1 DEF Cam, SameAi
  <1> HIDE DEF e
  <1>8. /\ h \in Cam /\ SameStream(e, h) /\ h.aiOwner = e.aiOwner
        /\ \/ h = e
           \/ e.ai = "armed" /\ h.ai = "capturing" /\ h.aiOut = 1 /\ h.aiSeq = e.aiSeq
    BY <1>7, HooksOk
  <1> HIDE DEF h
  <1>9. /\ d \in Cam /\ d.slot = h.slot /\ d.capture = h.capture /\ d.pix = p /\ d.seq = h.seq
        /\ d.lease = h.lease /\ d.running = h.running /\ d.reserved = h.reserved
        /\ d.work = h.work /\ d.finish = 0 /\ d.conv = 1 /\ d.addr = s
        /\ d.images = h.images /\ d.paused = h.paused
        /\ d.aiOut = h.aiOut /\ d.aiWhole = h.aiOut /\ d.aiPix = n /\ d.ai = h.ai
        /\ d.aiSeq = h.aiSeq /\ d.aiOwner = h.aiOwner
    <2>1. p \in [SlotIds -> Nat] /\ n \in Nat /\ h.aiOut \in Flag
      BY <1>1, <1>8 DEF Cam
    <2> HIDE DEF p, n
    <2>2. d \in Cam
      BY <1>1, <1>8, <2>1, ZenonT(60) DEF Cam, Flag
    <2> QED BY <1>8, <2>2 DEF Cam
  <1> HIDE DEF d
  <1>10. /\ d.slot = f /\ d.capture = s /\ d.seq = c.seq /\ d.lease = c.lease
         /\ d.running = 1 /\ d.reserved = c.reserved /\ d.work = c.work
         /\ d.images = c.images /\ d.paused = c.paused
         /\ \A t \in SlotIds : t # s => d.pix[t] = c.pix[t]
    <2>1. h.pix = c.pix /\ c.pix \in [SlotIds -> Nat]
      BY <1>0, <1>7, <1>8 DEF SameStream, SameFrames, Cam
    <2> QED BY <1>7, <1>8, <1>9, <2>1 DEF SameStream, SameFrames
  <1>11. /\ Leased(d) = Leased(c) /\ Ready(d) \subseteq Ready(c) \ {s} /\ s \notin Leased(c)
    BY <1>1, <1>6, <1>10 DEF Leased, Ready
  <1>12. Slots(d)
    <2>1. \A t \in SlotIds : d.slot[t].state = "capturing" <=> d.capture = t
      BY <1>1, <1>6, <1>10, NoSlotOk DEF Slots
    <2>2. \A t \in Ready(d) \cup Leased(d) : d.pix[t] = d.slot[t].seq /\ d.slot[t].seq <= d.seq
      <3>1. \A t \in Ready(d) \cup Leased(d) : t \in SlotIds /\ t # s /\ t \in Ready(c) \cup Leased(c)
        BY <1>11 DEF Ready, Leased
      <3> QED BY <1>6, <1>10, <3>1 DEF Slots
    <2>3. \A t \in Leased(d) : d.slot[t].lease \in 1 .. d.lease
      <3>1. \A t \in Leased(d) : t \in SlotIds /\ t # s /\ t \in Leased(c)
        BY <1>11 DEF Leased
      <3> QED BY <1>6, <1>10, <3>1 DEF Slots
    <2>4. d.running = d.reserved /\ d.work # 1
      <3>1. c.running = c.reserved /\ (c.work = 1 => c.running = 0)
        BY DEF Slots
      <3> QED BY <1>10, <3>1
    <2>5. d.images = d.seq + d.finish
      BY <1>0, <1>2, <1>9, <1>10 DEF Cam
    <2> QED BY <1>9, <1>10, <2>1, <2>2, <2>3, <2>4, <2>5 DEF Slots
  <1>13. \A r, q \in BOOLEAN : AiOk(c, r, q) => AiOk(d, r, q)
    <2>1. d.conv = 1 /\ d.finish = 0 /\ d.aiWhole = d.aiOut
      BY <1>9
    <2>2. CASE h = e
      BY <1>7, <1>9, <2>1, <2>2 DEF AiOk, SameAi
    <2>3. CASE e.ai = "armed" /\ h.ai = "capturing" /\ h.aiOut = 1 /\ h.aiSeq = e.aiSeq
      BY <1>9, <2>1, <2>3 DEF AiOk
    <2> QED BY <1>8, <2>2, <2>3
  <1>14. Quiet(c, d)
    <2>1. \A t \in Leased(c) : d.slot[t] = c.slot[t]
      BY <1>6, <1>10, <1>11 DEF Leased
    <2>2. d.aiOwner = c.aiOwner
          /\ (d.ai = c.ai \/ (c.ai \in {"armed", "capturing"} /\ d.ai \in {"capturing", "ready"}))
      BY <1>7, <1>8, <1>9 DEF SameAi
    <2> QED BY <1>10, <1>11, <1>13, <2>1, <2>2 DEF Quiet
  <1> QED BY <1>4, <1>5, <1>12, <1>14 DEF w, h, d

LEMMA StartEventOk ==
    ASSUME NEW c, Slots(c)
    PROVE  Slots(StartEvent(c)) /\ Quiet(c, StartEvent(c))
  <1>0. c \in Cam /\ Quiet(c, c)
    BY SameQuiet DEF Slots, SameFrames, SameAi
  <1>1. CASE c.running = 0 \/ c.paused = 1 \/ c.capture # NoSlot
    BY <1>0, <1>1 DEF StartEvent
  <1>2. CASE ~(c.running = 0 \/ c.paused = 1 \/ c.capture # NoSlot) /\ c.sync = 1
    <2> DEFINE d == [c EXCEPT !.sync = 0]
    <2>1. StartEvent(c) = d
      BY <1>2 DEF StartEvent
    <2>2. d \in Cam /\ SameStream(c, d) /\ SameAi(c, d)
      BY <1>0 DEF Cam, Flag, SameStream, SameFrames, SameAi
    <2> HIDE DEF d
    <2>3. Slots(d)
      BY <2>2, SameStreamOk
    <2>4. Quiet(c, d)
      BY <2>2, SameQuiet DEF SameStream
    <2> QED BY <2>1, <2>3, <2>4
  <1>3. CASE ~(c.running = 0 \/ c.paused = 1 \/ c.capture # NoSlot) /\ c.sync # 1
    <2> DEFINE s == Candidate(c)
    <2>1. CASE s = NoSlot
      BY <1>0, <1>3, <2>1 DEF StartEvent
    <2>2. CASE s # NoSlot
      <3>1. s \in Free(c) \cup Ready(c)
        BY <2>2, CandidateOk
      <3>2. c.running = 1
        BY <1>0, <1>3 DEF Cam, Flag
      <3> DEFINE e == [c EXCEPT !.slot[s] = [FreeSlot EXCEPT !.state = "capturing"], !.capture = s]
      <3>3. StartEvent(c) = StartConvert(StartHook(e), s)
        BY <1>3, <2>2 DEF StartEvent
      <3> HIDE DEF s
      <3>4. Slots(StartConvert(StartHook(e), s)) /\ Quiet(c, StartConvert(StartHook(e), s))
        BY <1>3, <3>1, <3>2, ClaimOk
      <3> QED BY <3>3, <3>4
    <2> QED BY <2>1, <2>2
  <1> QED BY <1>1, <1>2, <1>3

(* Every interrupt keeps the stream, the leases and the image in the input. *)
LEMMA InterruptOk ==
    ASSUME Slots(cam), Interrupt
    PROVE  Slots(cam') /\ Quiet(cam, cam')
  <1>0. cam \in Cam /\ Quiet(cam, cam)
    BY SameQuiet DEF Slots, SameFrames, SameAi
  <1>1. CASE Irq
    <2> DEFINE f == IF cam.finish = 1 THEN FinishEvent([cam EXCEPT !.finish = 0]) ELSE cam
               z == [f EXCEPT !.start = 0]
    <2>1. cam' = IF cam.start = 1 THEN StartEvent(z) ELSE f
      BY <1>1 DEF Irq, IrqHandler
    <2>2. Slots(f) /\ Quiet(cam, f)
      BY <1>0, FinishOk
    <2> HIDE DEF f
    <2>3. f \in Cam
      BY <2>2 DEF Slots
    <2>4. z \in Cam /\ SameFrames(f, z) /\ SameAi(f, z) /\ z.irq = f.irq /\ z.start = 0
          /\ z.paused = f.paused
      BY <2>3 DEF Cam, Flag, SameFrames, SameAi
    <2> HIDE DEF z
    <2>5. Slots(z)
      <3>1. f.running = 0 => f.irq = 0
        BY <2>2 DEF Slots
      <3> QED BY <2>2, <2>4, <3>1, SameFramesOk DEF SameFrames
    <2>6. Quiet(f, z)
      BY <2>4, SameQuiet
    <2>7. Slots(StartEvent(z)) /\ Quiet(z, StartEvent(z))
      BY <2>5, StartEventOk
    <2>8. Quiet(cam, StartEvent(z))
      BY <2>2, <2>6, <2>7, QuietTrans
    <2> QED BY <2>1, <2>2, <2>7, <2>8
  <1>2. CASE FrameBegins
    <2> DEFINE d == [cam EXCEPT !.inFrame = 1, !.start = 1]
    <2>1. cam' = d /\ cam.irq = 1
      BY <1>2 DEF FrameBegins
    <2>2. d \in Cam /\ SameFrames(cam, d) /\ SameAi(cam, d) /\ d.paused = cam.paused
      BY <1>0, ZenonT(60) DEF Cam, Flag, SameFrames, SameAi
    <2> HIDE DEF d
    <2>3. d.running # 0
      BY <2>1, <2>2 DEF Slots, SameFrames
    <2> QED BY <2>1, <2>2, <2>3, SameFramesOk, SameQuiet
  <1>3. CASE FrameEnds /\ cam.conv = 0
    <2> DEFINE d == [cam EXCEPT !.inFrame = 0]
    <2>1. cam' = d
      BY <1>3 DEF FrameEnds
    <2>2. d \in Cam /\ SameStream(cam, d) /\ SameAi(cam, d)
      BY <1>0 DEF Cam, Flag, SameStream, SameFrames, SameAi
    <2> HIDE DEF d
    <2> QED BY <2>1, <2>2, SameStreamOk, SameQuiet DEF SameStream
  <1>4. CASE FrameEnds /\ cam.conv # 0
    <2> DEFINE a == cam.addr
               p == [cam.pix EXCEPT ![a] = cam.images + 1]
               n == IF cam.aiWhole = 1 THEN cam.images + 1 ELSE IF cam.aiOut = 1 THEN 0 ELSE cam.aiPix
               d == [cam EXCEPT !.inFrame = 0, !.conv = 0, !.finish = 1,
                                !.images = cam.images + 1, !.pix = p, !.aiPix = n]
    <2>1. cam' = d
      BY <1>4 DEF FrameEnds
    <2>2. /\ a \in SlotIds /\ cam.images + 1 \in Nat /\ cam.pix \in [SlotIds -> Nat]
          /\ n \in Nat /\ cam.images \in Nat /\ cam.seq \in Nat
      BY <1>0 DEF Cam
    <2>3. cam.conv = 1
      BY <1>0, <1>4 DEF Cam, Flag
    <2>4. /\ cam.capture = a /\ cam.slot[a].state = "capturing" /\ cam.running = 1
          /\ cam.finish = 0 /\ cam.images = cam.seq + cam.finish
          /\ cam.reserved = 1 /\ cam.work # 1
      BY <1>0, <2>2, <2>3 DEF Slots, Cam, Flag
    <2>5. p \in [SlotIds -> Nat] /\ p[a] = cam.images + 1
          /\ \A s \in SlotIds : s # a => p[s] = cam.pix[s]
      <3> HIDE DEF a
      <3> QED BY <2>2
    <2> HIDE DEF p, n
    <2>6. /\ d \in Cam /\ d.slot = cam.slot /\ d.capture = cam.capture /\ d.pix = p
          /\ d.seq = cam.seq /\ d.lease = cam.lease /\ d.running = cam.running
          /\ d.reserved = cam.reserved /\ d.work = cam.work /\ d.finish = 1 /\ d.conv = 0
          /\ d.addr = a /\ d.images = cam.images + 1 /\ d.paused = cam.paused
          /\ d.aiOut = cam.aiOut /\ d.aiWhole = cam.aiWhole /\ d.aiPix = n /\ d.ai = cam.ai
          /\ d.aiSeq = cam.aiSeq /\ d.aiOwner = cam.aiOwner
      <3>1. d \in Cam
        BY <1>0, <2>2, <2>5, ZenonT(60) DEF Cam, Flag
      <3> QED BY <1>0, <3>1 DEF Cam
    <2> HIDE DEF d, a
    <2>7. Leased(d) = Leased(cam) /\ Ready(d) = Ready(cam) /\ a \notin Leased(cam) \cup Ready(cam)
      BY <2>4, <2>6 DEF Leased, Ready
    <2>8. Slots(d)
      <3>1. \A s \in SlotIds : d.slot[s].state = "capturing" <=> d.capture = s
        BY <2>6 DEF Slots
      <3>2. \A s \in Ready(d) \cup Leased(d) : d.pix[s] = d.slot[s].seq /\ d.slot[s].seq <= d.seq
        <4>1. \A s \in Ready(d) \cup Leased(d) : s \in SlotIds /\ s # a /\ s \in Ready(cam) \cup Leased(cam)
          BY <2>7 DEF Ready, Leased
        <4> QED BY <2>5, <2>6, <4>1 DEF Slots
      <3>3. \A s \in Leased(d) : d.slot[s].lease \in 1 .. d.lease
        BY <2>6, <2>7 DEF Slots
      <3>4. d.images = d.seq + d.finish
        BY <2>2, <2>4, <2>6
      <3> QED BY <2>4, <2>5, <2>6, <3>1, <3>2, <3>3, <3>4 DEF Slots
    <2>9. \A r, q \in BOOLEAN : AiOk(cam, r, q) => AiOk(d, r, q)
      BY <2>3, <2>6 DEF AiOk, n
    <2>10. Quiet(cam, d)
      BY <2>6, <2>7, <2>9 DEF Quiet
    <2> QED BY <2>1, <2>8, <2>10
  <1> QED BY <1>1, <1>2, <1>3, <1>4 DEF Interrupt, FrameEnds

-----------------------------------------------------------------------------
(* The set of one lease, 0 being none. *)
Only(l) == IF l = 0 THEN {} ELSE {l}

LEMMA LeasesSame ==
    ASSUME NEW c, NEW d, Leased(d) = Leased(c), \A s \in Leased(c) : d.slot[s] = c.slot[s]
    PROVE  Leases(d) = Leases(c)
  BY DEF Leases

LEMMA LeasesKept ==
    ASSUME NEW c, Slots(c)
    PROVE  /\ Leases(StreamPause(c)) = Leases(c) /\ Leases(StreamResume(c)) = Leases(c)
           /\ Leases(Borrow(c)) = Leases(c) /\ Leases(GiveBack(c)) = Leases(c)
           /\ Leases(StreamStop(c)) = {} /\ Leases(StreamStart(c)) = {}
           /\ c.running = 0 => Leases(c) = {}
  <1>1. Leases(StreamPause(c)) = Leases(c)
    BY PauseOk DEF SameFrames, Leases, Leased
  <1>2. Leases(StreamResume(c)) = Leases(c)
    BY ResumeOk, LeasesSame
  <1>3. Leases(Borrow(c)) = Leases(c) /\ Leases(GiveBack(c)) = Leases(c)
    BY BorrowOk DEF Leases
  <1>4. Leases(StreamStop(c)) = {}
    BY StopOk DEF Leases
  <1>5. Leases(StreamStart(c)) = {}
    BY StartOkStream DEF Leases
  <1>6. c.running = 0 => Leases(c) = {}
    BY DEF Slots, Leases
  <1> QED BY <1>1, <1>2, <1>3, <1>4, <1>5, <1>6

LEMMA ReleaseLeases ==
    ASSUME NEW c, Slots(c), NEW l, Leases(c) = Only(l)
    PROVE  Leases(Release(c, l)) = {}
  <1> DEFINE d == Release(c, l)
  <1>1. /\ Leased(d) = IF l = 0 THEN Leased(c) ELSE {s \in Leased(c) : c.slot[s].lease # l}
        /\ Slots(d)
    BY ReleaseOk
  <1>2. Leased(d) = {}
    <2> HIDE DEF d
    <2> QED BY <1>1 DEF Leases, Only
  <1> QED BY <1>2 DEF Leases

LEMMA AcquireLeases ==
    ASSUME NEW c, Slots(c), CanAcquire(c)
    PROVE  /\ Leases(Acquire(c)) = Leases(c) \cup {c.lease + 1}
           /\ Leases(Release(Acquire(c), c.lease + 1)) = Leases(c)
           /\ c.lease \in Nat
  <1> DEFINE d == Acquire(c)
             n == Newest(c)
             l == c.lease + 1
             e == Release(d, l)
  <1>1. /\ Slots(d) /\ Leased(d) = Leased(c) \cup {n} /\ n \notin Leased(c)
        /\ d.slot[n].lease = l /\ \A s \in Leased(c) : d.slot[s] = c.slot[s]
    BY AcquireOk
  <1>2. c.lease \in Nat /\ l # 0 /\ l \notin 1 .. c.lease
    BY DEF Slots, Cam
  <1>3. /\ Given(d, e) /\ Leased(e) = {s \in Leased(d) : d.slot[s].lease # l}
    BY <1>1, <1>2, ReleaseOk
  <1>4. \A s \in Leased(c) : c.slot[s].lease \in 1 .. c.lease
    BY DEF Slots
  <1> HIDE DEF d, n, l, e
  <1>5. Leases(d) = Leases(c) \cup {l}
    BY <1>1 DEF Leases
  <1>6. Leased(e) = Leased(c)
    BY <1>1, <1>2, <1>3, <1>4
  <1>7. \A s \in Leased(c) : e.slot[s] = c.slot[s]
    <2>1. \A s \in Leased(c) : s \in SlotIds /\ e.slot[s].state = "leased"
      BY <1>6 DEF Leased
    <2> QED BY <1>1, <1>3, <2>1 DEF Given, FreeSlot
  <1>8. Leases(e) = Leases(c)
    BY <1>6, <1>7, LeasesSame
  <1> QED BY <1>2, <1>5, <1>8 DEF d, l, e

-----------------------------------------------------------------------------
(* The camera session over the stream. *)

(* What the session's operations on the stream leave of the AI input. *)
KeepsInput(c, d) ==
    /\ d.ai = c.ai /\ d.aiOwner = c.aiOwner
    /\ \A r, p \in BOOLEAN : AiOk(c, r, p) => AiOk(d, r, p)

LEMMA ResetOk ==
    ASSUME NEW c, Slots(c)
    PROVE  /\ Slots(Reset(c)) /\ KeepsInput(c, Reset(c)) /\ Leases(Reset(c)) = {}
           /\ Reset(c).running = 0 /\ Reset(c).work = c.work /\ Reset(c).aiOut = c.aiOut
  <1> DEFINE e == Release(c, snap)
  <1>1. Slots(e) /\ Given(c, e) /\ SameAi(c, e)
    BY ReleaseOk
  <1>2. \A r, p \in BOOLEAN : AiOk(c, r, p) => AiOk(e, r, p)
    BY <1>1, SameAiOk DEF Given
  <1>3. Reset(c) = StreamStop(e)
    BY DEF Reset
  <1> HIDE DEF e
  <1>4. /\ Slots(StreamStop(e)) /\ StreamStop(e).running = 0 /\ StreamStop(e).work = e.work
        /\ StreamStop(e).ai = e.ai /\ StreamStop(e).aiOwner = e.aiOwner
        /\ StreamStop(e).aiOut = e.aiOut
        /\ \A r, p \in BOOLEAN : AiOk(e, r, p) => AiOk(StreamStop(e), r, p)
        /\ Leases(StreamStop(e)) = {}
    BY <1>1, StopOk, LeasesKept
  <1> QED BY <1>1, <1>2, <1>3, <1>4 DEF Given, SameAi, KeepsInput

LEMMA RestartOk ==
    ASSUME NEW c, Slots(c), c.work = 0
    PROVE  LET d == StreamStart(Reset(c)) IN
           /\ Slots(d) /\ Leases(d) = {} /\ d.running = 1 /\ d.paused = 0 /\ d.work = 0
           /\ d.ai = c.ai /\ d.aiOwner = c.aiOwner /\ (d.aiOut = 1 => c.aiOut = 1)
           /\ \A r, p \in BOOLEAN :
                 AiOk(c, r, p) /\ (~r \/ c.ai \in {"disabled", "armed"}) => AiOk(d, r, p)
  <1> DEFINE e == Reset(c)
             d == StreamStart(e)
  <1>1. /\ Slots(e) /\ KeepsInput(c, e) /\ e.work = 0 /\ e.aiOut = c.aiOut
    BY ResetOk
  <1> HIDE DEF e
  <1>2. /\ Slots(d) /\ d.running = 1 /\ d.paused = 0 /\ d.work = 0
        /\ d.ai = e.ai /\ d.aiOwner = e.aiOwner /\ (d.aiOut = 1 => e.aiOut = 1)
        /\ \A r, p \in BOOLEAN :
              AiOk(e, r, p) /\ (~r \/ e.ai \in {"disabled", "armed"}) => AiOk(d, r, p)
        /\ Leases(d) = {}
    BY <1>1, StartOkStream, LeasesKept DEF StreamStarts
  <1> HIDE DEF d
  <1> QED BY <1>1, <1>2 DEF KeepsInput, d, e

(* camera_stop turns the output off: an inference that was about to be fed   *)
(* is not, and the caller withdraws it.                                      *)
LEMMA CamStoppedOk ==
    ASSUME NEW c, Slots(c), sess.initialized = 1 \/ c.running = 0
    PROVE  /\ Slots(CamStopped(c)) /\ CamStopped(c).running = 0 /\ Leases(CamStopped(c)) = {}
           /\ CamStopped(c).work = c.work
           /\ CamStopped(c).ai = c.ai /\ CamStopped(c).aiOwner = c.aiOwner
           /\ \A r, p \in BOOLEAN :
                 AiOk(c, r, p) /\ c.ai # "capturing" => AiOk(CamStopped(c), r, p)
  <1>1. CASE sess.initialized # 1
    <2>1. CamStopped(c) = c
      BY <1>1 DEF CamStopped
    <2> QED BY <1>1, <2>1, LeasesKept
  <1>2. CASE sess.initialized = 1
    <2> DEFINE e == Output(c, 0)
    <2>1. c \in Cam /\ 0 \in Flag
      BY DEF Slots, Flag
    <2>2. /\ e \in Cam /\ SameStream(c, e) /\ e.aiOut = 0 /\ e.aiWhole = 0
          /\ e.aiPix = c.aiPix /\ e.ai = c.ai /\ e.aiOwner = c.aiOwner /\ e.aiSeq = c.aiSeq
      BY <2>1, OutputOk
    <2> HIDE DEF e
    <2>3. Slots(e) /\ e.work = c.work
      BY <2>2, SameStreamOk DEF SameStream, SameFrames
    <2>4. \A r, p \in BOOLEAN : AiOk(c, r, p) /\ c.ai # "capturing" => AiOk(e, r, p)
      BY <2>2 DEF AiOk
    <2>5. /\ Slots(Reset(e)) /\ KeepsInput(e, Reset(e)) /\ Leases(Reset(e)) = {}
          /\ Reset(e).running = 0 /\ Reset(e).work = e.work
      BY <2>3, ResetOk
    <2>6. CamStopped(c) = Reset(e)
      BY <1>2 DEF CamStopped, e
    <2> QED BY <2>2, <2>3, <2>4, <2>5, <2>6 DEF KeepsInput
  <1> QED BY <1>1, <1>2

LEMMA SnapshotDoneOk ==
    ASSUME NEW c, Slots(c), Leases(c) = Only(snap), NEW resume \in BOOLEAN
    PROVE  LET d == SnapshotDone(c, resume) IN
           /\ Slots(d) /\ KeepsInput(c, d) /\ Leases(d) = {} /\ d.aiOut = c.aiOut
           /\ d.running = c.running /\ d.work = c.work
           /\ resume /\ c.running = 1 => d.paused = 0
           /\ ~resume => d.paused = c.paused
  <1> DEFINE e == Release(c, snap)
             f == StreamResume(e)
  <1>1. Slots(e) /\ Given(c, e) /\ SameAi(c, e) /\ e.paused = c.paused
    BY ReleaseOk
  <1>2. Leases(e) = {}
    BY ReleaseLeases
  <1>3. SnapshotDone(c, resume) = IF resume THEN f ELSE e
    BY DEF SnapshotDone
  <1> HIDE DEF e
  <1>4. /\ Slots(f) /\ Given(e, f) /\ SameAi(e, f) /\ (e.running = 1 => f.paused = 0)
        /\ Leases(f) = {}
    BY <1>1, <1>2, ResumeOk, LeasesKept
  <1> HIDE DEF f
  <1>5. KeepsInput(c, e)
    BY <1>1, SameAiOk DEF KeepsInput, Given, SameAi
  <1>6. KeepsInput(e, f)
    BY <1>4, SameAiOk DEF KeepsInput, Given, SameAi
  <1> QED BY <1>1, <1>2, <1>3, <1>4, <1>5, <1>6 DEF KeepsInput, Given, SameAi

-----------------------------------------------------------------------------
(* The accelerator under an input. *)

(* Only the owner has a result to fetch, and only while nothing runs. *)
Fetched(k) == \A r \in Runtimes : k.pending[r] = 1 => k.engine = 0 /\ k.owner = r

(* No inference starts, and nobody comes to own the accelerator. *)
Calm(k, m) ==
    /\ m.engine = 1 => k.engine = 1
    /\ m.owner # NoRuntime => m.owner = k.owner
    /\ k \in Kpu => m \in Kpu
    /\ k \in Kpu /\ Fetched(k) => Fetched(m)

LEMMA CalmTrans ==
    ASSUME NEW k, NEW m, NEW q, Calm(k, m), Calm(m, q)
    PROVE  Calm(k, q)
  BY DEF Calm

LEMMA ReleasedCalm ==
    ASSUME NEW k \in Kpu, NEW r \in Runtimes
    PROVE  Calm(k, Released(k, r))
  <1> DEFINE st == [k.state EXCEPT ![r] = "UNLOADED"]
             pd == [k.pending EXCEPT ![r] = 0]
             o == IF k.owner = r THEN NoRuntime ELSE k.owner
             m == [k EXCEPT !.loaded = 0, !.done = NoRuntime, !.late = 0, !.state = st,
                            !.pending = pd, !.owner = o]
  <1>1. CASE k.busy = 1
    BY <1>1 DEF Released, Calm
  <1>2. CASE k.busy # 1
    <2>1. Released(k, r) = m
      BY <1>2 DEF Released, Clear, Kpu
    <2>2. /\ st \in [Runtimes -> ModelStates] /\ pd \in [Runtimes -> {0, 1}]
          /\ \A q \in Runtimes : pd[q] = 1 => q # r /\ k.pending[q] = 1
          /\ o \in Runtimes \cup {NoRuntime}
      BY DEF Kpu, ModelStates
    <2> HIDE DEF st, pd
    <2>3. m \in Kpu /\ m.pending = pd /\ m.owner = o /\ m.engine = k.engine
      BY <2>2 DEF Kpu
    <2> HIDE DEF m
    <2> QED BY <2>1, <2>2, <2>3 DEF Calm, Fetched
  <1> QED BY <1>1, <1>2

LEMMA TickCalm ==
    ASSUME NEW k \in Kpu, NEW r \in Runtimes
    PROVE  Calm(k, Tick(k, r))
  <1> DEFINE m == StopAndReset(k)
  <1>1. Calm(k, k)
    BY DEF Calm
  <1>2. Calm(k, m) /\ m \in Kpu
    BY DEF StopAndReset, Calm, Fetched, Kpu
  <1> HIDE DEF m
  <1>3. Calm(k, Released(m, r))
    BY <1>2, ReleasedCalm, CalmTrans
  <1> QED BY <1>1, <1>3, ReleasedCalm DEF Tick, m

LEMMA UnloadTestCalm ==
    ASSUME NEW k \in Kpu, NEW r \in Runtimes
    PROVE  Calm(k, UnloadTest(k, r))
  <1> DEFINE pd == [k.pending EXCEPT ![r] = 0]
             q == [k EXCEPT !.pending = pd]
             st == [q.state EXCEPT ![r] = "FAULT"]
             f == [q EXCEPT !.state = st]
  <1>1. Calm(k, k)
    BY DEF Calm
  <1>2. pd \in [Runtimes -> {0, 1}] /\ \A s \in Runtimes : pd[s] = 1 => k.pending[s] = 1
    BY DEF Kpu
  <1>3. \/ UnloadTest(k, r) = k \/ UnloadTest(k, r) = q
        \/ UnloadTest(k, r) = f \/ UnloadTest(k, r) = Released(q, r)
    BY DEF UnloadTest
  <1> HIDE DEF pd
  <1>4. /\ q \in Kpu /\ q.pending = pd /\ q.owner = k.owner /\ q.engine = k.engine
        /\ q.state \in [Runtimes -> ModelStates]
    BY <1>2 DEF Kpu
  <1> HIDE DEF q
  <1>5. Calm(k, q)
    BY <1>2, <1>4 DEF Calm, Fetched
  <1>6. st \in [Runtimes -> ModelStates]
    BY <1>4 DEF ModelStates
  <1> HIDE DEF st
  <1>7. f \in Kpu /\ f.pending = pd /\ f.owner = k.owner /\ f.engine = k.engine
    BY <1>4, <1>6 DEF Kpu
  <1> HIDE DEF f
  <1>8. Calm(k, f)
    BY <1>2, <1>7 DEF Calm, Fetched
  <1>9. Calm(k, Released(q, r))
    BY <1>4, <1>5, ReleasedCalm, CalmTrans
  <1> QED BY <1>1, <1>3, <1>5, <1>8, <1>9

LEMMA UnloadStoreCalm ==
    ASSUME NEW k \in Kpu, NEW r \in Runtimes
    PROVE  Calm(k, UnloadStore(k, r))
  <1> DEFINE st == [k.state EXCEPT ![r] = "UNLOAD_PENDING"]
             m == [k EXCEPT !.state = st]
  <1>1. st \in [Runtimes -> ModelStates]
    BY DEF Kpu, ModelStates
  <1> HIDE DEF st
  <1>2. m \in Kpu /\ m.pending = k.pending /\ m.owner = k.owner /\ m.engine = k.engine
    BY <1>1 DEF Kpu
  <1>3. UnloadStore(k, r) = m
    BY DEF UnloadStore, st
  <1> HIDE DEF m
  <1> QED BY <1>2, <1>3 DEF Calm, Fetched

LEMMA ServicedCalm ==
    ASSUME NEW k \in Kpu, NEW d \in Detectors
    PROVE  Calm(k, Serviced(k, d))
  <1> DEFINE m == UnloadTest(k, d)
             n == IF UnloadWaits(k, d) THEN UnloadStore(m, d) ELSE m
  <1>0. d \in Runtimes
    BY DetectorAssumption
  <1>1. Calm(k, m) /\ m \in Kpu
    BY <1>0, UnloadTestCalm DEF Calm
  <1> HIDE DEF m
  <1>2. Calm(k, n) /\ n \in Kpu
    <2>1. Calm(k, UnloadStore(m, d))
      BY <1>0, <1>1, UnloadStoreCalm, CalmTrans
    <2> QED BY <1>1, <2>1 DEF Calm
  <1>3. Serviced(k, d) = Tick(n, d) \/ Serviced(k, d) = Tick(k, d)
    BY DEF Serviced, n, m
  <1> HIDE DEF n
  <1>4. Calm(k, Tick(n, d)) /\ Calm(k, Tick(k, d))
    BY <1>0, <1>2, TickCalm, CalmTrans
  <1> QED BY <1>3, <1>4

LEMMA PolledCalm ==
    ASSUME kpu \in Kpu, cleanup \in Detectors \cup {NoRuntime}
    PROVE  Calm(kpu, PolledKpu) /\ PolledKpu \in Kpu
  <1>1. Calm(kpu, PolledKpu)
    BY ServicedCalm DEF PolledKpu, Calm
  <1> QED BY <1>1 DEF Calm

LEMMA CompletedFetched ==
    ASSUME NEW k, Engine(k), Fetched(k), k.engine = 1
    PROVE  Fetched(Completed(k)) /\ Completed(k).owner = k.owner /\ Completed(k).engine = 0
  <1> DEFINE r == k.done
             pd == [k.pending EXCEPT ![r] = 1]
             st == [k.state EXCEPT ![r] = "READY"]
             m == [k EXCEPT !.engine = 0, !.busy = 0, !.state = st, !.pending = pd]
             b == [k EXCEPT !.engine = 0, !.busy = 0]
  <1>1. k \in Kpu /\ r = k.owner /\ r \in Runtimes
    BY DEF Engine, Kpu
  <1>2. Completed(k) = m \/ Completed(k) = b
    BY DEF Completed
  <1>3. \A q \in Runtimes : pd[q] = 1 => q = r \/ k.pending[q] = 1
    BY <1>1 DEF Kpu
  <1> HIDE DEF pd, st
  <1>4. m.pending = pd /\ m.owner = k.owner /\ m.engine = 0
    BY <1>1 DEF Kpu
  <1>5. b.pending = k.pending /\ b.owner = k.owner /\ b.engine = 0
    BY <1>1 DEF Kpu
  <1> HIDE DEF m, b, r
  <1> QED BY <1>1, <1>2, <1>3, <1>4, <1>5 DEF Fetched

-----------------------------------------------------------------------------
(* The camera's invariant: who may be writing into, reading and holding what. *)

(* The AI input is its detector's, who has it off while settings are open.   *)
Input ==
    /\ AiOk(cam, restarted = 0, pc # "paused")
    /\ cam.ai # "disabled" => /\ app \in Detectors /\ cam.aiOwner = app
                              /\ mode # "loading" /\ pc \notin {"store", "unloaded"}
    /\ pc \in {"pause", "paused"} => app = "object" /\ (cam.paused = 1 \/ cam.running = 0)
    /\ pc = "resume" => app = "object" /\ mode # "loading"
    /\ pc = "paused" => cam.aiOut = 0

(* The accelerator reads an input that nobody writes.                        *)
Accel ==
    /\ kpu.owner # NoRuntime => cam.aiOwner = kpu.owner
    /\ Fetched(kpu)
    /\ kpu.engine = 1 => cam.ai \in {"busy", "disabled"} \/ sess.initialized = 0
    /\ sess.initialized = 1 /\ app \in Detectors => Live(app)
    /\ pc \in {"take", "run"} => Live(app)
    /\ pc = "run" => kpu.state[app] = "READY" /\ cam.ai = "busy"

(* Places of the main loop at which the preview's or a new snapshot's lease  *)
(* is held.                                                                  *)
Holding(a) == {"snap", "release"} \cup (IF a = "object" THEN {"process", "take", "run"} ELSE {})

(* The session agrees with the stream, and the lease that is out is held.    *)
Sess ==
    /\ sess \in [initialized : Flag, ready : Flag, frozen : Flag]
    /\ sess.initialized = cam.running
    /\ sess.ready = 1 => sess.initialized = 1
    /\ sess.initialized = 1 => /\ app \in CameraApps /\ mode # "loading"
                               /\ pc \notin {"store", "unloaded"}
    /\ cam.work = 1 => app = "files"
    /\ mode = "loading" => app \in Detectors
    /\ mode = "result" => snap # 0 /\ app = "qr"
    /\ pc = "snapped" => snap # 0 /\ mode # "result"
    /\ pc \in {"snap", "snapped"} => why = "frame" \/ (mode = "live" /\ (why = "qr" => app = "qr"))
    /\ Leases(cam) = Only(IF held.lease # 0 THEN held.lease ELSE snap)
    /\ held.lease # 0 <=> pc \in Holding(app)
    /\ held.lease # 0 => snap = 0
    /\ snap # 0 => pc = "snapped" \/ mode = "result"
    /\ pc \notin {"snapped", "sensor"} /\ CaptureReady => cam.paused = 0
    /\ mode \in {"settings", "result"} => sess.frozen = 1 \/ sess.ready = 0

CamInv == Slots(cam) /\ Input /\ Accel /\ Sess

LEMMA AiWeaker ==
    ASSUME NEW c, NEW r, NEW p, NEW q, NEW s, AiOk(c, r, p), q => r, s => p
    PROVE  AiOk(c, q, s)
  BY DEF AiOk

(* The camera changes under an application that goes on. *)
LEMMA InputFrame ==
    ASSUME Input, app' = app, cam'.aiOwner = cam.aiOwner,
           cam'.ai = cam.ai \/ cam'.ai = "disabled" \/ cam.ai # "disabled",
           AiOk(cam', restarted' = 0, pc' # "paused"),
           mode' # "loading" \/ mode' = mode,
           pc' \notin {"pause", "paused", "resume", "store", "unloaded"}
    PROVE  Input'
  BY DEF Input, AiOk

LEMMA AccelFrame ==
    ASSUME Accel, UNCHANGED <<kpu, app>>, cam'.aiOwner = cam.aiOwner,
           cam'.ai = cam.ai \/ cam'.ai = "disabled",
           sess'.initialized = 1 => sess.initialized = 1, sess'.initialized \in Flag,
           pc' \notin {"take", "run"}
    PROVE  Accel'
  BY DEF Accel, Live, Fetched, Flag

-----------------------------------------------------------------------------
(* The steps. *)

LEMMA CamInterrupt ==
    ASSUME CamInv, ModelInv, Interrupt,
           UNCHANGED <<kpu, main, sess, snap, obj, result, cleanup, opens, restarted>>
    PROVE  CamInv'
  <1>1. Slots(cam') /\ Quiet(cam, cam')
    BY InterruptOk DEF CamInv
  <1>2. Leases(cam') = Leases(cam)
    BY <1>1, LeasesSame DEF Quiet
  <1>3. AiOk(cam', restarted = 0, pc # "paused")
    BY <1>1 DEF Quiet, CamInv, Input
  <1>4. Input'
    BY <1>1, <1>3 DEF Quiet, CamInv, Input, main, AiOk
  <1>5. Accel'
    BY <1>1 DEF Quiet, CamInv, Accel, main, Live, Fetched
  <1>6. Sess'
    BY <1>1, <1>2 DEF Quiet, CamInv, Sess, main, CaptureReady, Holding
  <1>7. Slots(cam)'
    BY <1>1 DEF Slots, Ready, Leased
  <1> QED BY <1>4, <1>5, <1>6, <1>7 DEF CamInv

LEMMA CamEngine ==
    ASSUME CamInv, ModelInv, InferenceDone \/ UnloadExpires,
           UNCHANGED <<cam, main, sess, snap, obj, result, cleanup, opens, restarted>>
    PROVE  CamInv'
  <1>1. Slots(cam)' /\ Input' /\ Sess'
    BY DEF CamInv, Slots, Ready, Leased, Input, AiOk, Sess, main, Leases, CaptureReady, Holding
  <1>2. /\ Fetched(kpu') /\ kpu'.owner = kpu.owner /\ (kpu'.engine = 1 => kpu.engine = 1)
        /\ \A r \in Runtimes : \/ kpu'.state[r] = kpu.state[r]
                               \/ kpu.state[r] = "RUNNING" /\ kpu'.state[r] = "READY"
    <2>1. Engine(kpu) /\ Fetched(kpu) /\ kpu \in Kpu
      BY DEF CamInv, Accel, ModelInv, Engine
    <2>2. CASE InferenceDone
      BY <2>1, <2>2, CompletedOk, CompletedFetched DEF InferenceDone
    <2>3. CASE UnloadExpires
      BY <2>1, <2>3 DEF UnloadExpires, Fetched, Kpu
    <2> QED BY <2>2, <2>3
  <1>3. pc \in {"take", "run"} => app \in Detectors
    BY DEF ModelInv, Keeper
  <1>4. \A r \in Detectors : r \in Runtimes
    BY DetectorAssumption
  <1>5. \A r \in Detectors : (Live(r) => Live(r)')
    BY <1>2, <1>4 DEF Live
  <1>6. Accel'
    BY <1>2, <1>3, <1>4, <1>5 DEF CamInv, Accel, main, Fetched, Live
  <1> QED BY <1>1, <1>6 DEF CamInv

(* What the polls of an earlier detector leave of the input.                 *)
Parted(c, d) ==
    /\ d \in Cam /\ SameStream(c, d)
    /\ d.ai = "disabled" \/ (d.ai = c.ai /\ d.aiOwner = c.aiOwner)
    /\ \A r, p \in BOOLEAN : AiOk(c, r, p) => AiOk(d, r, p)

LEMMA ServicedCamOk ==
    ASSUME NEW c \in Cam, NEW k, Engine(k), NEW m, Calm(k, m), Engine(m), NEW d \in Detectors,
           k.owner # NoRuntime => c.aiOwner = k.owner
    PROVE  /\ Parted(c, ServicedCam(c, m, d))
           /\ m.owner # NoRuntime => ServicedCam(c, m, d).aiOwner = m.owner
           /\ ServicedCam(c, m, d).aiOwner \in {c.aiOwner, NoOwner}
  <1>0. d \in Runtimes /\ d \in Owners
    BY DetectorAssumption
  <1>1. CASE m.state[d] # "UNLOADED" \/ c.aiOwner # d
    <2>1. ServicedCam(c, m, d) = c
      BY <1>0, <1>1, AiReleaseOk DEF ServicedCam
    <2>2. Parted(c, c)
      BY DEF Parted, SameStream, SameFrames
    <2> QED BY <2>1, <2>2 DEF Calm
  <1>2. CASE m.state[d] = "UNLOADED" /\ c.aiOwner = d
    <2> DEFINE e == AiRelease(c, d)
    <2>1. /\ e \in Cam /\ SameStream(c, e) /\ e.aiOut = 0 /\ e.aiWhole = 0
          /\ e.ai = "disabled" /\ e.aiOwner = NoOwner
      BY <1>0, <1>2, AiReleaseOk
    <2>2. ServicedCam(c, m, d) = e
      BY <1>2 DEF ServicedCam
    <2> HIDE DEF e
    <2>3. Parted(c, e)
      BY <2>1 DEF Parted, AiOk
    <2>4. m.owner = NoRuntime
      <3>1. m.owner # d
        BY <1>0, <1>2 DEF Engine
      <3>2. m.owner # NoRuntime => m.owner = d
        BY <1>2 DEF Calm
      <3> QED BY <3>1, <3>2
    <2> QED BY <2>1, <2>2, <2>3, <2>4
  <1> QED BY <1>1, <1>2

LEMMA PartedTrans ==
    ASSUME NEW c, NEW d, NEW e, Parted(c, d), Parted(d, e)
    PROVE  Parted(c, e)
  BY DEF Parted, SameStream, SameFrames

LEMMA PartedOk ==
    ASSUME NEW c, NEW d, Slots(c), Parted(c, d)
    PROVE  Slots(d) /\ Leases(d) = Leases(c) /\ d.running = c.running
           /\ d.paused = c.paused /\ d.work = c.work
  <1>1. Slots(d) /\ Leased(d) = Leased(c)
    BY SameStreamOk DEF Parted
  <1>2. Leases(d) = Leases(c)
    BY <1>1 DEF Leases, Parted, SameStream, SameFrames
  <1> QED BY <1>1, <1>2 DEF Parted, SameStream, SameFrames

(* The cleanup poll under the camera. *)
LEMMA PolledCamOk ==
    ASSUME CamInv, ModelInv, pc = "loop"
    PROVE  /\ Engine(PolledKpu) /\ Calm(kpu, PolledKpu) /\ PolledKpu \in Kpu
           /\ Parted(cam, PolledCam)
           /\ PolledKpu.owner # NoRuntime => PolledCam.aiOwner = PolledKpu.owner
           /\ PolledCam.aiOwner \in {cam.aiOwner, NoOwner}
  <1>1. Engine(PolledKpu) /\ Engine(kpu) /\ kpu \in Kpu /\ cam \in Cam
        /\ cleanup \in Detectors \cup {NoRuntime}
    BY PollOk DEF ModelInv, Keeper, Engine, CamInv, Slots
  <1>2. Calm(kpu, PolledKpu) /\ PolledKpu \in Kpu
    BY <1>1, PolledCalm
  <1>3. kpu.owner # NoRuntime => cam.aiOwner = kpu.owner
    BY DEF CamInv, Accel
  <1>4. CASE cleanup = NoRuntime
    <2>1. PolledCam = cam /\ PolledKpu = kpu
      BY <1>4 DEF PolledCam, PolledKpu
    <2>2. Parted(cam, cam)
      BY <1>1 DEF Parted, SameStream, SameFrames
    <2> QED BY <1>1, <1>2, <1>3, <2>1, <2>2
  <1>5. CASE cleanup # NoRuntime
    <2>1. PolledCam = ServicedCam(cam, PolledKpu, cleanup)
      BY <1>5 DEF PolledCam
    <2>2. cleanup \in Detectors
      BY <1>1, <1>5
    <2>3. /\ Parted(cam, ServicedCam(cam, PolledKpu, cleanup))
          /\ PolledKpu.owner # NoRuntime =>
                ServicedCam(cam, PolledKpu, cleanup).aiOwner = PolledKpu.owner
          /\ ServicedCam(cam, PolledKpu, cleanup).aiOwner \in {cam.aiOwner, NoOwner}
      BY <1>1, <1>2, <1>3, <2>2, ServicedCamOk
    <2> QED BY <1>1, <1>2, <2>1, <2>3
  <1> QED BY <1>4, <1>5

LEMMA EnteredOk ==
    ASSUME NEW sensor \in BOOLEAN, sess.initialized = 0, cam.work = 0,
           sess \in [initialized : Flag, ready : Flag, frozen : Flag]
    PROVE  /\ EnteredSession(sensor) \in [initialized : Flag, ready : Flag, frozen : Flag]
           /\ EnteredSession(sensor).initialized = IF sensor THEN 1 ELSE 0
           /\ EnteredSession(sensor).ready = IF sensor THEN 1 ELSE 0
           /\ EnteredSession(sensor).frozen = 0
  <1>1. EnteredSession(sensor) =
          IF sensor THEN [[sess EXCEPT !.frozen = 0] EXCEPT !.initialized = 1, !.ready = 1]
                    ELSE [[sess EXCEPT !.frozen = 0] EXCEPT !.ready = 0]
    BY DEF EnteredSession, StreamStarts
  <1> QED BY <1>1 DEF Flag

(* A detector's start comes upon a camera that is off. *)
LEMMA CamStart ==
    ASSUME CamInv, ModelInv, pc = "loop", UNCHANGED <<pc, held, why, restarted>>,
           NEW d \in Detectors, app' = d, sess.initialized = 0, cam.ai = "disabled", cam.work = 0,
           held.lease = 0, snap = 0, \A r \in Detectors : ~Live(r),
           NEW card \in BOOLEAN, NEW sensor \in BOOLEAN, StartDetector(d, card, sensor)
    PROVE  CamInv'
  <1> DEFINE k == IF d = "object" THEN Serviced(PolledKpu, d) ELSE Tick(PolledKpu, d)
             c == IF d = "object" THEN ServicedCam(PolledCam, k, d) ELSE PolledCam
             gets == k.state[d] = "UNLOADED" /\ AiFree(c, d)
             loads == gets /\ ~LoadRefused(k, d) /\ card
             a == AiAcquire(c, d)
             e == Entered(a, sensor)
  <1>d. d \in Runtimes /\ d \in Owners /\ d # NoOwner /\ d # NoRuntime
    BY DetectorAssumption, StreamAssumption, RuntimeAssumption
  <1>1. /\ Engine(PolledKpu) /\ Calm(kpu, PolledKpu) /\ PolledKpu \in Kpu
        /\ Parted(cam, PolledCam)
        /\ PolledKpu.owner # NoRuntime => PolledCam.aiOwner = PolledKpu.owner
    BY PolledCamOk
  <1>2. PolledKpu.state[d] \notin {"READY", "RUNNING"}
    <2>1. PolledKpu.state[d] \in {kpu.state[d], "UNLOADED"}
      BY <1>d, PollOk
    <2> QED BY <2>1 DEF Live
  <1>3. Engine(k) /\ Calm(PolledKpu, k) /\ k.state[d] \notin {"READY", "RUNNING"}
    <2>1. Calm(PolledKpu, k)
      BY <1>d, <1>1, ServicedCalm, TickCalm
    <2>2. Engine(k) /\ k.state[d] \notin {"READY", "RUNNING"}
      BY <1>d, <1>1, <1>2, ServicedOk, TickOk
    <2> QED BY <2>1, <2>2
  <1>4. /\ cam' = IF loads THEN AiAttach(e, d) ELSE IF gets THEN AiRelease(a, d) ELSE c
        /\ sess' = IF loads THEN EnteredSession(sensor) ELSE sess
        /\ snap' = 0
        /\ kpu' = IF loads THEN Loaded(k, d) ELSE k
        /\ mode' \in {"loading", "live"} /\ (loads => mode' = "live")
    BY DEF StartDetector
  <1> HIDE DEF k
  <1>5. Calm(kpu, k) /\ k \in Kpu /\ Fetched(k)
    <2>1. Calm(kpu, k)
      BY <1>1, <1>3, CalmTrans
    <2>2. kpu \in Kpu /\ Fetched(kpu)
      BY DEF ModelInv, Engine, CamInv, Accel
    <2> QED BY <2>1, <2>2 DEF Calm
  <1>6. Parted(PolledCam, c) /\ (k.owner # NoRuntime => c.aiOwner = k.owner)
    <2>1. PolledCam \in Cam /\ Parted(PolledCam, PolledCam)
      BY <1>1 DEF Parted, SameStream, SameFrames
    <2>2. CASE d = "object"
      BY <1>1, <1>3, <2>1, <2>2, ServicedCamOk
    <2>3. CASE d # "object"
      BY <1>1, <1>3, <2>1, <2>3 DEF Calm
    <2> QED BY <2>2, <2>3
  <1>7. Parted(cam, c)
    BY <1>1, <1>6, PartedTrans
  <1> HIDE DEF c
  <1>8. /\ Slots(c) /\ Leases(c) = {} /\ c.running = 0 /\ c.work = 0 /\ c.ai = "disabled"
        /\ c \in Cam /\ c.aiOut = 0 /\ c.aiWhole = 0
    <2>1. Slots(c) /\ Leases(c) = Leases(cam) /\ c.running = cam.running /\ c.work = cam.work
      BY <1>7, PartedOk DEF CamInv
    <2>2. Leases(cam) = {} /\ cam.running = 0
      BY DEF CamInv, Sess, Only
    <2>3. c.ai = "disabled" /\ c \in Cam
      BY <1>7 DEF Parted
    <2>4. AiOk(c, restarted = 0, pc # "paused")
      BY <1>7 DEF Parted, CamInv, Input
    <2>5. c.aiOut # 1 /\ c.aiWhole # 1
      BY <2>3, <2>4 DEF AiOk
    <2> QED BY <2>1, <2>2, <2>3, <2>5 DEF Cam, Flag
  <1>9. /\ a \in Cam /\ SameStream(c, a) /\ a.aiOwner = d /\ a.ai = "disabled"
        /\ a.aiOut = 0 /\ a.aiWhole = 0
    BY <1>d, <1>8, AiCallsOk, SMTT(30)
  <1> HIDE DEF a
  <1>10. Slots(a) /\ a.running = 0 /\ a.work = 0 /\ Leases(a) = {}
         /\ \A r, p \in BOOLEAN : AiOk(a, r, p)
    <2>1. Slots(a) /\ Leased(a) = Leased(c)
      BY <1>8, <1>9, SameStreamOk
    <2>2. Leases(a) = {}
      BY <1>8, <1>9, <2>1 DEF Leases, SameStream, SameFrames
    <2> QED BY <1>8, <1>9, <2>1, <2>2 DEF SameStream, SameFrames, AiOk
  <1>11. CASE loads
    <2>1. /\ Slots(e) /\ Leases(e) = {} /\ e.work = 0 /\ e.ai = "disabled" /\ e.aiOwner = d
          /\ e.running = IF sensor THEN 1 ELSE 0
          /\ sensor => e.paused = 0
      <3>1. e = IF sensor THEN StreamStart(Reset(a)) ELSE Reset(a)
        BY DEF Entered
      <3>2. CASE sensor
        BY <1>9, <1>10, <3>1, <3>2, RestartOk
      <3>3. CASE ~sensor
        BY <1>9, <1>10, <3>1, <3>3, ResetOk DEF KeepsInput
      <3> QED BY <3>2, <3>3
    <2>2. /\ sess' \in [initialized : Flag, ready : Flag, frozen : Flag]
          /\ sess'.initialized = IF sensor THEN 1 ELSE 0
          /\ sess'.ready = IF sensor THEN 1 ELSE 0
      BY <1>4, <1>11, EnteredOk DEF CamInv, Sess
    <2> HIDE DEF e
    <2>3. cam' \in Cam /\ SameStream(e, cam') /\ Idle(e, cam', "armed")
      BY <1>d, <1>4, <1>11, <2>1, AiCallsOk DEF Slots
    <2>4. /\ Slots(cam') /\ Leases(cam') = {} /\ cam'.work = 0 /\ cam'.ai = "armed"
          /\ cam'.aiOwner = d /\ cam'.running = e.running /\ cam'.paused = e.paused
          /\ cam'.aiOut = 0 /\ \A r, p \in BOOLEAN : AiOk(cam', r, p)
      <3>1. Slots(cam') /\ Leased(cam') = Leased(e)
        BY <2>1, <2>3, SameStreamOk
      <3>2. Leases(cam') = {}
        BY <2>1, <2>3, <3>1 DEF Leases, SameStream, SameFrames
      <3>3. \A r, p \in BOOLEAN : AiOk(cam', r, p)
        BY <2>3, IdleOk
      <3> QED BY <2>1, <2>3, <3>1, <3>2, <3>3 DEF SameStream, SameFrames, Idle
    <2>5. /\ Engine(kpu') /\ kpu'.state[d] = "READY" /\ kpu'.owner = d /\ kpu'.engine = 0
          /\ Fetched(kpu')
      <3>1. ~LoadRefused(k, d)
        BY <1>11
      <3>2. /\ Engine(Loaded(k, d)) /\ Loaded(k, d).state[d] = "READY" /\ Loaded(k, d).owner = d
        BY <1>d, <1>3, <3>1, LoadedOk
      <3>3. k.engine = 0 /\ \A r \in Runtimes : k.pending[r] # 1
        BY <1>3, <1>5, <3>1, RuntimeAssumption DEF LoadRefused, Engine, Fetched, Kpu
      <3>4. Loaded(k, d).engine = k.engine /\ Loaded(k, d).pending = k.pending
        BY <1>5 DEF Loaded, Kpu
      <3> QED BY <1>4, <1>11, <3>2, <3>3, <3>4 DEF Fetched
    <2>6. mode' = "live"
      BY <1>4, <1>11
    <2>7. Input'
      BY <2>4, <2>6 DEF Input
    <2>8. Accel'
      BY <2>4, <2>5 DEF Accel, Live, Fetched
    <2>9. Sess'
      <3>1. held'.lease = 0 /\ snap' = 0 /\ pc' = "loop" /\ app' \in CameraApps
        BY <1>4 DEF CameraApps
      <3>2. sess'.initialized = cam'.running /\ (CaptureReady' => cam'.paused = 0)
            /\ sess' \in [initialized : Flag, ready : Flag, frozen : Flag]
            /\ (sess'.ready = 1 => sess'.initialized = 1)
        BY <2>1, <2>2, <2>4 DEF CaptureReady
      <3> QED BY <2>4, <2>6, <3>1, <3>2 DEF Sess, Only, Holding
    <2> QED BY <2>4, <2>7, <2>8, <2>9 DEF CamInv, Slots, Ready, Leased
  <1>12. CASE ~loads
    <2>1. /\ Slots(cam') /\ Leases(cam') = {} /\ cam'.running = 0 /\ cam'.work = 0
          /\ cam'.ai = "disabled" /\ cam'.aiOut = 0 /\ cam'.aiWhole = 0
          /\ k.owner # NoRuntime => cam'.aiOwner = k.owner
      <3>1. CASE ~gets
        BY <1>4, <1>6, <1>8, <1>12, <3>1
      <3>2. CASE gets
        <4> DEFINE f == AiRelease(a, d)
        <4>1. /\ f \in Cam /\ SameStream(a, f) /\ f.aiOut = 0 /\ f.aiWhole = 0
              /\ f.ai = "disabled"
          BY <1>d, <1>9, AiReleaseOk
        <4>2. cam' = f
          BY <1>4, <1>12, <3>2
        <4> HIDE DEF f
        <4>3. Slots(f) /\ Leased(f) = Leased(a)
          BY <1>10, <4>1, SameStreamOk
        <4>4. Leases(f) = {}
          BY <1>10, <4>1, <4>3 DEF Leases, SameStream, SameFrames
        <4>5. k.owner = NoRuntime
          <5>1. k.owner # d
            BY <1>d, <1>3, <3>2 DEF Engine
          <5>2. k.owner \in Detectors \cup {NoRuntime}
            BY <1>5 DEF Calm, ModelInv, Keeper
          <5>3. k.owner # NoRuntime => k.owner # NoOwner
            BY <5>2, DetectorAssumption, StreamAssumption
          <5> QED BY <1>6, <3>2, <5>1, <5>3 DEF AiFree
        <4> QED BY <1>10, <4>1, <4>2, <4>3, <4>4, <4>5 DEF SameStream, SameFrames
      <3> QED BY <3>1, <3>2
    <2>2. UNCHANGED sess /\ snap' = 0 /\ kpu' = k
      BY <1>4, <1>12
    <2>3. \A r, p \in BOOLEAN : AiOk(cam', r, p)
      BY <2>1 DEF AiOk
    <2>4. Input'
      BY <2>1, <2>3 DEF Input
    <2>5. Accel'
      BY <1>5, <2>1, <2>2 DEF Accel, Fetched
    <2>6. Sess'
      <3>1. held'.lease = 0 /\ snap' = 0 /\ pc' = "loop" /\ app' \in Detectors
            /\ sess'.initialized = 0 /\ sess'.ready # 1
            /\ sess' \in [initialized : Flag, ready : Flag, frozen : Flag]
        BY <1>4, <2>2 DEF CamInv, Sess
      <3> QED BY <1>4, <2>1, <3>1 DEF Sess, Only, Holding, CaptureReady
    <2> QED BY <2>1, <2>4, <2>5, <2>6 DEF CamInv, Slots, Ready, Leased
  <1> QED BY <1>11, <1>12

(* While no camera application is open the camera is off.                    *)
LEMMA CamOff ==
    ASSUME CamInv, pc = "loop", sess.initialized = 0, mode # "result"
    PROVE  cam.running = 0 /\ held.lease = 0 /\ snap = 0 /\ Leases(cam) = {} /\ sess.ready # 1
  BY DEF CamInv, Sess, Holding, Only

LEMMA CamOpenDetector ==
    ASSUME CamInv, ModelInv, NEW d \in Detectors, NEW card \in BOOLEAN, NEW sensor \in BOOLEAN,
           OpenDetector(d, card, sensor)
    PROVE  CamInv'
  <1>1. /\ pc = "loop" /\ app = "none" /\ app' = d /\ UNCHANGED <<pc, held, why, restarted>>
        /\ StartDetector(d, card, sensor)
    BY DEF OpenDetector
  <1>2. /\ sess.initialized = 0 /\ cam.ai = "disabled" /\ cam.work = 0 /\ mode # "result"
        /\ \A r \in Detectors : ~Live(r)
    BY <1>1 DEF CamInv, Sess, Input, Slots, Cam, Flag, CameraApps, Detectors, ModelInv, Keeper
  <1>3. held.lease = 0 /\ snap = 0
    BY <1>1, <1>2, CamOff
  <1> QED BY <1>1, <1>2, <1>3, CamStart

LEMMA CamRetryDetector ==
    ASSUME CamInv, ModelInv, NEW card \in BOOLEAN, NEW sensor \in BOOLEAN,
           RetryDetector(card, sensor)
    PROVE  CamInv'
  <1>1. /\ pc = "loop" /\ app \in Detectors /\ mode = "loading" /\ app' = app
        /\ UNCHANGED <<pc, held, why, restarted>> /\ StartDetector(app, card, sensor)
    BY DEF RetryDetector
  <1>2. sess.initialized = 0 /\ cam.ai = "disabled"
    BY <1>1 DEF CamInv, Sess, Input, Flag
  <1>3. cam.work = 0 /\ \A r \in Detectors : ~Live(r)
    BY <1>1 DEF CamInv, Sess, Slots, Cam, Flag, Detectors, ModelInv, Keeper
  <1>4. held.lease = 0 /\ snap = 0
    BY <1>1, <1>2, CamOff
  <1> QED BY <1>1, <1>2, <1>3, <1>4, CamStart

LEMMA CamOpenCamera ==
    ASSUME CamInv, ModelInv, NEW a \in {"photo", "qr"}, NEW sensor \in BOOLEAN,
           OpenCamera(a, sensor)
    PROVE  CamInv'
  <1>1. /\ pc = "loop" /\ app = "none" /\ app' = a /\ mode' = "live"
        /\ UNCHANGED <<kpu, pc, held, why, restarted>>
        /\ cam' = Entered(cam, sensor) /\ sess' = EnteredSession(sensor) /\ snap' = 0
    BY DEF OpenCamera
  <1>2. /\ sess.initialized = 0 /\ cam.ai = "disabled" /\ cam.work = 0 /\ mode # "result"
        /\ Slots(cam) /\ sess \in [initialized : Flag, ready : Flag, frozen : Flag]
    BY <1>1 DEF CamInv, Sess, Input, Slots, Cam, Flag, CameraApps, Detectors
  <1>3. held.lease = 0
    BY <1>1, <1>2, CamOff
  <1>4. /\ Slots(cam') /\ Leases(cam') = {} /\ cam'.work = 0 /\ cam'.ai = "disabled"
        /\ cam'.aiOwner = cam.aiOwner /\ cam'.running = IF sensor THEN 1 ELSE 0
        /\ (sensor => cam'.paused = 0) /\ (cam'.aiOut = 1 => cam.aiOut = 1)
        /\ AiOk(cam', restarted = 0, pc # "paused")
    <2>1. AiOk(cam, restarted = 0, pc # "paused")
      BY DEF CamInv, Input
    <2>2. CASE sensor
      <3>1. cam' = StreamStart(Reset(cam))
        BY <1>1, <1>2, <2>2 DEF Entered
      <3> QED BY <1>2, <2>1, <2>2, <3>1, RestartOk
    <2>3. CASE ~sensor
      <3>1. cam' = Reset(cam)
        BY <1>1, <2>3 DEF Entered
      <3> QED BY <1>2, <2>1, <2>3, <3>1, ResetOk DEF KeepsInput
    <2> QED BY <2>2, <2>3
  <1>5. /\ sess' \in [initialized : Flag, ready : Flag, frozen : Flag]
        /\ sess'.initialized = IF sensor THEN 1 ELSE 0
        /\ sess'.ready = IF sensor THEN 1 ELSE 0
    BY <1>1, <1>2, EnteredOk
  <1>6. Input'
    BY <1>1, <1>4 DEF Input
  <1>7. Accel'
    BY <1>1, <1>4 DEF CamInv, Accel, Fetched, Detectors
  <1>8. Sess'
    <2>1. app' \in CameraApps /\ app' \notin Detectors
      BY <1>1 DEF CameraApps, Detectors
    <2> QED BY <1>1, <1>3, <1>4, <1>5, <2>1 DEF Sess, Only, Holding, CaptureReady
  <1> QED BY <1>4, <1>6, <1>7, <1>8 DEF CamInv, Slots, Ready, Leased

LEMMA CamAnimation ==
    ASSUME CamInv, ModelInv, OpenAnimation
    PROVE  CamInv'
  <1>1. /\ pc = "loop" /\ app = "none" /\ app' = "files" /\ mode' = "live"
        /\ UNCHANGED <<kpu, pc, held, why, restarted, sess, snap>>
        /\ cam' = Borrow(cam)
    BY DEF OpenAnimation
  <1>2. /\ sess.initialized = 0 /\ cam.ai = "disabled" /\ mode # "result" /\ Slots(cam)
    BY <1>1 DEF CamInv, Sess, Input, Flag, CameraApps, Detectors
  <1>3. held.lease = 0 /\ snap = 0 /\ Leases(cam) = {} /\ cam.running = 0 /\ sess.ready # 1
    BY <1>1, <1>2, CamOff
  <1>4. /\ Slots(cam') /\ SameAi(cam, cam') /\ Leases(cam') = {} /\ cam'.running = 0
    BY <1>1, <1>2, <1>3, BorrowOk, LeasesKept
  <1>5. AiOk(cam', restarted = 0, pc # "paused")
    BY <1>1, <1>2, BorrowOk, SameAiOk DEF CamInv, Input
  <1>6. Input'
    BY <1>1, <1>2, <1>4, <1>5 DEF Input, SameAi
  <1>7. Accel'
    BY <1>1, <1>2, <1>4 DEF CamInv, Accel, Fetched, Detectors, SameAi
  <1>8. Sess'
    BY <1>1, <1>2, <1>3, <1>4 DEF CamInv, Sess, Only, Holding, CaptureReady
  <1> QED BY <1>4, <1>6, <1>7, <1>8 DEF CamInv, Slots, Ready, Leased

(* camera_stop ends the session, and every lease with it.                    *)
LEMMA SessionStopped ==
    ASSUME CamInv, held.lease = 0
    PROVE  /\ Slots(CamStopped(cam)) /\ CamStopped(cam).running = 0
           /\ Leases(CamStopped(cam)) = {} /\ CamStopped(cam).work = cam.work
           /\ CamStopped(cam).ai = cam.ai /\ CamStopped(cam).aiOwner = cam.aiOwner
           /\ \A r, p \in BOOLEAN :
                 AiOk(cam, r, p) /\ cam.ai # "capturing" => AiOk(CamStopped(cam), r, p)
           /\ SessStopped \in [initialized : Flag, ready : Flag, frozen : Flag]
           /\ SessStopped.initialized = 0 /\ SessStopped.ready # 1
           /\ SnapStopped = 0
  <1>1. /\ sess \in [initialized : Flag, ready : Flag, frozen : Flag]
        /\ sess.initialized = cam.running /\ (sess.ready = 1 => sess.initialized = 1)
        /\ Slots(cam) /\ Leases(cam) = Only(snap)
    BY DEF CamInv, Sess
  <1>2. sess.initialized = 1 \/ cam.running = 0
    BY <1>1 DEF Flag
  <1>3. /\ SessStopped \in [initialized : Flag, ready : Flag, frozen : Flag]
        /\ SessStopped.initialized = 0 /\ SessStopped.ready # 1
    BY <1>1 DEF SessStopped, Stopped, Flag
  <1>4. SnapStopped = 0
    <2>1. sess.initialized # 1 => Leases(cam) = {}
      BY <1>1, <1>2, LeasesKept
    <2> QED BY <1>1, <2>1 DEF SnapStopped, Only
  <1> QED BY <1>1, <1>2, <1>3, <1>4, CamStoppedOk

LEMMA CamCloseApp ==
    ASSUME CamInv, ModelInv, CloseApp
    PROVE  CamInv'
  <1>1. /\ pc = "loop" /\ app \notin Detectors /\ app' = "none" /\ mode' = "live"
        /\ UNCHANGED <<kpu, pc, held, why, restarted>>
    BY DEF CloseApp
  <1>2. /\ cam.ai = "disabled" /\ Slots(cam) /\ held.lease = 0
        /\ sess \in [initialized : Flag, ready : Flag, frozen : Flag]
        /\ sess.initialized = cam.running /\ (sess.ready = 1 => sess.initialized = 1)
        /\ AiOk(cam, restarted = 0, pc # "paused")
    BY <1>1 DEF CamInv, Sess, Input, Holding
  <1>3. /\ Slots(cam') /\ cam'.ai = "disabled" /\ cam'.aiOwner = cam.aiOwner /\ Leases(cam') = {}
        /\ cam'.running = 0 /\ cam'.work # 1 /\ AiOk(cam', restarted = 0, pc # "paused")
        /\ sess' \in [initialized : Flag, ready : Flag, frozen : Flag]
        /\ sess'.initialized = 0 /\ sess'.ready # 1 /\ snap' = 0
    <2>1. CASE app = "files"
      <3>1. cam' = GiveBack(cam) /\ UNCHANGED <<sess, snap>>
        BY <2>1 DEF CloseApp
      <3>2. sess.initialized = 0 /\ mode # "result"
        BY <2>1 DEF CamInv, Sess, Flag, CameraApps, Detectors
      <3>3. /\ cam.running = 0 /\ snap = 0 /\ Leases(cam) = {} /\ sess.ready # 1
        BY <1>1, <3>2, CamOff
      <3>4. /\ Slots(cam') /\ SameAi(cam, cam') /\ Leases(cam') = {} /\ cam'.work = 0
            /\ cam'.running = cam.running
            /\ cam'.conv = cam.conv /\ cam'.finish = cam.finish /\ cam'.images = cam.images
        BY <1>2, <3>1, <3>3, BorrowOk, LeasesKept
      <3>5. AiOk(cam', restarted = 0, pc # "paused")
        BY <1>2, <3>4, SameAiOk
      <3> QED BY <1>2, <3>1, <3>2, <3>3, <3>4, <3>5 DEF SameAi
    <2>2. CASE app # "files"
      <3>1. cam' = CamStopped(cam) /\ sess' = SessStopped /\ snap' = SnapStopped
        BY <2>2 DEF CloseApp
      <3>2. cam.work # 1
        BY <2>2 DEF CamInv, Sess
      <3> QED BY <1>2, <3>1, <3>2, SessionStopped
    <2> QED BY <2>1, <2>2
  <1>4. Input'
    BY <1>1, <1>3 DEF Input
  <1>5. Accel'
    BY <1>1, <1>3 DEF CamInv, Accel, Fetched
  <1>6. Sess'
    BY <1>1, <1>2, <1>3 DEF Sess, Only, Holding, CaptureReady
  <1> QED BY <1>3, <1>4, <1>5, <1>6 DEF CamInv, Slots, Ready, Leased

LEMMA CamPreviewAcquire ==
    ASSUME CamInv, ModelInv, PreviewAcquire
    PROVE  CamInv'
  <1> DEFINE c == Acquire(cam)
             n == c.slot[Newest(cam)].seq
             l == cam.lease + 1
  <1>1. /\ pc = "loop" /\ app \in CameraApps /\ mode = "live" /\ CaptureReady /\ CanAcquire(cam)
        /\ cam' = AiPreparePreview(c, n) /\ held'.lease = c.lease
        /\ pc' = IF app = "object" THEN "process" ELSE "release"
        /\ UNCHANGED <<kpu, app, mode, failed, why, sess, snap, restarted>>
    BY DEF PreviewAcquire
  <1>2. /\ Slots(cam) /\ held.lease = 0 /\ snap = 0 /\ Leases(cam) = {}
        /\ sess.initialized = 1 /\ cam.paused = 0
        /\ AiOk(cam, restarted = 0, pc # "paused")
    BY <1>1 DEF CamInv, Sess, Input, Holding, Only, CaptureReady
  <1>3. /\ Slots(c) /\ SameAi(cam, c) /\ c.running = cam.running /\ c.paused = cam.paused
        /\ c.work = cam.work /\ c.lease = l /\ Leases(c) = {l} /\ l # 0
        /\ AiOk(c, restarted = 0, pc # "paused") /\ n \in Nat
    <2>1. /\ Slots(c) /\ SameAi(cam, c) /\ c.running = cam.running /\ c.paused = cam.paused
          /\ c.work = cam.work /\ c.lease = l /\ Newest(cam) \in Ready(cam)
          /\ c.conv = cam.conv /\ c.finish = cam.finish /\ c.images = cam.images
      BY <1>1, <1>2, AcquireOk
    <2>2. Leases(c) = Leases(cam) \cup {l} /\ cam.lease \in Nat
      BY <1>1, <1>2, AcquireLeases
    <2>3. n \in Nat
      <3>1. Newest(cam) \in SlotIds /\ c.slot \in [SlotIds -> Slot]
        BY <2>1 DEF Slots, Cam, Ready
      <3> HIDE DEF c
      <3>2. c.slot[Newest(cam)] \in Slot
        BY <3>1
      <3> QED BY <3>2 DEF Slot
    <2> HIDE DEF c, n
    <2>4. AiOk(c, restarted = 0, pc # "paused")
      BY <1>2, <2>1, SameAiOk
    <2>5. Leases(c) = {l} /\ l # 0
      BY <1>2, <2>2
    <2> QED BY <2>1, <2>3, <2>4, <2>5
  <1> HIDE DEF c, n
  <1>4. /\ cam' \in Cam /\ SameStream(c, cam') /\ cam'.aiOwner = c.aiOwner
        /\ \/ cam' = c
           \/ /\ c.ai = "armed" /\ cam'.ai = "ready" /\ cam'.aiOut = c.aiOut
              /\ cam'.aiWhole = c.aiWhole /\ cam'.aiPix = cam'.aiSeq
    BY <1>1, <1>3, AiPrepareOk DEF Slots
  <1>5. Slots(cam') /\ Leases(cam') = {l}
    <2>1. Slots(cam') /\ Leased(cam') = Leased(c)
      BY <1>3, <1>4, SameStreamOk
    <2> QED BY <1>3, <1>4, <2>1 DEF Leases, SameStream, SameFrames
  <1>6. AiOk(cam', restarted = 0, pc # "paused")
    BY <1>3, <1>4 DEF AiOk
  <1>7. /\ cam'.running = cam.running /\ cam'.paused = cam.paused /\ cam'.work = cam.work
        /\ cam'.aiOwner = cam.aiOwner
        /\ cam'.ai = cam.ai \/ (cam.ai = "armed" /\ cam'.ai = "ready")
    BY <1>3, <1>4 DEF SameAi, SameStream, SameFrames
  <1>8. Input'
    BY <1>1, <1>6, <1>7 DEF CamInv, Input
  <1>9. Accel'
    BY <1>1, <1>2, <1>7 DEF CamInv, Accel, Live, Fetched
  <1>10. Sess'
    BY <1>1, <1>2, <1>3, <1>5, <1>7 DEF CamInv, Sess, Only, Holding, CaptureReady
  <1> QED BY <1>5, <1>8, <1>9, <1>10 DEF CamInv, Slots, Ready, Leased

LEMMA CamPreviewRelease ==
    ASSUME CamInv, ModelInv, NEW presented \in BOOLEAN, PreviewRelease(presented)
    PROVE  CamInv'
  <1>1. /\ pc = "release" /\ cam' = Release(cam, held.lease) /\ held'.lease = 0
        /\ pc' \in {"loop", "after", "process"} /\ (pc' = "process" => app = "face")
        /\ UNCHANGED <<kpu, app, mode, failed, why, sess, snap, restarted>>
    BY DEF PreviewRelease, NoFrame
  <1>2. /\ Slots(cam) /\ snap = 0 /\ Leases(cam) = Only(held.lease)
        /\ AiOk(cam, restarted = 0, pc # "paused")
    BY <1>1 DEF CamInv, Sess, Input, Holding
  <1>3. /\ Slots(cam') /\ Given(cam, cam') /\ SameAi(cam, cam') /\ cam'.paused = cam.paused
        /\ Leases(cam') = {}
    BY <1>1, <1>2, ReleaseOk, ReleaseLeases
  <1>4. AiOk(cam', restarted = 0, pc # "paused")
    BY <1>2, <1>3, SameAiOk DEF Given
  <1>5. Input'
    BY <1>1, <1>3, <1>4, InputFrame DEF CamInv, SameAi
  <1>6. Accel'
    BY <1>1, <1>3, AccelFrame DEF CamInv, SameAi, Sess
  <1>7. Sess'
    BY <1>1, <1>2, <1>3 DEF CamInv, Sess, Only, Holding, CaptureReady, Given
  <1> QED BY <1>3, <1>5, <1>6, <1>7 DEF CamInv, Slots, Ready, Leased

LEMMA CamAfterFrame ==
    ASSUME CamInv, ModelInv, AfterFrame
    PROVE  CamInv'
  <1>1. /\ pc = "after" /\ pc' = "loop"
        /\ UNCHANGED <<cam, kpu, app, mode, held, why, sess, snap, restarted>>
    BY DEF AfterFrame
  <1>2. Input'
    BY <1>1 DEF CamInv, Input
  <1>3. Accel'
    BY <1>1 DEF CamInv, Accel, Live, Fetched
  <1>4. Sess'
    BY <1>1 DEF CamInv, Sess, Holding, CaptureReady, Leases, Leased
  <1> QED BY <1>1, <1>2, <1>3, <1>4 DEF CamInv, Slots, Ready, Leased

LEMMA CamProcess ==
    ASSUME CamInv, ModelInv, Process
    PROVE  CamInv'
  <1> DEFINE e == AiCancel(cam, app)
             f == AiArm(e, app)
  <1>1. /\ pc = "process" /\ app \in Detectors /\ app \in Owners /\ app \in Runtimes
        /\ UNCHANGED <<app, mode, failed, held, why, sess, snap, restarted>>
        /\ cam \in Cam /\ Slots(cam)
    BY DetectorAssumption DEF Process, ModelInv, Keeper, CamInv, Slots
  <1>2. CASE DetectorReady(app) /\ kpu.pending[app] = 1
    <2>1. /\ pc' = After /\ kpu' = [kpu EXCEPT !.pending[app] = 0] /\ cam' \in {e, f}
      BY <1>2 DEF Process
    <2>2. Live(app) /\ mode # "loading" /\ kpu.owner = app /\ kpu.engine = 0
      BY <1>1, <1>2 DEF DetectorReady, IsLoaded, Live, ModelInv, Keeper, CamInv, Accel, Fetched
    <2>3. cam.aiOwner = app
      BY <1>1, <2>2, RuntimeAssumption DEF CamInv, Accel
    <2>4. e \in Cam /\ SameStream(cam, e) /\ Idle(cam, e, "disabled")
      BY <1>1, <2>3, AiCallsOk
    <2> HIDE DEF e
    <2>14. e.aiOwner = app
      BY <2>3, <2>4 DEF Idle
    <2>5. f \in Cam /\ SameStream(e, f) /\ Idle(e, f, "armed")
      BY <1>1, <2>4, <2>14, AiCallsOk
    <2> HIDE DEF f
    <2>6. /\ cam' \in Cam /\ SameStream(cam, cam') /\ cam'.aiOwner = app /\ cam'.aiOut = 0
          /\ cam'.aiWhole = 0 /\ cam'.ai \in {"disabled", "armed"}
      BY <2>1, <2>3, <2>4, <2>5 DEF SameStream, SameFrames, Idle
    <2>7. Slots(cam') /\ Leased(cam') = Leased(cam)
      BY <1>1, <2>6, SameStreamOk
    <2>8. Leases(cam') = Leases(cam)
      BY <2>6, <2>7 DEF Leases, SameStream, SameFrames
    <2>9. AiOk(cam', restarted = 0, pc' # "paused")
      BY <2>6 DEF AiOk
    <2>10. pc' \in {"release", "after"} /\ (pc' = "release" <=> app = "object")
      BY <2>1 DEF After
    <2>11. Input'
      BY <1>1, <2>2, <2>6, <2>9, <2>10 DEF Input
    <2>12. Accel'
      <3>1. /\ kpu'.owner = kpu.owner /\ kpu'.engine = 0 /\ kpu'.state = kpu.state
            /\ \A r \in Runtimes : kpu'.pending[r] = 1 => kpu.pending[r] = 1
        BY <1>1, <2>1, <2>2 DEF ModelInv, Engine, Kpu
      <3> QED BY <1>1, <2>2, <2>6, <2>10, <3>1 DEF CamInv, Accel, Live, Fetched
    <2>13. Sess'
      BY <1>1, <2>6, <2>8, <2>10
      DEF CamInv, Sess, Holding, CaptureReady, SameStream, SameFrames, Detectors
    <2> QED BY <2>7, <2>11, <2>12, <2>13 DEF CamInv, Slots, Ready, Leased
  <1>3. CASE ~(DetectorReady(app) /\ kpu.pending[app] = 1)
    <2>1. UNCHANGED <<kpu, cam>> /\ pc' = IF DetectorReady(app) THEN "take" ELSE After
      BY <1>3 DEF Process
    <2>2. pc' \in {"take", "release", "after"} /\ (pc' = "take" => Live(app))
          /\ (pc' = "release" => app = "object") /\ (pc' = "after" => app = "face")
      BY <1>1, <2>1 DEF After, DetectorReady, IsLoaded, Live, Detectors
    <2>3. Input'
      BY <1>1, <2>1, <2>2 DEF CamInv, Input
    <2>4. Accel'
      BY <1>1, <2>1, <2>2 DEF CamInv, Accel, Live, Fetched
    <2>5. Sess'
      BY <1>1, <2>1, <2>2 DEF CamInv, Sess, Holding, CaptureReady, Leases, Leased
    <2> QED BY <1>1, <2>1, <2>3, <2>4, <2>5 DEF CamInv, Slots, Ready, Leased
  <1> QED BY <1>2, <1>3

LEMMA CamTake ==
    ASSUME CamInv, ModelInv, Take
    PROVE  CamInv'
  <1>1. /\ pc = "take" /\ app \in Detectors /\ app \in Runtimes
        /\ UNCHANGED <<kpu, app, mode, failed, held, why, sess, snap, restarted>>
        /\ cam \in Cam /\ Slots(cam)
    BY DetectorAssumption DEF Take, ModelInv, Keeper, CamInv, Slots
  <1>2. CASE ~IsBusy(kpu, app) /\ AiCanTake(cam, app)
    <2>1. cam' = AiTake(cam) /\ pc' = "run" /\ cam.ai = "ready" /\ cam.aiOwner = app
      BY <1>2 DEF Take, AiCanTake
    <2>2. /\ cam' \in Cam /\ SameStream(cam, cam') /\ cam'.ai = "busy"
          /\ cam'.aiOwner = cam.aiOwner /\ cam'.aiOut = cam.aiOut /\ cam'.aiWhole = cam.aiWhole
          /\ cam'.aiPix = cam.aiPix /\ cam'.aiSeq = cam.aiSeq
      BY <1>1, <2>1, AiTakeOk
    <2>3. Slots(cam') /\ Leased(cam') = Leased(cam)
      BY <1>1, <2>2, SameStreamOk
    <2>4. Leases(cam') = Leases(cam)
      BY <2>2, <2>3 DEF Leases, SameStream, SameFrames
    <2>5. AiOk(cam', restarted = 0, TRUE)
      BY <1>1, <2>1, <2>2 DEF AiOk, CamInv, Input
    <2>6. Input'
      BY <1>1, <2>1, <2>2, <2>5 DEF CamInv, Input
    <2>7. kpu.state[app] = "READY"
      BY <1>1, <1>2 DEF CamInv, Accel, Live, IsBusy
    <2>8. Accel'
      BY <1>1, <2>1, <2>2, <2>7 DEF CamInv, Accel, Live, Fetched
    <2>9. Sess'
      BY <1>1, <2>1, <2>2, <2>4
      DEF CamInv, Sess, Holding, CaptureReady, SameStream, SameFrames, Detectors
    <2> QED BY <2>3, <2>6, <2>8, <2>9 DEF CamInv, Slots, Ready, Leased
  <1>3. CASE ~(~IsBusy(kpu, app) /\ AiCanTake(cam, app))
    <2>1. cam' = cam /\ pc' = After
      BY <1>3 DEF Take
    <2>2. pc' \in {"release", "after"}
          /\ (pc' = "release" => app = "object") /\ (pc' = "after" => app = "face")
      BY <1>1, <2>1 DEF After, Detectors
    <2>3. Input'
      BY <1>1, <2>1, <2>2 DEF CamInv, Input
    <2>4. Accel'
      BY <1>1, <2>1, <2>2 DEF CamInv, Accel, Live, Fetched
    <2>5. Sess'
      BY <1>1, <2>1, <2>2 DEF CamInv, Sess, Holding, CaptureReady, Leases, Leased
    <2> QED BY <1>1, <2>1, <2>3, <2>4, <2>5 DEF CamInv, Slots, Ready, Leased
  <1> QED BY <1>2, <1>3

LEMMA CamRun ==
    ASSUME CamInv, ModelInv, NEW starts \in BOOLEAN, Run(starts)
    PROVE  CamInv'
  <1> DEFINE f == AiArm(cam, app)
  <1>1. /\ pc = "run" /\ pc' = After /\ app \in Detectors /\ app \in Owners /\ app \in Runtimes
        /\ UNCHANGED <<app, mode, failed, held, why, sess, snap, restarted>>
        /\ cam \in Cam /\ Slots(cam)
    BY DetectorAssumption DEF Run, ModelInv, Keeper, CamInv, Slots
  <1>2. /\ kpu.state[app] = "READY" /\ cam.ai = "busy" /\ cam.aiOwner = app
        /\ mode # "loading" /\ Fetched(kpu) /\ kpu.owner = app /\ kpu.busy = 0 /\ kpu.engine = 0
    <2>1. kpu.state[app] = "READY" /\ cam.ai = "busy" /\ Fetched(kpu) /\ Engine(kpu)
      BY <1>1 DEF CamInv, Accel, ModelInv
    <2>2. cam.aiOwner = app /\ mode # "loading"
      BY <2>1 DEF CamInv, Input
    <2>3. kpu.owner = app /\ kpu.busy # 1 /\ kpu.busy = kpu.engine /\ kpu.busy \in {0, 1}
      BY <1>1, <2>1 DEF Engine, Kpu
    <2> QED BY <2>1, <2>2, <2>3
  <1>3. ~RunRefused(kpu, app)
    BY <1>2 DEF RunRefused
  <1>4. pc' \in {"release", "after"}
        /\ (pc' = "release" => app = "object") /\ (pc' = "after" => app = "face")
    BY <1>1 DEF After, Detectors
  <1>5. CASE starts
    <2>1. kpu' = RunStarted(kpu, app) /\ cam' = cam
      BY <1>3, <1>5 DEF Run
    <2>2. Input'
      BY <1>1, <1>4, <2>1 DEF CamInv, Input
    <2>3. /\ kpu'.owner = kpu.owner /\ kpu'.state[app] = "RUNNING"
          /\ \A r \in Runtimes : kpu'.pending[r] # 1
      <3>1. /\ kpu'.owner = kpu.owner /\ kpu'.state[app] = "RUNNING"
            /\ kpu'.pending = [kpu.pending EXCEPT ![app] = 0]
            /\ kpu.pending \in [Runtimes -> {0, 1}]
        BY <1>1, <2>1 DEF RunStarted, ModelInv, Engine, Kpu
      <3>2. \A r \in Runtimes : r # app => kpu.pending[r] # 1
        BY <1>2 DEF Fetched
      <3> QED BY <1>1, <3>1, <3>2
    <2>4. Accel'
      BY <1>1, <1>2, <1>4, <2>1, <2>3 DEF CamInv, Accel, Live, Fetched
    <2>5. Sess'
      BY <1>1, <1>4, <2>1 DEF CamInv, Sess, Holding, CaptureReady, Leases, Leased
    <2> QED BY <1>1, <2>1, <2>2, <2>4, <2>5 DEF CamInv, Slots, Ready, Leased
  <1>6. CASE ~starts
    <2>1. kpu' = RunFailed(kpu, app) /\ (cam' = cam \/ cam' = f)
      BY <1>3, <1>6 DEF Run
    <2>2. f \in Cam /\ SameStream(cam, f) /\ Idle(cam, f, "armed")
      BY <1>1, <1>2, AiCallsOk
    <2> HIDE DEF f
    <2>3. Slots(cam') /\ SameStream(cam, cam') /\ Leased(cam') = Leased(cam)
      BY <1>1, <2>1, <2>2, SameStreamOk DEF SameStream, SameFrames
    <2>4. Leases(cam') = Leases(cam)
      BY <2>3 DEF Leases, SameStream, SameFrames
    <2>5. AiOk(cam', restarted = 0, pc # "paused") /\ cam'.aiOwner = app
      BY <1>2, <2>1, <2>2, IdleOk DEF CamInv, Input, Idle
    <2>6. Input'
      BY <1>1, <1>2, <1>4, <2>5 DEF Input
    <2>7. /\ kpu'.owner = kpu.owner /\ kpu'.engine = 0 /\ kpu'.state = kpu.state
          /\ \A r \in Runtimes : kpu'.pending[r] = 1 => kpu.pending[r] = 1
      BY <1>1, <1>2, <2>1 DEF RunFailed, ModelInv, Engine, Kpu
    <2>8. Accel'
      BY <1>1, <1>2, <1>4, <2>5, <2>7 DEF CamInv, Accel, Live, Fetched
    <2>9. Sess'
      BY <1>1, <1>4, <2>3, <2>4
      DEF CamInv, Sess, Holding, CaptureReady, SameStream, SameFrames
    <2> QED BY <2>3, <2>6, <2>8, <2>9 DEF CamInv, Slots, Ready, Leased
  <1> QED BY <1>5, <1>6

(* The detector's unload, after camera_stop.                                 *)
LEMMA CamUnload ==
    ASSUME CamInv, ModelInv, pc \in {"loop", "after"}, app \in Detectors, app' = app,
           UnloadDetector(app), mode' \in {"closed", mode}, UNCHANGED <<held, why, restarted>>
    PROVE  CamInv'
  <1> DEFINE c == CamStopped(cam)
  <1>1. /\ cam' = AiCancel(c, app) /\ sess' = SessStopped /\ snap' = SnapStopped
        /\ kpu' = UnloadTest(kpu, app) /\ pc' \in {"store", "unloaded"}
    BY DEF UnloadDetector
  <1>2. /\ app \in Owners /\ app \in Runtimes /\ held.lease = 0 /\ mode # "result"
        /\ AiOk(cam, restarted = 0, TRUE) /\ kpu \in Kpu
        /\ (cam.ai # "disabled" => cam.aiOwner = app)
        /\ cam.work # 1
    BY DetectorAssumption
    DEF CamInv, Sess, Input, Holding, Detectors, ModelInv, Engine
  <1>3. /\ Slots(c) /\ c.running = 0 /\ Leases(c) = {} /\ c.work = cam.work
        /\ c.ai = cam.ai /\ c.aiOwner = cam.aiOwner
        /\ AiOk(cam, restarted = 0, TRUE) /\ cam.ai # "capturing" => AiOk(c, restarted = 0, TRUE)
        /\ sess' \in [initialized : Flag, ready : Flag, frozen : Flag]
        /\ sess'.initialized = 0 /\ sess'.ready # 1 /\ snap' = 0
    BY <1>1, <1>2, SessionStopped
  <1> HIDE DEF c
  <1>4. c \in Cam
    BY <1>3 DEF Slots
  <1>5. /\ cam' \in Cam /\ SameStream(c, cam')
        /\ IF c.aiOwner = app THEN Idle(c, cam', "disabled") ELSE cam' = c
    BY <1>1, <1>2, <1>4, AiCallsOk
  <1>6. Slots(cam') /\ Leased(cam') = Leased(c)
    BY <1>3, <1>5, SameStreamOk
  <1>7. Leases(cam') = {} /\ cam'.running = 0 /\ cam'.work # 1
    BY <1>2, <1>3, <1>5, <1>6 DEF Leases, SameStream, SameFrames
  <1>8. cam'.ai = "disabled" /\ cam'.aiOwner = cam.aiOwner /\ AiOk(cam', restarted = 0, TRUE)
    <2>1. CASE c.aiOwner = app
      BY <1>3, <1>5, <2>1, IdleOk DEF Idle
    <2>2. CASE c.aiOwner # app
      BY <1>2, <1>3, <1>5, <2>2
    <2> QED BY <2>1, <2>2
  <1>9. Input'
    BY <1>1, <1>8 DEF Input
  <1>10. Accel'
    <2>1. Calm(kpu, kpu')
      BY <1>1, <1>2, UnloadTestCalm
    <2> QED BY <1>1, <1>2, <1>3, <1>8, <2>1 DEF CamInv, Accel, Calm
  <1>11. Sess'
    BY <1>1, <1>2, <1>3, <1>7 DEF CamInv, Sess, Only, Holding, CaptureReady, Flag
  <1> QED BY <1>6, <1>9, <1>10, <1>11 DEF CamInv, Slots, Ready, Leased

LEMMA CamBrokeOrClosed ==
    ASSUME CamInv, ModelInv, DetectorBroke \/ CloseDetector
    PROVE  CamInv'
  <1>1. CASE DetectorBroke
    <2>1. app \in Detectors
      BY <1>1 DEF DetectorBroke, ModelInv, Keeper
    <2> QED BY <1>1, <2>1, CamUnload DEF DetectorBroke
  <1>2. CASE CloseDetector
    BY <1>2, CamUnload DEF CloseDetector
  <1> QED BY <1>1, <1>2

LEMMA CamStore ==
    ASSUME CamInv, ModelInv, Store
    PROVE  CamInv'
  <1>1. /\ pc = "store" /\ pc' = "unloaded" /\ kpu' = UnloadStore(kpu, app)
        /\ UNCHANGED <<cam, app, mode, held, why, sess, snap, restarted>>
    BY DEF Store
  <1>2. sess.initialized = 0 /\ cam.ai = "disabled"
    BY <1>1 DEF CamInv, Sess, Input, Flag
  <1>3. Calm(kpu, kpu') /\ kpu \in Kpu
    <2>1. app \in Runtimes /\ kpu \in Kpu
      BY <1>1, DetectorAssumption DEF ModelInv, Keeper, Engine
    <2> QED BY <1>1, <2>1, UnloadStoreCalm
  <1>4. Input'
    BY <1>1, <1>2 DEF CamInv, Input, AiOk
  <1>5. Accel'
    BY <1>1, <1>2, <1>3 DEF CamInv, Accel, Calm
  <1>6. Sess'
    BY <1>1 DEF CamInv, Sess, Holding, CaptureReady, Leases, Leased
  <1> QED BY <1>1, <1>4, <1>5, <1>6 DEF CamInv, Slots, Ready, Leased

LEMMA CamUnloaded ==
    ASSUME CamInv, ModelInv, Unloaded
    PROVE  CamInv'
  <1>1. /\ pc = "unloaded" /\ pc' = "loop" /\ kpu' = Serviced(kpu, app)
        /\ cam' = ServicedCam(cam, kpu', app) /\ mode' = "live"
        /\ app' \in {"none", app}
        /\ UNCHANGED <<held, why, sess, snap, restarted>>
    BY DEF Unloaded
  <1>2. app \in Detectors /\ Engine(kpu) /\ kpu \in Kpu /\ ~Live(app)
    BY <1>1 DEF ModelInv, Keeper, Engine
  <1>3. /\ sess.initialized = 0 /\ cam.ai = "disabled" /\ Slots(cam) /\ cam \in Cam
        /\ sess.ready # 1 /\ cam.running = 0 /\ held.lease = 0 /\ snap = 0
        /\ AiOk(cam, restarted = 0, TRUE)
        /\ (kpu.owner # NoRuntime => cam.aiOwner = kpu.owner)
        /\ cam.work # 1
    BY <1>1, <1>2 DEF CamInv, Sess, Input, Accel, Slots, Flag, Holding, Only, Detectors
  <1>4. Engine(kpu') /\ Calm(kpu, kpu')
    BY <1>1, <1>2, ServicedOk, ServicedCalm DEF Live
  <1>5. /\ Parted(cam, cam') /\ (kpu'.owner # NoRuntime => cam'.aiOwner = kpu'.owner)
    BY <1>1, <1>2, <1>3, <1>4, ServicedCamOk
  <1>6. /\ Slots(cam') /\ Leases(cam') = Leases(cam) /\ cam'.running = cam.running
        /\ cam'.paused = cam.paused /\ cam'.work = cam.work
    BY <1>3, <1>5, PartedOk
  <1>7. cam'.ai = "disabled" /\ AiOk(cam', restarted = 0, TRUE)
    BY <1>3, <1>5 DEF Parted
  <1>8. Input'
    BY <1>1, <1>7 DEF Input
  <1>9. Accel'
    BY <1>1, <1>2, <1>3, <1>4, <1>5, <1>7 DEF CamInv, Accel, Calm
  <1>10. Sess'
    BY <1>1, <1>3, <1>6 DEF CamInv, Sess, Holding, CaptureReady
  <1> QED BY <1>6, <1>8, <1>9, <1>10 DEF CamInv, Slots, Ready, Leased

LEMMA CamCleanupPoll ==
    ASSUME CamInv, ModelInv, CleanupPoll
    PROVE  CamInv'
  <1>1. /\ pc = "loop" /\ cleanup # NoRuntime /\ kpu' = PolledKpu /\ cam' = PolledCam
        /\ UNCHANGED <<app, mode, pc, held, why, sess, snap, restarted>>
    BY DEF CleanupPoll
  <1>2. /\ Engine(kpu') /\ Calm(kpu, kpu') /\ Parted(cam, cam') /\ kpu \in Kpu
        /\ (kpu'.owner # NoRuntime => cam'.aiOwner = kpu'.owner)
    BY <1>1, PolledCamOk DEF ModelInv, Engine
  <1>3. /\ Slots(cam') /\ Leases(cam') = Leases(cam) /\ cam'.running = cam.running
        /\ cam'.paused = cam.paused /\ cam'.work = cam.work
    BY <1>2, PartedOk DEF CamInv
  <1>4. AiOk(cam', restarted = 0, pc # "paused")
    BY <1>2 DEF Parted, CamInv, Input
  <1>5. Input'
    BY <1>1, <1>2, <1>4 DEF Parted, CamInv, Input
  <1>6. sess.initialized = 1 => app \notin Detectors
    BY <1>1 DEF CamInv, Accel, ModelInv, Keeper
  <1>7. Accel'
    BY <1>1, <1>2, <1>6 DEF Parted, CamInv, Accel, Calm
  <1>8. Sess'
    BY <1>1, <1>3 DEF CamInv, Sess, Holding, CaptureReady
  <1> QED BY <1>3, <1>5, <1>7, <1>8 DEF CamInv, Slots, Ready, Leased

LEMMA CamOpenSettings ==
    ASSUME CamInv, ModelInv, OpenSettings
    PROVE  CamInv'
  <1>1. /\ pc = "loop" /\ app \in CameraApps \ {"face"} /\ mode = "live"
        /\ sess' = [sess EXCEPT !.frozen = 1] /\ cam' = StreamPause(cam)
        /\ \/ app = "object" /\ pc' = "pause" /\ mode' = "live"
           \/ mode' = "settings" /\ pc' = "loop"
        /\ UNCHANGED <<kpu, app, held, why, snap, restarted>>
    BY DEF OpenSettings
  <1>2. /\ Slots(cam') /\ SameFrames(cam, cam') /\ SameAi(cam, cam')
        /\ cam'.paused = 1 \/ cam'.running = 0
        /\ Leases(cam') = Leases(cam)
    BY <1>1, PauseOk, LeasesKept DEF CamInv
  <1>3. /\ sess \in [initialized : Flag, ready : Flag, frozen : Flag]
        /\ sess' \in [initialized : Flag, ready : Flag, frozen : Flag]
        /\ sess'.frozen = 1 /\ sess'.ready = sess.ready
        /\ sess'.initialized = sess.initialized
    BY <1>1 DEF CamInv, Sess, Flag
  <1>4. AiOk(cam', restarted = 0, pc # "paused")
    BY <1>2, SameAiOk DEF CamInv, Input, SameFrames
  <1>5. Input'
    BY <1>1, <1>2, <1>4 DEF CamInv, Input, SameAi
  <1>6. Accel'
    BY <1>1, <1>2, <1>3 DEF CamInv, Accel, Live, Fetched, SameAi
  <1>7. Sess'
    BY <1>1, <1>2, <1>3 DEF CamInv, Sess, Holding, CaptureReady, SameFrames
  <1> QED BY <1>2, <1>5, <1>6, <1>7 DEF CamInv, Slots, Ready, Leased

LEMMA CamPauseOutput ==
    ASSUME CamInv, ModelInv, PauseOutput
    PROVE  CamInv'
  <1> DEFINE e == Output(cam, 0)
  <1>1. /\ pc = "pause" /\ pc' = "paused" /\ cam' = IF cam.aiOwner = "object" THEN e ELSE cam
        /\ UNCHANGED <<kpu, app, mode, held, why, sess, snap, restarted>>
    BY DEF PauseOutput
  <1>2. /\ Slots(cam) /\ cam \in Cam /\ app = "object" /\ AiOk(cam, restarted = 0, TRUE)
        /\ (cam.ai # "disabled" => cam.aiOwner = app)
        /\ cam.paused = 1 \/ cam.running = 0
    BY <1>1 DEF CamInv, Input, Slots
  <1>3. /\ e \in Cam /\ SameStream(cam, e) /\ e.aiOut = 0 /\ e.aiWhole = 0
        /\ e.aiPix = cam.aiPix /\ e.ai = cam.ai /\ e.aiOwner = cam.aiOwner
        /\ e.aiSeq = cam.aiSeq
    <2>1. 0 \in Flag
      BY DEF Flag
    <2> QED BY <1>2, <2>1, OutputOk
  <1> HIDE DEF e
  <1>4. /\ cam' \in Cam /\ SameStream(cam, cam') /\ cam'.aiOut = 0 /\ cam'.aiWhole # 1
        /\ cam'.aiPix = cam.aiPix /\ cam'.ai = cam.ai /\ cam'.aiOwner = cam.aiOwner
        /\ cam'.aiSeq = cam.aiSeq
    <2>1. CASE cam.aiOwner = "object"
      BY <1>1, <1>3, <2>1
    <2>2. CASE cam.aiOwner # "object"
      <3>1. cam' = cam /\ cam.aiOut # 1 /\ cam.aiOut \in {0, 1}
        BY <1>1, <1>2, <2>2 DEF AiOk, Cam, Flag
      <3> QED BY <1>2, <3>1 DEF AiOk, SameStream, SameFrames
    <2> QED BY <2>1, <2>2
  <1>5. Slots(cam') /\ Leased(cam') = Leased(cam)
    BY <1>2, <1>4, SameStreamOk
  <1>6. Leases(cam') = Leases(cam)
    BY <1>4, <1>5 DEF Leases, SameStream, SameFrames
  <1>7. AiOk(cam', restarted = 0, FALSE)
    BY <1>2, <1>4 DEF AiOk
  <1>8. Input'
    BY <1>1, <1>2, <1>4, <1>7 DEF CamInv, Input, SameStream, SameFrames
  <1>9. Accel'
    BY <1>1, <1>4 DEF CamInv, Accel, Live, Fetched
  <1>10. Sess'
    BY <1>1, <1>4, <1>6 DEF CamInv, Sess, Holding, CaptureReady, SameStream, SameFrames
  <1> QED BY <1>5, <1>8, <1>9, <1>10 DEF CamInv, Slots, Ready, Leased

LEMMA CamPauseState ==
    ASSUME CamInv, ModelInv, PauseState
    PROVE  CamInv'
  <1> DEFINE e == [cam EXCEPT !.aiSeq = 0, !.ai = "disabled"]
  <1>1. /\ pc = "paused" /\ pc' = "loop" /\ mode' = "settings"
        /\ cam' = IF cam.aiOwner = "object" THEN e ELSE cam
        /\ UNCHANGED <<kpu, app, held, why, sess, snap, restarted>>
    BY DEF PauseState
  <1>2. /\ Slots(cam) /\ cam \in Cam /\ app = "object" /\ AiOk(cam, restarted = 0, FALSE)
        /\ (cam.ai # "disabled" => cam.aiOwner = app) /\ cam.aiOut = 0
        /\ cam.paused = 1 \/ cam.running = 0
    BY <1>1 DEF CamInv, Input, Slots
  <1>3. /\ e \in Cam /\ SameStream(cam, e) /\ e.aiOut = 0 /\ e.aiWhole = cam.aiWhole
        /\ e.ai = "disabled" /\ e.aiOwner = cam.aiOwner
    BY <1>2 DEF Cam, AiStates, SameStream, SameFrames
  <1> HIDE DEF e
  <1>4. /\ cam' \in Cam /\ SameStream(cam, cam') /\ cam'.aiOut = 0 /\ cam'.aiWhole # 1
        /\ cam'.ai = "disabled" /\ cam'.aiOwner = cam.aiOwner
    BY <1>1, <1>2, <1>3 DEF AiOk, SameStream, SameFrames
  <1>5. Slots(cam') /\ Leased(cam') = Leased(cam)
    BY <1>2, <1>4, SameStreamOk
  <1>6. Leases(cam') = Leases(cam)
    BY <1>4, <1>5 DEF Leases, SameStream, SameFrames
  <1>7. AiOk(cam', restarted = 0, TRUE)
    BY <1>4 DEF AiOk
  <1>8. Input'
    BY <1>1, <1>4, <1>7 DEF Input
  <1>9. Accel'
    BY <1>1, <1>4 DEF CamInv, Accel, Live, Fetched
  <1>10. sess.frozen = 1 \/ sess.ready = 0
    BY <1>1, <1>2 DEF CamInv, Sess, CaptureReady, Flag
  <1>11. Sess'
    BY <1>1, <1>2, <1>4, <1>6, <1>10
    DEF CamInv, Sess, Holding, CaptureReady, SameStream, SameFrames
  <1> QED BY <1>5, <1>8, <1>9, <1>11 DEF CamInv, Slots, Ready, Leased

(* The snapshot is given back and the stream goes on.                        *)
LEMMA CamCloseSettings ==
    ASSUME CamInv, ModelInv, CloseSettings
    PROVE  CamInv'
  <1>1. /\ pc = "loop" /\ mode = "settings" /\ mode' = "live"
        /\ sess' = [sess EXCEPT !.frozen = 0] /\ cam' = SnapshotDone(cam, TRUE) /\ snap' = 0
        /\ pc' \in {"resume", "loop"} /\ (pc' = "resume" => app = "object")
        /\ UNCHANGED <<kpu, app, held, why, restarted>>
    BY DEF CloseSettings
  <1>2. held.lease = 0 /\ Slots(cam) /\ Leases(cam) = Only(snap)
    BY <1>1 DEF CamInv, Sess, Holding
  <1>3. /\ Slots(cam') /\ KeepsInput(cam, cam') /\ Leases(cam') = {}
        /\ cam'.running = cam.running /\ cam'.work = cam.work
        /\ (cam.running = 1 => cam'.paused = 0)
    BY <1>1, <1>2, SnapshotDoneOk
  <1>4. /\ sess \in [initialized : Flag, ready : Flag, frozen : Flag]
        /\ sess' \in [initialized : Flag, ready : Flag, frozen : Flag]
        /\ sess'.ready = sess.ready /\ sess'.initialized = sess.initialized
    BY <1>1 DEF CamInv, Sess, Flag
  <1>5. AiOk(cam', restarted = 0, TRUE)
    BY <1>1, <1>3 DEF CamInv, Input, KeepsInput
  <1>6. Input'
    BY <1>1, <1>3, <1>5 DEF CamInv, Input, KeepsInput
  <1>7. Accel'
    BY <1>1, <1>3, <1>4 DEF CamInv, Accel, Live, Fetched, KeepsInput
  <1>8. Sess'
    BY <1>1, <1>2, <1>3, <1>4 DEF CamInv, Sess, Only, Holding, CaptureReady
  <1> QED BY <1>3, <1>6, <1>7, <1>8 DEF CamInv, Slots, Ready, Leased

(* The input is armed again, unless an inference still reads it.             *)
LEMMA CamResumeCapture ==
    ASSUME CamInv, ModelInv, ResumeCapture
    PROVE  CamInv'
  <1> DEFINE f == AiArm(cam, "object")
  <1>1. /\ pc = "resume" /\ pc' = "loop" /\ (cam' = cam \/ (cam' = f /\ ~IsBusy(kpu, "object")))
        /\ UNCHANGED <<kpu, app, mode, held, why, sess, snap, restarted>>
    BY DEF ResumeCapture, ResumeInput
  <1>2. /\ Slots(cam) /\ cam \in Cam /\ app = "object" /\ AiOk(cam, restarted = 0, TRUE)
        /\ mode # "loading" /\ "object" \in Owners /\ "object" \in Detectors
    BY <1>1, DetectorAssumption DEF CamInv, Input, Slots, Detectors
  <1>3. /\ f \in Cam /\ SameStream(cam, f)
        /\ IF cam.aiOwner = "object" THEN Idle(cam, f, "armed") ELSE f = cam
    BY <1>2, AiCallsOk
  <1>4. SameStream(cam, cam)
    BY DEF SameStream, SameFrames
  <1> HIDE DEF f
  <1>5. /\ cam' \in Cam /\ SameStream(cam, cam') /\ cam'.aiOwner = cam.aiOwner
        /\ AiOk(cam', restarted = 0, TRUE)
        /\ \/ cam' = cam
           \/ cam'.ai = "armed" /\ cam.aiOwner = "object" /\ ~IsBusy(kpu, "object")
    BY <1>1, <1>2, <1>3, <1>4, IdleOk DEF Idle
  <1>6. Slots(cam') /\ Leased(cam') = Leased(cam)
    BY <1>2, <1>5, SameStreamOk
  <1>7. Leases(cam') = Leases(cam)
    BY <1>5, <1>6 DEF Leases, SameStream, SameFrames
  <1>8. Input'
    BY <1>1, <1>2, <1>5 DEF CamInv, Input
  <1>9. cam.aiOwner = "object" /\ ~IsBusy(kpu, "object") /\ kpu.engine = 1 => sess.initialized = 0
    <2> SUFFICES ASSUME cam.aiOwner = "object", ~IsBusy(kpu, "object"), kpu.engine = 1
                 PROVE  sess.initialized = 0
      OBVIOUS
    <2>1. kpu.owner = "object" /\ kpu.state["object"] \in {"RUNNING", "UNLOAD_PENDING", "FAULT"}
      BY DEF CamInv, Accel, ModelInv, Engine
    <2>2. ~Live(app)
      BY <1>2, <2>1 DEF IsBusy, Live
    <2> QED BY <1>2, <2>2 DEF CamInv, Accel, Sess, Flag
  <1>10. Accel'
    BY <1>1, <1>5, <1>9 DEF CamInv, Accel, Live, Fetched
  <1>11. Sess'
    BY <1>1, <1>5, <1>7 DEF CamInv, Sess, Holding, CaptureReady, SameStream, SameFrames
  <1> QED BY <1>6, <1>8, <1>10, <1>11 DEF CamInv, Slots, Ready, Leased

LEMMA CamReinit ==
    ASSUME CamInv, ModelInv, NEW sensor \in BOOLEAN, Reinit(sensor)
    PROVE  CamInv'
  <1> DEFINE c == CamStopped(cam)
  <1>1. /\ pc = "loop" /\ mode = "settings" /\ app = "photo" /\ mode' = "live" /\ snap' = 0
        /\ cam' = IF sensor THEN StreamStart(c) ELSE Reset(c)
        /\ sess' = IF sensor THEN [initialized |-> 1, ready |-> 1, frozen |-> 0] ELSE Stopped
        /\ UNCHANGED <<kpu, app, pc, held, why, restarted>>
    BY DEF Reinit
  <1>2. /\ cam.ai = "disabled" /\ cam.work = 0 /\ held.lease = 0
        /\ AiOk(cam, restarted = 0, TRUE)
    BY <1>1 DEF CamInv, Sess, Input, Holding, Slots, Cam, Flag, Detectors
  <1>3. /\ Slots(c) /\ c.work = 0 /\ c.ai = "disabled" /\ c.aiOwner = cam.aiOwner
        /\ AiOk(c, restarted = 0, TRUE)
    BY <1>2, SessionStopped
  <1> HIDE DEF c
  <1>4. /\ Slots(cam') /\ Leases(cam') = {} /\ cam'.work = 0 /\ cam'.ai = "disabled"
        /\ cam'.aiOwner = cam.aiOwner /\ AiOk(cam', restarted = 0, TRUE)
        /\ cam'.running = IF sensor THEN 1 ELSE 0
        /\ (sensor => cam'.paused = 0)
    <2>1. CASE sensor
      BY <1>1, <1>3, <2>1, StartOkStream, LeasesKept DEF StreamStarts
    <2>2. CASE ~sensor
      BY <1>1, <1>3, <2>2, ResetOk DEF KeepsInput
    <2> QED BY <2>1, <2>2
  <1>5. /\ sess' \in [initialized : Flag, ready : Flag, frozen : Flag]
        /\ sess'.initialized = IF sensor THEN 1 ELSE 0
        /\ sess'.ready = IF sensor THEN 1 ELSE 0
    BY <1>1 DEF Stopped, Flag
  <1>6. Input'
    BY <1>1, <1>4 DEF Input
  <1>7. Accel'
    BY <1>1, <1>4 DEF CamInv, Accel, Fetched, Detectors
  <1>8. Sess'
    <2>1. app' \in CameraApps
      BY <1>1 DEF CameraApps
    <2> QED BY <1>1, <1>2, <1>4, <1>5, <2>1 DEF Sess, Only, Holding, CaptureReady
  <1> QED BY <1>4, <1>6, <1>7, <1>8 DEF CamInv, Slots, Ready, Leased

LEMMA CamSnapshotLease ==
    ASSUME CamInv, ModelInv, NEW w \in {"photo", "qr", "frame"}, SnapshotLease(w)
    PROVE  CamInv'
  <1>1. /\ pc = "loop" /\ pc' = "snap" /\ snap = 0 /\ CanAcquire(cam)
        /\ cam' = Acquire(cam) /\ held'.lease = cam.lease + 1 /\ why' = w
        /\ UNCHANGED <<kpu, app, mode, sess, snap, restarted>>
    BY DEF SnapshotLease
  <1>2. w = "frame" \/ (mode = "live" /\ (w = "qr" => app = "qr"))
    <2>1. SnapshotUser(w)
      BY DEF SnapshotLease
    <2>2. CASE w = "photo"
      BY <2>1, <2>2 DEF SnapshotUser
    <2>3. CASE w = "qr"
      BY <2>1, <2>3 DEF SnapshotUser
    <2> QED BY <2>2, <2>3
  <1>3. Slots(cam) /\ Leases(cam) = {} /\ mode # "result"
    BY <1>1 DEF CamInv, Sess, Holding, Only
  <1>4. /\ Slots(cam') /\ SameAi(cam, cam') /\ cam'.running = cam.running
        /\ cam'.paused = cam.paused /\ cam'.work = cam.work
        /\ cam'.conv = cam.conv /\ cam'.finish = cam.finish /\ cam'.images = cam.images
    BY <1>1, <1>3, AcquireOk
  <1>5. Leases(cam') = {held'.lease} /\ held'.lease # 0
    BY <1>1, <1>3, AcquireLeases
  <1>6. AiOk(cam', restarted = 0, pc # "paused")
    BY <1>4, SameAiOk DEF CamInv, Input
  <1>7. Input'
    BY <1>1, <1>4, <1>6 DEF CamInv, Input, SameAi
  <1>8. Accel'
    BY <1>1, <1>4 DEF CamInv, Accel, Live, Fetched, SameAi
  <1>9. Sess'
    BY <1>1, <1>2, <1>3, <1>4, <1>5 DEF CamInv, Sess, Only, Holding, CaptureReady
  <1> QED BY <1>4, <1>7, <1>8, <1>9 DEF CamInv, Slots, Ready, Leased

(* The stream is paused under the snapshot, or under a result or the sensor's *)
(* registers.                                                                 *)
LEMMA PausedCam ==
    ASSUME CamInv, cam' = StreamPause(cam), restarted' = restarted, pc # "paused"
    PROVE  /\ Slots(cam') /\ Leases(cam') = Leases(cam) /\ cam'.running = cam.running
           /\ cam'.work = cam.work /\ cam'.ai = cam.ai /\ cam'.aiOwner = cam.aiOwner
           /\ AiOk(cam', restarted' = 0, TRUE)
  <1>1. /\ Slots(cam') /\ SameFrames(cam, cam') /\ SameAi(cam, cam')
        /\ Leases(cam') = Leases(cam)
    BY PauseOk, LeasesKept DEF CamInv
  <1>2. AiOk(cam', restarted' = 0, TRUE)
    BY <1>1, SameAiOk DEF CamInv, Input, SameFrames
  <1> QED BY <1>1, <1>2 DEF SameFrames, SameAi

LEMMA CamSnapshotHold ==
    ASSUME CamInv, ModelInv, SnapshotHold
    PROVE  CamInv'
  <1>1. /\ pc = "snap" /\ pc' = "snapped" /\ cam' = StreamPause(cam)
        /\ snap' = held.lease /\ held'.lease = 0
        /\ sess' \in {sess, [sess EXCEPT !.frozen = 1]}
        /\ UNCHANGED <<kpu, app, mode, why, restarted>>
    BY DEF SnapshotHold, NoFrame
  <1>2. /\ Slots(cam') /\ Leases(cam') = Leases(cam) /\ cam'.running = cam.running
        /\ cam'.work = cam.work /\ cam'.ai = cam.ai /\ cam'.aiOwner = cam.aiOwner
        /\ AiOk(cam', restarted' = 0, TRUE)
    BY <1>1, PausedCam
  <1>3. /\ sess' \in [initialized : Flag, ready : Flag, frozen : Flag]
        /\ sess'.initialized = sess.initialized /\ sess'.ready = sess.ready
        /\ sess'.frozen = sess.frozen \/ sess'.frozen = 1
    BY <1>1 DEF CamInv, Sess, Flag
  <1>4. held.lease # 0 /\ snap = 0 /\ mode # "result"
    BY <1>1 DEF CamInv, Sess, Holding
  <1>5. Input'
    BY <1>1, <1>2 DEF CamInv, Input
  <1>6. Accel'
    BY <1>1, <1>2, <1>3 DEF CamInv, Accel, Live, Fetched
  <1>7. Sess'
    BY <1>1, <1>2, <1>3, <1>4 DEF CamInv, Sess, Holding, CaptureReady
  <1> QED BY <1>2, <1>5, <1>6, <1>7 DEF CamInv, Slots, Ready, Leased

LEMMA CamSnapshotEnd ==
    ASSUME CamInv, ModelInv, SnapshotEnd
    PROVE  CamInv'
  <1> DEFINE resume == sess.ready = 1 /\ (why = "frame" => CaptureReady)
  <1>1. /\ pc = "snapped" /\ pc' = "loop" /\ cam' = SnapshotDone(cam, resume) /\ snap' = 0
        /\ sess' = IF why = "frame" THEN sess ELSE [sess EXCEPT !.frozen = 0]
        /\ UNCHANGED <<kpu, app, mode, held, restarted>>
    BY DEF SnapshotEnd
  <1>2. /\ held.lease = 0 /\ Slots(cam) /\ Leases(cam) = Only(snap)
        /\ mode # "result" /\ (why = "frame" \/ mode = "live")
    BY <1>1 DEF CamInv, Sess, Holding
  <1>3. /\ Slots(cam') /\ KeepsInput(cam, cam') /\ Leases(cam') = {}
        /\ cam'.running = cam.running /\ cam'.work = cam.work
        /\ (resume /\ cam.running = 1 => cam'.paused = 0)
    <2>1. resume \in BOOLEAN
      OBVIOUS
    <2> HIDE DEF resume
    <2> QED BY <1>1, <1>2, <2>1, SnapshotDoneOk
  <1>4. /\ sess' \in [initialized : Flag, ready : Flag, frozen : Flag]
        /\ sess'.initialized = sess.initialized /\ sess'.ready = sess.ready
        /\ (why = "frame" => sess' = sess)
    BY <1>1 DEF CamInv, Sess, Flag
  <1>5. AiOk(cam', restarted = 0, TRUE)
    BY <1>1, <1>3 DEF CamInv, Input, KeepsInput
  <1>6. Input'
    BY <1>1, <1>3, <1>5 DEF CamInv, Input, KeepsInput
  <1>7. Accel'
    BY <1>1, <1>3, <1>4 DEF CamInv, Accel, Live, Fetched, KeepsInput
  <1>8. Sess'
    BY <1>1, <1>2, <1>3, <1>4 DEF CamInv, Sess, Only, Holding, CaptureReady
  <1> QED BY <1>3, <1>6, <1>7, <1>8 DEF CamInv, Slots, Ready, Leased

LEMMA CamPhotoReview ==
    ASSUME CamInv, ModelInv, PhotoReview
    PROVE  CamInv'
  <1> DEFINE a == Acquire(cam)
             l == cam.lease + 1
             e == Release(a, l)
  <1>1. /\ pc = "snapped" /\ CanAcquire(cam) /\ cam' = Release(a, a.lease)
        /\ UNCHANGED <<kpu, main, sess, snap, restarted>>
    BY DEF PhotoReview
  <1>2. Slots(cam)
    BY DEF CamInv
  <1>3. /\ Slots(a) /\ SameAi(cam, a) /\ a.running = cam.running /\ a.paused = cam.paused
        /\ a.work = cam.work /\ a.conv = cam.conv /\ a.finish = cam.finish
        /\ a.images = cam.images
    BY <1>1, <1>2, AcquireOk
  <1>4. a.lease = l /\ Leases(e) = Leases(cam)
    BY <1>1, <1>2, AcquireLeases DEF Acquire, Slots, Cam
  <1> HIDE DEF a, l
  <1>5. Slots(e) /\ Given(a, e) /\ SameAi(a, e) /\ e.paused = a.paused
    BY <1>3, ReleaseOk
  <1>6. cam' = e
    BY <1>1, <1>4
  <1> HIDE DEF e
  <1>7. AiOk(cam', restarted = 0, TRUE)
    BY <1>1, <1>3, <1>5, <1>6, SameAiOk DEF CamInv, Input, Given
  <1>8. /\ Slots(cam') /\ SameAi(cam, cam') /\ cam'.running = cam.running
        /\ cam'.paused = cam.paused /\ cam'.work = cam.work /\ Leases(cam') = Leases(cam)
    BY <1>3, <1>4, <1>5, <1>6 DEF SameAi, Given
  <1>9. Input'
    BY <1>1, <1>7, <1>8 DEF CamInv, Input, SameAi, main
  <1>10. Accel'
    BY <1>1, <1>8 DEF CamInv, Accel, Live, Fetched, SameAi, main
  <1>11. Sess'
    BY <1>1, <1>8 DEF CamInv, Sess, Holding, CaptureReady, main
  <1> QED BY <1>8, <1>9, <1>10, <1>11 DEF CamInv, Slots, Ready, Leased

LEMMA CamQrFound ==
    ASSUME CamInv, ModelInv, QrFound
    PROVE  CamInv'
  <1>1. /\ pc = "snapped" /\ why = "qr" /\ pc' = "loop" /\ mode' = "result"
        /\ sess' = [sess EXCEPT !.frozen = 1] /\ cam' = StreamPause(cam)
        /\ UNCHANGED <<kpu, app, held, snap, restarted>>
    BY DEF QrFound
  <1>2. /\ Slots(cam') /\ Leases(cam') = Leases(cam) /\ cam'.running = cam.running
        /\ cam'.work = cam.work /\ cam'.ai = cam.ai /\ cam'.aiOwner = cam.aiOwner
        /\ AiOk(cam', restarted' = 0, TRUE)
    BY <1>1, PausedCam
  <1>3. /\ sess' \in [initialized : Flag, ready : Flag, frozen : Flag]
        /\ sess'.initialized = sess.initialized /\ sess'.ready = sess.ready
        /\ sess'.frozen = 1
    BY <1>1 DEF CamInv, Sess, Flag
  <1>4. held.lease = 0 /\ snap # 0 /\ app = "qr"
    BY <1>1 DEF CamInv, Sess, Holding
  <1>5. Input'
    BY <1>1, <1>2 DEF CamInv, Input
  <1>6. Accel'
    BY <1>1, <1>2, <1>3 DEF CamInv, Accel, Live, Fetched
  <1>7. Sess'
    BY <1>1, <1>2, <1>3, <1>4 DEF CamInv, Sess, Holding, CaptureReady
  <1> QED BY <1>2, <1>5, <1>6, <1>7 DEF CamInv, Slots, Ready, Leased

LEMMA CamQrClose ==
    ASSUME CamInv, ModelInv, QrClose
    PROVE  CamInv'
  <1> DEFINE resume == sess.ready = 1
  <1>1. /\ pc = "loop" /\ mode' = "live" /\ cam' = SnapshotDone(cam, resume) /\ snap' = 0
        /\ sess' = [sess EXCEPT !.frozen = 0]
        /\ UNCHANGED <<kpu, app, pc, held, why, restarted>>
    BY DEF QrClose
  <1>2. held.lease = 0 /\ Slots(cam) /\ Leases(cam) = Only(snap) /\ mode # "loading"
    BY <1>1 DEF CamInv, Sess, Holding, QrClose
  <1>3. /\ Slots(cam') /\ KeepsInput(cam, cam') /\ Leases(cam') = {}
        /\ cam'.running = cam.running /\ cam'.work = cam.work
        /\ (resume /\ cam.running = 1 => cam'.paused = 0)
    <2>1. resume \in BOOLEAN
      OBVIOUS
    <2> HIDE DEF resume
    <2> QED BY <1>1, <1>2, <2>1, SnapshotDoneOk
  <1>4. /\ sess' \in [initialized : Flag, ready : Flag, frozen : Flag]
        /\ sess'.initialized = sess.initialized /\ sess'.ready = sess.ready
    BY <1>1 DEF CamInv, Sess, Flag
  <1>5. AiOk(cam', restarted = 0, TRUE)
    BY <1>1, <1>3 DEF CamInv, Input, KeepsInput
  <1>6. Input'
    BY <1>1, <1>3, <1>5 DEF CamInv, Input, KeepsInput
  <1>7. Accel'
    BY <1>1, <1>3, <1>4 DEF CamInv, Accel, Live, Fetched, KeepsInput
  <1>8. Sess'
    BY <1>1, <1>2, <1>3, <1>4 DEF CamInv, Sess, Only, Holding, CaptureReady
  <1> QED BY <1>3, <1>6, <1>7, <1>8 DEF CamInv, Slots, Ready, Leased

LEMMA CamSensorTalk ==
    ASSUME CamInv, ModelInv, SensorTalk
    PROVE  CamInv'
  <1>1. /\ pc = "loop" /\ pc' = "sensor" /\ cam' = StreamPause(cam)
        /\ UNCHANGED <<kpu, app, mode, held, sess, snap, restarted>>
    BY DEF SensorTalk
  <1>2. /\ Slots(cam') /\ Leases(cam') = Leases(cam) /\ cam'.running = cam.running
        /\ cam'.work = cam.work /\ cam'.ai = cam.ai /\ cam'.aiOwner = cam.aiOwner
        /\ AiOk(cam', restarted' = 0, TRUE)
    BY <1>1, PausedCam
  <1>3. Input'
    BY <1>1, <1>2 DEF CamInv, Input
  <1>4. Accel'
    BY <1>1, <1>2 DEF CamInv, Accel, Live, Fetched
  <1>5. Sess'
    BY <1>1, <1>2 DEF CamInv, Sess, Holding, CaptureReady
  <1> QED BY <1>2, <1>3, <1>4, <1>5 DEF CamInv, Slots, Ready, Leased

LEMMA CamSensorDone ==
    ASSUME CamInv, ModelInv, NEW answers \in BOOLEAN, SensorDone(answers)
    PROVE  CamInv'
  <1>1. /\ pc = "sensor" /\ pc' = "loop"
        /\ \/ sess' = [sess EXCEPT !.ready = 0] /\ UNCHANGED <<cam, snap>>
           \/ sess' = sess /\ CaptureReady /\ cam' = SnapshotDone(cam, TRUE) /\ snap' = 0
           \/ sess' = sess /\ ~CaptureReady /\ UNCHANGED <<cam, snap>>
        /\ UNCHANGED <<kpu, app, mode, held, restarted>>
    BY DEF SensorDone
  <1>2. /\ held.lease = 0 /\ Slots(cam) /\ Leases(cam) = Only(snap)
        /\ AiOk(cam, restarted = 0, TRUE)
    BY <1>1 DEF CamInv, Sess, Holding, Input
  <1>3. CASE sess' = sess /\ CaptureReady /\ cam' = SnapshotDone(cam, TRUE) /\ snap' = 0
    <2>1. /\ Slots(cam') /\ KeepsInput(cam, cam') /\ Leases(cam') = {}
          /\ cam'.running = cam.running /\ cam'.work = cam.work
          /\ (cam.running = 1 => cam'.paused = 0)
      BY <1>2, <1>3, SnapshotDoneOk
    <2>2. AiOk(cam', restarted = 0, TRUE)
      BY <1>2, <2>1 DEF KeepsInput
    <2>3. mode # "result"
      BY <1>3 DEF CamInv, Sess, CaptureReady, Flag
    <2>4. Input'
      BY <1>1, <2>1, <2>2 DEF CamInv, Input, KeepsInput
    <2>5. Accel'
      BY <1>1, <1>3, <2>1 DEF CamInv, Accel, Live, Fetched, KeepsInput
    <2>6. Sess'
      BY <1>1, <1>2, <1>3, <2>1, <2>3 DEF CamInv, Sess, Only, Holding, CaptureReady
    <2> QED BY <2>1, <2>4, <2>5, <2>6 DEF CamInv, Slots, Ready, Leased
  <1>4. CASE /\ UNCHANGED <<cam, snap>>
             /\ sess' = [sess EXCEPT !.ready = 0] \/ (sess' = sess /\ ~CaptureReady)
    <2>1. /\ sess' \in [initialized : Flag, ready : Flag, frozen : Flag]
          /\ sess'.initialized = sess.initialized /\ sess'.frozen = sess.frozen
          /\ (sess'.ready = 1 => sess.ready = 1)
          /\ (sess'.ready = 0 \/ (sess' = sess /\ ~CaptureReady))
      BY <1>4 DEF CamInv, Sess, Flag
    <2>2. Input'
      BY <1>1, <1>2, <1>4 DEF CamInv, Input
    <2>3. Accel'
      BY <1>1, <1>4, <2>1 DEF CamInv, Accel, Live, Fetched
    <2>4. Sess'
      BY <1>1, <1>2, <1>4, <2>1 DEF CamInv, Sess, Holding, CaptureReady, Leases, Leased, Flag
    <2> QED BY <1>4, <2>2, <2>3, <2>4 DEF CamInv, Slots, Ready, Leased
  <1> QED BY <1>1, <1>3, <1>4

LEMMA CamProbe ==
    ASSUME CamInv, ModelInv, NEW bus \in BOOLEAN, NEW sensor \in BOOLEAN, Probe(bus, sensor)
    PROVE  CamInv'
  <1> DEFINE d == StreamStart(Reset(cam))
             up == sess.initialized = 1 /\ bus /\ sensor
  <1>1. /\ pc = "loop" /\ snap = 0
        /\ cam' = IF sess.initialized # 1 THEN cam ELSE IF up THEN d ELSE Reset(cam)
        /\ sess' = IF up THEN [initialized |-> 1, ready |-> 1,
                               frozen |-> IF CaptureReady THEN 0 ELSE 1]
                   ELSE IF sess.initialized = 1 THEN Stopped
                   ELSE IF bus THEN sess ELSE [sess EXCEPT !.ready = 0]
        /\ restarted' = IF sess.initialized = 1 /\ cam.aiOwner # NoOwner THEN 1 ELSE restarted
        /\ UNCHANGED <<kpu, main, snap>>
    BY DEF Probe, ControlAvailable
  <1>2. UNCHANGED <<app, mode, pc, held, why>>
    BY <1>1 DEF main
  <1>3. /\ held.lease = 0 /\ Slots(cam) /\ Leases(cam) = {} /\ mode # "result"
        /\ AiOk(cam, restarted = 0, TRUE)
    BY <1>1 DEF CamInv, Sess, Holding, Input, Only
  <1>4. sess.initialized = 1 => cam.work = 0
    BY DEF CamInv, Sess, Slots, Cam, Flag
  <1>5. AiOk(cam, restarted' = 0, TRUE)
    BY <1>1, <1>3 DEF AiOk
  <1>6. (restarted' = 0) = FALSE \/ sess.initialized # 1 \/ cam.ai = "disabled"
    <2>1. cam.aiOwner = NoOwner => cam.ai = "disabled"
      BY StreamAssumption, DetectorAssumption DEF CamInv, Input
    <2> QED BY <1>1, <2>1
  <1>7. /\ Slots(cam') /\ Leases(cam') = {} /\ cam'.work = cam.work
        /\ cam'.ai = cam.ai /\ cam'.aiOwner = cam.aiOwner /\ AiOk(cam', restarted' = 0, TRUE)
        /\ cam'.running = (IF sess.initialized # 1 THEN cam.running ELSE IF up THEN 1 ELSE 0)
        /\ (up => cam'.paused = 0)
        /\ (sess.initialized # 1 => cam'.paused = cam.paused)
    <2>1. CASE sess.initialized # 1
      BY <1>1, <1>3, <1>5, <2>1
    <2>2. CASE up
      <3>1. /\ Slots(d) /\ Leases(d) = {} /\ d.running = 1 /\ d.paused = 0 /\ d.work = 0
            /\ d.ai = cam.ai /\ d.aiOwner = cam.aiOwner
            /\ \A r, p \in BOOLEAN :
                  AiOk(cam, r, p) /\ (~r \/ cam.ai \in {"disabled", "armed"}) => AiOk(d, r, p)
        BY <1>3, <1>4, <2>2, RestartOk
      <3>2. cam' = d
        BY <1>1, <2>2
      <3> HIDE DEF d
      <3>3. AiOk(d, restarted' = 0, TRUE)
        BY <1>5, <1>6, <2>2, <3>1
      <3> QED BY <1>4, <2>2, <3>1, <3>2, <3>3
    <2>3. CASE sess.initialized = 1 /\ ~up
      <3>1. cam' = Reset(cam)
        BY <1>1, <2>3
      <3> QED BY <1>3, <1>5, <2>3, <3>1, ResetOk DEF KeepsInput
    <2> QED BY <2>1, <2>2, <2>3
  <1> HIDE DEF d
  <1>8. /\ sess' \in [initialized : Flag, ready : Flag, frozen : Flag]
        /\ sess'.initialized = (IF sess.initialized # 1 THEN sess.initialized
                                ELSE IF up THEN 1 ELSE 0)
        /\ (sess'.ready = 1 => up \/ sess' = sess)
        /\ (up => sess'.frozen = IF CaptureReady THEN 0 ELSE 1)
        /\ sess.initialized # 1 => sess'.frozen = sess.frozen
    BY <1>1 DEF CamInv, Sess, Stopped, Flag
  <1>9. Input'
    BY <1>1, <1>2, <1>7 DEF CamInv, Input
  <1>10. Accel'
    BY <1>1, <1>2, <1>7, <1>8 DEF CamInv, Accel, Live, Fetched, Sess, Flag
  <1>11. Sess'
    BY <1>1, <1>2, <1>3, <1>7, <1>8 DEF CamInv, Sess, Only, Holding, CaptureReady, Flag
  <1> QED BY <1>7, <1>9, <1>10, <1>11 DEF CamInv, Slots, Ready, Leased

-----------------------------------------------------------------------------
(* Every step keeps the camera's invariant. *)
LEMMA CamStep == CamInv /\ ModelInv /\ [Next]_vars => CamInv'
  <1> SUFFICES ASSUME CamInv, ModelInv, [Next]_vars PROVE CamInv'
    OBVIOUS
  <1>1. CASE UNCHANGED vars
    <2>1. UNCHANGED <<cam, kpu, main, app, mode, pc, held, why, sess, snap, restarted>>
      BY <1>1 DEF vars, main
    <2> QED BY <2>1 DEF CamInv, Slots, Ready, Leased, Input, AiOk, Accel, Fetched, Live,
                        Sess, Leases, CaptureReady, Holding
  <1>2. CASE Hardware
    BY <1>2, CamInterrupt, CamEngine DEF Hardware
  <1>3. ASSUME NEW d \in Detectors, NEW card \in BOOLEAN, NEW sensor \in BOOLEAN,
               OpenDetector(d, card, sensor)
        PROVE  CamInv'
    BY <1>3, CamOpenDetector
  <1>4. ASSUME NEW card \in BOOLEAN, NEW sensor \in BOOLEAN, RetryDetector(card, sensor)
        PROVE  CamInv'
    BY <1>4, CamRetryDetector
  <1>5. ASSUME NEW a \in {"photo", "qr"}, NEW sensor \in BOOLEAN, OpenCamera(a, sensor)
        PROVE  CamInv'
    BY <1>5, CamOpenCamera
  <1>6. CASE OpenAnimation
    BY <1>6, CamAnimation
  <1>7. CASE PreviewAcquire
    BY <1>7, CamPreviewAcquire
  <1>8. CASE Process
    BY <1>8, CamProcess
  <1>9. CASE Take
    BY <1>9, CamTake
  <1>10. ASSUME NEW starts \in BOOLEAN, Run(starts) PROVE CamInv'
    BY <1>10, CamRun
  <1>11. ASSUME NEW presented \in BOOLEAN, PreviewRelease(presented) PROVE CamInv'
    BY <1>11, CamPreviewRelease
  <1>12. CASE AfterFrame
    BY <1>12, CamAfterFrame
  <1>13. CASE DetectorBroke \/ CloseDetector
    BY <1>13, CamBrokeOrClosed
  <1>14. CASE Store
    BY <1>14, CamStore
  <1>15. CASE Unloaded
    BY <1>15, CamUnloaded
  <1>16. CASE CloseApp
    BY <1>16, CamCloseApp
  <1>17. CASE CleanupPoll
    BY <1>17, CamCleanupPoll
  <1>18. CASE OpenSettings
    BY <1>18, CamOpenSettings
  <1>19. CASE PauseOutput
    BY <1>19, CamPauseOutput
  <1>20. CASE PauseState
    BY <1>20, CamPauseState
  <1>21. CASE CloseSettings
    BY <1>21, CamCloseSettings
  <1>22. CASE ResumeCapture
    BY <1>22, CamResumeCapture
  <1>23. ASSUME NEW sensor \in BOOLEAN, Reinit(sensor) PROVE CamInv'
    BY <1>23, CamReinit
  <1>24. ASSUME NEW w \in {"photo", "qr", "frame"}, SnapshotLease(w) PROVE CamInv'
    BY <1>24, CamSnapshotLease
  <1>25. CASE SnapshotHold
    BY <1>25, CamSnapshotHold
  <1>26. CASE SnapshotEnd
    BY <1>26, CamSnapshotEnd
  <1>27. CASE PhotoReview
    BY <1>27, CamPhotoReview
  <1>28. CASE QrFound
    BY <1>28, CamQrFound
  <1>29. CASE QrClose
    BY <1>29, CamQrClose
  <1>30. CASE SensorTalk
    BY <1>30, CamSensorTalk
  <1>31. ASSUME NEW answers \in BOOLEAN, SensorDone(answers) PROVE CamInv'
    BY <1>31, CamSensorDone
  <1>32. ASSUME NEW bus \in BOOLEAN, NEW sensor \in BOOLEAN, Probe(bus, sensor)
         PROVE  CamInv'
    BY <1>32, CamProbe
  <1> QED
    BY <1>1, <1>2, <1>3, <1>4, <1>5, <1>6, <1>7, <1>8, <1>9, <1>10, <1>11, <1>12,
       <1>13, <1>14, <1>15, <1>16, <1>17, <1>18, <1>19, <1>20, <1>21, <1>22, <1>23,
       <1>24, <1>25, <1>26, <1>27, <1>28, <1>29, <1>30, <1>31, <1>32, Steps

LEMMA CamInit == Init => CamInv
  <1> SUFFICES ASSUME Init PROVE CamInv
    OBVIOUS
  <1>1. PICK preview \in Flag : cam = InitCam(preview)
    BY DEF Init
  <1>2. /\ cam.slot = [s \in SlotIds |-> FreeSlot] /\ cam.running = 0 /\ cam.reserved = 0
        /\ cam.capture = NoSlot /\ cam.work = 0 /\ cam.irq = 0 /\ cam.start = 0
        /\ cam.finish = 0 /\ cam.conv = 0 /\ cam.aiOut = 0 /\ cam.aiWhole = 0
        /\ cam.ai = "disabled" /\ cam.paused = 0
    BY <1>1 DEF InitCam
  <1>3. cam \in Cam
    <2>1. [s \in SlotIds |-> FreeSlot] \in [SlotIds -> Slot]
          /\ [s \in SlotIds |-> 0] \in [SlotIds -> Nat] /\ 0 \in SlotIds
      BY StreamAssumption DEF SlotIds, Slot, SlotStates, FreeSlot
    <2> QED BY <1>1, <2>1 DEF InitCam, Cam, Flag, AiStates, NoSlot
  <1>4. \A s \in SlotIds : cam.slot[s].state = "free"
    BY <1>2 DEF FreeSlot
  <1>5. Ready(cam) = {} /\ Leased(cam) = {} /\ Leases(cam) = {}
    BY <1>4 DEF Ready, Leased, Leases
  <1>6. Slots(cam)
    BY <1>2, <1>3, <1>4, <1>5, NoSlotOk DEF Slots
  <1>7. Input
    BY <1>2 DEF Init, Input, AiOk
  <1>8. Accel
    BY RuntimeAssumption DEF Init, InitKpu, Accel, Fetched
  <1>9. Sess
    BY <1>2, <1>5 DEF Init, NoFrame, Sess, Only, Holding, CaptureReady, Flag
  <1> QED BY <1>6, <1>7, <1>8, <1>9 DEF CamInv

LEMMA CamAlways == Spec => [](CamInv /\ ModelInv)
  <1> DEFINE Inv == CamInv /\ ModelInv
  <1>1. Init => Inv
    <2>1. Init => ModelInv
      BY ModelInit
    <2> QED BY <2>1, CamInit
  <1>2. Inv /\ [Next]_vars => Inv'
    BY CamStep, ModelStep
  <1> HIDE DEF Inv
  <1>3. Spec => []Inv
    BY <1>1, <1>2, PTL DEF Spec
  <1> QED BY <1>3 DEF Inv

(* A frame that is ready or leased is never written again, a slot in capture *)
(* is the one the next interrupt hands over, and the accelerator never reads *)
(* planes the camera is writing into, whatever interrupt comes between two   *)
(* steps of the main loop and whatever is opened, closed, unloaded or        *)
(* restarted meanwhile.                                                      *)
THEOREM FramesStayIntact == Spec => []FramesIntact
  <1>1. CamInv /\ ModelInv => FramesIntact
    <2> SUFFICES ASSUME CamInv, ModelInv PROVE FramesIntact
      OBVIOUS
    <2>0. Slots(cam) /\ cam \in Cam
      BY DEF CamInv, Slots
    <2>1. \A s \in Ready(cam) \cup Leased(cam) :
             cam.pix[s] = cam.slot[s].seq /\ ~(cam.conv = 1 /\ cam.addr = s)
      <3>1. \A s \in Ready(cam) \cup Leased(cam) :
               s \in SlotIds /\ cam.slot[s].state # "capturing"
        BY DEF Ready, Leased
      <3> QED BY <2>0, <3>1 DEF Slots
    <2>2. \A s \in SlotIds : cam.slot[s].state = "capturing" <=> cam.capture = s
      BY <2>0 DEF Slots
    <2>3. cam.work = 1 => cam.conv = 0 /\ cam.reserved = 0
      BY <2>0 DEF Slots
    <2>4. kpu.engine = 1 => ~(cam.conv = 1 /\ cam.aiOut = 1)
      <3>1. cam.aiOut = 1 => cam.ai = "capturing"
        BY DEF CamInv, Input, AiOk
      <3>2. sess.initialized = 0 => cam.conv = 0
        BY <2>0 DEF CamInv, Sess, Slots
      <3> QED BY <3>1, <3>2 DEF CamInv, Accel
    <2>5. kpu.engine = 1 =>
             /\ kpu.loaded = 1 /\ kpu.owner # NoRuntime /\ cam.aiOwner = kpu.owner
             /\ kpu.state[kpu.owner] \in {"RUNNING", "UNLOAD_PENDING", "FAULT"}
      BY DEF ModelInv, Engine, CamInv, Accel
    <2>6. cam.ai = "busy" /\ restarted = 0 => cam.aiPix = cam.aiSeq
      BY DEF CamInv, Input, AiOk
    <2> QED BY <2>1, <2>2, <2>3, <2>4, <2>5, <2>6 DEF FramesIntact
  <1> QED BY <1>1, CamAlways, PTL

(* At the top of the main loop a camera that is ready and not frozen is       *)
(* delivering frames, the session agrees with the stream, and no lease is out *)
(* but that of the snapshot behind a QR result, whichever of the applications *)
(* and console commands ran before.                                           *)
THEOREM CameraStaysConsistent == Spec => []CameraConsistent
  <1>1. CamInv /\ ModelInv => CameraConsistent
    <2> SUFFICES ASSUME CamInv, pc = "loop" PROVE CameraConsistent
      BY DEF CameraConsistent
    <2>1. Leases(cam) = Only(snap) /\ (snap # 0 => mode = "result")
      BY DEF CamInv, Sess, Holding
    <2>2. sess.initialized = cam.running
      BY DEF CamInv, Sess
    <2>3. CaptureReady => cam.running = 1 /\ cam.paused = 0
      BY <2>2 DEF CamInv, Sess, CaptureReady
    <2> QED BY <2>1, <2>2, <2>3 DEF CameraConsistent, Leases, Only
  <1> QED BY <1>1, CamAlways, PTL


-----------------------------------------------------------------------------
(* The AprilTag detector: its two result banks. *)

(* The executor holds one job; core 1 is inside the worker job exactly while *)
(* the executor runs it, and it writes the bank of the number to come.       *)
WorkerInside ==
    /\ current \in {NoJob, slot}
    /\ pc1 # "out" <=> current = Detector
    /\ pc1 = "writing" => bank1 = Target

(* The detector's job, queued or running, that has not published yet. *)
BeforePublish ==
    slot = Detector /\ (pc1 = "out" \/ pc1 \in {"detect", "writing", "publish"})

(* As long as a job may still write, the bank core 0 reads is the published  *)
(* one; a job that has published is the last before the reader is done.      *)
ReaderHolds ==
    pc0 = "reading" /\ BeforePublish => bank0 = Bank(publishedSequence)

BankInv == DetectorTypeOK /\ WorkerInside /\ ReaderHolds

-----------------------------------------------------------------------------
LEMMA BankFacts ==
    /\ \A s \in Nat : Bank(s) \in {0, 1}
    /\ \A s \in Sequence : NextSequence(s) \in Sequence
    /\ \A s \in Sequence : s # SequenceMax => Bank(NextSequence(s)) # Bank(s)
    /\ Sequence \subseteq Nat
  BY SequenceAssumption DEF Bank, NextSequence, Sequence

LEMMA InitBankInv == DetectorInit => BankInv
  BY NoJobAssumption, WorkerJobAssumption, SequenceAssumption
  DEF DetectorInit, BankInv, DetectorTypeOK, WorkerInside, ReaderHolds, BeforePublish,
      SlotInit, SlotTypeOK, Sequence

LEMMA TickTypes ==
    ASSUME DetectorTypeOK, ServiceTick, NEW p \in {"tickFinish", "initFinish", "initWait",
           "createDone", "deinitFinish", "deinitDone", "submit"}, pc0' = p
    PROVE  DetectorTypeOK'
  BY WorkerJobAssumption
  DEF DetectorTypeOK, SlotTypeOK, ServiceTick, TicketAfterPoll, KindAfterPoll, CleanupDue,
      SlotSubmit, slotVars, sequences, core1

LEMMA Core0Types ==
    ASSUME DetectorTypeOK, Core0Step \/ InitWait \/ InitCall \/ DeinitCall \/ SubmitCall
                           \/ ReadResults \/ RestOfLoop
                           \/ \E j \in Jobs \ {Detector} : OtherSubmit(j)
    PROVE  DetectorTypeOK'
  <1> USE DEF slotVars, flags, sequences, core0, core1
  <1>1. ASSUME TickPoll \/ InitPoll \/ InitWait \/ CreateTick \/ DeinitTick \/ DeinitFinish
               \/ SubmitCall
        PROVE  DetectorTypeOK'
    BY <1>1, TickTypes
    DEF TickPoll, InitPoll, InitWait, CreateTick, DeinitTick, DeinitFinish, SubmitCall
  <1>2. ASSUME TickFinish \/ InitFinish \/ CreateReturned \/ SubmitDropped \/ ReadDone
               \/ RestOfLoop
        PROVE  DetectorTypeOK'
    BY <1>2 DEF DetectorTypeOK, SlotTypeOK, TickFinish, InitFinish, FinishPoll, CreateReturned,
        SubmitDropped, ReadDone, RestOfLoop, Goto
  <1>3. ASSUME InitCall \/ InitGiveUp \/ CreateTimeout \/ CreateDone \/ DeinitCall \/ DeinitDone
        PROVE  DetectorTypeOK'
    BY <1>3 DEF DetectorTypeOK, SlotTypeOK, InitCall, InitGiveUp, CreateTimeout, CreateDone,
        DeinitCall, DeinitDone
  <1>4. ASSUME InitCreate PROVE DetectorTypeOK'
    BY <1>4, WorkerJobAssumption DEF DetectorTypeOK, SlotTypeOK, InitCreate, SlotSubmit
  <1>5. ASSUME SubmitFrame \/ SubmitRefused PROVE DetectorTypeOK'
    BY <1>5, BankFacts, WorkerJobAssumption
    DEF DetectorTypeOK, SlotTypeOK, SubmitFrame, SubmitRefused, SlotSubmit
  <1>6. ASSUME ReadResults PROVE DetectorTypeOK'
    BY <1>6, BankFacts DEF DetectorTypeOK, SlotTypeOK, ReadResults
  <1>7. ASSUME NEW j \in Jobs \ {Detector}, OtherSubmit(j) PROVE DetectorTypeOK'
    BY <1>7 DEF DetectorTypeOK, SlotTypeOK, OtherSubmit, SlotSubmit
  <1> QED
    BY <1>1, <1>2, <1>3, <1>4, <1>5, <1>6, <1>7 DEF Core0Step

LEMMA Core1Types ==
    ASSUME DetectorTypeOK, Core1Step PROVE DetectorTypeOK'
  <1> USE DEF slotVars, flags, sequences, core0, core1
  <1>1. ASSUME JobBegin \/ JobEnd \/ OtherRuns PROVE DetectorTypeOK'
    BY <1>1 DEF DetectorTypeOK, SlotTypeOK, JobBegin, JobEnd, OtherRuns, SlotBegin, SlotEnd, Step1
  <1>2. ASSUME WriteBank PROVE DetectorTypeOK'
    <2>1. bank1' \in {0, 1}
      BY <1>2, BankFacts DEF DetectorTypeOK, WriteBank, Target
    <2>2. bankEpoch' \in [{0, 1} -> Nat]
      BY <1>2, <2>1 DEF DetectorTypeOK, WriteBank
    <2> QED
      BY <1>2, <2>1, <2>2 DEF DetectorTypeOK, SlotTypeOK, WriteBank
  <1>3. ASSUME Publish \/ Complete \/ Destroyed PROVE DetectorTypeOK'
    BY <1>3, BankFacts DEF DetectorTypeOK, SlotTypeOK, Publish, Complete, Destroyed, Step1
  <1>4. ASSUME CreateDetector \/ Created \/ PublishCheck \/ ActiveCheck \/ AfterState
               \/ DestroyDetector \/ DestroyedState
        PROVE  DetectorTypeOK'
    BY <1>4 DEF DetectorTypeOK, SlotTypeOK, CreateDetector, Created, PublishCheck, ActiveCheck,
        AfterState, DestroyDetector, DestroyedState, Step1
  <1> QED
    BY <1>1, <1>2, <1>3, <1>4 DEF Core1Step

LEMMA BankStep ==
    ASSUME BankInv, [DetectorNext]_detectorVars PROVE BankInv'
  <1> USE DEF slotVars, flags, sequences, core0, core1
  <1>t. DetectorTypeOK'
    BY Core0Types, Core1Types
    DEF BankInv, DetectorNext, detectorVars, DetectorTypeOK, SlotTypeOK
  <1>1. ASSUME Core0Step \/ InitWait \/ InitCall \/ DeinitCall \/ SubmitCall
               \/ ReadResults \/ RestOfLoop
               \/ \E j \in Jobs \ {Detector} : OtherSubmit(j)
        PROVE  (WorkerInside /\ ReaderHolds)'
    <2>1. UNCHANGED <<pc1, bank1, current, publishedSequence>>
      BY <1>1
      DEF Core0Step, TickPoll, TickFinish, InitPoll, InitFinish, InitWait, InitCall, InitGiveUp,
          InitCreate, CreateTimeout, CreateReturned, CreateTick, CreateDone, DeinitCall,
          DeinitTick, DeinitFinish, DeinitDone, SubmitCall, SubmitDropped, SubmitFrame,
          SubmitRefused, ReadResults, ReadDone, RestOfLoop, OtherSubmit, Goto, FinishPoll,
          ServiceTick, SlotSubmit
    <2>2. slot' = slot \/ slot = NoJob
      BY <1>1
      DEF Core0Step, TickPoll, TickFinish, InitPoll, InitFinish, InitWait, InitCall, InitGiveUp,
          InitCreate, CreateTimeout, CreateReturned, CreateTick, CreateDone, DeinitCall,
          DeinitTick, DeinitFinish, DeinitDone, SubmitCall, SubmitDropped, SubmitFrame,
          SubmitRefused, ReadResults, ReadDone, RestOfLoop, OtherSubmit, Goto, FinishPoll,
          ServiceTick, SlotSubmit, SlotIdle
    <2>3. pc0' = "reading" => bank0' = Bank(publishedSequence')
      BY <1>1, <2>1
      DEF Core0Step, TickPoll, TickFinish, InitPoll, InitFinish, InitWait, InitCall, InitGiveUp,
          InitCreate, CreateTimeout, CreateReturned, CreateTick, CreateDone, DeinitCall,
          DeinitTick, DeinitFinish, DeinitDone, SubmitCall, SubmitDropped, SubmitFrame,
          SubmitRefused, ReadResults, ReadDone, RestOfLoop, OtherSubmit, Goto, FinishPoll
    <2> QED
      BY <2>1, <2>2, <2>3, NoJobAssumption, WorkerJobAssumption
      DEF BankInv, WorkerInside, ReaderHolds, Target
  <1>2. ASSUME JobBegin \/ JobEnd \/ OtherRuns PROVE (WorkerInside /\ ReaderHolds)'
    BY <1>2, NoJobAssumption, WorkerJobAssumption
    DEF BankInv, WorkerInside, ReaderHolds, BeforePublish, Target, JobBegin, JobEnd, OtherRuns,
        SlotBegin, SlotEnd, Step1
  <1>3. ASSUME WriteBank PROVE (WorkerInside /\ ReaderHolds)'
    BY <1>3 DEF BankInv, WorkerInside, ReaderHolds, BeforePublish, Target, WriteBank
  <1>4. ASSUME Publish PROVE (WorkerInside /\ ReaderHolds)'
    BY <1>4 DEF BankInv, WorkerInside, ReaderHolds, BeforePublish, Publish, Step1
  <1>5. ASSUME CreateDetector \/ Created \/ PublishCheck \/ Complete \/ ActiveCheck \/ AfterState
               \/ DestroyDetector \/ Destroyed \/ DestroyedState
        PROVE  (WorkerInside /\ ReaderHolds)'
    BY <1>5
    DEF BankInv, WorkerInside, ReaderHolds, BeforePublish, Target, CreateDetector, Created,
        PublishCheck, Complete, ActiveCheck, AfterState, DestroyDetector, Destroyed,
        DestroyedState, Step1
  <1>6. ASSUME UNCHANGED detectorVars PROVE (WorkerInside /\ ReaderHolds)'
    BY <1>6 DEF BankInv, WorkerInside, ReaderHolds, BeforePublish, Target, detectorVars
  <1> QED
    BY <1>t, <1>1, <1>2, <1>3, <1>4, <1>5, <1>6 DEF BankInv, DetectorNext, Core1Step

(* The bank core 0 reads results from is never the one core 1 is writing     *)
(* the next results to (apriltag_detector.c, detector_run and results).      *)
THEOREM BanksKeptApart == DetectorSpec => [](DetectorTypeOK /\ BankStable)
  <1>1. BankInv => DetectorTypeOK /\ BankStable
    <2> SUFFICES ASSUME BankInv, pc0 = "reading", pc1 = "writing",
                        publishedSequence # SequenceMax
                 PROVE  bank0 # bank1
      BY DEF BankInv, BankStable
    <2>1. bank0 = Bank(publishedSequence)
      BY WorkerJobAssumption, NoJobAssumption DEF BankInv, WorkerInside, ReaderHolds, BeforePublish
    <2>2. bank1 = Bank(NextSequence(publishedSequence))
      BY DEF BankInv, WorkerInside, Target
    <2> QED
      BY <2>1, <2>2, BankFacts DEF BankInv, DetectorTypeOK
  <1> QED
    BY InitBankInv, BankStep, <1>1, PTL DEF DetectorSpec
=============================================================================
