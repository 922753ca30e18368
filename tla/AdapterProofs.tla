--------------------------- MODULE AdapterProofs ---------------------------
(***************************************************************************)
(* Proofs about the two adapters of capabilities that drive hardware.      *)
(* LinkService, the external link with its two users and its peer: an      *)
(* ended session leaves nothing at work, and what the service takes from   *)
(* the wire and puts on it is whole frames, each once.  Display: a pixel   *)
(* that is wrong will be mended, and the workspace is held exactly while   *)
(* it is needed.                                                           *)
(***************************************************************************)
EXTENDS LinkService, Display, FiniteSetTheorems, SequenceTheorems, WellFoundedInduction, TLAPS

(* Induction over the naturals below, as a least counterexample.             *)
LEMMA LeastNatural ==
    ASSUME NEW T \in SUBSET Nat, T # {}
    PROVE  \E n \in T : \A m \in T : n <= m
  <1> DEFINE R == OpToRel(<, Nat)
  <1>1. IsWellFoundedOn(R, Nat)
    BY NatLessThanWellFounded
  <1>2. \A m, n \in Nat : <<m, n>> \in R <=> m < n
    BY DEF OpToRel
  <1> HIDE DEF R
  <1>3. PICK n \in T : \A m \in T : ~(<<m, n>> \in R)
    BY <1>1, WFMin
  <1>4. ASSUME NEW m \in T PROVE n <= m
    <2>1. m \in Nat /\ n \in Nat
      OBVIOUS
    <2>2. ~(m < n)
      BY <1>2, <1>3, <2>1
    <2> HIDE <1>2, <1>3
    <2> QED
      BY <2>1, <2>2
  <1> QED
    BY <1>4

-----------------------------------------------------------------------------
(* The external link. *)

(* The length of the buffer a write takes its bytes from. *)
WriteSize(user) == IF user = "service" THEN ResponseSize ELSE TxSize

(* The connector: a session has a mode it declared, the operation is of the  *)
(* mode, and what is switched on belongs to both.                            *)
Held(l) ==
    /\ l.claimant \in {"service", "script", NoUser} /\ l.owner = l.claimant
    /\ l.quarantined = 1 => l.claimant = NoUser
    /\ l.claimant = NoUser => l.mode = "off"
    /\ l.mode # "off" => l.mode \in Features[l.claimant]

Operating(l) ==
    /\ l.mode \in {"off", "target"} => l.op = NoOp
    /\ l.op.state # "none" => \/ l.op.kind = "write" /\ l.mode = "uart"
                              \/ l.op.kind = "transfer" /\ l.mode = "controller"
    /\ l.op.state = "flight" /\ l.op.kind = "write" => l.op.tx \in 0 .. WriteSize(l.claimant)

SwitchedOn(l) ==
    /\ l.controller.active = 1 => /\ l.op.state = "flight" /\ l.op.kind = "transfer"
                                  /\ l.op.gen = l.controller.gen
    /\ l.uart = 1 => l.mode = "uart"
    /\ l.slave.on = 1 => l.mode = "target"
    /\ l.slave.on = 0 => l.slave = NoSlave

(* No byte on its way out is one of a buffer that was used again. *)
Sending(l) ==
    /\ Len(l.txFifo) <= FifoDepth
    /\ \A i \in 1 .. Len(l.txFifo) : l.txFifo[i] # Fill

LinkOK(l) == l \in LinkType /\ Held(l) /\ Operating(l) /\ SwitchedOn(l) /\ Sending(l)

(* The service knows whether it has the connector, in which mode, and which  *)
(* of its writes is in flight.                                               *)
ServiceInSync ==
    /\ svc.open = 1 <=> link.claimant = "service"
    /\ svc.open = 1 => /\ svc.suspended = 0
                       /\ link.mode = IF svc.transport = "i2c" THEN "target" ELSE "uart"
    /\ link.claimant = "script" => svc.suspended = 1
    /\ link.claimant = "service" /\ link.op.state = "flight" =>
           svc.gen = link.op.gen /\ svc.gen # 0
    /\ svc.torn = 0 /\ hist.torn = 0

(* The I2C target.  A buffer has one holder: the write being received, a     *)
(* queued event, the response to come or the response being read.            *)
Exclusive(t) ==
    /\ t.rxActive = 1 =>
         /\ t.rxSlot \in Slots
         /\ t.preload = 1 => t.preSlot # t.rxSlot
         /\ t.reading = 1 => t.readSlot # t.rxSlot
         /\ \A i \in 1 .. Len(t.events) : t.events[i].slot # t.rxSlot
    /\ t.preload = 1 =>
         /\ t.preSlot \in Slots
         /\ t.reading = 1 => t.readSlot # t.preSlot
         /\ \A i \in 1 .. Len(t.events) : t.events[i].slot # t.preSlot
    /\ t.reading = 1 /\ t.readSlot \in Slots =>
         \A i \in 1 .. Len(t.events) : t.events[i].slot # t.readSlot
    /\ \A i, j \in 1 .. Len(t.events) :
         i # j /\ t.events[i].slot \in Slots => t.events[i].slot # t.events[j].slot

Events(t) ==
    /\ Len(t.events) <= 2
    /\ \A i \in 1 .. Len(t.events) : t.events[i].type = "write" <=> t.events[i].slot \in Slots
    /\ t.discard = 1 => t.overflow = 1

(* The place of a queued write among the queued writes. *)
Rank(events, i) == IF i = 2 /\ events[1].type = "write" THEN 2 ELSE 1

QueuedWrites(events) ==
    IF \A i \in 1 .. Len(events) : events[i].type # "write" THEN 0
    ELSE IF Len(events) = 2 /\ events[1].type = "write" /\ events[2].type = "write" THEN 2
    ELSE 1

Whole(bytes, f) ==
    Len(bytes) >= FrameSize /\ \A k \in 1 .. Len(bytes) : bytes[k] = Token(f, k)

(* Unless a loss is to be reported, the queued writes are the transactions   *)
(* that are owed, in their order, each of them whole.                        *)
Delivers(t) ==
    t.overflow = 0 =>
      /\ Len(t.owed) = QueuedWrites(t.events)
      /\ \A i \in 1 .. Len(t.events) :
           t.events[i].type = "write" =>
             Whole(t.buf[t.events[i].slot], t.owed[Rank(t.events, i)])

IsResponse(bytes) == \E f \in Frames : bytes = Tokens(f, ResponseSize)

Responds(t) ==
    /\ t.preload = 1 => IsResponse(t.buf[t.preSlot])
    /\ t.reading = 1 /\ t.readSlot \in Slots => IsResponse(t.buf[t.readSlot])

TargetOK(t) == t \in TargetType /\ Exclusive(t) /\ Events(t) /\ Delivers(t) /\ Responds(t)

(* The bytes of the write in progress that have been taken from the FIFO. *)
Taken(t) == IF t.rxActive = 1 THEN t.buf[t.rxSlot] ELSE <<>>

(* They and those in the FIFO are the first n bytes of transaction f. *)
Receiving(t, fifo, f, n) ==
    /\ Len(Taken(t)) + Len(fifo) = n
    /\ \A k \in 1 .. Len(Taken(t)) : Taken(t)[k] = Token(f, k)
    /\ \A k \in 1 .. Len(fifo) : fifo[k] = Token(f, Len(Taken(t)) + k)

(* A transaction of the master that the target hears, or whose STOP waits. *)
Writing(s, p) == (s.heard = 1 /\ p.bus = "write") \/ (s.stop = 1 /\ p.sent > 0)
Reading(s, p) == (s.heard = 1 /\ p.bus = "read") \/ (s.stop = 1 /\ p.sent = 0)

(* What the master has read of transaction, from a response f or from none.  *)
ReadOf(read, f, n) ==
    \A i \in 1 .. Len(read) : read[i] = IF i <= n THEN Token(f, i) ELSE Fill

ReadWhole(p) ==
    p.bus = "read" => \E f \in Frames, n \in 0 .. ResponseSize : ReadOf(p.read, f, n)

ReadSoFar(t, read) ==
    /\ t.index = Len(read)
    /\ IF t.readSlot \in Slots
         THEN \E f \in Frames : /\ t.buf[t.readSlot] = Tokens(f, ResponseSize)
                                /\ ReadOf(read, f, ResponseSize)
         ELSE ReadOf(read, 1, 0)

(* The target, its peripheral and the master agree on the transaction. *)
OnTheBus(t, s, p) ==
    /\ s.heard = 1 => s.stop = 0 /\ s.on = 1 /\ p.bus # "idle"
    /\ s.stop = 1 => p.bus = "idle" /\ s.on = 1
    /\ p.bus = "read" => p.sent = 0
    /\ s.stop = 1 /\ p.sent > 0 => p.sent >= FrameSize
    /\ ~Writing(s, p) => t.rxActive = 0 /\ t.discard = 0 /\ s.fifo = <<>>
    /\ ~Reading(s, p) => t.reading = 0
    /\ Writing(s, p) /\ t.overflow = 0 => Receiving(t, s.fifo, p.asks, p.sent)
    /\ s.heard = 1 /\ p.bus = "read" =>
         IF t.reading = 0 THEN p.read = <<>> ELSE ReadSoFar(t, p.read)
    /\ ReadWhole(p)

TargetInv ==
    /\ TargetOK(link.target)
    /\ OnTheBus(link.target, link.slave, peer)
    /\ svc.pc = "respond" => svc.request \in Frames
    /\ hist.bad = 0

LinkInv == LinkTypeOK /\ LinkOK(link) /\ ServiceInSync /\ TargetInv

-----------------------------------------------------------------------------
LEMMA Sizes ==
    /\ GenMax \in Nat \ {0} /\ RingMax \in Nat \ {0} /\ BufferMax \in Nat \ {0}
    /\ FrameSize \in Nat \ {0} /\ PollMax \in Nat \ {0} /\ FifoDepth \in Nat \ {0}
    /\ TxSize \in Nat \ {0} /\ RxSize \in Nat \ {0}
    /\ ResponseSize \in Nat /\ FrameMax \in Nat /\ FaultMax \in Nat /\ ReadMax \in Nat
  BY LinkAssumption, ServiceAssumption

LEMMA NoUserFact == NoUser \notin Users /\ NoUser # "service" /\ NoUser # "script"
  BY LinkAssumption, ServiceAssumption

(* Switching a peripheral on or off changes nothing else. *)
LEMMA Switches ==
    ASSUME NEW l \in LinkType
    PROVE  /\ ClearRing(l) \in LinkType /\ StopUart(l) \in LinkType /\ StopI2c(l) \in LinkType
           /\ ResetUart(l) \in LinkType /\ StartUart(l) \in LinkType
  <1>1. NoSlave \in SlaveType /\ NoController \in ControllerType
    BY EmptySeq DEF NoSlave, NoController, SlaveType, ControllerType
  <1>2. ClearRing(l) \in LinkType
    BY EmptySeq DEF ClearRing, LinkType
  <1>3. ASSUME NEW m \in LinkType PROVE StopUart(m) \in LinkType /\ StartUart(m) \in LinkType
    BY <1>1, EmptySeq DEF StopUart, StartUart, LinkType
  <1>4. ASSUME NEW m \in LinkType PROVE ClearRing(m) \in LinkType
    BY EmptySeq DEF ClearRing, LinkType
  <1>5. StopI2c(l) \in LinkType
    BY <1>1 DEF StopI2c, LinkType
  <1> QED
    BY <1>2, <1>3, <1>4, <1>5 DEF ResetUart

LEMMA Initially ==
    /\ InitLink \in LinkType /\ NoOp \in OpType /\ NoTarget \in TargetType
    /\ NoSlave \in SlaveType /\ NoController \in ControllerType
  <1>1. NoOp \in OpType
    BY DEF NoOp, OpType
  <1>2. NoSlave \in SlaveType /\ NoController \in ControllerType
    BY EmptySeq DEF NoSlave, NoController, SlaveType, ControllerType
  <1>3. NoTarget \in TargetType
    BY EmptySeq DEF NoTarget, TargetType, Slots, NoSlot
  <1>4. InitLink \in LinkType
    BY <1>1, <1>2, <1>3, EmptySeq DEF InitLink, LinkType, Modes
  <1> QED
    BY <1>1, <1>2, <1>3, <1>4

Results == {"ok", "io", "deadline", "cancelled"}

(* What an end of the operation leaves alone. *)
SameHolder(m, l) ==
    /\ m.claimant = l.claimant /\ m.quarantined = l.quarantined /\ m.owner = l.owner
    /\ m.mode = l.mode /\ m.gen = l.gen /\ m.op.gen = l.op.gen /\ m.target = l.target

(* latch_terminal: nothing of the operation is left at work. *)
LEMMA LatchedOK ==
    ASSUME NEW l, LinkOK(l), l.op.state = "flight", NEW result \in Results
    PROVE  /\ LinkOK(Latched(l, result)) /\ SameHolder(Latched(l, result), l)
           /\ Latched(l, result).op.state = "terminal"
  <1> DEFINE q == IF l.op.kind = "transfer" THEN StopI2c(l)
                  ELSE IF result # "ok" THEN ResetUart(l) ELSE l
             r == Latched(l, result)
  <1>0. l \in LinkType
    BY DEF LinkOK
  <1>1. q \in LinkType
    BY <1>0, Switches
  <1>2. SameHolder(q, l) /\ q.op = l.op
    BY <1>0 DEF SameHolder, StopI2c, ResetUart, StartUart, StopUart, ClearRing, LinkType
  <1>3. /\ q.controller.active = 0
        /\ q.uart = 1 => l.uart = 1 \/ l.op.kind # "transfer"
        /\ q.slave = l.slave \/ q.slave = NoSlave
        /\ q.txFifo = l.txFifo \/ q.txFifo = <<>>
    BY <1>0 DEF StopI2c, ResetUart, StartUart, StopUart, ClearRing, LinkType, NoController,
       NoSlave, LinkOK, SwitchedOn, ControllerType
  <1>4. r = [q EXCEPT !.op.state = "terminal", !.op.result = result]
    BY DEF Latched
  <1> HIDE DEF q
  <1>5. /\ r \in LinkType /\ r.op.state = "terminal" /\ r.op.gen = q.op.gen
        /\ r.op.kind = q.op.kind /\ SameHolder(r, q) /\ r.controller = q.controller
        /\ r.uart = q.uart /\ r.slave = q.slave /\ r.txFifo = q.txFifo
    <2> DEFINE o == [q.op EXCEPT !.state = "terminal", !.result = result]
    <2>1. q.op \in OpType
      BY <1>1 DEF LinkType
    <2>2. o \in OpType /\ o.state = "terminal" /\ o.gen = q.op.gen /\ o.kind = q.op.kind
      BY <2>1 DEF OpType, Results
    <2>3. r = [q EXCEPT !.op = o]
      BY <1>1, <1>4 DEF LinkType
    <2> HIDE DEF o, r
    <2> QED
      BY <1>1, <2>2, <2>3 DEF SameHolder, LinkType
  <1> HIDE DEF r
  <1>6. SameHolder(r, l)
    BY <1>2, <1>5 DEF SameHolder
  <1>7. Held(r)
    BY <1>6 DEF LinkOK, Held, SameHolder
  <1>8. Operating(r)
    BY <1>2, <1>5, <1>6 DEF LinkOK, Operating, SameHolder, NoOp
  <1>9. SwitchedOn(r)
    BY <1>2, <1>3, <1>5, <1>6 DEF LinkOK, SwitchedOn, SameHolder, Operating, NoSlave
  <1>10. Sending(r)
    BY <1>3, <1>5, LinkAssumption DEF LinkOK, Sending
  <1> QED
    BY <1>5, <1>6, <1>7, <1>8, <1>9, <1>10 DEF LinkOK, r

LEMMA CancelledOK ==
    ASSUME NEW l, LinkOK(l), l.op.state # "none"
    PROVE  /\ LinkOK(OpCancelled(l)) /\ SameHolder(OpCancelled(l), l)
           /\ OpCancelled(l).op.state = "terminal"
  <1> DEFINE q == IF l.op.state = "flight" THEN Latched(l, "cancelled") ELSE l
             r == OpCancelled(l)
  <1>1. LinkOK(q) /\ SameHolder(q, l) /\ q.op.state = "terminal"
    <2>1. l.op.state \in {"flight", "terminal"}
      BY DEF LinkOK, LinkType, OpType
    <2> QED
      BY <2>1, LatchedOK DEF Results, SameHolder
  <1>2. r = [q EXCEPT !.op.observed = 1]
    BY DEF OpCancelled
  <1> HIDE DEF q, r
  <1>3. q \in LinkType
    BY <1>1 DEF LinkOK
  <1>4. /\ r \in LinkType /\ r.op.state = "terminal" /\ r.op.gen = q.op.gen
        /\ r.op.kind = q.op.kind /\ SameHolder(r, q) /\ r.controller = q.controller
        /\ r.uart = q.uart /\ r.slave = q.slave /\ r.txFifo = q.txFifo
    BY <1>1, <1>2, <1>3 DEF SameHolder, LinkType, OpType
  <1>5. LinkOK(r)
    BY <1>1, <1>4 DEF LinkOK, Held, Operating, SwitchedOn, Sending, SameHolder, NoOp
  <1> QED
    BY <1>1, <1>4, <1>5 DEF SameHolder, r

(* poll_uart: the bytes that went to the FIFO are bytes of the caller. *)
LEMMA PolledWriteOK ==
    ASSUME NEW l, LinkOK(l), l.op.state = "flight", l.op.kind = "write",
           NEW bytes \in Seq(Byte), Len(bytes) = WriteSize(l.claimant),
           \A i \in 1 .. Len(bytes) : bytes[i] # Fill
    PROVE  /\ LinkOK(PolledWrite(l, bytes)) /\ SameHolder(PolledWrite(l, bytes), l)
           /\ PolledWrite(l, bytes).op.state \in {"flight", "terminal"}
  <1> DEFINE n == Least(Least(PollMax, Len(bytes) - l.op.tx), FifoDepth - Len(l.txFifo))
             s == SubSeq(bytes, l.op.tx + 1, l.op.tx + n)
             m == [l EXCEPT !.op.tx = @ + n, !.txFifo = @ \o s]
  <1>0. l \in LinkType /\ l.op \in OpType /\ l.txFifo \in Seq(Byte)
    BY DEF LinkOK, LinkType
  <1>1. l.op.tx \in 0 .. Len(bytes) /\ Len(l.txFifo) \in 0 .. FifoDepth
    BY <1>0 DEF LinkOK, Operating, Sending
  <1>2. n \in Nat /\ l.op.tx + n <= Len(bytes) /\ Len(l.txFifo) + n <= FifoDepth
    <2> DEFINE a == Len(bytes) - l.op.tx
               b == FifoDepth - Len(l.txFifo)
               w == Least(PollMax, a)
    <2>1. /\ a \in Nat /\ b \in Nat /\ PollMax \in Nat
          /\ l.op.tx + a = Len(bytes) /\ Len(l.txFifo) + b = FifoDepth
          /\ l.op.tx \in Nat /\ Len(l.txFifo) \in Nat
      BY <1>1, Sizes
    <2>2. n = Least(w, b)
      OBVIOUS
    <2> HIDE DEF a, b
    <2>3. w \in Nat /\ w <= a
      BY <2>1 DEF Least
    <2> HIDE DEF w, n
    <2>4. n \in Nat /\ n <= a /\ n <= b
      BY <2>1, <2>2, <2>3 DEF Least
    <2> QED
      BY <2>1, <2>4
  <1> HIDE DEF n
  <1>3. /\ s \in Seq(Byte) /\ Len(s) = n
        /\ \A i \in 1 .. n : s[i] # Fill
    <2>1. l.op.tx \in Nat
      BY <1>1
    <2>2. \A i \in l.op.tx + 1 .. l.op.tx + n : bytes[i] \in Byte /\ bytes[i] # Fill
      BY <1>1, <1>2, <2>1
    <2> DEFINE a == l.op.tx + 1
               b == l.op.tx + n
    <2>3. /\ a \in Int /\ b \in Int /\ b - a + 1 = n
          /\ (a <= b => b - a + 1 = n) /\ (~(a <= b) => n = 0)
      BY <1>2, <2>1
    <2>4. \A i \in a .. b : bytes[i] \in Byte /\ bytes[i] # Fill
      BY <2>2
    <2>5. s = SubSeq(bytes, a, b)
      OBVIOUS
    <2> HIDE DEF a, b, s
    <2>6. /\ SubSeq(bytes, a, b) \in Seq(Byte)
          /\ Len(SubSeq(bytes, a, b)) = IF a <= b THEN b - a + 1 ELSE 0
          /\ \A i \in 1 .. b - a + 1 : SubSeq(bytes, a, b)[i] = bytes[a + i - 1]
      BY <2>3, <2>4, SubSeqProperties
    <2>7. \A i \in 1 .. n : a + i - 1 \in a .. b
      BY <1>2, <2>3
    <2> QED
      BY <2>3, <2>4, <2>5, <2>6, <2>7
  <1> HIDE DEF s
  <1>4. /\ l.txFifo \o s \in Seq(Byte) /\ Len(l.txFifo \o s) = Len(l.txFifo) + n
        /\ \A i \in 1 .. Len(l.txFifo \o s) : (l.txFifo \o s)[i] # Fill
    <2>1. /\ l.txFifo \o s \in Seq(Byte) /\ Len(l.txFifo \o s) = Len(l.txFifo) + Len(s)
          /\ \A i \in 1 .. Len(l.txFifo) + Len(s) :
               (l.txFifo \o s)[i] = IF i <= Len(l.txFifo) THEN l.txFifo[i] ELSE s[i - Len(l.txFifo)]
      BY <1>0, <1>3, ConcatProperties
    <2>2. \A i \in 1 .. Len(l.txFifo) : l.txFifo[i] # Fill
      BY DEF LinkOK, Sending
    <2>3. Len(l.txFifo) \in Nat
      BY <1>1
    <2>4. ASSUME NEW i \in 1 .. Len(l.txFifo) + n PROVE (l.txFifo \o s)[i] # Fill
      <3>1. CASE i <= Len(l.txFifo)
        BY <1>3, <2>1, <2>2, <2>3, <2>4, <3>1
      <3>2. CASE ~(i <= Len(l.txFifo))
        <4>1. i - Len(l.txFifo) \in 1 .. n
          BY <1>2, <2>3, <2>4, <3>2
        <4> QED
          BY <1>3, <2>1, <2>4, <3>2, <4>1
      <3> QED
        BY <3>1, <3>2
    <2> QED
      BY <1>3, <2>1, <2>4
  <1>5. /\ m \in LinkType /\ SameHolder(m, l) /\ m.txFifo = l.txFifo \o s
        /\ m.op.state = "flight" /\ m.op.kind = "write" /\ m.op.tx = l.op.tx + n
        /\ m.controller = l.controller /\ m.uart = l.uart /\ m.slave = l.slave
    <2> DEFINE o == [l.op EXCEPT !.tx = @ + n]
    <2>1. /\ o \in OpType /\ o.state = "flight" /\ o.kind = "write" /\ o.tx = l.op.tx + n
          /\ o.gen = l.op.gen
      BY <1>0, <1>2, SMTT(30) DEF OpType
    <2>2. m = [l EXCEPT !.op = o, !.txFifo = l.txFifo \o s]
      BY <1>0 DEF LinkType
    <2> HIDE DEF o, m
    <2> QED
      BY <1>0, <1>4, <2>1, <2>2 DEF SameHolder, LinkType
  <1>6. PolledWrite(l, bytes) =
          IF m.op.tx = Len(bytes) /\ m.txFifo = <<>> THEN Latched(m, "ok") ELSE m
    BY DEF PolledWrite, n, s
  <1> HIDE DEF m
  <1>7. LinkOK(m)
    BY <1>1, <1>2, <1>4, <1>5
    DEF LinkOK, Held, Operating, SwitchedOn, Sending, SameHolder, NoOp
  <1> QED
    BY <1>5, <1>6, <1>7, LatchedOK DEF SameHolder, Results

LEMMA StartedOK ==
    ASSUME NEW l, LinkOK(l), l.op.state = "flight", l.op.kind = "transfer"
    PROVE  LET m == ControllerStarted(l)
           IN  LinkOK(m) /\ SameHolder(m, l) /\ m.op.state = "flight" /\ m.op.kind = "transfer"
  <1> DEFINE c == FillTx([NoController EXCEPT !.active = 1, !.gen = l.op.gen])
             m == [l EXCEPT !.op.started = 1, !.slave = NoSlave, !.controller = c]
             o == [l.op EXCEPT !.started = 1]
  <1>0. l \in LinkType /\ l.op \in OpType
    BY DEF LinkOK, LinkType
  <1>1. /\ c \in ControllerType /\ c.gen = l.op.gen
    <2> DEFINE d == [NoController EXCEPT !.active = 1, !.gen = l.op.gen]
    <2>1. d \in ControllerType /\ d.gen = l.op.gen
      BY <1>0 DEF NoController, ControllerType, OpType
    <2> HIDE DEF d
    <2>2. Least(Total, d.done + FifoDepth) \in Nat
      BY <2>1, Sizes DEF ControllerType, Least, Total
    <2>3. FillTx(d) \in ControllerType /\ FillTx(d).gen = d.gen
      BY <2>1, <2>2 DEF FillTx, ControllerType
    <2> QED
      BY <2>1, <2>3 DEF d
  <1>2. o \in OpType /\ o.state = "flight" /\ o.kind = "transfer" /\ o.gen = l.op.gen
    BY <1>0 DEF OpType
  <1>3. m = [l EXCEPT !.op = o, !.slave = NoSlave, !.controller = c]
    BY <1>0 DEF LinkType
  <1> HIDE DEF c, m, o
  <1>4. /\ m \in LinkType /\ SameHolder(m, l) /\ m.txFifo = l.txFifo /\ m.op = o
        /\ m.controller = c /\ m.uart = l.uart /\ m.slave = NoSlave
    BY <1>0, <1>1, <1>2, <1>3, Initially DEF SameHolder, LinkType
  <1>5. LinkOK(m)
    BY <1>1, <1>2, <1>4
    DEF LinkOK, Held, Operating, SwitchedOn, Sending, SameHolder, NoOp, NoSlave
  <1>6. ControllerStarted(l) = IF l.op.started = 1 THEN l ELSE m
    BY DEF ControllerStarted, m, c
  <1> QED
    BY <1>2, <1>4, <1>5, <1>6 DEF SameHolder

LEMMA PolledI2cOK ==
    ASSUME NEW l0, LinkOK(l0), l0.op.state = "flight", l0.op.kind = "transfer"
    PROVE  /\ LinkOK(PolledI2c(l0)) /\ SameHolder(PolledI2c(l0), l0)
           /\ PolledI2c(l0).op.state \in {"flight", "terminal"}
  <1> DEFINE l == ControllerStarted(l0)
             c == l.controller
             dt == Least(PollMax, Least(c.commands, TxSize) - l.op.tx)
             dr == Least(PollMax - dt, c.received - l.op.rx)
             m == [l EXCEPT !.op.tx = @ + dt, !.op.rx = @ + dr]
             o == [l.op EXCEPT !.tx = @ + dt, !.rx = @ + dr]
  <1>1. /\ LinkOK(l) /\ SameHolder(l, l0) /\ l.op.state = "flight" /\ l.op.kind = "transfer"
    BY StartedOK
  <1> HIDE DEF l
  <1>2. l \in LinkType /\ l.op \in OpType /\ c \in ControllerType
    BY <1>1 DEF LinkOK, LinkType
  <1>3. dt \in Int /\ dr \in Int
    BY <1>2, Sizes DEF Least, OpType, ControllerType
  <1>6. PolledI2c(l0) =
          IF c.aborted = 1 THEN Latched(l, "io")
          ELSE IF m.op.tx = TxSize /\ m.op.rx = RxSize /\ c.commands = Total
                  /\ c.received = RxSize /\ c.done = Total
            THEN Latched(m, "ok")
          ELSE m
    BY DEF PolledI2c, l
  <1> HIDE DEF dt, dr
  <1>4. o \in OpType /\ o.state = "flight" /\ o.kind = "transfer" /\ o.gen = l.op.gen
    <2>1. l.op \in OpType /\ l.op.state = "flight" /\ l.op.kind = "transfer"
      BY <1>1, <1>2
    <2>2. l.op.tx + dt \in Int /\ l.op.rx + dr \in Int
      BY <1>3, <2>1 DEF OpType
    <2>3. o = [l.op EXCEPT !.tx = l.op.tx + dt, !.rx = l.op.rx + dr]
      BY <2>1 DEF OpType
    <2> QED
      BY <2>1, <2>2, <2>3 DEF OpType
  <1>5. m = [l EXCEPT !.op = o]
    BY <1>2 DEF LinkType
  <1> HIDE DEF m, o
  <1>7. /\ m \in LinkType /\ SameHolder(m, l) /\ m.txFifo = l.txFifo /\ m.op = o
        /\ m.controller = l.controller /\ m.uart = l.uart /\ m.slave = l.slave
    BY <1>2, <1>4, <1>5 DEF SameHolder, LinkType
  <1>8. LinkOK(m)
    BY <1>1, <1>4, <1>7
    DEF LinkOK, Held, Operating, SwitchedOn, Sending, SameHolder, NoOp
  <1>9. m.op.state = "flight"
    BY <1>4, <1>7
  <1> QED
    BY <1>1, <1>6, <1>7, <1>8, <1>9, LatchedOK DEF SameHolder, Results

(* k210_external_poll *)
LEMMA PolledOK ==
    ASSUME NEW l, LinkOK(l), l.op.state # "none",
           NEW bytes \in Seq(Byte), Len(bytes) = WriteSize(l.claimant),
           \A i \in 1 .. Len(bytes) : bytes[i] # Fill
    PROVE  /\ LinkOK(OpPolled(l, bytes)) /\ SameHolder(OpPolled(l, bytes), l)
           /\ OpPolled(l, bytes).op.state \in {"flight", "terminal"}
  <1> DEFINE p == IF l.op.state = "terminal" THEN l
                  ELSE IF l.late = 1 THEN Latched(l, "deadline")
                  ELSE IF l.op.kind = "write" THEN PolledWrite(l, bytes)
                  ELSE PolledI2c(l)
             r == [p EXCEPT !.op.observed = 1]
             o == [p.op EXCEPT !.observed = 1]
  <1>1. LinkOK(p) /\ SameHolder(p, l) /\ p.op.state \in {"flight", "terminal"}
    <2>1. l.op.state \in {"flight", "terminal"} /\ l.op.kind \in {"none", "write", "transfer"}
      BY DEF LinkOK, LinkType, OpType
    <2>2. l.op.kind \in {"write", "transfer"}
      BY DEF LinkOK, Operating
    <2>3. SameHolder(l, l)
      BY DEF SameHolder
    <2> QED
      BY <2>1, <2>2, <2>3, LatchedOK, PolledWriteOK, PolledI2cOK DEF Results
  <1>6. OpPolled(l, bytes) = IF p.op.state = "terminal" THEN r ELSE p
    BY DEF OpPolled
  <1> HIDE DEF p
  <1>2. p \in LinkType /\ p.op \in OpType
    BY <1>1 DEF LinkOK, LinkType
  <1>3. o \in OpType /\ o.state = p.op.state /\ o.gen = p.op.gen /\ o.kind = p.op.kind
    BY <1>2 DEF OpType
  <1>4. r = [p EXCEPT !.op = o]
    BY <1>2 DEF LinkType
  <1> HIDE DEF r, o
  <1>5. /\ r \in LinkType /\ r.op = o /\ SameHolder(r, p) /\ r.controller = p.controller
        /\ r.uart = p.uart /\ r.slave = p.slave /\ r.txFifo = p.txFifo
    BY <1>2, <1>3, <1>4 DEF SameHolder, LinkType
  <1>7. p.op.state = "terminal" => LinkOK(r)
    BY <1>1, <1>3, <1>5 DEF LinkOK, Held, Operating, SwitchedOn, Sending, SameHolder, NoOp
  <1> QED
    BY <1>1, <1>3, <1>5, <1>6, <1>7 DEF SameHolder

-----------------------------------------------------------------------------
(* stop_mode: everything is off, whatever the mode was. *)
Stopped(m) ==
    /\ m.mode = "off" /\ m.op = NoOp /\ m.target = NoTarget
    /\ m.controller.active = 0 /\ m.uart = 0 /\ m.slave = NoSlave /\ m.ring = <<>>

SameClaim(m, l) ==
    /\ m.claimant = l.claimant /\ m.quarantined = l.quarantined /\ m.owner = l.owner
    /\ m.gen = l.gen

LEMMA StopModeOK ==
    ASSUME NEW l, LinkOK(l)
    PROVE  /\ StopMode(l) \in LinkType /\ Stopped(StopMode(l)) /\ SameClaim(StopMode(l), l)
           /\ Sending(StopMode(l))
  <1> DEFINE q == CASE l.mode \in {"controller", "target"} -> StopI2c(l)
                    [] l.mode = "uart" -> StopUart(l)
                    [] OTHER -> l
             c == ClearRing(q)
             r == StopMode(l)
  <1>0. l \in LinkType /\ l.mode \in Modes
    BY DEF LinkOK, LinkType
  <1>1. /\ q \in LinkType
        /\ SameClaim(q, l) /\ q.controller.active = 0 /\ q.uart = 0 /\ q.slave = NoSlave
        /\ q.txFifo \in {l.txFifo, <<>>}
    <2>1. CASE l.mode \in {"controller", "target"}
      <3>1. q = StopI2c(l)
        BY <2>1
      <3>2. q \in LinkType
        BY <1>0, <3>1, Switches
      <3>3. SameClaim(q, l) /\ q.controller = NoController /\ q.slave = NoSlave /\ q.uart = l.uart
            /\ q.txFifo = l.txFifo
        BY <1>0, <3>1 DEF StopI2c, LinkType, SameClaim
      <3>4. l.uart = 0
        BY <1>0, <2>1 DEF LinkOK, SwitchedOn, LinkType
      <3> QED
        BY <3>2, <3>3, <3>4 DEF NoController, NoSlave
    <2>2. CASE l.mode = "uart"
      <3>1. q = StopUart(l)
        BY <2>2
      <3>2. q \in LinkType
        BY <1>0, <3>1, Switches
      <3>3. SameClaim(q, l) /\ q.controller = l.controller /\ q.slave = l.slave /\ q.uart = 0
            /\ q.txFifo = <<>>
        BY <1>0, <3>1 DEF StopUart, LinkType, SameClaim
      <3>4. l.controller.active = 0 /\ l.slave = NoSlave
        BY <1>0, <2>2 DEF LinkOK, SwitchedOn, Operating, LinkType, ControllerType, SlaveType
      <3> QED
        BY <3>2, <3>3, <3>4
    <2>3. CASE l.mode = "off"
      <3>1. q = l
        BY <2>3
      <3>2. l.controller.active = 0 /\ l.slave = NoSlave /\ l.uart = 0
        BY <1>0, <2>3
        DEF LinkOK, SwitchedOn, Operating, LinkType, ControllerType, SlaveType, NoOp
      <3> QED
        BY <1>0, <3>1, <3>2 DEF SameClaim
    <2> QED
      BY <1>0, <2>1, <2>2, <2>3 DEF Modes
  <1>2. r = [c EXCEPT !.target = NoTarget, !.op = NoOp, !.mode = "off"]
    BY DEF StopMode
  <1> HIDE DEF q
  <1>3. /\ c \in LinkType /\ SameClaim(c, q) /\ c.controller = q.controller /\ c.uart = q.uart
        /\ c.slave = q.slave /\ c.txFifo = q.txFifo /\ c.ring = <<>>
    BY <1>1, EmptySeq DEF ClearRing, LinkType, SameClaim
  <1> HIDE DEF c, r
  <1>4. /\ r \in LinkType /\ SameClaim(r, c) /\ r.controller = c.controller /\ r.uart = c.uart
        /\ r.slave = c.slave /\ r.txFifo = c.txFifo /\ r.ring = c.ring
        /\ r.mode = "off" /\ r.op = NoOp /\ r.target = NoTarget
    BY <1>2, <1>3, Initially DEF LinkType, SameClaim, Modes
  <1>5. Sending(r)
    BY <1>1, <1>3, <1>4, Sizes DEF LinkOK, Sending
  <1>6. Stopped(r) /\ SameClaim(r, l)
    BY <1>1, <1>3, <1>4 DEF Stopped, SameClaim
  <1> QED
    BY <1>4, <1>5, <1>6 DEF r

(* configure_uart, configure_i2c_controller, configure_i2c_target *)
LEMMA ConfiguredOK ==
    ASSUME NEW l, LinkOK(l), l.op.state # "flight", l.claimant \in {"service", "script"},
           NEW mode \in Features[l.claimant]
    PROVE  LET m == Configured(l, mode)
           IN  /\ LinkOK(m) /\ SameClaim(m, l)
               /\ m.mode = mode /\ m.op = NoOp /\ m.target = NoTarget
               /\ m.slave = IF mode = "target" THEN [NoSlave EXCEPT !.on = 1] ELSE NoSlave
  <1> DEFINE s == StopMode(l)
             op == IF l.mode = "off" THEN l.op ELSE NoOp
             m == [s EXCEPT !.op = op, !.mode = mode]
             r == Configured(l, mode)
  <1>0. l \in LinkType /\ mode \in {"uart", "controller", "target"}
    BY ServiceAssumption DEF LinkOK
  <1>1. op = NoOp
    BY DEF LinkOK, Operating
  <1>2. s \in LinkType /\ Stopped(s) /\ SameClaim(s, l) /\ Sending(s)
    BY StopModeOK
  <1>r. r = CASE mode = "uart" -> StartUart(m)
              [] mode = "target" -> [m EXCEPT !.slave = [NoSlave EXCEPT !.on = 1]]
              [] OTHER -> m
    BY DEF Configured
  <1> HIDE DEF s, op
  <1>3. /\ m \in LinkType /\ SameClaim(m, s) /\ m.mode = mode /\ m.op = NoOp
        /\ m.target = NoTarget /\ m.controller = s.controller /\ m.uart = 0 /\ m.slave = s.slave
        /\ m.txFifo = s.txFifo
    BY <1>0, <1>1, <1>2, Initially DEF LinkType, SameClaim, Modes, Stopped
  <1> HIDE DEF m
  <1>4. /\ r \in LinkType /\ SameClaim(r, m) /\ r.mode = mode /\ r.op = NoOp
        /\ r.target = NoTarget /\ r.controller.active = 0
        /\ r.uart = 1 => mode = "uart"
        /\ r.slave = IF mode = "target" THEN [NoSlave EXCEPT !.on = 1] ELSE NoSlave
        /\ r.txFifo \in {m.txFifo, <<>>}
    <2>1. CASE mode = "uart"
      <3>1. r = StartUart(m)
        BY <1>r, <2>1
      <3>2. r \in LinkType
        BY <1>3, <3>1, Switches
      <3>3. /\ SameClaim(r, m) /\ r.mode = mode /\ r.op = NoOp /\ r.target = NoTarget
            /\ r.controller = NoController /\ r.slave = NoSlave /\ r.txFifo = <<>>
        BY <1>3, <3>1 DEF StartUart, LinkType, SameClaim
      <3> QED
        BY <2>1, <3>2, <3>3 DEF NoController
    <2>2. CASE mode = "target"
      <3> DEFINE on == [NoSlave EXCEPT !.on = 1]
      <3>1. r = [m EXCEPT !.slave = on]
        BY <1>r, <2>2
      <3>2. on \in SlaveType
        BY Initially DEF SlaveType
      <3>3. /\ r \in LinkType /\ SameClaim(r, m) /\ r.mode = mode /\ r.op = NoOp
            /\ r.target = NoTarget /\ r.controller = m.controller /\ r.uart = 0
            /\ r.txFifo = m.txFifo /\ r.slave = on
        <4> HIDE DEF on
        <4> QED
          BY <1>3, <3>1, <3>2 DEF LinkType, SameClaim
      <3> QED
        BY <1>2, <1>3, <2>2, <3>3 DEF Stopped
    <2>3. CASE mode = "controller"
      <3>1. r = m
        BY <1>r, <2>3
      <3> QED
        BY <1>2, <1>3, <2>3, <3>1 DEF SameClaim, Stopped
    <2> QED
      BY <1>0, <2>1, <2>2, <2>3
  <1> HIDE DEF r
  <1>6. LinkOK(r)
    <2>1. Held(r)
      BY <1>0, <1>2, <1>3, <1>4, NoUserFact DEF LinkOK, Held, SameClaim
    <2>2. Operating(r)
      BY <1>0, <1>4 DEF Operating, NoOp
    <2>3. SwitchedOn(r)
      BY <1>4 DEF SwitchedOn, NoSlave
    <2>4. Sending(r)
      BY <1>2, <1>3, <1>4, Sizes, SMTT(30) DEF Sending
    <2> QED
      BY <1>4, <2>1, <2>2, <2>3, <2>4 DEF LinkOK
  <1> QED
    BY <1>2, <1>3, <1>4, <1>6 DEF SameClaim, r

(* hk_external_link_open, k210_external_open *)
LEMMA OpenedOK ==
    ASSUME NEW l, LinkOK(l), CanOpen(l), NEW user \in {"service", "script"}
    PROVE  LET m == Opened(l, user)
           IN  /\ LinkOK(m) /\ m.claimant = user /\ m.quarantined = 0 /\ m.mode = "off"
               /\ m.op = NoOp /\ m.target = NoTarget /\ m.slave = NoSlave
  <1> DEFINE m == Opened(l, user)
  <1>0. l \in LinkType /\ l.claimant = NoUser /\ l.mode = "off" /\ l.op = NoOp
    BY DEF LinkOK, CanOpen, Held, Operating
  <1>1. l.slave = NoSlave /\ l.controller.active = 0 /\ l.uart = 0
    BY <1>0 DEF LinkOK, SwitchedOn, LinkType, SlaveType, ControllerType, NoOp
  <1>2. m = [InitLink EXCEPT !.gen = l.gen, !.claimant = user, !.owner = user, !.uart = l.uart,
                             !.slave = l.slave, !.controller = l.controller, !.txFifo = l.txFifo]
    BY DEF Opened
  <1>3. user \in Users
    BY ServiceAssumption
  <1>4. /\ InitLink.mode = "off" /\ InitLink.op = NoOp /\ InitLink.target = NoTarget
        /\ InitLink.quarantined = 0
    BY DEF InitLink
  <1> HIDE DEF m
  <1>5. m \in LinkType
    BY <1>0, <1>2, <1>3, Initially DEF LinkType
  <1>6. /\ m.claimant = user /\ m.owner = user /\ m.quarantined = 0 /\ m.mode = "off"
        /\ m.op = NoOp /\ m.target = NoTarget /\ m.slave = l.slave /\ m.uart = l.uart
        /\ m.controller = l.controller /\ m.txFifo = l.txFifo
    BY <1>0, <1>2, <1>4, Initially DEF LinkType
  <1>7. LinkOK(m)
    BY <1>0, <1>1, <1>5, <1>6, NoUserFact
    DEF LinkOK, Held, Operating, SwitchedOn, Sending, NoOp, NoSlave
  <1> QED
    BY <1>1, <1>6, <1>7 DEF m

(* hk_external_link_retire *)
LEMMA RetiredOK ==
    ASSUME NEW l, LinkOK(l), NEW user \in {"service", "script"}, NEW expired
    PROVE  LET m == Retired(l, user, expired)
           IN  /\ LinkOK(m)
               /\ l.claimant = user => m.claimant = NoUser /\ m.mode = "off"
               /\ l.claimant # user => m = l
  <1> DEFINE s == StopMode(l)
             m == [s EXCEPT !.owner = NoUser, !.claimant = NoUser,
                            !.quarantined = IF expired THEN 1 ELSE @]
  <1>1. CASE l.claimant # user
    BY <1>1 DEF Retired
  <1>2. CASE l.claimant = user
    <2>1. Retired(l, user, expired) = m
      BY <1>2 DEF Retired
    <2>2. s \in LinkType /\ Stopped(s) /\ SameClaim(s, l) /\ Sending(s)
      BY StopModeOK
    <2> HIDE DEF s
    <2>3. /\ m \in LinkType /\ m.claimant = NoUser /\ m.owner = NoUser
          /\ m.mode = s.mode /\ m.op = s.op /\ m.controller = s.controller /\ m.uart = s.uart
          /\ m.slave = s.slave /\ m.txFifo = s.txFifo
      BY <2>2 DEF LinkType
    <2> HIDE DEF m
    <2>4. LinkOK(m)
      BY <2>2, <2>3 DEF LinkOK, Held, Operating, SwitchedOn, Sending, Stopped, NoOp, NoSlave
    <2> QED
      BY <1>2, <2>1, <2>2, <2>3, <2>4 DEF Stopped
  <1> QED
    BY <1>1, <1>2

TransportMode(transport) == IF transport = "i2c" THEN "target" ELSE "uart"

(* What a configuration for the service leaves. *)
ServiceModeSet(m, transport) ==
    /\ m.claimant = "service" /\ m.mode = TransportMode(transport) /\ m.op = NoOp
    /\ m.target = NoTarget
    /\ m.slave = IF transport = "i2c" THEN [NoSlave EXCEPT !.on = 1] ELSE NoSlave

(* service_configure *)
LEMMA ServiceConfiguredOK ==
    ASSUME NEW l, LinkOK(l), NEW transport \in {"uart", "i2c"},
           l.claimant = "service" => l.op.state # "flight"
    PROVE  LET m == ServiceConfigured(l, transport)
           IN  /\ LinkOK(m)
               /\ l.claimant = "service" => ServiceModeSet(m, transport)
               /\ l.claimant # "service" => m = l
  <1>1. CASE l.claimant # "service"
    BY <1>1 DEF ServiceConfigured, CanConfigure
  <1>2. CASE l.claimant = "service"
    <2>1. l.quarantined = 0
      BY <1>2, NoUserFact DEF LinkOK, Held, LinkType
    <2>2. TransportMode(transport) \in Features[l.claimant]
      BY <1>2, ServiceAssumption DEF TransportMode
    <2>3. CanConfigure(l, "service", TransportMode(transport))
      BY <1>2, <2>1, <2>2 DEF CanConfigure
    <2>4. ServiceConfigured(l, transport) = Configured(l, TransportMode(transport))
      BY <2>3 DEF ServiceConfigured, TransportMode
    <2>5. LET m == Configured(l, TransportMode(transport))
          IN  /\ LinkOK(m) /\ SameClaim(m, l)
              /\ m.mode = TransportMode(transport) /\ m.op = NoOp /\ m.target = NoTarget
              /\ m.slave = IF TransportMode(transport) = "target"
                             THEN [NoSlave EXCEPT !.on = 1] ELSE NoSlave
      BY <1>2, <2>2, ConfiguredOK
    <2> QED
      BY <1>2, <2>4, <2>5 DEF ServiceModeSet, SameClaim, TransportMode
  <1> QED
    BY <1>1, <1>2

(* service_acquire *)
LEMMA ServiceAcquiredOK ==
    ASSUME NEW l, LinkOK(l), NEW transport \in {"uart", "i2c"}
    PROVE  LET m == ServiceAcquired(l, transport)
           IN  /\ LinkOK(m)
               /\ Acquires(l) => ServiceModeSet(m, transport)
               /\ ~Acquires(l) => m = l
  <1>1. CASE ~Acquires(l)
    BY <1>1 DEF ServiceAcquired
  <1>2. CASE Acquires(l)
    <2> DEFINE o == Opened(l, "service")
    <2>1. LinkOK(o) /\ o.claimant = "service" /\ o.op = NoOp
      BY <1>2, OpenedOK DEF Acquires
    <2>2. o.op.state # "flight"
      BY <2>1 DEF NoOp
    <2>3. ServiceAcquired(l, transport) = ServiceConfigured(o, transport)
      BY <1>2 DEF ServiceAcquired
    <2> HIDE DEF o
    <2> QED
      BY <1>2, <2>1, <2>2, <2>3, ServiceConfiguredOK
  <1> QED
    BY <1>1, <1>2

(* The I2C target between its interrupt and the main loop. *)

(* Who holds a buffer. *)
LEMMA ReservedIs ==
    ASSUME NEW t \in TargetType, NEW s
    PROVE  Reserved(t, s) <=> \/ t.rxActive = 1 /\ t.rxSlot = s
                              \/ t.reading = 1 /\ t.readSlot = s
                              \/ t.preload = 1 /\ t.preSlot = s
                              \/ \E i \in 1 .. Len(t.events) : t.events[i].slot = s
  <1>1. DOMAIN t.events = 1 .. Len(t.events)
    BY DEF TargetType
  <1> QED
    BY <1>1 DEF Reserved

LEMMA FreeBufferOK ==
    ASSUME NEW t, FreeBuffer(t) # NoSlot
    PROVE  FreeBuffer(t) \in Slots /\ ~Reserved(t, FreeBuffer(t))
  BY DEF FreeBuffer, Slots, NoSlot

LEMMA FreeBufferIn == ASSUME NEW t PROVE FreeBuffer(t) \in 0 .. 2
  BY DEF FreeBuffer, NoSlot

(* The fields of the target that the interrupt and the main loop share. *)
SameTarget(u, t) ==
    /\ u.events = t.events /\ u.overflow = t.overflow /\ u.discard = t.discard
    /\ u.rxActive = t.rxActive /\ u.rxSlot = t.rxSlot
    /\ u.preload = t.preload /\ u.preSlot = t.preSlot
    /\ u.reading = t.reading /\ u.readSlot = t.readSlot /\ u.index = t.index
    /\ u.owed = t.owed

(* Buffers that nobody holds may change. *)
LEMMA SameHeld ==
    ASSUME NEW t, TargetOK(t), NEW u \in TargetType, SameTarget(u, t),
           \A s \in Slots : Reserved(t, s) /\ ~(t.rxActive = 1 /\ t.rxSlot = s)
                              => u.buf[s] = t.buf[s]
    PROVE  TargetOK(u)
  <1>0. t \in TargetType
    BY DEF TargetOK
  <1>1. Exclusive(u) /\ Events(u)
    BY DEF TargetOK, Exclusive, Events, SameTarget
  <1>2. ASSUME NEW i \in 1 .. Len(t.events), t.events[i].type = "write"
        PROVE  u.buf[t.events[i].slot] = t.buf[t.events[i].slot]
    <2>1. t.events[i].slot \in Slots
      BY <1>2 DEF TargetOK, Events
    <2>2. Reserved(t, t.events[i].slot)
      BY <1>0, ReservedIs
    <2>3. ~(t.rxActive = 1 /\ t.rxSlot = t.events[i].slot)
      BY DEF TargetOK, Exclusive
    <2> QED
      BY <2>1, <2>2, <2>3
  <1>3. Delivers(u)
    BY <1>2 DEF TargetOK, Delivers, SameTarget
  <1>4. t.preload = 1 => u.buf[t.preSlot] = t.buf[t.preSlot]
    BY <1>0, ReservedIs DEF TargetOK, Exclusive
  <1>5. t.reading = 1 /\ t.readSlot \in Slots => u.buf[t.readSlot] = t.buf[t.readSlot]
    BY <1>0, ReservedIs DEF TargetOK, Exclusive
  <1>6. Responds(u)
    BY <1>4, <1>5 DEF TargetOK, Responds, SameTarget
  <1> QED
    BY <1>1, <1>3, <1>6 DEF TargetOK

LEMMA FreedOK ==
    ASSUME NEW t \in TargetType
    PROVE  /\ Freed(t) \in TargetType /\ SameTarget(Freed(t), t)
           /\ \A s \in Slots : Reserved(t, s) => Freed(t).buf[s] = t.buf[s]
           /\ TargetOK(t) => TargetOK(Freed(t))
  <1> DEFINE b == [s \in Slots |-> IF Reserved(t, s) THEN t.buf[s] ELSE <<>>]
  <1>1. Freed(t) = [t EXCEPT !.buf = b]
    BY DEF Freed
  <1>2. b \in [{0, 1} -> Seq(Byte)]
    BY EmptySeq DEF TargetType, Slots
  <1>3. \A s \in Slots : Reserved(t, s) => b[s] = t.buf[s]
    OBVIOUS
  <1> HIDE DEF b
  <1>4. /\ Freed(t) \in TargetType /\ SameTarget(Freed(t), t) /\ Freed(t).buf = b
    BY <1>1, <1>2 DEF TargetType, SameTarget
  <1> QED
    BY <1>3, <1>4, SameHeld

(* A free buffer is taken for a write that begins. *)
Claim(t, s) == [t EXCEPT !.rxSlot = s, !.rxActive = 1, !.buf[s] = <<>>]

LEMMA ClaimOK ==
    ASSUME NEW t, TargetOK(t), t.rxActive = 0, NEW s \in Slots, ~Reserved(t, s)
    PROVE  /\ TargetOK(Claim(t, s)) /\ Claim(t, s).rxActive = 1 /\ Claim(t, s).rxSlot = s
           /\ Claim(t, s).buf[s] = <<>> /\ Claim(t, s).reading = t.reading
           /\ Claim(t, s).overflow = t.overflow /\ Claim(t, s).discard = t.discard
  <1> DEFINE b == [t.buf EXCEPT ![s] = <<>>]
             c == Claim(t, s)
  <1>0. t \in TargetType
    BY DEF TargetOK
  <1>1. b \in [{0, 1} -> Seq(Byte)] /\ b[s] = <<>> /\ \A r \in Slots \ {s} : b[r] = t.buf[r]
    BY <1>0, EmptySeq DEF TargetType, Slots
  <1>2. c = [t EXCEPT !.rxSlot = s, !.rxActive = 1, !.buf = b]
    BY <1>0 DEF TargetType, Claim
  <1> HIDE DEF b, c
  <1>3. /\ c \in TargetType /\ c.rxActive = 1 /\ c.rxSlot = s /\ c.buf = b
        /\ c.events = t.events /\ c.overflow = t.overflow /\ c.discard = t.discard
        /\ c.preload = t.preload /\ c.preSlot = t.preSlot
        /\ c.reading = t.reading /\ c.readSlot = t.readSlot /\ c.owed = t.owed
    <2>1. s \in 0 .. 2
      BY DEF Slots
    <2> DEFINE m == [t EXCEPT !.rxSlot = s, !.rxActive = 1]
    <2>2. c \in TargetType
      <3>1. m \in TargetType
        BY <1>0, <2>1, ZenonT(60) DEF TargetType
      <3>2. c = [m EXCEPT !.buf = b]
        BY <1>0, <1>2 DEF TargetType
      <3> QED
        BY <1>1, <3>1, <3>2, ZenonT(60) DEF TargetType
    <2> QED
      BY <1>0, <1>2, <2>2 DEF TargetType
  <1>4. /\ t.preload = 1 => t.preSlot # s
        /\ t.reading = 1 => t.readSlot # s
        /\ \A i \in 1 .. Len(t.events) : t.events[i].slot # s
    BY <1>0, ReservedIs
  <1>5. Exclusive(c)
    BY <1>3, <1>4 DEF TargetOK, Exclusive
  <1>6. Events(c)
    BY <1>3 DEF TargetOK, Events
  <1>7. Delivers(c)
    <2> SUFFICES ASSUME t.overflow = 0, NEW i \in 1 .. Len(t.events), t.events[i].type = "write"
                 PROVE  b[t.events[i].slot] = t.buf[t.events[i].slot]
      BY <1>3 DEF TargetOK, Delivers
    <2>1. t.events[i].slot \in Slots
      BY DEF TargetOK, Events
    <2> QED
      BY <1>1, <1>4, <2>1
  <1>8. Responds(c)
    <2>1. t.preload = 1 => t.preSlot \in Slots
      BY DEF TargetOK, Exclusive
    <2> QED
      BY <1>1, <1>3, <1>4, <2>1 DEF TargetOK, Responds
  <1> QED
    BY <1>1, <1>3, <1>5, <1>6, <1>7, <1>8 DEF TargetOK, c

(* A byte goes to the buffer of the write in progress. *)
Stored(t, byte) == [t EXCEPT !.buf[t.rxSlot] = Append(@, byte)]

LEMMA StoredOK ==
    ASSUME NEW t, TargetOK(t), t.rxActive = 1, NEW byte \in Byte
    PROVE  /\ TargetOK(Stored(t, byte)) /\ SameTarget(Stored(t, byte), t)
           /\ Taken(Stored(t, byte)) = Append(Taken(t), byte)
  <1> DEFINE a == Append(t.buf[t.rxSlot], byte)
             b == [t.buf EXCEPT ![t.rxSlot] = a]
             c == Stored(t, byte)
  <1>0. t \in TargetType /\ t.rxSlot \in Slots
    BY DEF TargetOK, Exclusive
  <1>1. a \in Seq(Byte)
    BY <1>0, AppendProperties DEF TargetType, Slots
  <1>2. /\ b \in [{0, 1} -> Seq(Byte)] /\ b[t.rxSlot] = a
        /\ \A r \in Slots \ {t.rxSlot} : b[r] = t.buf[r]
    BY <1>0, <1>1 DEF TargetType, Slots
  <1>3. c = [t EXCEPT !.buf = b]
    BY <1>0 DEF TargetType, Stored
  <1> HIDE DEF b, c
  <1>4. c \in TargetType /\ SameTarget(c, t) /\ c.buf = b
    BY <1>0, <1>2, <1>3 DEF TargetType, SameTarget
  <1>5. TargetOK(c)
    BY <1>2, <1>4, SameHeld
  <1> QED
    BY <1>2, <1>4, <1>5 DEF Taken, SameTarget, c

(* A loss that is to be reported: what is queued no longer matters. *)
LEMMA LostOK ==
    ASSUME NEW t, TargetOK(t), NEW d \in {0, 1}
    PROVE  LET u == [t EXCEPT !.overflow = 1, !.discard = d]
           IN  /\ TargetOK(u) /\ u.overflow = 1 /\ u.reading = t.reading
               /\ u.discard = d /\ u.rxActive = t.rxActive
  <1> DEFINE u == [t EXCEPT !.overflow = 1, !.discard = d]
  <1>0. t \in TargetType
    BY DEF TargetOK
  <1>1. u \in TargetType
    BY <1>0 DEF TargetType
  <1>2. /\ u.events = t.events /\ u.rxActive = t.rxActive /\ u.rxSlot = t.rxSlot
        /\ u.preload = t.preload /\ u.preSlot = t.preSlot /\ u.buf = t.buf
        /\ u.reading = t.reading /\ u.readSlot = t.readSlot
        /\ u.overflow = 1 /\ u.discard = d
    BY <1>0, <1>1 DEF TargetType
  <1> HIDE DEF u
  <1> QED
    BY <1>1, <1>2 DEF TargetOK, Exclusive, Events, Delivers, Responds, u

(* target_receive: the byte is the next of the write in progress, or a loss  *)
(* is to be reported.                                                        *)
LEMMA ReceiveOK ==
    ASSUME NEW t, TargetOK(t), NEW byte \in Byte
    PROVE  LET u == Receive(t, byte)
           IN  /\ TargetOK(u) /\ u.reading = t.reading
               /\ u.overflow = 0 => /\ t.overflow = 0 /\ u.rxActive = 1
                                   /\ Taken(u) = Append(Taken(t), byte)
  <1> DEFINE s == IF t.rxActive = 1 THEN t.rxSlot ELSE FreeBuffer(t)
             c == IF t.rxActive = 1 THEN t ELSE Claim(t, s)
             u == Receive(t, byte)
  <1>0. t \in TargetType /\ t.overflow \in {0, 1} /\ t.rxActive \in {0, 1}
    BY DEF TargetOK, TargetType
  <1>1. CASE t.overflow = 1 \/ t.discard = 1
    <2>1. t.overflow = 1
      BY <1>1 DEF TargetOK, Events
    <2>2. u = [t EXCEPT !.overflow = 1, !.discard = 1]
      BY <1>0, <1>1, <2>1 DEF Receive, TargetType
    <2> HIDE DEF u
    <2>3. TargetOK(u) /\ u.overflow = 1 /\ u.reading = t.reading
      BY <2>2, LostOK
    <2> QED
      BY <2>3 DEF u
  <1>2. CASE ~(t.overflow = 1 \/ t.discard = 1) /\ s = NoSlot
    <2>1. u = [t EXCEPT !.overflow = 1, !.discard = 1]
      BY <1>2 DEF Receive
    <2> HIDE DEF u
    <2>3. TargetOK(u) /\ u.overflow = 1 /\ u.reading = t.reading
      BY <2>1, LostOK
    <2> QED
      BY <2>3 DEF u
  <1>3. CASE ~(t.overflow = 1 \/ t.discard = 1) /\ s # NoSlot
    <2>1. /\ TargetOK(c) /\ c.rxActive = 1 /\ c.rxSlot = s /\ c.reading = t.reading
          /\ Taken(c) = Taken(t) /\ c.overflow = 0
      <3>1. CASE t.rxActive = 1
        BY <1>0, <1>3, <3>1
      <3>2. CASE t.rxActive = 0
        <4>1. s \in Slots /\ ~Reserved(t, s)
          BY <1>3, <3>2, FreeBufferOK
        <4>2. c = Claim(t, s)
          BY <3>2
        <4> HIDE DEF s, c
        <4> QED
          BY <1>0, <1>3, <3>2, <4>1, <4>2, ClaimOK DEF Taken
      <3> QED
        BY <1>0, <3>1, <3>2
    <2>2. u = IF Len(c.buf[s]) < BufferMax THEN [c EXCEPT !.buf[s] = Append(@, byte)]
              ELSE [c EXCEPT !.overflow = 1, !.discard = 1]
      BY <1>3 DEF Receive, Claim
    <2> HIDE DEF c, s, u
    <2>3. CASE Len(c.buf[s]) < BufferMax
      <3>1. u = Stored(c, byte)
        BY <2>1, <2>2, <2>3 DEF Stored
      <3>2. TargetOK(u) /\ SameTarget(u, c) /\ Taken(u) = Append(Taken(c), byte)
        BY <2>1, <3>1, StoredOK
      <3> QED
        BY <1>0, <1>3, <2>1, <3>2 DEF SameTarget, u
    <2>4. CASE ~(Len(c.buf[s]) < BufferMax)
      <3>1. u = [c EXCEPT !.overflow = 1, !.discard = 1]
        BY <2>2, <2>4
      <3>2. TargetOK(u) /\ u.overflow = 1 /\ u.reading = c.reading
        BY <2>1, <3>1, LostOK
      <3> QED
        BY <2>1, <3>2 DEF u
    <2> QED
      BY <2>3, <2>4
  <1> QED
    BY <1>1, <1>2, <1>3

(* The steps of a drain, one byte after the other. *)
Drains(g, k, t, bytes) ==
    /\ g = [n \in 0 .. k |-> g[n]]
    /\ g[0] = t
    /\ \A n \in 1 .. k : g[n] = Receive(g[n - 1], bytes[n])

LEMMA DrainExists ==
    ASSUME NEW t, NEW bytes, Len(bytes) \in Nat
    PROVE  \A k \in 0 .. Len(bytes) : \E g : Drains(g, k, t, bytes)
  <1> DEFINE T == {k \in 0 .. Len(bytes) : ~\E g : Drains(g, k, t, bytes)}
  <1>1. SUFFICES ASSUME T # {} PROVE FALSE
    OBVIOUS
  <1>2. PICK k \in T : \A m \in T : k <= m
    <2>1. T \in SUBSET Nat
      OBVIOUS
    <2> HIDE DEF T
    <2> QED
      BY <1>1, <2>1, LeastNatural
  <1>3. CASE k = 0
    <2> DEFINE g == [n \in 0 .. 0 |-> t]
    <2>1. Drains(g, 0, t, bytes)
      BY DEF Drains
    <2> QED
      BY <1>2, <1>3, <2>1
  <1>4. CASE k # 0
    <2>1. k - 1 \in 0 .. Len(bytes) /\ k - 1 \notin T /\ k \in Nat
      BY <1>2, <1>4
    <2>2. PICK g : Drains(g, k - 1, t, bytes)
      BY <2>1
    <2> DEFINE h == [n \in 0 .. k |-> IF n < k THEN g[n] ELSE Receive(g[k - 1], bytes[k])]
    <2>3. h = [n \in 0 .. k |-> h[n]] /\ h[0] = t
      BY <1>4, <2>1, <2>2 DEF Drains
    <2>4. ASSUME NEW n \in 1 .. k PROVE h[n] = Receive(h[n - 1], bytes[n])
      <3>1. n \in 0 .. k /\ n - 1 \in 0 .. k /\ n - 1 < k /\ n \in Nat
        BY <2>1
      <3>2. h[n - 1] = g[n - 1]
        BY <3>1
      <3>3. CASE n < k
        <4>1. n \in 1 .. k - 1
          BY <2>1, <3>1, <3>3
        <4>2. h[n] = g[n]
          BY <3>1, <3>3
        <4>3. g[n] = Receive(g[n - 1], bytes[n])
          BY <2>2, <4>1 DEF Drains
        <4> HIDE DEF h
        <4> QED
          BY <3>2, <4>2, <4>3
      <3>4. CASE n = k
        <4>1. h[n] = Receive(g[k - 1], bytes[k])
          BY <3>1, <3>4
        <4> HIDE DEF h
        <4> QED
          BY <3>2, <3>4, <4>1
      <3> QED
        BY <2>1, <3>1, <3>3, <3>4
    <2> HIDE DEF h
    <2>5. Drains(h, k, t, bytes)
      BY <2>3, <2>4 DEF Drains
    <2> QED
      BY <1>2, <2>5
  <1> QED
    BY <1>3, <1>4

LEMMA DrainIs ==
    ASSUME NEW t, NEW bytes, Len(bytes) \in Nat
    PROVE  \E g : Drains(g, Len(bytes), t, bytes) /\ DrainTo(t, bytes) = g[Len(bytes)]
  <1> DEFINE N == Len(bytes)
             Rule(g) == g = [n \in 0 .. N |->
                               IF n = 0 THEN t ELSE Receive(g[n - 1], bytes[n])]
             next == CHOOSE g : Rule(g)
  <1>1. DrainTo(t, bytes) = next[N]
    BY DEF DrainTo
  <1>2. \E g : Rule(g)
    <2>1. PICK g : Drains(g, N, t, bytes)
      <3>1. N \in 0 .. N
        OBVIOUS
      <3> QED
        BY <3>1, DrainExists
    <2>2. \A n \in 0 .. N : g[n] = IF n = 0 THEN t ELSE Receive(g[n - 1], bytes[n])
      BY <2>1 DEF Drains
    <2>3. g = [n \in 0 .. N |-> IF n = 0 THEN t ELSE Receive(g[n - 1], bytes[n])]
      BY <2>1, <2>2 DEF Drains
    <2> QED
      BY <2>3
  <1>3. Rule(next)
    BY <1>2
  <1> HIDE DEF next
  <1>4. Drains(next, N, t, bytes)
    BY <1>3 DEF Drains
  <1> QED
    BY <1>1, <1>4

LEMMA TakenIs == ASSUME NEW t, TargetOK(t) PROVE Taken(t) \in Seq(Byte)
  <1>1. t \in TargetType /\ (t.rxActive = 1 => t.rxSlot \in Slots)
    BY DEF TargetOK, Exclusive
  <1> QED
    BY <1>1, EmptySeq DEF Taken, TargetType, Slots

(* The first n bytes of transaction f are in the buffer. *)
Holds(t, f, n) ==
    /\ Len(Taken(t)) = n
    /\ \A k \in 1 .. n : Taken(t)[k] = Token(f, k)

(* What a STOP drains completes the write, or a loss is to be reported. *)
LEMMA DrainedOK ==
    ASSUME NEW t, TargetOK(t), NEW bytes \in Seq(Byte), NEW f, NEW n \in Nat,
           t.overflow = 0 => Receiving(t, bytes, f, n)
    PROVE  LET u == DrainTo(t, bytes)
           IN  TargetOK(u) /\ u.reading = t.reading /\ (u.overflow = 0 => Holds(u, f, n))
  <1> DEFINE N == Len(bytes)
             L == Len(Taken(t))
             Good(u, k) == /\ TargetOK(u) /\ u.reading = t.reading
                           /\ u.overflow = 0 => t.overflow = 0 /\ Holds(u, f, L + k)
  <1>1. N \in Nat /\ L \in Nat
    BY TakenIs
  <1>2. PICK g : Drains(g, N, t, bytes) /\ DrainTo(t, bytes) = g[N]
    BY <1>1, DrainIs
  <1>3. Good(g[0], 0)
    <2>1. g[0] = t
      BY <1>2 DEF Drains
    <2>2. t.overflow = 0 => Holds(t, f, L)
      BY <1>1 DEF Holds, Receiving
    <2> QED
      BY <1>1, <2>1, <2>2
  <1>4. ASSUME NEW k \in 1 .. N, Good(g[k - 1], k - 1) PROVE Good(g[k], k)
    <2> DEFINE v == g[k - 1]
               u == g[k]
    <2>1. u = Receive(v, bytes[k]) /\ bytes[k] \in Byte /\ k \in Nat
      <3>1. k \in Nat /\ bytes[k] \in Byte
        BY <1>1
      <3>2. \A m \in 1 .. N : g[m] = Receive(g[m - 1], bytes[m])
        BY <1>2 DEF Drains
      <3> HIDE DEF N
      <3> QED
        BY <3>1, <3>2
    <2>2. TargetOK(v) /\ v.reading = t.reading
      BY <1>4
    <2>3. v.overflow = 0 => t.overflow = 0 /\ Holds(v, f, L + (k - 1))
      BY <1>4
    <2> HIDE DEF u, v
    <2>4. /\ TargetOK(u) /\ u.reading = v.reading
          /\ u.overflow = 0 => /\ v.overflow = 0 /\ u.rxActive = 1
                              /\ Taken(u) = Append(Taken(v), bytes[k])
      BY <2>1, <2>2, ReceiveOK
    <2>5. ASSUME u.overflow = 0 PROVE t.overflow = 0 /\ Holds(u, f, L + k)
      <3>1. t.overflow = 0 /\ Holds(v, f, L + (k - 1)) /\ Taken(u) = Append(Taken(v), bytes[k])
        BY <2>3, <2>4, <2>5
      <3>2. bytes[k] = Token(f, L + k)
        BY <1>1, <2>1, <3>1 DEF Receiving
      <3>3. Taken(v) \in Seq(Byte) /\ Len(Taken(v)) = L + (k - 1)
        BY <2>2, <3>1, TakenIs DEF Holds
      <3> DEFINE b == L + k
      <3>4. b \in Nat /\ b - 1 = L + (k - 1) /\ b = Len(Taken(v)) + 1
        BY <1>1, <2>1, <3>3
      <3> HIDE DEF b
      <3>5. /\ Len(Taken(u)) = Len(Taken(v)) + 1 /\ Taken(u)[Len(Taken(v)) + 1] = bytes[k]
            /\ \A j \in 1 .. Len(Taken(v)) : Taken(u)[j] = Taken(v)[j]
        BY <2>1, <3>1, <3>3, AppendProperties
      <3>6. \A j \in 1 .. b - 1 : Taken(u)[j] = Token(f, j)
        BY <3>1, <3>3, <3>4, <3>5 DEF Holds
      <3>7. Taken(u)[b] = Token(f, b) /\ Len(Taken(u)) = b
        BY <3>2, <3>4, <3>5 DEF b
      <3>8. Holds(u, f, b)
        BY <3>4, <3>6, <3>7 DEF Holds
      <3> QED
        BY <3>1, <3>8 DEF b
    <2> QED
      BY <2>2, <2>4, <2>5 DEF u
  <1> HIDE DEF Good, N, L
  <1>5. Good(g[N], N)
    <2> DEFINE T == {k \in 0 .. N : ~Good(g[k], k)}
    <2>1. SUFFICES ASSUME T # {} PROVE FALSE
      BY <1>1
    <2>2. PICK k \in T : \A m \in T : k <= m
      <3>1. T \in SUBSET Nat
        OBVIOUS
      <3> HIDE DEF T
      <3> QED
        BY <2>1, <3>1, LeastNatural
    <2>3. k # 0 /\ k \in 1 .. N
      BY <1>1, <1>3, <2>2
    <2>4. k - 1 \in 0 .. N /\ k - 1 \notin T
      BY <1>1, <2>2, <2>3
    <2>5. Good(g[k - 1], k - 1)
      BY <2>4
    <2>6. Good(g[k], k)
      BY <1>4, <2>3, <2>5
    <2> QED
      BY <2>2, <2>6
  <1>6. t.overflow = 0 => L + N = n
    BY DEF Receiving, L, N
  <1> QED
    BY <1>2, <1>5, <1>6 DEF Good

LEMMA NothingDrained ==
    ASSUME NEW t
    PROVE  DrainTo(t, <<>>) = t
  <1>1. PICK g : Drains(g, Len(<<>>), t, <<>>) /\ DrainTo(t, <<>>) = g[Len(<<>>)]
    BY DrainIs
  <1> QED
    BY <1>1 DEF Drains

(* target_queue_event, with room for the event. *)
LEMMA EventQueued ==
    ASSUME NEW t, TargetOK(t), Len(t.events) < 2,
           NEW e \in [type : {"read", "write"}, slot : 0 .. 2]
    PROVE  LET E == Append(t.events, e)
           IN  /\ E \in Seq([type : {"read", "write"}, slot : 0 .. 2])
               /\ Len(E) = Len(t.events) + 1 /\ Len(E) \in {1, 2} /\ E[Len(E)] = e
               /\ \A i \in 1 .. Len(t.events) : E[i] = t.events[i]
               /\ e.type = "read" => /\ QueuedWrites(E) = QueuedWrites(t.events)
                                     /\ \A i \in 1 .. Len(t.events) : Rank(E, i) = Rank(t.events, i)
               /\ e.type = "write" => /\ QueuedWrites(E) = QueuedWrites(t.events) + 1
                                      /\ Rank(E, Len(E)) = QueuedWrites(E)
                                      /\ \A i \in 1 .. Len(t.events) : Rank(E, i) = Rank(t.events, i)
  <1> DEFINE E == Append(t.events, e)
             n == Len(t.events)
  <1>1. t.events \in Seq([type : {"read", "write"}, slot : 0 .. 2]) /\ n \in {0, 1}
    <2>1. t.events \in Seq([type : {"read", "write"}, slot : 0 .. 2])
      BY DEF TargetOK, TargetType
    <2>2. n \in Nat /\ n < 2
      BY <2>1
    <2> HIDE DEF n
    <2>3. n \in {0, 1}
      BY <2>2
    <2> QED
      BY <2>1, <2>3
  <1>2. /\ E \in Seq([type : {"read", "write"}, slot : 0 .. 2])
        /\ Len(E) = n + 1 /\ E[n + 1] = e
        /\ \A i \in 1 .. n : E[i] = t.events[i]
    BY <1>1, AppendProperties
  <1>3. e.type \in {"read", "write"} /\ (n = 1 => t.events[1].type \in {"read", "write"})
    <2>1. n = 1 => t.events[1] \in [type : {"read", "write"}, slot : 0 .. 2]
      <3> DEFINE S == [type : {"read", "write"}, slot : 0 .. 2]
      <3>1. t.events \in Seq(S)
        BY <1>1
      <3> HIDE DEF S
      <3>2. ASSUME n = 1 PROVE t.events[1] \in S
        <4>1. 1 \in 1 .. Len(t.events)
          BY <3>2
        <4> QED
          BY <3>1, <4>1, ElementOfSeq
      <3> QED
        BY <3>2 DEF S
    <2> QED
      BY <2>1
  <1> HIDE DEF E
  <1>4. QueuedWrites(t.events) = IF n = 1 /\ t.events[1].type = "write" THEN 1 ELSE 0
    BY <1>1, <1>3 DEF QueuedWrites
  <1>5. /\ QueuedWrites(E) = QueuedWrites(t.events) + IF e.type = "write" THEN 1 ELSE 0
        /\ e.type = "write" => Rank(E, Len(E)) = QueuedWrites(E)
        /\ \A i \in 1 .. n : Rank(E, i) = Rank(t.events, i)
    <2>1. CASE n = 0
      <3>1. Len(E) = 1 /\ E[1] = e
        BY <1>2, <2>1
      <3>2. \A i \in 1 .. Len(E) : i = 1
        BY <3>1
      <3> QED
        BY <1>3, <1>4, <2>1, <3>1, <3>2 DEF QueuedWrites, Rank
    <2>2. CASE n = 1
      <3>1. Len(E) = 2 /\ E[2] = e /\ E[1] = t.events[1]
        BY <1>2, <2>2
      <3>2. /\ 1 \in 1 .. Len(E) /\ 2 \in 1 .. Len(E)
            /\ \A i \in 1 .. Len(E) : i = 1 \/ i = 2
        BY <3>1
      <3>3. \A i \in 1 .. n : Rank(E, i) = Rank(t.events, i)
        BY <2>2 DEF Rank
      <3>4. (\A i \in 1 .. Len(E) : E[i].type # "write")
               <=> t.events[1].type # "write" /\ e.type # "write"
        BY <3>1, <3>2
      <3> QED
        BY <1>3, <1>4, <2>2, <3>1, <3>3, <3>4 DEF QueuedWrites, Rank
    <2> QED
      BY <1>1, <2>1, <2>2
  <1> QED
    BY <1>1, <1>2, <1>4, <1>5 DEF E

(* The STOP of a read: the response is used up, the event queued or lost. *)
LEMMA StopReadOK ==
    ASSUME NEW t, TargetOK(t), t.rxActive = 0, t.discard = 0
    PROVE  LET u == StopRead(t)
           IN  TargetOK(u) /\ u.reading = 0 /\ u.rxActive = 0 /\ u.discard = 0
  <1> DEFINE e == [type |-> "read", slot |-> NoSlot]
             q == Queue(t, e)
             r == [q EXCEPT !.reading = 0, !.index = 0, !.readSlot = NoSlot]
  <1>0. t \in TargetType
    BY DEF TargetOK
  <1>1. e \in [type : {"read", "write"}, slot : 0 .. 2]
    BY DEF NoSlot
  <1>2. /\ q \in TargetType /\ q.rxActive = 0 /\ q.discard = 0
        /\ q.rxSlot = t.rxSlot /\ q.buf = t.buf
        /\ q.preload = t.preload /\ q.preSlot = t.preSlot /\ q.owed = t.owed
        /\ \/ q.overflow = 1 /\ q.events = t.events
           \/ q.overflow = t.overflow /\ Len(t.events) < 2 /\ q.events = Append(t.events, e)
    <2>1. CASE t.overflow = 1 \/ Len(t.events) >= 2
      <3>1. q = [t EXCEPT !.overflow = 1]
        BY <2>1 DEF Queue
      <3> HIDE DEF q
      <3> QED
        BY <1>0, <3>1 DEF TargetType
    <2>2. CASE ~(t.overflow = 1 \/ Len(t.events) >= 2)
      <3>1. q = [t EXCEPT !.events = Append(t.events, e)]
        BY <1>0, <2>2 DEF Queue, TargetType
      <3>2. Len(t.events) \in Nat
        BY <1>0 DEF TargetType
      <3>3. Len(t.events) < 2
        BY <2>2, <3>2
      <3>4. Append(t.events, e) \in Seq([type : {"read", "write"}, slot : 0 .. 2])
        BY <1>1, <3>3, EventQueued
      <3> HIDE DEF q, e
      <3> QED
        BY <1>0, <3>1, <3>3, <3>4 DEF TargetType
    <2> QED
      BY <2>1, <2>2
  <1>3. StopRead(t) = Freed(r)
    BY DEF StopRead
  <1> HIDE DEF q
  <1>4. /\ r \in TargetType /\ r.reading = 0 /\ r.rxActive = 0 /\ r.discard = 0
        /\ r.rxSlot = t.rxSlot /\ r.buf = t.buf
        /\ r.preload = t.preload /\ r.preSlot = t.preSlot /\ r.owed = t.owed
        /\ r.overflow = q.overflow /\ r.events = q.events
    <2>1. r \in TargetType
      <3>1. NoSlot \in 0 .. 2
        BY DEF NoSlot
      <3> QED
        BY <1>2, <3>1 DEF TargetType
    <2> QED
      BY <1>2, <2>1 DEF TargetType
  <1> HIDE DEF r
  <1>5. TargetOK(r)
    <2>1. CASE q.overflow = 1 /\ q.events = t.events
      BY <1>4, <2>1 DEF TargetOK, Exclusive, Events, Delivers, Responds
    <2>2. CASE q.overflow = t.overflow /\ Len(t.events) < 2 /\ q.events = Append(t.events, e)
      <3> DEFINE E == Append(t.events, e)
      <3>1. /\ Len(E) = Len(t.events) + 1 /\ Len(E) \in {1, 2} /\ E[Len(E)] = e
            /\ \A i \in 1 .. Len(t.events) : E[i] = t.events[i]
            /\ QueuedWrites(E) = QueuedWrites(t.events)
            /\ \A i \in 1 .. Len(t.events) : Rank(E, i) = Rank(t.events, i)
        <4>1. e.type = "read"
          OBVIOUS
        <4> HIDE DEF e
        <4> QED
          BY <1>1, <2>2, <4>1, EventQueued
      <3>2. r.events = E
        BY <1>4, <2>2
      <3> HIDE DEF E
      <3>3. \A i \in 1 .. Len(E) : i \in 1 .. Len(t.events) \/ E[i] = e
        BY <2>2, <3>1
      <3>4. e.type = "read" /\ e.slot = NoSlot /\ e.slot \notin Slots
        BY DEF NoSlot, Slots
      <3> HIDE DEF e
      <3>5. Exclusive(r)
        BY <1>4, <3>1, <3>2, <3>3, <3>4 DEF TargetOK, Exclusive
      <3>6. Events(r)
        BY <1>4, <3>1, <3>2, <3>3, <3>4 DEF TargetOK, Events
      <3>7. Delivers(r)
        BY <1>4, <2>2, <3>1, <3>2, <3>3, <3>4 DEF TargetOK, Delivers
      <3> QED
        BY <1>4, <3>5, <3>6, <3>7 DEF TargetOK, Responds
    <2> QED
      BY <1>2, <2>1, <2>2
  <1> QED
    BY <1>3, <1>4, <1>5, FreedOK DEF SameTarget

(* The STOP of a write: a whole transaction is queued and owed, or a loss is *)
(* to be reported.                                                           *)
OwedTo(t, f) == IF t.overflow = 1 THEN t ELSE [t EXCEPT !.owed = Append(@, f)]

LEMMA StopWriteOK ==
    ASSUME NEW t, TargetOK(t), t.reading = 0, NEW f \in Nat, NEW n \in Nat, n >= FrameSize,
           t.overflow = 0 => Holds(t, f, n)
    PROVE  LET w == OwedTo(StopWrite(t), f)
           IN  TargetOK(w) /\ w.reading = 0 /\ w.rxActive = 0 /\ w.discard = 0
  <1> DEFINE e == [type |-> "write", slot |-> t.rxSlot]
             q == IF t.discard = 1 THEN t ELSE Queue(t, e)
             r == [q EXCEPT !.rxActive = 0, !.discard = 0, !.rxSlot = NoSlot]
             w == OwedTo(StopWrite(t), f)
  <1>0. t \in TargetType
    BY DEF TargetOK
  <1>s. StopWrite(t) = Freed(r)
    BY DEF StopWrite
  <1>e. e \in [type : {"read", "write"}, slot : 0 .. 2]
    BY <1>0 DEF TargetType
  <1>1. CASE t.overflow = 1 \/ Len(t.events) >= 2
    <2>1. q = [t EXCEPT !.overflow = 1]
      BY <1>0, <1>1 DEF Queue, TargetOK, Events, TargetType
    <2> HIDE DEF q
    <2>2. /\ q \in TargetType /\ q.events = t.events /\ q.overflow = 1
          /\ q.rxActive = t.rxActive /\ q.buf = t.buf
          /\ q.preload = t.preload /\ q.preSlot = t.preSlot
          /\ q.reading = 0 /\ q.owed = t.owed
      BY <1>0, <2>1, ZenonT(60) DEF TargetType
    <2>3. r \in TargetType
      <3>1. NoSlot \in 0 .. 2
        BY DEF NoSlot
      <3> QED
        BY <2>2, <3>1 DEF TargetType
    <2>4. /\ r.rxActive = 0 /\ r.discard = 0 /\ r.events = t.events /\ r.overflow = 1
          /\ r.buf = t.buf /\ r.preload = t.preload /\ r.preSlot = t.preSlot /\ r.reading = 0
      BY <2>2, <2>3 DEF TargetType
    <2> HIDE DEF r
    <2>5. TargetOK(r)
      BY <2>3, <2>4 DEF TargetOK, Exclusive, Events, Delivers, Responds
    <2>6. TargetOK(Freed(r)) /\ SameTarget(Freed(r), r)
      BY <2>3, <2>5, FreedOK
    <2>7. w = Freed(r)
      BY <1>s, <2>4, <2>6 DEF OwedTo, SameTarget
    <2> HIDE DEF w
    <2>8. TargetOK(w) /\ w.reading = 0 /\ w.rxActive = 0 /\ w.discard = 0
      BY <2>4, <2>6, <2>7 DEF SameTarget
    <2> QED
      BY <2>8 DEF w
  <1>2. CASE ~(t.overflow = 1 \/ Len(t.events) >= 2)
    <2> DEFINE E == Append(t.events, e)
               k == Len(t.events) + 1
               o == Append(t.owed, f)
               v == [r EXCEPT !.owed = o]
    <2>1. t.overflow = 0 /\ t.discard = 0 /\ Len(t.events) \in Nat
      BY <1>0, <1>2 DEF TargetOK, Events, TargetType
    <2>2. Len(t.events) < 2
      BY <1>2, <2>1
    <2>3. Holds(t, f, n) /\ t.rxActive = 1 /\ t.rxSlot \in Slots
      <3>1. Holds(t, f, n) /\ n > 0
        BY <2>1, Sizes
      <3>2. t.rxActive = 1
        BY <1>0, <3>1 DEF Holds, Taken, TargetType
      <3> QED
        BY <3>1, <3>2 DEF TargetOK, Exclusive
    <2>4. /\ E \in Seq([type : {"read", "write"}, slot : 0 .. 2])
          /\ Len(E) = k /\ k \in {1, 2} /\ E[k] = e
          /\ \A i \in 1 .. Len(t.events) : E[i] = t.events[i]
          /\ QueuedWrites(E) = QueuedWrites(t.events) + 1
          /\ Rank(E, k) = QueuedWrites(E)
          /\ \A i \in 1 .. Len(t.events) : Rank(E, i) = Rank(t.events, i)
      <3>1. e.type = "write"
        OBVIOUS
      <3> HIDE DEF e
      <3> QED
        BY <1>e, <2>2, <3>1, EventQueued
    <2>5. q = [t EXCEPT !.events = E]
      BY <1>0, <1>2, <2>1 DEF Queue, TargetType
    <2> HIDE DEF q, E
    <2>6. q \in TargetType /\ q.events = E /\ q.overflow = 0 /\ q.buf = t.buf
          /\ q.preload = t.preload /\ q.preSlot = t.preSlot
          /\ q.reading = 0 /\ q.owed = t.owed
      BY <1>0, <2>1, <2>4, <2>5 DEF TargetType
    <2>7. r \in TargetType
      <3>1. NoSlot \in 0 .. 2
        BY DEF NoSlot
      <3> QED
        BY <2>6, <3>1 DEF TargetType
    <2>8. r.events = E /\ r.overflow = 0 /\ r.buf = t.buf
          /\ r.preload = t.preload /\ r.preSlot = t.preSlot
          /\ r.reading = 0 /\ r.owed = t.owed /\ r.rxActive = 0 /\ r.discard = 0
      BY <2>6, <2>7 DEF TargetType
    <2> HIDE DEF r
    <2>9. /\ o \in Seq(Nat) /\ Len(o) = Len(t.owed) + 1 /\ o[Len(t.owed) + 1] = f
          /\ \A i \in 1 .. Len(t.owed) : o[i] = t.owed[i]
      <3>1. t.owed \in Seq(Nat)
        BY <1>0 DEF TargetType
      <3> QED
        BY <3>1, AppendProperties
    <2>10. Len(t.owed) = QueuedWrites(t.events) /\ QueuedWrites(t.events) \in {0, 1, 2}
      BY <2>1 DEF TargetOK, Delivers, QueuedWrites
    <2> HIDE DEF o
    <2>11. /\ v \in TargetType /\ v.events = E /\ v.overflow = 0 /\ v.buf = t.buf
           /\ v.preload = t.preload /\ v.preSlot = t.preSlot
           /\ v.reading = 0 /\ v.owed = o /\ v.rxActive = 0 /\ v.discard = 0
      BY <2>7, <2>8, <2>9 DEF TargetType
    <2>12. /\ SameTarget([v EXCEPT !.owed = r.owed], r)
           /\ v.rxSlot = r.rxSlot /\ v.readSlot = r.readSlot /\ v.index = r.index
      BY <2>7, <2>11 DEF TargetType, SameTarget
    <2> HIDE DEF v
    <2>13. \A i \in 1 .. Len(E) : i \in 1 .. Len(t.events) \/ i = k
      BY <2>1, <2>4
    <2>14. e.slot = t.rxSlot /\ e.type = "write" /\ e.slot \in Slots
      BY <2>3
    <2> HIDE DEF e
    <2>15. Exclusive(v)
      <3>1. v.preload = 1 => /\ v.preSlot \in Slots
                             /\ \A i \in 1 .. Len(E) : E[i].slot # v.preSlot
        BY <2>3, <2>4, <2>11, <2>13, <2>14 DEF TargetOK, Exclusive
      <3>2. \A i \in 1 .. Len(t.events) : E[i].slot # e.slot
        BY <2>3, <2>4, <2>14 DEF TargetOK, Exclusive
      <3>3. \A i, j \in 1 .. Len(E) :
              i # j /\ E[i].slot \in Slots => E[i].slot # E[j].slot
        <4> SUFFICES ASSUME NEW i \in 1 .. Len(E), NEW j \in 1 .. Len(E), i # j,
                            E[i].slot \in Slots
                     PROVE  E[i].slot # E[j].slot
          OBVIOUS
        <4>1. CASE i \in 1 .. Len(t.events) /\ j \in 1 .. Len(t.events)
          BY <2>4, <4>1 DEF TargetOK, Exclusive
        <4>2. CASE i = k
          BY <2>4, <2>13, <3>2, <4>2
        <4>3. CASE j = k
          BY <2>4, <2>13, <3>2, <4>3
        <4> QED
          BY <2>13, <4>1, <4>2, <4>3
      <3> QED
        BY <2>11, <3>1, <3>3 DEF Exclusive
    <2>16. Events(v)
      BY <2>4, <2>11, <2>13, <2>14, SMTT(30) DEF TargetOK, Events
    <2>17. Delivers(v)
      <3>1. Len(v.owed) = QueuedWrites(v.events)
        BY <2>4, <2>9, <2>10, <2>11
      <3>2. ASSUME NEW i \in 1 .. Len(E), E[i].type = "write"
            PROVE  Whole(t.buf[E[i].slot], o[Rank(E, i)])
        <4>1. CASE i \in 1 .. Len(t.events)
          <5>1. Whole(t.buf[E[i].slot], t.owed[Rank(E, i)])
            BY <2>1, <2>4, <3>2, <4>1 DEF TargetOK, Delivers
          <5>2. Rank(t.events, i) \in 1 .. QueuedWrites(t.events)
            <6>1. t.events[i].type = "write"
              BY <2>4, <3>2, <4>1
            <6>2. i = 1 /\ Len(t.events) = 1
              <7> DEFINE m == Len(t.events)
              <7>1. m \in Nat /\ m < 2 /\ i \in 1 .. m
                BY <2>1, <2>2, <4>1
              <7> HIDE DEF m
              <7>2. i = 1 /\ m = 1
                BY <7>1
              <7> QED
                BY <7>2 DEF m
            <6>3. Rank(t.events, i) = 1 /\ QueuedWrites(t.events) = 1
              BY <4>1, <6>1, <6>2 DEF Rank, QueuedWrites
            <6> QED
              BY <6>3
          <5> QED
            BY <2>4, <2>9, <2>10, <4>1, <5>1, <5>2
        <4>2. CASE i = k
          <5>1. t.buf[E[i].slot] = Taken(t)
            BY <2>3, <2>4, <2>14, <4>2 DEF Taken
          <5>2. o[Rank(E, i)] = f
            BY <2>4, <2>9, <2>10, <4>2
          <5> QED
            BY <2>3, <5>1, <5>2 DEF Holds, Whole
        <4> QED
          BY <2>13, <4>1, <4>2
      <3> QED
        BY <2>11, <3>1, <3>2 DEF Delivers
    <2>18. TargetOK(v)
      BY <2>11, <2>15, <2>16, <2>17 DEF TargetOK, Responds
    <2>19. /\ Freed(r) \in TargetType /\ SameTarget(Freed(r), r)
           /\ \A s \in Slots : Reserved(r, s) => Freed(r).buf[s] = r.buf[s]
      BY <2>7, FreedOK
    <2>20. w = [Freed(r) EXCEPT !.owed = o]
      BY <1>s, <2>8, <2>19 DEF OwedTo, SameTarget, o
    <2> HIDE DEF w
    <2>21. w \in TargetType /\ SameTarget(w, v) /\ w.buf = Freed(r).buf
      <3>1. w \in TargetType
        BY <2>9, <2>19, <2>20, ZenonT(60) DEF TargetType
      <3>2. /\ w.owed = o /\ w.buf = Freed(r).buf
            /\ w.events = Freed(r).events /\ w.overflow = Freed(r).overflow
            /\ w.discard = Freed(r).discard /\ w.rxActive = Freed(r).rxActive
            /\ w.rxSlot = Freed(r).rxSlot /\ w.preload = Freed(r).preload
            /\ w.preSlot = Freed(r).preSlot /\ w.reading = Freed(r).reading
            /\ w.readSlot = Freed(r).readSlot /\ w.index = Freed(r).index
        BY <2>19, <2>20, <3>1 DEF TargetType
      <3> QED
        BY <2>8, <2>11, <2>12, <2>19, <3>1, <3>2 DEF SameTarget
    <2>22. \A s \in Slots : Reserved(v, s) => Reserved(r, s)
      <3>1. v.rxSlot = r.rxSlot /\ v.readSlot = r.readSlot
        BY <2>12
      <3> QED
        BY <2>7, <2>8, <2>11, <3>1, ReservedIs
    <2>23. TargetOK(w)
      BY <2>8, <2>11, <2>18, <2>19, <2>21, <2>22, SameHeld
    <2>24. TargetOK(w) /\ w.reading = 0 /\ w.rxActive = 0 /\ w.discard = 0
      BY <2>11, <2>21, <2>23 DEF SameTarget
    <2> QED
      BY <2>24 DEF w
  <1> QED
    BY <1>1, <1>2

LEMMA TokensAre ==
    ASSUME NEW f \in Nat, NEW n \in Nat
    PROVE  /\ Tokens(f, n) \in Seq(Byte) /\ Len(Tokens(f, n)) = n
           /\ \A i \in 1 .. n : Tokens(f, n)[i] = Token(f, i) /\ Tokens(f, n)[i] # Fill
  <1>1. \A i \in 1 .. n : Token(f, i) \in Byte /\ Token(f, i) # Fill
    BY DEF Token, Byte, Fill
  <1>2. Tokens(f, n) = [i \in 1 .. n |-> Token(f, i)]
    BY DEF Tokens
  <1> QED
    BY <1>1, <1>2, IsASeq

LEMMA FrameIs == ASSUME NEW f \in Frames PROVE f \in Nat \ {0}
  BY ServiceAssumption

(* What the main loop leaves to the transaction on the bus. *)
SameTransaction(u, t) ==
    /\ u.rxActive = t.rxActive /\ u.discard = t.discard /\ Taken(u) = Taken(t)
    /\ u.reading = t.reading /\ u.readSlot = t.readSlot /\ u.index = t.index
    /\ t.reading = 1 /\ t.readSlot \in Slots => u.buf[t.readSlot] = t.buf[t.readSlot]
    /\ u.overflow = 0 => t.overflow = 0

LEMMA FreedSame ==
    ASSUME NEW t, TargetOK(t)
    PROVE  TargetOK(Freed(t)) /\ SameTransaction(Freed(t), t)
  <1>0. t \in TargetType
    BY DEF TargetOK
  <1>1. /\ TargetOK(Freed(t)) /\ SameTarget(Freed(t), t)
        /\ \A s \in Slots : Reserved(t, s) => Freed(t).buf[s] = t.buf[s]
    BY <1>0, FreedOK
  <1>2. t.rxActive = 1 => t.rxSlot \in Slots /\ Reserved(t, t.rxSlot)
    BY <1>0, ReservedIs DEF TargetOK, Exclusive
  <1>3. t.reading = 1 => Reserved(t, t.readSlot)
    BY <1>0, ReservedIs
  <1> QED
    BY <1>1, <1>2, <1>3 DEF SameTarget, SameTransaction, Taken

Loaded(t, s, bytes) == [t EXCEPT !.buf[s] = bytes, !.preSlot = s, !.preload = 1]

LEMMA LoadedOK ==
    ASSUME NEW t, TargetOK(t), NEW f \in Frames, NEW s \in Slots,
           ~Reserved(t, s) \/ (t.reading = 0 /\ t.preload = 1 /\ t.preSlot = s)
    PROVE  /\ TargetOK(Loaded(t, s, Tokens(f, ResponseSize)))
           /\ SameTransaction(Loaded(t, s, Tokens(f, ResponseSize)), t)
  <1> DEFINE bytes == Tokens(f, ResponseSize)
             b == [t.buf EXCEPT ![s] = bytes]
             u == Loaded(t, s, bytes)
             m == [t EXCEPT !.preSlot = s, !.preload = 1]
  <1>0. t \in TargetType
    BY DEF TargetOK
  <1>1. bytes \in Seq(Byte) /\ IsResponse(bytes)
    BY FrameIs, Sizes, TokensAre DEF IsResponse
  <1> HIDE DEF bytes
  <1>2. b \in [{0, 1} -> Seq(Byte)] /\ b[s] = bytes /\ \A r \in Slots \ {s} : b[r] = t.buf[r]
    BY <1>0, <1>1 DEF TargetType, Slots
  <1>3. u = [t EXCEPT !.buf = b, !.preSlot = s, !.preload = 1]
    BY <1>0 DEF TargetType, Loaded
  <1> HIDE DEF b, u
  <1>4. u \in TargetType
    <2>1. s \in 0 .. 2
      BY DEF Slots
    <2>2. m \in TargetType
      BY <1>0, <2>1 DEF TargetType
    <2>3. u = [m EXCEPT !.buf = b]
      BY <1>0, <1>3 DEF TargetType
    <2> QED
      BY <1>2, <2>2, <2>3 DEF TargetType
  <1>5. /\ u.events = t.events /\ u.overflow = t.overflow /\ u.discard = t.discard
        /\ u.rxActive = t.rxActive /\ u.rxSlot = t.rxSlot /\ u.owed = t.owed
        /\ u.preload = 1 /\ u.preSlot = s /\ u.buf = b
        /\ u.reading = t.reading /\ u.readSlot = t.readSlot /\ u.index = t.index
    BY <1>0, <1>3, <1>4 DEF TargetType
  <1>6. /\ t.rxActive = 1 => t.rxSlot # s /\ t.rxSlot \in Slots
        /\ t.reading = 1 => t.readSlot # s
        /\ \A i \in 1 .. Len(t.events) : t.events[i].slot # s
    BY <1>0, ReservedIs DEF TargetOK, Exclusive
  <1>7. Exclusive(u)
    BY <1>5, <1>6 DEF TargetOK, Exclusive
  <1>8. Events(u)
    BY <1>5 DEF TargetOK, Events
  <1>9. Delivers(u)
    <2> SUFFICES ASSUME t.overflow = 0, NEW i \in 1 .. Len(t.events), t.events[i].type = "write"
                 PROVE  b[t.events[i].slot] = t.buf[t.events[i].slot]
      BY <1>5 DEF TargetOK, Delivers
    <2>1. t.events[i].slot \in Slots
      BY DEF TargetOK, Events
    <2> QED
      BY <1>2, <1>6, <2>1
  <1>10. Responds(u)
    BY <1>1, <1>2, <1>5, <1>6 DEF TargetOK, Responds
  <1>11. SameTransaction(u, t)
    BY <1>2, <1>5, <1>6 DEF SameTransaction, Taken
  <1> QED
    BY <1>4, <1>7, <1>8, <1>9, <1>10, <1>11 DEF TargetOK, u, bytes

(* target_preload *)
LEMMA PreloadOK ==
    ASSUME NEW t, TargetOK(t), NEW f \in Frames
    PROVE  LET u == Preload(t, Tokens(f, ResponseSize))
           IN  TargetOK(u) /\ SameTransaction(u, t)
  <1> DEFINE bytes == Tokens(f, ResponseSize)
             first == IF t.reading = 0 /\ t.preload = 1 THEN t.preSlot ELSE FreeBuffer(t)
             u == IF first # NoSlot THEN t ELSE [t EXCEPT !.overflow = 1, !.events = <<>>]
             s == IF first # NoSlot THEN first ELSE FreeBuffer(u)
             p == Preload(t, bytes)
  <1>0. t \in TargetType
    BY DEF TargetOK
  <1>p. p = IF s = NoSlot THEN u ELSE Freed(Loaded(u, s, bytes))
    BY DEF Preload, Loaded
  <1>1. TargetOK(u) /\ SameTransaction(u, t)
    <2>1. CASE first # NoSlot
      BY <2>1 DEF SameTransaction
    <2>2. CASE first = NoSlot
      <3>1. u = [t EXCEPT !.overflow = 1, !.events = <<>>]
        BY <2>2
      <3> HIDE DEF u
      <3>2. u \in TargetType
        BY <1>0, <3>1, EmptySeq DEF TargetType
      <3>3. /\ u.events = <<>> /\ u.overflow = 1 /\ u.discard = t.discard
            /\ u.rxActive = t.rxActive /\ u.rxSlot = t.rxSlot /\ u.owed = t.owed
            /\ u.preload = t.preload /\ u.preSlot = t.preSlot /\ u.buf = t.buf
            /\ u.reading = t.reading /\ u.readSlot = t.readSlot /\ u.index = t.index
        BY <1>0, <3>1, <3>2 DEF TargetType
      <3>4. Len(u.events) = 0 /\ 1 .. Len(u.events) = {}
        BY <3>3
      <3>5. TargetOK(u)
        BY <3>2, <3>3, <3>4 DEF TargetOK, Exclusive, Events, Delivers, Responds
      <3> QED
        BY <3>3, <3>5 DEF SameTransaction, Taken
    <2> QED
      BY <2>1, <2>2
  <1>2. CASE s = NoSlot
    <2>1. p = u
      BY <1>2, <1>p
    <2> HIDE DEF u
    <2> QED
      BY <1>1, <2>1 DEF p, bytes
  <1>3. CASE s # NoSlot
    <2>1. s \in Slots /\ (~Reserved(u, s) \/ (u.reading = 0 /\ u.preload = 1 /\ u.preSlot = s))
      <3>1. CASE first # NoSlot
        <4>1. u = t /\ s = first
          BY <3>1
        <4>2. CASE t.reading = 0 /\ t.preload = 1
          BY <4>1, <4>2 DEF TargetOK, Exclusive
        <4>3. CASE ~(t.reading = 0 /\ t.preload = 1)
          BY <3>1, <4>1, <4>3, FreeBufferOK
        <4> QED
          BY <4>2, <4>3
      <3>2. CASE first = NoSlot
        <4>1. s = FreeBuffer(u)
          BY <3>2
        <4> HIDE DEF u, s
        <4> QED
          BY <1>3, <4>1, FreeBufferOK
      <3> QED
        BY <3>1, <3>2
    <2>2. p = Freed(Loaded(u, s, bytes))
      BY <1>3, <1>p
    <2> DEFINE v == Loaded(u, s, bytes)
    <2> HIDE DEF u, s, p
    <2>3. TargetOK(v) /\ SameTransaction(v, u)
      BY <1>1, <2>1, LoadedOK
    <2> HIDE DEF v
    <2>4. TargetOK(Freed(v)) /\ SameTransaction(Freed(v), v)
      BY <2>3, FreedSame
    <2>5. TargetOK(p) /\ SameTransaction(p, t)
      BY <1>1, <2>2, <2>3, <2>4 DEF SameTransaction, v
    <2> QED
      BY <2>5 DEF p, bytes
  <1> QED
    BY <1>2, <1>3

(* target_poll: the oldest event goes, a write with what is owed for it. *)
LEMMA EventTaken ==
    ASSUME NEW t, TargetOK(t), Polled(t).result \in {"write", "read"}
    PROVE  /\ TargetOK(AfterPoll(t)) /\ SameTransaction(AfterPoll(t), t)
           /\ Polled(t).result = "write" =>
                t.owed # <<>> /\ Polled(t).bytes = Tokens(Head(t.owed), FrameSize)
  <1> DEFINE ev == t.events
             E == Tail(ev)
             o == IF Head(ev).type = "write" THEN Tail(t.owed) ELSE t.owed
             r == [t EXCEPT !.events = E, !.owed = o]
             EventSet == [type : {"read", "write"}, slot : 0 .. 2]
  <1>0. /\ t \in TargetType /\ ev \in Seq(EventSet) /\ t.owed \in Seq(Nat)
        /\ Len(ev) \in Nat /\ Len(ev) <= 2
    BY DEF TargetOK, TargetType, Events
  <1>1. t.overflow = 0 /\ ev # <<>>
    BY <1>0 DEF Polled, TargetType
  <1>2. /\ Len(ev) \in {1, 2} /\ 1 \in 1 .. Len(ev) /\ Head(ev) = ev[1] /\ ev[1] \in EventSet
        /\ E \in Seq(EventSet) /\ Len(E) = Len(ev) - 1
        /\ \A i \in 1 .. Len(E) : E[i] = ev[2] /\ i = 1 /\ Len(ev) = 2
    <2> HIDE DEF ev, EventSet
    <2>1. Len(ev) \in {1, 2} /\ 1 \in 1 .. Len(ev)
      <3> DEFINE k == Len(ev)
      <3>1. k # 0
        BY <1>0, <1>1, EmptySeq
      <3>2. k \in Nat /\ k <= 2
        BY <1>0
      <3> HIDE DEF k
      <3>3. k \in {1, 2} /\ 1 \in 1 .. k
        BY <3>1, <3>2
      <3> QED
        BY <3>3 DEF k
    <2>2. E \in Seq(EventSet) /\ Len(E) = Len(ev) - 1 /\ \A i \in 1 .. Len(E) : E[i] = ev[i + 1]
      BY <1>0, <1>1, HeadTailProperties
    <2> HIDE DEF E
    <2>3. \A i \in 1 .. Len(E) : i = 1 /\ Len(ev) = 2
      BY <2>1, <2>2, SMTT(30)
    <2>4. Head(ev) = ev[1] /\ ev[1] \in EventSet
      BY <1>0, <1>1, <2>1, HeadTailProperties
    <2>5. ASSUME NEW i \in 1 .. Len(E) PROVE E[i] = ev[2] /\ i = 1 /\ Len(ev) = 2
      <3>1. i = 1 /\ Len(ev) = 2 /\ i + 1 = 2
        BY <2>3
      <3> QED
        BY <2>2, <3>1
    <2> QED
      BY <2>1, <2>2, <2>4, <2>5
  <1>3. AfterPoll(t) = Freed(r)
    <2>1. ~(t.overflow = 1) /\ ~(Polled(t).result \in {"pending", "limit"})
      BY <1>1
    <2>2. AfterPoll(t) = Freed([t EXCEPT !.events = Tail(@),
                                  !.owed = IF Head(t.events).type = "write" THEN Tail(@) ELSE @])
      BY <2>1 DEF AfterPoll
    <2> QED
      BY <1>0, <2>2 DEF TargetType
  <1>4. ev[1].type \in {"read", "write"} /\ (ev[1].type = "write" <=> ev[1].slot \in Slots)
    BY <1>2 DEF TargetOK, Events
  <1> HIDE DEF E
  <1>5. /\ ev[1].type = "write" => /\ Whole(t.buf[ev[1].slot], t.owed[1]) /\ t.owed # <<>>
                                   /\ Len(t.owed) =
                                        IF Len(ev) = 2 /\ ev[2].type = "write" THEN 2 ELSE 1
        /\ ev[1].type # "write" =>
             Len(t.owed) = IF Len(ev) = 2 /\ ev[2].type = "write" THEN 1 ELSE 0
    <2>1. /\ Len(t.owed) = QueuedWrites(ev)
          /\ \A i \in 1 .. Len(ev) :
               ev[i].type = "write" => Whole(t.buf[ev[i].slot], t.owed[Rank(ev, i)])
      BY <1>1 DEF TargetOK, Delivers
    <2>2. Rank(ev, 1) = 1
      BY DEF Rank
    <2>3. \A i \in 1 .. Len(ev) : i = 1 \/ (i = 2 /\ Len(ev) = 2)
      BY <1>2
    <2>4. Len(ev) = 2 => 2 \in 1 .. Len(ev)
      OBVIOUS
    <2> HIDE DEF ev
    <2>5. QueuedWrites(ev) = (IF ev[1].type = "write" THEN 1 ELSE 0)
                       + (IF Len(ev) = 2 /\ ev[2].type = "write" THEN 1 ELSE 0)
      BY <1>2, <2>3, <2>4 DEF QueuedWrites
    <2>6. t.owed = <<>> => Len(t.owed) = 0
      OBVIOUS
    <2>7. ASSUME ev[1].type = "write"
          PROVE  /\ Whole(t.buf[ev[1].slot], t.owed[1]) /\ t.owed # <<>>
                 /\ Len(t.owed) = IF Len(ev) = 2 /\ ev[2].type = "write" THEN 2 ELSE 1
      <3>1. Whole(t.buf[ev[1].slot], t.owed[1])
        BY <1>2, <2>1, <2>2, <2>7
      <3>2. Len(t.owed) = IF Len(ev) = 2 /\ ev[2].type = "write" THEN 2 ELSE 1
        BY <2>1, <2>5, <2>7
      <3> QED
        BY <2>6, <3>1, <3>2
    <2>8. ASSUME ev[1].type # "write"
          PROVE  Len(t.owed) = IF Len(ev) = 2 /\ ev[2].type = "write" THEN 1 ELSE 0
      BY <2>1, <2>5, <2>8
    <2> QED
      BY <2>7, <2>8
  <1>6. /\ o \in Seq(Nat) /\ Len(o) = QueuedWrites(E)
        /\ \A i \in 1 .. Len(E) :
             E[i].type = "write" => o[1] = t.owed[Rank(ev, 2)] /\ Rank(E, i) = 1
    <2>1. ASSUME ev[1].type = "write"
          PROVE  /\ o \in Seq(Nat) /\ Len(o) = Len(t.owed) - 1
                 /\ Len(t.owed) = 2 => o[1] = t.owed[2]
      <3>1. o = Tail(t.owed) /\ t.owed # <<>>
        BY <1>2, <1>5, <2>1
      <3> HIDE DEF o
      <3>2. /\ o \in Seq(Nat) /\ Len(o) = Len(t.owed) - 1
            /\ \A i \in 1 .. Len(o) : o[i] = t.owed[i + 1]
        <4> DEFINE w == t.owed
        <4>1. w \in Seq(Nat) /\ w # <<>> /\ o = Tail(w)
          BY <1>0, <3>1
        <4> HIDE DEF w
        <4>2. /\ Tail(w) \in Seq(Nat) /\ Len(Tail(w)) = Len(w) - 1
              /\ \A i \in 1 .. Len(Tail(w)) : Tail(w)[i] = w[i + 1]
          BY <4>1, HeadTailProperties
        <4>3. /\ o \in Seq(Nat) /\ Len(o) = Len(w) - 1
              /\ \A i \in 1 .. Len(o) : o[i] = w[i + 1]
          BY <4>1, <4>2
        <4> QED
          BY <4>3 DEF w
      <3>3. Len(t.owed) = 2 => 1 \in 1 .. Len(o) /\ 1 + 1 = 2
        BY <3>2
      <3> QED
        BY <3>2, <3>3
    <2>2. ASSUME ev[1].type # "write" PROVE o = t.owed
      BY <1>2, <2>2
    <2> HIDE DEF o, ev
    <2>3. QueuedWrites(E) = IF Len(ev) = 2 /\ ev[2].type = "write" THEN 1 ELSE 0
      <3>1. CASE Len(ev) = 2
        <4>1. Len(E) = 1 /\ E[1] = ev[2]
          BY <1>2, <3>1
        <4>2. (\A i \in 1 .. Len(E) : E[i].type # "write") <=> ev[2].type # "write"
          BY <4>1
        <4> QED
          BY <3>1, <4>1, <4>2 DEF QueuedWrites
      <3>2. CASE Len(ev) = 1
        <4>1. Len(E) = 0 /\ 1 .. Len(E) = {}
          BY <1>2, <3>2
        <4> QED
          BY <3>2, <4>1 DEF QueuedWrites
      <3> QED
        BY <1>2, <3>1, <3>2
    <2>4. ASSUME NEW i \in 1 .. Len(E), E[i].type = "write"
          PROVE  o[1] = t.owed[Rank(ev, 2)] /\ Rank(E, i) = 1
      <3>1. i = 1 /\ Len(ev) = 2 /\ E[i] = ev[2]
        BY <1>2
      <3>2. CASE ev[1].type = "write"
        BY <1>5, <2>1, <2>4, <3>1, <3>2 DEF Rank
      <3>3. CASE ev[1].type # "write"
        BY <2>2, <2>4, <3>1, <3>3 DEF Rank
      <3> QED
        BY <3>2, <3>3
    <2>5. o \in Seq(Nat) /\ Len(o) = QueuedWrites(E)
      <3>1. CASE ev[1].type = "write"
        <4>1. o \in Seq(Nat) /\ Len(o) = Len(t.owed) - 1
          BY <2>1, <3>1
        <4>2. Len(t.owed) = IF Len(ev) = 2 /\ ev[2].type = "write" THEN 2 ELSE 1
          BY <1>5, <3>1
        <4> QED
          BY <2>3, <4>1, <4>2
      <3>2. CASE ev[1].type # "write"
        BY <1>0, <1>5, <2>2, <2>3, <3>2
      <3> QED
        BY <3>1, <3>2
    <2> QED
      BY <2>4, <2>5
  <1> HIDE DEF o
  <1>7. r \in TargetType
    BY <1>0, <1>2, <1>6 DEF TargetType
  <1>8. /\ r.events = E /\ r.overflow = t.overflow /\ r.discard = t.discard
        /\ r.rxActive = t.rxActive /\ r.rxSlot = t.rxSlot /\ r.owed = o
        /\ r.preload = t.preload /\ r.preSlot = t.preSlot /\ r.buf = t.buf
        /\ r.reading = t.reading /\ r.readSlot = t.readSlot /\ r.index = t.index
    BY <1>0, <1>7 DEF TargetType
  <1> HIDE DEF r
  <1>9. \A i \in 1 .. Len(E) : E[i] = ev[2] /\ i = 1 /\ 2 \in 1 .. Len(ev)
    <2> HIDE DEF ev, E
    <2>1. CASE Len(ev) = 1
      BY <1>2, <2>1
    <2>2. CASE Len(ev) = 2
      BY <1>2, <2>2
    <2> QED
      BY <1>2, <2>1, <2>2
  <1>10. Exclusive(r)
    BY <1>8, <1>9 DEF TargetOK, Exclusive
  <1>11. Events(r)
    BY <1>2, <1>8, <1>9 DEF TargetOK, Events
  <1>12. Delivers(r)
    <2> SUFFICES ASSUME NEW i \in 1 .. Len(E), E[i].type = "write"
                 PROVE  Whole(t.buf[E[i].slot], o[Rank(E, i)])
      BY <1>6, <1>8 DEF Delivers
    <2>1. Whole(t.buf[ev[2].slot], t.owed[Rank(ev, 2)])
      BY <1>1, <1>9 DEF TargetOK, Delivers
    <2> QED
      BY <1>6, <1>9, <2>1
  <1>13. TargetOK(r)
    BY <1>7, <1>8, <1>10, <1>11, <1>12 DEF TargetOK, Responds
  <1>14. TargetOK(Freed(r)) /\ SameTransaction(Freed(r), r)
    BY <1>13, FreedSame
  <1>15. SameTransaction(r, t)
    BY <1>8 DEF SameTransaction, Taken
  <1>16. ASSUME Polled(t).result = "write"
         PROVE  Polled(t).bytes = Tokens(Head(t.owed), FrameSize) /\ t.owed # <<>>
    <2> DEFINE b == t.buf[ev[1].slot]
               f == t.owed[1]
    <2>1. ev[1].type = "write" /\ ~(Len(b) > FrameSize) /\ Polled(t).bytes = b
      BY <1>1, <1>2, <1>16 DEF Polled
    <2>2. Whole(b, f) /\ t.owed # <<>>
      BY <1>5, <2>1
    <2>3. b \in Seq(Byte)
      BY <1>0, <1>4, <2>1 DEF TargetType, Slots
    <2>4. Head(t.owed) = f /\ f \in Nat
      <3>1. 1 \in 1 .. Len(t.owed)
        BY <1>2, <1>5, <2>1
      <3> QED
        BY <1>0, <2>2, <3>1, ElementOfSeq, HeadTailProperties
    <2> HIDE DEF b, f
    <2>5. Len(b) = FrameSize
      BY <2>1, <2>2, <2>3, Sizes DEF Whole
    <2>6. /\ Tokens(f, FrameSize) \in Seq(Byte) /\ Len(Tokens(f, FrameSize)) = FrameSize
          /\ \A i \in 1 .. FrameSize : Tokens(f, FrameSize)[i] = Token(f, i)
      BY <2>4, Sizes, TokensAre
    <2>7. b = Tokens(f, FrameSize)
      BY <2>2, <2>3, <2>5, <2>6, SeqEqual DEF Whole
    <2> QED
      BY <2>1, <2>2, <2>4, <2>7
  <1> QED
    BY <1>3, <1>14, <1>15, <1>16 DEF SameTransaction

(* target_transmit: a read takes the preloaded response with it. *)
LEMMA ReadBegunOK ==
    ASSUME NEW t, TargetOK(t), NEW read, t.reading = 0 => read = <<>>,
           t.reading = 1 => ReadSoFar(t, read)
    PROVE  LET u == ReadBegun(t)
           IN  /\ TargetOK(u) /\ u.reading = 1 /\ ReadSoFar(u, read)
               /\ u.rxActive = t.rxActive /\ u.discard = t.discard
  <1> DEFINE s == IF t.preload = 1 THEN t.preSlot ELSE NoSlot
             v == [t EXCEPT !.readSlot = s, !.index = 0, !.preload = 0, !.preSlot = 0,
                            !.reading = 1]
  <1>0. t \in TargetType /\ t.reading \in {0, 1}
    BY DEF TargetOK, TargetType
  <1>1. CASE t.reading = 1
    BY <1>1 DEF ReadBegun
  <1>2. CASE t.reading = 0
    <2>0. ReadBegun(t) = v
      BY <1>2 DEF ReadBegun
    <2>1. s \in 0 .. 2
      BY <1>0 DEF NoSlot, TargetType
    <2>2. t.preload = 1 => s = t.preSlot /\ s \in Slots /\ IsResponse(t.buf[s])
      BY DEF TargetOK, Exclusive, Responds
    <2>3. t.preload # 1 => s = NoSlot /\ s \notin Slots
      BY DEF NoSlot, Slots
    <2> HIDE DEF s
    <2>4. v \in TargetType
      <3> DEFINE m == [t EXCEPT !.readSlot = s, !.index = 0]
                 w == [m EXCEPT !.preload = 0, !.reading = 1]
      <3>1. m \in TargetType
        BY <1>0, <2>1 DEF TargetType
      <3>2. v = [w EXCEPT !.preSlot = 0]
        BY <1>0 DEF TargetType
      <3> HIDE DEF m
      <3>3. w \in TargetType
        BY <3>1 DEF TargetType
      <3>4. ASSUME NEW z \in 0 .. 2 PROVE [w EXCEPT !.preSlot = z] \in TargetType
        <4> HIDE DEF w
        <4> QED
          BY <3>3 DEF TargetType
      <3> HIDE DEF v, w
      <3> QED
        BY <3>2, <3>4
    <2>5. /\ v.events = t.events /\ v.overflow = t.overflow /\ v.discard = t.discard
          /\ v.rxActive = t.rxActive /\ v.rxSlot = t.rxSlot /\ v.owed = t.owed
          /\ v.preload = 0 /\ v.buf = t.buf
          /\ v.reading = 1 /\ v.readSlot = s /\ v.index = 0
      BY <1>0, <2>4 DEF TargetType
    <2> HIDE DEF v
    <2>6. Exclusive(v)
      <3>1. CASE t.preload = 1
        BY <2>2, <2>5, <3>1 DEF TargetOK, Exclusive
      <3>2. CASE t.preload # 1
        <4>1. t.rxActive = 1 => t.rxSlot # s
          BY <2>3, <3>2 DEF TargetOK, Exclusive
        <4> QED
          BY <2>3, <2>5, <3>2, <4>1 DEF TargetOK, Exclusive
      <3> QED
        BY <3>1, <3>2
    <2>7. Events(v)
      BY <2>5 DEF TargetOK, Events
    <2>8. Delivers(v)
      BY <2>5 DEF TargetOK, Delivers
    <2>9. Responds(v)
      BY <2>2, <2>3, <2>5 DEF Responds
    <2>10. Len(read) = 0 /\ 1 .. Len(read) = {}
      BY <1>2
    <2>11. ReadSoFar(v, read)
      BY <2>2, <2>3, <2>5, <2>10 DEF ReadSoFar, ReadOf, IsResponse
    <2>12. TargetOK(v) /\ v.reading = 1 /\ v.rxActive = t.rxActive /\ v.discard = t.discard
      BY <2>4, <2>5, <2>6, <2>7, <2>8, <2>9 DEF TargetOK
    <2> QED
      BY <2>0, <2>11, <2>12
  <1> QED
    BY <1>0, <1>1, <1>2

LEMMA TransmitOK ==
    ASSUME NEW t, TargetOK(t), NEW read \in Seq(Byte), t.reading = 0 => read = <<>>,
           t.reading = 1 => ReadSoFar(t, read)
    PROVE  /\ TargetOK(Transmit(t)) /\ Transmit(t).reading = 1
           /\ Transmit(t).rxActive = t.rxActive /\ Transmit(t).discard = t.discard
           /\ Transmitted(t) \in Byte /\ ReadSoFar(Transmit(t), Append(read, Transmitted(t)))
  <1> DEFINE v == ReadBegun(t)
             u == Transmit(t)
             b == Transmitted(t)
             a == Append(read, b)
             n == Len(read)
  <1>1. /\ TargetOK(v) /\ v.reading = 1 /\ ReadSoFar(v, read)
        /\ v.rxActive = t.rxActive /\ v.discard = t.discard
    BY ReadBegunOK
  <1>u. u = [v EXCEPT !.index = @ + 1]
    BY DEF Transmit
  <1>b. b = IF v.readSlot # NoSlot /\ v.index < Len(v.buf[v.readSlot])
              THEN v.buf[v.readSlot][v.index + 1] ELSE Fill
    BY DEF Transmitted
  <1> HIDE DEF v, u, b
  <1>2. v \in TargetType /\ v.index \in Nat /\ v.index = n
    BY <1>1 DEF TargetOK, TargetType, ReadSoFar
  <1>3. u \in TargetType
    <2> DEFINE k == v.index + 1
    <2>1. k \in Nat /\ u = [v EXCEPT !.index = k]
      BY <1>2, <1>u DEF TargetType
    <2> HIDE DEF k
    <2> QED
      BY <1>2, <2>1 DEF TargetType
  <1>4. u.index = n + 1
    BY <1>2, <1>3, <1>u DEF TargetType
  <1>5. /\ u.events = v.events /\ u.overflow = v.overflow /\ u.discard = v.discard
        /\ u.rxActive = v.rxActive /\ u.rxSlot = v.rxSlot /\ u.owed = v.owed
        /\ u.preload = v.preload /\ u.preSlot = v.preSlot /\ u.buf = v.buf
        /\ u.reading = v.reading /\ u.readSlot = v.readSlot
    BY <1>2, <1>3, <1>u DEF TargetType
  <1>6. TargetOK(u)
    BY <1>1, <1>3, <1>5 DEF TargetOK, Exclusive, Events, Delivers, Responds
  <1>7. v.readSlot # NoSlot <=> v.readSlot \in Slots
    BY <1>2 DEF TargetType, NoSlot, Slots
  <1>8. CASE v.readSlot \in Slots
    <2>1. PICK f \in Frames : /\ v.buf[v.readSlot] = Tokens(f, ResponseSize)
                              /\ ReadOf(read, f, ResponseSize)
      BY <1>1, <1>8 DEF ReadSoFar
    <2>2. /\ Len(Tokens(f, ResponseSize)) = ResponseSize /\ f \in Nat
          /\ \A i \in 1 .. ResponseSize : Tokens(f, ResponseSize)[i] = Token(f, i)
      BY FrameIs, Sizes, TokensAre
    <2>3. b = IF n + 1 <= ResponseSize THEN Token(f, n + 1) ELSE Fill
      <3>1. CASE n < ResponseSize
        <4>1. n + 1 \in 1 .. ResponseSize /\ n + 1 <= ResponseSize
          BY <1>2, <3>1, Sizes
        <4> QED
          BY <1>2, <1>7, <1>8, <1>b, <2>1, <2>2, <3>1, <4>1
      <3>2. CASE ~(n < ResponseSize)
        <4>1. ~(n + 1 <= ResponseSize)
          BY <1>2, <3>2, Sizes
        <4> QED
          BY <1>2, <1>7, <1>8, <1>b, <2>1, <2>2, <3>2, <4>1
      <3> QED
        BY <3>1, <3>2
    <2>4. b \in Byte
      BY <1>2, <2>2, <2>3 DEF Byte, Token, Fill
    <2>5. Len(a) = n + 1 /\ a[n + 1] = b /\ \A i \in 1 .. n : a[i] = read[i]
      BY <2>4, AppendProperties
    <2> HIDE DEF a
    <2>6. ReadOf(a, f, ResponseSize)
      <3>1. \A i \in 1 .. n + 1 : i \in 1 .. n \/ i = n + 1
        BY <1>2
      <3> QED
        BY <2>1, <2>3, <2>5, <3>1 DEF ReadOf
    <2>7. ReadSoFar(u, a)
      BY <1>4, <1>5, <1>8, <2>1, <2>5, <2>6 DEF ReadSoFar
    <2> QED
      BY <1>1, <1>5, <1>6, <2>4, <2>7 DEF u, b, a
  <1>9. CASE v.readSlot \notin Slots
    <2>1. b = Fill /\ b \in Byte
      BY <1>7, <1>9, <1>b DEF Byte, Fill
    <2>2. Len(a) = n + 1 /\ a[n + 1] = b /\ \A i \in 1 .. n : a[i] = read[i]
      BY <2>1, AppendProperties
    <2>3. ReadOf(read, 1, 0)
      BY <1>1, <1>9 DEF ReadSoFar
    <2> HIDE DEF a
    <2>4. ReadOf(a, 1, 0)
      <3>1. \A i \in 1 .. n + 1 : (i \in 1 .. n \/ i = n + 1) /\ ~(i <= 0)
        BY <1>2
      <3> QED
        BY <2>1, <2>2, <2>3, <3>1 DEF ReadOf
    <2>5. ReadSoFar(u, a)
      BY <1>4, <1>5, <1>9, <2>2, <2>4 DEF ReadSoFar
    <2> QED
      BY <1>1, <1>5, <1>6, <2>1, <2>5 DEF u, b, a
  <1> QED
    BY <1>8, <1>9

-----------------------------------------------------------------------------
(* Operations and interrupts on the connector. *)

SameMode(m, l) ==
    /\ m.claimant = l.claimant /\ m.quarantined = l.quarantined /\ m.owner = l.owner
    /\ m.mode = l.mode

LEMMA NoSlaveUnlessTarget ==
    ASSUME NEW l, LinkOK(l), l.mode # "target"
    PROVE  l.slave = NoSlave
  <1>1. l.slave.on \in {0, 1}
    BY DEF LinkOK, LinkType, SlaveType
  <1> QED
    BY <1>1 DEF LinkOK, SwitchedOn

LEMMA Consumed ==
    ASSUME NEW s \in Seq(Byte), NEW n \in 0 .. Len(s)
    PROVE  SubSeq(s, n + 1, Len(s)) \in Seq(Byte) /\ SubSeq(s, 1, n) \in Seq(Byte)
  <1> DEFINE a == n + 1
             b == Len(s)
  <1>1. /\ a \in Int /\ b \in Int /\ n \in Int
        /\ \A i \in a .. b : s[i] \in Byte
        /\ \A i \in 1 .. n : s[i] \in Byte
    OBVIOUS
  <1> HIDE DEF a, b
  <1>2. SubSeq(s, a, b) \in Seq(Byte) /\ SubSeq(s, 1, n) \in Seq(Byte)
    BY <1>1, SubSeqProperties
  <1> QED
    BY <1>2 DEF a, b

(* k210_external_uart_read *)
LEMMA AfterReadOK ==
    ASSUME NEW l, LinkOK(l), l.mode = "uart"
    PROVE  /\ LinkOK(AfterRead(l)) /\ SameMode(AfterRead(l), l)
           /\ AfterRead(l).op = l.op /\ AfterRead(l).target = l.target
           /\ UartRead(l) \in Seq(Byte)
  <1> DEFINE n == Least(PollMax, Len(l.ring))
             rest == SubSeq(l.ring, n + 1, Len(l.ring))
             r == AfterRead(l)
  <1>0. l \in LinkType /\ l.ring \in Seq(Byte)
    BY DEF LinkOK, LinkType
  <1>1. n \in 0 .. Len(l.ring)
    BY <1>0, Sizes DEF Least
  <1>2. rest \in Seq(Byte) /\ SubSeq(l.ring, 1, n) \in Seq(Byte)
    BY <1>0, <1>1, Consumed
  <1>3. UartRead(l) \in Seq(Byte)
    BY <1>2, EmptySeq DEF UartRead
  <1>4. /\ r \in LinkType /\ SameMode(r, l) /\ r.op = l.op /\ r.target = l.target
        /\ r.controller.active = 0 /\ r.slave = NoSlave /\ r.txFifo \in {l.txFifo, <<>>}
        /\ r.uart = 1 => r.mode = "uart"
    <2>1. CASE l.dropped = 1
      <3>1. r = ResetUart(l)
        BY <2>1 DEF AfterRead
      <3>2. r \in LinkType
        BY <1>0, <3>1, Switches
      <3> QED
        BY <1>0, <3>1, <3>2
        DEF ResetUart, StartUart, StopUart, ClearRing, LinkType, NoController, NoSlave, SameMode
    <2>2. CASE l.dropped # 1
      <3>1. r = [l EXCEPT !.ring = rest]
        BY <1>0, <2>2 DEF AfterRead, LinkType
      <3>2. l.slave = NoSlave /\ l.controller.active = 0
        <4>1. l.controller.active \in {0, 1}
          BY <1>0 DEF LinkType, ControllerType
        <4> QED
          BY <4>1, NoSlaveUnlessTarget DEF LinkOK, SwitchedOn, Operating
      <3> HIDE DEF r, rest
      <3> QED
        BY <1>0, <1>2, <3>1, <3>2, ZenonT(60) DEF LinkType, SameMode
    <2> QED
      BY <2>1, <2>2
  <1> HIDE DEF r
  <1>5. LinkOK(r)
    BY <1>4, Sizes DEF LinkOK, Held, Operating, SwitchedOn, Sending, SameMode, NoSlave
  <1> QED
    BY <1>3, <1>4, <1>5 DEF r

LEMMA NextGenIs == ASSUME NEW l \in LinkType PROVE NextGen(l) \in Nat \ {0}
  <1>1. l.gen \in Nat /\ GenMax \in Nat \ {0}
    BY Sizes DEF LinkType
  <1> QED
    BY <1>1 DEF NextGen

(* hk_external_link_begin_...: one operation at a time, nothing is at work. *)
LEMMA BegunOK ==
    ASSUME NEW l, LinkOK(l), NEW user \in {"service", "script"},
           NEW kind \in {"write", "transfer"}, CanBegin(l, user, kind)
    PROVE  LET m == Begun(l, kind)
           IN  /\ LinkOK(m) /\ SameMode(m, l) /\ m.target = l.target
               /\ m.op.gen = NextGen(l) /\ NextGen(l) # 0
  <1> DEFINE o == [NoOp EXCEPT !.state = "flight", !.gen = NextGen(l), !.kind = kind,
                               !.result = "pending"]
             m == Begun(l, kind)
  <1>0. l \in LinkType /\ NextGen(l) \in Nat \ {0}
    BY NextGenIs DEF LinkOK
  <1>1. o \in OpType /\ o.state = "flight" /\ o.gen = NextGen(l) /\ o.kind = kind /\ o.tx = 0
    <2>1. NoOp \in OpType /\ NoOp.tx = 0
      BY Initially DEF NoOp
    <2> QED
      BY <1>0, <2>1 DEF OpType
  <1>2. m = [l EXCEPT !.gen = NextGen(l), !.late = 0, !.op = o]
    BY DEF Begun
  <1> HIDE DEF o, m
  <1>3. m \in LinkType
    BY <1>0, <1>1, <1>2 DEF LinkType
  <1>4. /\ SameMode(m, l) /\ m.target = l.target /\ m.op = o /\ m.controller = l.controller
        /\ m.uart = l.uart /\ m.slave = l.slave /\ m.txFifo = l.txFifo
    BY <1>0, <1>2, <1>3 DEF LinkType, SameMode
  <1>5. Held(m)
    BY <1>4 DEF LinkOK, Held, SameMode
  <1>6. Operating(m)
    <2>1. m.mode = IF kind = "write" THEN "uart" ELSE "controller"
      BY <1>4 DEF CanBegin, SameMode
    <2>2. WriteSize(m.claimant) \in Nat
      BY Sizes DEF WriteSize
    <2> QED
      BY <1>1, <1>4, <2>1, <2>2 DEF Operating
  <1>7. SwitchedOn(m)
    <2>1. l.op.state # "flight"
      BY DEF CanBegin
    <2>2. m.controller.active # 1
      BY <1>4, <2>1 DEF LinkOK, SwitchedOn
    <2> QED
      BY <1>4, <2>2 DEF LinkOK, SwitchedOn, SameMode
  <1>8. LinkOK(m)
    BY <1>3, <1>4, <1>5, <1>6, <1>7 DEF LinkOK, Sending
  <1> QED
    BY <1>0, <1>1, <1>4, <1>8 DEF m

(* uart_receive_irq *)
LEMMA UartByteOK ==
    ASSUME NEW l, LinkOK(l), NEW byte \in Byte
    PROVE  LET m == UartByte(l, byte)
           IN  /\ LinkOK(m) /\ SameMode(m, l) /\ m.op = l.op
               /\ m.target = l.target /\ m.slave = l.slave
  <1> DEFINE a == Append(l.ring, byte)
             m == UartByte(l, byte)
  <1>0. l \in LinkType /\ a \in Seq(Byte)
    BY AppendProperties DEF LinkOK, LinkType
  <1>1. m \in {l, [l EXCEPT !.dropped = 1], [l EXCEPT !.ring = a]}
    BY <1>0 DEF UartByte, LinkType
  <1> HIDE DEF m, a
  <1>2. m \in LinkType
    BY <1>0, <1>1 DEF LinkType
  <1>3. /\ SameMode(m, l) /\ m.target = l.target /\ m.op = l.op /\ m.controller = l.controller
        /\ m.uart = l.uart /\ m.slave = l.slave /\ m.txFifo = l.txFifo
    BY <1>0, <1>1, <1>2 DEF LinkType, SameMode
  <1>4. LinkOK(m)
    BY <1>2, <1>3 DEF LinkOK, Held, Operating, SwitchedOn, Sending, SameMode
  <1> QED
    BY <1>3, <1>4 DEF m

(* A peripheral's own step: the controller's, the deadline's or the target's. *)
LEMMA PeripheralStep ==
    ASSUME NEW l, LinkOK(l), NEW m \in LinkType, SameMode(m, l), m.op = l.op,
           m.uart = l.uart, m.controller.active = l.controller.active,
           m.controller.gen = l.controller.gen,
           m.slave.on = l.slave.on, l.slave.on = 0 => m.slave = l.slave,
           Sending(m)
    PROVE  LinkOK(m)
  BY DEF LinkOK, Held, Operating, SwitchedOn, SameMode

-----------------------------------------------------------------------------
(* The target when the connector is reconfigured, or left as it was. *)

LEMMA TargetCleared ==
    ASSUME LinkInv, NEW s \in {NoSlave, [NoSlave EXCEPT !.on = 1]}
    PROVE  TargetOK(NoTarget) /\ OnTheBus(NoTarget, s, peer)
  <1> DEFINE t == NoTarget
  <1>1. /\ t \in TargetType /\ t.events = <<>> /\ t.overflow = 0 /\ t.discard = 0
        /\ t.rxActive = 0 /\ t.preload = 0 /\ t.reading = 0 /\ t.owed = <<>>
    BY Initially DEF NoTarget
  <1>2. s.heard = 0 /\ s.stop = 0 /\ s.fifo = <<>>
    BY DEF NoSlave
  <1>3. /\ peer.bus = "read" => peer.sent = 0
        /\ ReadWhole(peer)
    BY DEF LinkInv, TargetInv, OnTheBus
  <1> HIDE DEF t
  <1>4. Len(t.events) = 0 /\ 1 .. Len(t.events) = {} /\ Len(t.owed) = 0
    BY <1>1
  <1>5. TargetOK(t)
    BY <1>1, <1>4 DEF TargetOK, Exclusive, Events, Delivers, Responds, QueuedWrites
  <1>6. OnTheBus(t, s, peer)
    BY <1>1, <1>2, <1>3 DEF OnTheBus, Writing, Reading
  <1> QED
    BY <1>5, <1>6 DEF t

LEMMA TargetLeft ==
    ASSUME LinkInv, NEW m, LinkOK(m), m.mode = link.mode, m.target = link.target,
           link.mode = "target" => m.slave = link.slave
    PROVE  TargetOK(m.target) /\ OnTheBus(m.target, m.slave, peer)
  <1>1. m.slave = link.slave
    BY NoSlaveUnlessTarget DEF LinkInv
  <1> QED
    BY <1>1 DEF LinkInv, TargetInv

(* A poll or a cancel: there is no operation while the target is on. *)
LEMMA OpIsNoTarget ==
    ASSUME NEW l, LinkOK(l), l.op.state # "none"
    PROVE  l.mode # "target" /\ l.mode # "off"
  BY DEF LinkOK, Operating, NoOp

LEMMA TargetOfOp ==
    ASSUME LinkInv, link.op.state # "none", NEW m, LinkOK(m), SameHolder(m, link)
    PROVE  TargetOK(m.target) /\ OnTheBus(m.target, m.slave, peer)
  <1>1. link.mode # "target"
    BY OpIsNoTarget DEF LinkInv
  <1> QED
    BY <1>1, TargetLeft DEF SameHolder

(* service_cancel_uart: the service has no operation in flight after it. *)
LEMMA CancelledLink ==
    ASSUME LinkInv
    PROVE  LET l == Cancelled(link)
           IN  /\ LinkOK(l) /\ SameMode(l, link)
               /\ TargetOK(l.target) /\ OnTheBus(l.target, l.slave, peer)
               /\ l.claimant = "service" => l.op.state # "flight"
  <1> DEFINE l == Cancelled(link)
  <1>0. LinkOK(link) /\ link \in LinkType /\ ServiceInSync
    BY DEF LinkInv, LinkOK
  <1>1. CASE svc.gen # 0 /\ svc.open = 1 /\ OpValid(link, "service", svc.gen)
    <2>1. l = OpCancelled(link) /\ link.op.state # "none"
      BY <1>1 DEF Cancelled, OpValid
    <2> HIDE DEF l
    <2>2. LinkOK(l) /\ SameHolder(l, link) /\ l.op.state = "terminal"
      BY <1>0, <2>1, CancelledOK
    <2>3. TargetOK(l.target) /\ OnTheBus(l.target, l.slave, peer)
      BY <2>1, <2>2, TargetOfOp
    <2> QED
      BY <2>2, <2>3 DEF SameHolder, SameMode, l
  <1>2. CASE ~(svc.gen # 0 /\ svc.open = 1 /\ OpValid(link, "service", svc.gen))
    <2>1. l = link
      BY <1>2 DEF Cancelled
    <2>2. ASSUME link.claimant = "service", link.op.state = "flight" PROVE FALSE
      <3>1. svc.gen = link.op.gen /\ svc.gen # 0 /\ svc.open = 1
        BY <1>0, <2>2 DEF ServiceInSync
      <3>2. link.quarantined = 0
        BY <1>0, <2>2, NoUserFact DEF LinkOK, Held, LinkType
      <3> QED
        BY <1>2, <2>2, <3>1, <3>2 DEF OpValid
    <2>3. TargetOK(link.target) /\ OnTheBus(link.target, link.slave, peer)
      BY DEF LinkInv, TargetInv
    <2> HIDE DEF l
    <2>4. /\ LinkOK(l) /\ SameMode(l, link)
          /\ TargetOK(l.target) /\ OnTheBus(l.target, l.slave, peer)
          /\ l.claimant = "service" => l.op.state # "flight"
      BY <1>0, <2>1, <2>2, <2>3 DEF SameMode
    <2> QED
      BY <2>4 DEF l
  <1> QED
    BY <1>1, <1>2

(* service_configure and service_acquire, with what they leave of the target. *)
LEMMA ServiceSet ==
    ASSUME LinkInv, NEW m, NEW transport \in {"uart", "i2c"}, ServiceModeSet(m, transport)
    PROVE  TargetOK(m.target) /\ OnTheBus(m.target, m.slave, peer)
  BY TargetCleared DEF ServiceModeSet

LEMMA IdleIs ==
    ASSUME svc \in ServiceType
    PROVE  /\ Idle(svc) \in ServiceType /\ Idle(svc).torn = 0 /\ Idle(svc).gen = 0
           /\ Idle(svc).pc = svc.pc /\ Idle(svc).open = svc.open
           /\ Idle(svc).suspended = svc.suspended /\ Idle(svc).transport = svc.transport
  <1> DEFINE i == Idle(svc)
  <1>1. NoParse \in [n : Nat, need : Nat, f : Nat] /\ <<>> \in Seq(Byte)
    BY EmptySeq DEF NoParse
  <1>2. i = [svc EXCEPT !.gen = 0, !.response = 0, !.wait = 0, !.staged = <<>>,
                        !.parse = NoParse, !.torn = 0, !.request = 0]
    BY DEF Idle
  <1> HIDE DEF i
  <1>3. i \in ServiceType
    BY <1>1, <1>2 DEF ServiceType
  <1> QED
    BY <1>2, <1>3 DEF ServiceType, i

-----------------------------------------------------------------------------
(* The steps of the service that change the mode. *)

LEMMA OneMoreFault ==
    ASSUME hist \in HistType, hist.faults < FaultMax
    PROVE  LET h == [hist EXCEPT !.faults = @ + 1]
           IN  h \in HistType /\ h.bad = hist.bad /\ h.torn = hist.torn /\ h.done = hist.done
  <1> DEFINE n == hist.faults + 1
             h == [hist EXCEPT !.faults = n]
  <1>1. n \in 0 .. FaultMax
    BY Sizes DEF HistType
  <1> HIDE DEF n
  <1>2. h \in HistType /\ h.bad = hist.bad /\ h.torn = hist.torn /\ h.done = hist.done
    BY <1>1 DEF HistType
  <1>3. h = [hist EXCEPT !.faults = @ + 1]
    BY DEF HistType, n
  <1> QED
    BY <1>2, <1>3

LEMMA SetTransportStep ==
    ASSUME LinkInv, NEW transport \in {"uart", "i2c"}, SetTransport(transport)
    PROVE  LinkInv'
  <1> DEFINE l == Cancelled(link)
             i == Idle(svc)
  <1>1. /\ LinkOK(l) /\ SameMode(l, link)
        /\ TargetOK(l.target) /\ OnTheBus(l.target, l.slave, peer)
        /\ l.claimant = "service" => l.op.state # "flight"
    BY CancelledLink
  <1>2. /\ i \in ServiceType /\ i.torn = 0 /\ i.gen = 0 /\ i.pc = "tick" /\ i.open = svc.open
        /\ i.suspended = svc.suspended /\ i.transport = svc.transport
    BY IdleIs DEF LinkInv, LinkTypeOK, SetTransport
  <1>3. hist' \in HistType /\ hist'.bad = 0 /\ hist'.torn = 0
    BY OneMoreFault DEF LinkInv, LinkTypeOK, SetTransport, TargetInv, ServiceInSync
  <1>4. /\ svc.open = 1 <=> link.claimant = "service"
        /\ svc.open = 1 => svc.suspended = 0
        /\ link.claimant = "script" => svc.suspended = 1
        /\ svc.open \in {0, 1} /\ svc.suspended \in {0, 1}
    BY DEF LinkInv, ServiceInSync, LinkTypeOK, ServiceType
  <1>5. script' = script /\ peer' = peer /\ script \in ScriptType /\ peer \in PeerType
    BY DEF SetTransport, LinkInv, LinkTypeOK
  <1>6. ASSUME LinkOK(link'), TargetOK(link'.target), OnTheBus(link'.target, link'.slave, peer),
               svc' \in ServiceType, svc'.pc = "tick", ServiceInSync'
        PROVE  LinkInv'
    BY <1>3, <1>5, <1>6 DEF LinkInv, LinkTypeOK, LinkOK, TargetInv
  <1>7. CASE svc.suspended = 1
    <2>1. link' = l /\ svc' = [i EXCEPT !.transport = transport]
      BY <1>7 DEF SetTransport
    <2> HIDE DEF l, i
    <2>2. /\ svc' \in ServiceType /\ svc'.pc = "tick" /\ svc'.open = 0 /\ svc'.suspended = 1
          /\ svc'.torn = 0
      BY <1>2, <1>4, <1>7, <2>1 DEF ServiceType
    <2>3. ServiceInSync'
      BY <1>1, <1>3, <1>4, <1>7, <2>1, <2>2 DEF ServiceInSync, SameMode
    <2> QED
      BY <1>1, <1>6, <2>1, <2>2, <2>3
  <1>8. CASE svc.suspended = 0 /\ svc.open = 1
    <2>1. /\ link' = ServiceConfigured(l, transport)
          /\ svc' = [i EXCEPT !.transport = transport, !.open = IF Acquires(l) THEN 1 ELSE @]
      BY <1>8 DEF SetTransport
    <2> HIDE DEF l, i
    <2>2. /\ svc' \in ServiceType /\ svc'.pc = "tick" /\ svc'.open = 1 /\ svc'.suspended = 0
          /\ svc'.torn = 0 /\ svc'.transport = transport
      BY <1>2, <1>4, <1>8, <2>1 DEF ServiceType
    <2>3. LinkOK(link') /\ ServiceModeSet(link', transport)
      BY <1>1, <1>4, <1>8, <2>1, ServiceConfiguredOK DEF SameMode
    <2>4. TargetOK(link'.target) /\ OnTheBus(link'.target, link'.slave, peer)
      BY <2>3, ServiceSet
    <2>5. ServiceInSync'
      BY <1>3, <2>2, <2>3 DEF ServiceInSync, ServiceModeSet, TransportMode, NoOp
    <2> QED
      BY <1>6, <2>2, <2>3, <2>4, <2>5
  <1>9. CASE svc.suspended = 0 /\ svc.open = 0
    <2>1. /\ link' = ServiceAcquired(l, transport)
          /\ svc' = [i EXCEPT !.transport = transport, !.open = IF Acquires(l) THEN 1 ELSE @]
      BY <1>9 DEF SetTransport
    <2> HIDE DEF l, i
    <2>2. /\ svc' \in ServiceType /\ svc'.pc = "tick" /\ svc'.suspended = 0
          /\ svc'.torn = 0 /\ svc'.transport = transport
          /\ svc'.open = IF Acquires(l) THEN 1 ELSE 0
      BY <1>2, <1>4, <1>9, <2>1 DEF ServiceType
    <2>3. /\ LinkOK(link') /\ (Acquires(l) => ServiceModeSet(link', transport))
          /\ (~Acquires(l) => link' = l)
      BY <1>1, <2>1, ServiceAcquiredOK
    <2>4. TargetOK(link'.target) /\ OnTheBus(link'.target, link'.slave, peer)
      BY <1>1, <2>3, ServiceSet
    <2>5. ServiceInSync'
      <3>1. CASE Acquires(l)
        BY <1>3, <2>2, <2>3, <3>1 DEF ServiceInSync, ServiceModeSet, TransportMode, NoOp
      <3>2. CASE ~Acquires(l)
        BY <1>1, <1>3, <1>4, <1>9, <2>2, <2>3, <3>2 DEF ServiceInSync, SameMode
      <3> QED
        BY <3>1, <3>2
    <2> QED
      BY <1>6, <2>2, <2>3, <2>4, <2>5
  <1> QED
    BY <1>4, <1>7, <1>8, <1>9

LEMMA SetBaudStep ==
    ASSUME LinkInv, SetBaud
    PROVE  LinkInv'
  <1> DEFINE l == Cancelled(link)
             set == svc.transport = "uart" /\ svc.suspended = 0 /\ svc.open = 1
  <1>1. /\ LinkOK(l) /\ SameMode(l, link)
        /\ TargetOK(l.target) /\ OnTheBus(l.target, l.slave, peer)
        /\ l.claimant = "service" => l.op.state # "flight"
    BY CancelledLink
  <1>2. /\ svc' \in ServiceType /\ svc'.torn = 0 /\ svc'.pc = "tick" /\ svc'.open = svc.open
        /\ svc'.suspended = svc.suspended /\ svc'.transport = svc.transport
    BY IdleIs DEF LinkInv, LinkTypeOK, SetBaud
  <1>3. hist' \in HistType /\ hist'.bad = 0 /\ hist'.torn = 0
    BY OneMoreFault DEF LinkInv, LinkTypeOK, SetBaud, TargetInv, ServiceInSync
  <1>4. /\ svc.open = 1 <=> link.claimant = "service"
        /\ svc.open = 1 => svc.suspended = 0
        /\ svc.open = 1 => link.mode = TransportMode(svc.transport)
        /\ link.claimant = "script" => svc.suspended = 1
    BY DEF LinkInv, ServiceInSync, TransportMode
  <1>5. script' = script /\ peer' = peer /\ script \in ScriptType /\ peer \in PeerType
    BY DEF SetBaud, LinkInv, LinkTypeOK
  <1>6. link' = IF set THEN ServiceConfigured(l, "uart") ELSE l
    BY DEF SetBaud
  <1> HIDE DEF l
  <1>7. /\ LinkOK(link') /\ TargetOK(link'.target) /\ OnTheBus(link'.target, link'.slave, peer)
        /\ ServiceInSync'
    <2>1. CASE set
      <3>1. l.claimant = "service"
        BY <1>1, <1>4, <2>1 DEF SameMode
      <3>2. LinkOK(link') /\ ServiceModeSet(link', "uart")
        BY <1>1, <1>6, <2>1, <3>1, ServiceConfiguredOK
      <3>3. ServiceInSync'
        BY <1>2, <1>3, <2>1, <3>2 DEF ServiceInSync, ServiceModeSet, TransportMode, NoOp
      <3> QED
        BY <3>2, <3>3, ServiceSet
    <2>2. CASE ~set
      <3>1. ServiceInSync'
        BY <1>1, <1>2, <1>3, <1>4, <1>6, <2>2 DEF ServiceInSync, SameMode, TransportMode
      <3> QED
        BY <1>1, <1>6, <2>2, <3>1
    <2> QED
      BY <2>1, <2>2
  <1> QED
    BY <1>2, <1>3, <1>5, <1>7 DEF LinkInv, LinkTypeOK, LinkOK, TargetInv

LEMMA AcquireStep ==
    ASSUME LinkInv, Acquire
    PROVE  LinkInv'
  <1>1. svc \in ServiceType /\ svc.torn = 0 /\ svc.pc = "tick" /\ svc.suspended = 0
    BY DEF LinkInv, LinkTypeOK, ServiceInSync, Acquire
  <1>2. svc' = [svc EXCEPT !.open = 1] /\ link' = ServiceAcquired(link, svc.transport)
        /\ Acquires(link) /\ UNCHANGED <<script, peer, hist>>
    BY DEF Acquire
  <1>3. /\ svc' \in ServiceType /\ svc'.torn = 0 /\ svc'.pc = "tick" /\ svc'.open = 1
        /\ svc'.suspended = 0 /\ svc'.transport = svc.transport
    BY <1>1, <1>2 DEF ServiceType
  <1>4. svc.transport \in {"uart", "i2c"}
    BY <1>1 DEF ServiceType
  <1>5. LinkOK(link') /\ ServiceModeSet(link', svc.transport)
    BY <1>2, <1>4, ServiceAcquiredOK DEF LinkInv
  <1>6. TargetOK(link'.target) /\ OnTheBus(link'.target, link'.slave, peer)
    BY <1>4, <1>5, ServiceSet
  <1>7. ServiceInSync'
    BY <1>2, <1>3, <1>5
    DEF LinkInv, ServiceInSync, ServiceModeSet, TransportMode, NoOp
  <1> QED
    BY <1>2, <1>3, <1>5, <1>6, <1>7 DEF LinkInv, LinkTypeOK, LinkOK, TargetInv

-----------------------------------------------------------------------------
(* The tick of the service. *)

LEMMA Ticking ==
    ASSUME LinkInv, Ticks
    PROVE  /\ link.claimant = "service" /\ link.mode = TransportMode(svc.transport)
           /\ svc.pc = "tick" /\ svc.open = 1 /\ svc.suspended = 0
           /\ link.op.state = "flight" => svc.gen = link.op.gen /\ svc.gen # 0
  BY DEF LinkInv, ServiceInSync, Ticks, TransportMode

(* A step that leaves the service's transport and session. *)
LEMMA StillInSync ==
    ASSUME LinkInv, SameMode(link', link), svc'.open = svc.open, svc'.suspended = svc.suspended,
           svc'.transport = svc.transport, svc'.torn = 0, hist'.torn = 0,
           link'.claimant = "service" /\ link'.op.state = "flight" =>
             svc'.gen = link'.op.gen /\ svc'.gen # 0
    PROVE  ServiceInSync'
  BY DEF LinkInv, ServiceInSync, SameMode

LEMMA ResponseIs ==
    ASSUME LinkInv
    PROVE  /\ Response \in Seq(Byte) /\ Len(Response) = ResponseSize
           /\ \A i \in 1 .. Len(Response) : Response[i] # Fill
  <1>1. svc.torn = 0 /\ svc.response \in Nat /\ ResponseSize \in Nat
    BY Sizes DEF LinkInv, ServiceInSync, LinkTypeOK, ServiceType
  <1>2. Response = Tokens(svc.response, ResponseSize)
    BY <1>1 DEF Response, Tokens
  <1> QED
    BY <1>1, <1>2, TokensAre

LEMMA TickPollStep ==
    ASSUME LinkInv, TickPoll
    PROVE  LinkInv'
  <1> DEFINE valid == OpValid(link, "service", svc.gen)
  <1>1. /\ link.claimant = "service" /\ svc.pc = "tick" /\ svc.gen # 0
        /\ link.op.state = "flight" => svc.gen = link.op.gen
    BY Ticking DEF TickPoll, UartTicks
  <1>2. /\ link' = IF valid THEN OpPolled(link, Response) ELSE link
        /\ svc' = IF link'.op.state = "flight" THEN svc
                  ELSE [svc EXCEPT !.gen = 0, !.response = 0, !.torn = 0]
        /\ UNCHANGED <<script, peer, hist>>
    BY DEF TickPoll
  <1>3. /\ LinkOK(link') /\ SameMode(link', link)
        /\ TargetOK(link'.target) /\ OnTheBus(link'.target, link'.slave, peer)
        /\ link'.op.gen = link.op.gen
        /\ link'.op.state = "flight" => link.op.state = "flight" \/ valid
    <2>1. CASE valid
      <3>1. link.op.state # "none" /\ LinkOK(link)
        BY <2>1 DEF OpValid, LinkInv
      <3>2. Len(Response) = WriteSize(link.claimant)
        BY <1>1, ResponseIs DEF WriteSize
      <3>3. LinkOK(link') /\ SameHolder(link', link)
        BY <1>2, <2>1, <3>1, <3>2, ResponseIs, PolledOK
      <3>4. TargetOK(link'.target) /\ OnTheBus(link'.target, link'.slave, peer)
        BY <3>1, <3>3, TargetOfOp
      <3> QED
        BY <2>1, <3>3, <3>4 DEF SameHolder, SameMode
    <2>2. CASE ~valid
      <3>1. link' = link
        BY <1>2, <2>2
      <3> QED
        BY <3>1 DEF LinkInv, TargetInv, SameMode
    <2> QED
      BY <2>1, <2>2
  <1>4. /\ svc' \in ServiceType /\ svc'.open = svc.open /\ svc'.suspended = svc.suspended
        /\ svc'.transport = svc.transport /\ svc'.torn = 0 /\ svc'.pc = "tick"
        /\ link'.op.state = "flight" => svc'.gen = svc.gen
    <2>1. svc \in ServiceType /\ svc.torn = 0
      BY DEF LinkInv, LinkTypeOK, ServiceInSync
    <2> QED
      BY <1>1, <1>2, <2>1, ZenonT(60) DEF ServiceType
  <1>5. ServiceInSync'
    <2>1. link'.op.state = "flight" => svc'.gen = link'.op.gen /\ svc'.gen # 0
      BY <1>1, <1>3, <1>4 DEF OpValid
    <2>2. hist'.torn = 0
      BY <1>2 DEF LinkInv, ServiceInSync
    <2> QED
      BY <1>3, <1>4, <2>1, <2>2, StillInSync
  <1> QED
    BY <1>2, <1>3, <1>4, <1>5 DEF LinkInv, LinkTypeOK, LinkOK, TargetInv

LEMMA TickRespondStep ==
    ASSUME LinkInv, TickRespond
    PROVE  LinkInv'
  <1>1. link.claimant = "service" /\ svc.pc = "tick" /\ svc.gen = 0 /\ link.op.state # "flight"
    BY Ticking DEF TickRespond, UartTicks
  <1>2. svc \in ServiceType /\ svc.torn = 0 /\ LinkOK(link) /\ hist.torn = 0
    BY DEF LinkInv, LinkTypeOK, ServiceInSync
  <1>3. UNCHANGED <<script, peer, hist>>
    BY DEF TickRespond
  <1>4. ASSUME svc' \in ServiceType, svc'.open = svc.open, svc'.suspended = svc.suspended,
               svc'.transport = svc.transport, svc'.torn = 0, svc'.pc = "tick",
               LinkOK(link'), SameMode(link', link), link'.target = link.target,
               link'.op.state = "flight" => svc'.gen = link'.op.gen /\ svc'.gen # 0,
               link.mode = "target" => link'.slave = link.slave
        PROVE  LinkInv'
    <2>1. TargetOK(link'.target) /\ OnTheBus(link'.target, link'.slave, peer)
      BY <1>4, TargetLeft DEF SameMode
    <2>2. ServiceInSync'
      BY <1>2, <1>3, <1>4, StillInSync
    <2> QED
      BY <1>3, <1>4, <2>1, <2>2 DEF LinkInv, LinkTypeOK, LinkOK, TargetInv
  <1>5. CASE svc.wait # 1 /\ CanBegin(link, "service", "write")
    <2>1. link' = Begun(link, "write") /\ svc' = [svc EXCEPT !.gen = NextGen(link)]
      BY <1>5 DEF TickRespond
    <2>2. /\ LinkOK(link') /\ SameMode(link', link) /\ link'.target = link.target
          /\ link'.op.gen = NextGen(link) /\ NextGen(link) # 0
      BY <1>2, <1>5, <2>1, BegunOK
    <2>3. NextGen(link) \in Nat
      BY <1>2, NextGenIs DEF LinkOK
    <2>4. /\ svc' \in ServiceType /\ svc'.open = svc.open /\ svc'.suspended = svc.suspended
          /\ svc'.transport = svc.transport /\ svc'.torn = 0 /\ svc'.pc = "tick"
          /\ svc'.gen = NextGen(link)
      BY <1>1, <1>2, <2>1, <2>3 DEF ServiceType
    <2>5. link.mode # "target"
      BY <1>5 DEF CanBegin
    <2> QED
      BY <1>4, <2>2, <2>4, <2>5
  <1>6. CASE svc.wait = 1 \/ ~CanBegin(link, "service", "write")
    <2>1. link' = link /\ svc' \in {[svc EXCEPT !.wait = 0], [svc EXCEPT !.response = 0]}
      BY <1>6 DEF TickRespond
    <2>2. /\ svc' \in ServiceType /\ svc'.open = svc.open /\ svc'.suspended = svc.suspended
          /\ svc'.transport = svc.transport /\ svc'.torn = 0 /\ svc'.pc = "tick"
      BY <1>1, <1>2, <2>1 DEF ServiceType
    <2> QED
      BY <1>1, <1>2, <1>4, <2>1, <2>2 DEF SameMode
  <1> QED
    BY <1>5, <1>6

LEMMA TickReadStep ==
    ASSUME LinkInv, TickRead
    PROVE  LinkInv'
  <1>1. /\ link.claimant = "service" /\ svc.pc = "tick" /\ link.op.state # "flight"
        /\ link.mode = "uart"
    BY Ticking DEF TickRead, UartTicks, TransportMode
  <1>2. svc \in ServiceType /\ svc.torn = 0 /\ LinkOK(link) /\ hist.torn = 0
    BY DEF LinkInv, LinkTypeOK, ServiceInSync
  <1>3. link' = AfterRead(link) /\ svc' = [svc EXCEPT !.staged = UartRead(link)]
        /\ UNCHANGED <<script, peer, hist>>
    BY DEF TickRead
  <1>4. /\ LinkOK(link') /\ SameMode(link', link) /\ link'.op = link.op
        /\ link'.target = link.target /\ UartRead(link) \in Seq(Byte)
    BY <1>1, <1>2, <1>3, AfterReadOK
  <1>5. /\ svc' \in ServiceType /\ svc'.open = svc.open /\ svc'.suspended = svc.suspended
        /\ svc'.transport = svc.transport /\ svc'.torn = 0 /\ svc'.pc = "tick"
    BY <1>1, <1>2, <1>3, <1>4 DEF ServiceType
  <1>6. TargetOK(link'.target) /\ OnTheBus(link'.target, link'.slave, peer)
    BY <1>1, <1>4, TargetLeft DEF SameMode
  <1>7. ServiceInSync'
    BY <1>1, <1>2, <1>3, <1>4, <1>5, StillInSync
  <1> QED
    BY <1>3, <1>4, <1>5, <1>6, <1>7 DEF LinkInv, LinkTypeOK, LinkOK, TargetInv

LEMMA TickFeedStep ==
    ASSUME LinkInv, NEW length \in 0 .. FrameMax + 1, TickFeed(length)
    PROVE  LinkInv'
  <1> DEFINE b == Head(svc.staged)
             p == svc.parse
             c == Complete(p, b, length)
             q == IF c THEN NoParse ELSE Feed(p, b, length)
             rest == Tail(svc.staged)
  <1>1. svc.pc = "tick" /\ svc.gen = 0 /\ svc.response = 0 /\ svc.staged # <<>>
    BY Ticking DEF TickFeed, UartTicks, MayFeed
  <1>2. svc \in ServiceType /\ svc.torn = 0 /\ hist.torn = 0
    BY DEF LinkInv, LinkTypeOK, ServiceInSync
  <1>3. b \in Byte /\ rest \in Seq(Byte)
    BY <1>1, <1>2, HeadTailProperties DEF ServiceType
  <1>4. p \in [n : Nat, need : Nat, f : Nat] /\ b.f \in Nat /\ length \in Nat
    BY <1>2, <1>3, Sizes DEF ServiceType, Byte
  <1>5. q \in [n : Nat, need : Nat, f : Nat]
    <2>1. NoParse \in [n : Nat, need : Nat, f : Nat]
      BY DEF NoParse
    <2>2. Same(p, b) \in Nat
      BY <1>4 DEF Same
    <2>3. Feed(p, b, length) \in [n : Nat, need : Nat, f : Nat]
      BY <1>4, <2>1, <2>2 DEF Feed
    <2> QED
      BY <2>1, <2>3
  <1>6. /\ svc' = [svc EXCEPT !.staged = rest, !.torn = 0, !.parse = q,
                              !.response = IF c THEN b.f ELSE @,
                              !.wait = IF c THEN 1 ELSE @]
        /\ UNCHANGED <<link, script, peer, hist>>
    BY <1>1 DEF TickFeed
  <1> HIDE DEF b, q, c, rest
  <1>7. /\ svc' \in ServiceType /\ svc'.open = svc.open /\ svc'.suspended = svc.suspended
        /\ svc'.transport = svc.transport /\ svc'.torn = 0 /\ svc'.pc = "tick"
        /\ svc'.gen = svc.gen
    <2>1. svc' \in ServiceType
      <3>1. (IF c THEN b.f ELSE svc.response) \in Nat /\ (IF c THEN 1 ELSE svc.wait) \in {0, 1}
        BY <1>2, <1>4 DEF ServiceType
      <3> DEFINE m == [svc EXCEPT !.staged = rest, !.torn = 0, !.parse = q]
      <3>2. m \in ServiceType /\ m.response = svc.response /\ m.wait = svc.wait
        BY <1>2, <1>3, <1>5 DEF ServiceType
      <3>3. svc' = [m EXCEPT !.response = IF c THEN b.f ELSE @, !.wait = IF c THEN 1 ELSE @]
        BY <1>2, <1>6 DEF ServiceType
      <3> HIDE DEF m
      <3> QED
        BY <3>1, <3>2, <3>3 DEF ServiceType
    <2> QED
      BY <1>1, <1>2, <1>6, <2>1 DEF ServiceType
  <1>8. ServiceInSync'
    BY <1>2, <1>6, <1>7 DEF LinkInv, ServiceInSync
  <1> QED
    BY <1>6, <1>7, <1>8 DEF LinkInv, LinkTypeOK, LinkOK, TargetInv

(* What the main loop does to the target leaves the transaction on the bus.  *)
LEMMA BusKept ==
    ASSUME NEW t, NEW s, NEW p, OnTheBus(t, s, p), TargetOK(t), NEW u, TargetOK(u),
           SameTransaction(u, t)
    PROVE  OnTheBus(u, s, p)
  <1>1. ASSUME Writing(s, p), u.overflow = 0 PROVE Receiving(u, s.fifo, p.asks, p.sent)
    BY <1>1 DEF OnTheBus, SameTransaction, Receiving
  <1>2. t.reading = 1 => (ReadSoFar(t, p.read) <=> ReadSoFar(u, p.read))
    BY DEF SameTransaction, ReadSoFar
  <1>3. t.reading \in {0, 1} /\ u.reading = t.reading
    BY DEF TargetOK, TargetType, SameTransaction
  <1>4. /\ ~Writing(s, p) => u.rxActive = 0 /\ u.discard = 0 /\ s.fifo = <<>>
        /\ ~Reading(s, p) => u.reading = 0
    BY DEF OnTheBus, SameTransaction
  <1>5. s.heard = 1 /\ p.bus = "read" =>
          IF u.reading = 0 THEN p.read = <<>> ELSE ReadSoFar(u, p.read)
    BY <1>2, <1>3 DEF OnTheBus
  <1> QED
    BY <1>1, <1>4, <1>5 DEF OnTheBus

LEMMA TargetFieldOK ==
    ASSUME NEW l, LinkOK(l), NEW t \in TargetType
    PROVE  LET m == [l EXCEPT !.target = t]
           IN  /\ LinkOK(m) /\ SameMode(m, l) /\ m.target = t /\ m.slave = l.slave /\ m.op = l.op
  <1> DEFINE m == [l EXCEPT !.target = t]
  <1>1. l \in LinkType
    BY DEF LinkOK
  <1>2. m \in LinkType
    BY <1>1 DEF LinkType
  <1>3. /\ SameMode(m, l) /\ m.target = t /\ m.slave = l.slave /\ m.op = l.op /\ m.uart = l.uart
        /\ m.controller = l.controller /\ m.txFifo = l.txFifo
    BY <1>1, <1>2 DEF LinkType, SameMode
  <1> HIDE DEF m
  <1>4. LinkOK(m)
    BY <1>2, <1>3 DEF LinkOK, Held, Operating, SwitchedOn, Sending, SameMode
  <1> QED
    BY <1>3, <1>4 DEF m

LEMMA RespondStep ==
    ASSUME LinkInv, Respond
    PROVE  LinkInv'
  <1> DEFINE u == Preload(link.target, Tokens(svc.request, ResponseSize))
  <1>1. LinkOK(link) /\ link \in LinkType /\ TargetOK(link.target) /\ svc.request \in Frames
        /\ OnTheBus(link.target, link.slave, peer)
    BY DEF LinkInv, TargetInv, Respond, LinkOK
  <1>2. svc \in ServiceType /\ svc.torn = 0 /\ hist.torn = 0
    BY DEF LinkInv, LinkTypeOK, ServiceInSync
  <1>3. /\ link' = [link EXCEPT !.target = u] /\ svc' = [svc EXCEPT !.pc = "tick", !.request = 0]
        /\ UNCHANGED <<script, peer, hist>>
    BY <1>1 DEF Respond, LinkType
  <1>4. TargetOK(u) /\ SameTransaction(u, link.target)
    BY <1>1, PreloadOK
  <1> HIDE DEF u
  <1>5. u \in TargetType
    BY <1>4 DEF TargetOK
  <1>6. /\ LinkOK(link') /\ SameMode(link', link) /\ link'.target = u
        /\ link'.slave = link.slave /\ link'.op = link.op
    BY <1>1, <1>3, <1>5, TargetFieldOK
  <1>7. OnTheBus(u, link.slave, peer)
    BY <1>1, <1>4, BusKept
  <1>8. /\ svc' \in ServiceType /\ svc'.open = svc.open /\ svc'.suspended = svc.suspended
        /\ svc'.transport = svc.transport /\ svc'.torn = 0 /\ svc'.pc = "tick"
        /\ svc'.gen = svc.gen
    BY <1>2, <1>3 DEF ServiceType
  <1>9. ServiceInSync'
    <2>1. link.claimant = "service" /\ link.op.state = "flight" =>
            svc.gen = link.op.gen /\ svc.gen # 0
      BY DEF LinkInv, ServiceInSync
    <2> QED
      BY <1>2, <1>3, <1>6, <1>8, <2>1, StillInSync DEF SameMode
  <1> QED
    BY <1>3, <1>4, <1>6, <1>7, <1>8, <1>9 DEF LinkInv, LinkTypeOK, LinkOK, TargetInv

(* external_link_service_tick, I2C: what is delivered is owed, and a loss is *)
(* followed by a new configuration.                                          *)
LEMMA TickTargetStep ==
    ASSUME LinkInv, TickTarget
    PROVE  LinkInv'
  <1> DEFINE t == link.target
             p == Polled(t)
             u == AfterPoll(t)
             polled == [link EXCEPT !.target = u]
             whole == p.result = "write" /\ \E f \in Frames : p.bytes = Tokens(f, FrameSize)
             wasLost == p.result \in {"overflow", "limit"}
  <1>1. LinkOK(link) /\ link \in LinkType /\ TargetOK(t) /\ OnTheBus(t, link.slave, peer)
    BY DEF LinkInv, TargetInv, LinkOK
  <1>2. /\ link.claimant = "service" /\ svc.transport = "i2c" /\ svc.pc = "tick"
        /\ svc.open = 1 /\ svc.suspended = 0 /\ link.mode = "target"
    BY Ticking DEF TickTarget, TransportMode
  <1>3. svc \in ServiceType /\ svc.torn = 0 /\ hist.torn = 0 /\ hist.bad = 0 /\ hist \in HistType
    BY DEF LinkInv, LinkTypeOK, ServiceInSync, TargetInv
  <1>4. link.op = NoOp
    BY <1>1, <1>2 DEF LinkOK, Operating
  <1>5. /\ p.result # "pending"
        /\ link' = IF wasLost THEN ServiceConfigured(polled, "i2c") ELSE polled
        /\ svc' = IF whole THEN [svc EXCEPT !.pc = "respond", !.request = p.bytes[1].f] ELSE svc
        /\ hist' = IF p.result = "write"
                     THEN [hist EXCEPT !.bad = IF t.owed # <<>>
                                                  /\ p.bytes = Tokens(Head(t.owed), FrameSize)
                                                 THEN @ ELSE 1]
                     ELSE hist
        /\ UNCHANGED <<script, peer>>
    BY <1>1 DEF TickTarget, LinkType
  <1>6. p.result \in {"overflow", "pending", "limit", "write", "read"}
    BY DEF Polled
  <1> HIDE DEF t, u, p
  <1>7. p.result \in {"write", "read"} =>
          /\ TargetOK(u) /\ SameTransaction(u, t)
          /\ p.result = "write" => t.owed # <<>> /\ p.bytes = Tokens(Head(t.owed), FrameSize)
    BY <1>1, EventTaken DEF p, u
  <1>8. hist' \in HistType /\ hist'.bad = 0 /\ hist'.torn = 0
    <2>1. CASE p.result = "write"
      <3>1. hist' = [hist EXCEPT !.bad = hist.bad]
        BY <1>3, <1>5, <1>7, <2>1 DEF HistType
      <3>2. hist' = hist
        BY <1>3, <3>1 DEF HistType
      <3> QED
        BY <1>3, <3>2
    <2>2. CASE p.result # "write"
      BY <1>3, <1>5, <2>2
    <2> QED
      BY <2>1, <2>2
  <1>9. /\ svc' \in ServiceType /\ svc'.open = 1 /\ svc'.suspended = 0 /\ svc'.transport = "i2c"
        /\ svc'.torn = 0
        /\ svc'.pc = "respond" => svc'.request \in Frames
    <2>1. CASE whole
      <3>1. PICK f \in Frames : p.bytes = Tokens(f, FrameSize)
        BY <2>1
      <3>2. 1 \in 1 .. FrameSize /\ f \in Nat
        BY Sizes, FrameIs
      <3>3. p.bytes[1].f = f
        <4>1. FrameSize \in Nat
          BY Sizes
        <4>2. Tokens(f, FrameSize)[1] = Token(f, 1)
          BY <3>2, <4>1, TokensAre
        <4> QED
          BY <3>1, <4>2 DEF Token
      <3>4. svc' = [svc EXCEPT !.pc = "respond", !.request = f]
        BY <1>5, <2>1, <3>3
      <3> QED
        BY <1>2, <1>3, <3>2, <3>4 DEF ServiceType
    <2>2. CASE ~whole
      BY <1>2, <1>3, <1>5, <2>2
    <2> QED
      BY <2>1, <2>2
  <1> HIDE DEF whole
  <1>10. CASE wasLost
    <2>1. polled = [link EXCEPT !.target = u] /\ link' = ServiceConfigured(polled, "i2c")
      BY <1>5, <1>10
    <2>2. u \in TargetType
      <3>0. t \in TargetType
        BY <1>1 DEF TargetOK
      <3>1. CASE t.overflow = 1
        <4> DEFINE r == [t EXCEPT !.events = <<>>, !.overflow = 0, !.owed = <<>>]
        <4>1. r \in TargetType
          BY <3>0, EmptySeq DEF TargetType
        <4>2. u = Freed(r)
          BY <3>1 DEF AfterPoll, u
        <4> HIDE DEF r
        <4> QED
          BY <4>1, <4>2, FreedOK
      <3>2. CASE t.overflow # 1
        <4>1. p.result = "limit"
          BY <1>10, <3>2 DEF Polled, p
        <4> QED
          BY <3>0, <3>2, <4>1 DEF AfterPoll, u, p
      <3> QED
        BY <3>1, <3>2
    <2> HIDE DEF polled
    <2>3. LinkOK(polled) /\ SameMode(polled, link) /\ polled.op = link.op
      BY <1>1, <2>1, <2>2, TargetFieldOK
    <2>4. polled.claimant = "service" /\ polled.op.state # "flight"
      BY <1>2, <1>4, <2>3 DEF SameMode, NoOp
    <2>5. LinkOK(link') /\ ServiceModeSet(link', "i2c")
      BY <2>1, <2>3, <2>4, ServiceConfiguredOK
    <2>6. TargetOK(link'.target) /\ OnTheBus(link'.target, link'.slave, peer)
      BY <2>5, ServiceSet
    <2>7. ServiceInSync'
      BY <1>8, <1>9, <2>5 DEF ServiceInSync, ServiceModeSet, TransportMode, NoOp
    <2> QED
      BY <1>5, <1>8, <1>9, <2>5, <2>6, <2>7 DEF LinkInv, LinkTypeOK, LinkOK, TargetInv
  <1>11. CASE ~wasLost
    <2>1. link' = [link EXCEPT !.target = u] /\ p.result \in {"write", "read"}
      BY <1>5, <1>6, <1>11
    <2>2. TargetOK(u) /\ SameTransaction(u, t) /\ u \in TargetType
      BY <1>7, <2>1 DEF TargetOK
    <2>3. /\ LinkOK(link') /\ SameMode(link', link) /\ link'.target = u
          /\ link'.slave = link.slave /\ link'.op = link.op
      BY <1>1, <2>1, <2>2, TargetFieldOK
    <2>4. OnTheBus(u, link.slave, peer)
      BY <1>1, <2>2, BusKept
    <2>5. ServiceInSync'
      BY <1>2, <1>3, <1>4, <1>8, <1>9, <2>3 DEF ServiceInSync, SameMode, NoOp
    <2> QED
      BY <1>5, <1>8, <1>9, <2>2, <2>3, <2>4, <2>5 DEF LinkInv, LinkTypeOK, LinkOK, TargetInv
  <1> QED
    BY <1>10, <1>11

-----------------------------------------------------------------------------
(* The cable as a UART. *)

(* While the connector is a UART, the peer's registers for I2C do not matter. *)
LEMMA BusOfUart ==
    ASSUME NEW t, NEW p, OnTheBus(t, NoSlave, p), NEW q,
           q.bus = p.bus, q.sent = p.sent, q.read = p.read
    PROVE  OnTheBus(t, NoSlave, q)
  BY DEF OnTheBus, Writing, Reading, ReadWhole, NoSlave

LEMMA NextFrameIs == ASSUME peer \in PeerType PROVE NextFrame \in Frames
  <1> DEFINE n == Cardinality(Frames)
  <1>1. n \in Nat \ {0} /\ Frames = 1 .. n /\ peer.next \in 1 .. n
    BY ServiceAssumption DEF PeerType
  <1> HIDE DEF n
  <1>2. (peer.next % n) + 1 \in 1 .. n
    BY <1>1
  <1> QED
    BY <1>1, <1>2 DEF NextFrame, n

LEMMA PeerAsksStep ==
    ASSUME LinkInv, NEW early \in BOOLEAN, PeerAsks(early)
    PROVE  LinkInv'
  <1>1. /\ peer \in PeerType /\ LinkOK(link) /\ hist \in HistType /\ hist.bad = 0 /\ hist.torn = 0
        /\ OnTheBus(link.target, link.slave, peer)
    BY DEF LinkInv, LinkTypeOK, TargetInv, ServiceInSync
  <1>2. link.mode = "uart" /\ UNCHANGED <<link, svc, script>>
    BY DEF PeerAsks
  <1>3. link.slave = NoSlave
    BY <1>1, <1>2, NoSlaveUnlessTarget
  <1>4. peer' = [peer EXCEPT !.asks = peer.next, !.next = NextFrame, !.got = <<>>,
                             !.wire = Tokens(peer.next, Body)]
    BY DEF PeerAsks
  <1>5. peer.next \in Nat /\ Tokens(peer.next, Body) \in Seq(Byte) /\ NextFrame \in Frames
    <2>1. peer.next \in Nat /\ Body \in Nat
      BY <1>1, FrameIs DEF PeerType, Body
    <2> QED
      BY <1>1, <2>1, TokensAre, NextFrameIs
  <1>6. /\ peer' \in PeerType /\ peer'.bus = peer.bus /\ peer'.sent = peer.sent
        /\ peer'.read = peer.read
    <2> DEFINE m == [peer EXCEPT !.asks = peer.next, !.next = NextFrame]
    <2>1. m \in PeerType
      BY <1>1, <1>5 DEF PeerType
    <2>2. peer' = [m EXCEPT !.got = <<>>, !.wire = Tokens(peer.next, Body)]
      BY <1>1, <1>4 DEF PeerType
    <2> HIDE DEF m
    <2>3. peer' \in PeerType
      BY <1>5, <2>1, <2>2, EmptySeq DEF PeerType
    <2> QED
      BY <1>1, <1>4, <2>3 DEF PeerType
  <1>7. hist' \in HistType /\ hist'.bad = 0 /\ hist'.torn = 0
    <2>1. CASE early
      <3>1. hist.faults < FaultMax /\ hist' = [hist EXCEPT !.faults = @ + 1]
        BY <2>1 DEF PeerAsks
      <3> QED
        BY <1>1, <3>1, OneMoreFault
    <2>2. CASE ~early
      <3>1. hist' = [hist EXCEPT !.faults = @]
        BY <2>2 DEF PeerAsks
      <3>2. hist' = hist
        BY <1>1, <3>1 DEF HistType
      <3> QED
        BY <1>1, <3>2
    <2> QED
      BY <2>1, <2>2
  <1>8. OnTheBus(link.target, link.slave, peer')
    BY <1>1, <1>3, <1>6, BusOfUart
  <1>9. ServiceInSync'
    BY <1>2, <1>7 DEF LinkInv, ServiceInSync
  <1> QED
    BY <1>2, <1>6, <1>7, <1>8, <1>9 DEF LinkInv, LinkTypeOK, LinkOK, TargetInv

(* Taking a byte off the cable changes nothing that the target sees. *)
LEMMA WireTailIs ==
    ASSUME LinkInv, peer.wire # <<>>, peer' = [peer EXCEPT !.wire = Tail(@)]
    PROVE  /\ peer' \in PeerType /\ Head(peer.wire) \in Byte
           /\ \A t, s : OnTheBus(t, s, peer) => OnTheBus(t, s, peer')
  <1>1. peer \in PeerType /\ peer.wire \in Seq(Byte)
    BY DEF LinkInv, LinkTypeOK, PeerType
  <1>2. Head(peer.wire) \in Byte /\ Tail(peer.wire) \in Seq(Byte)
    BY <1>1, HeadTailProperties
  <1>3. peer' \in PeerType
    BY <1>1, <1>2 DEF PeerType
  <1>4. /\ peer'.bus = peer.bus /\ peer'.sent = peer.sent /\ peer'.asks = peer.asks
        /\ peer'.read = peer.read
    BY <1>1, <1>3 DEF PeerType
  <1>5. ASSUME NEW t, NEW s, OnTheBus(t, s, peer) PROVE OnTheBus(t, s, peer')
    BY <1>4, <1>5 DEF OnTheBus, Writing, Reading, ReadWhole
  <1> QED
    BY <1>2, <1>3, <1>5

LEMMA WireByteStep ==
    ASSUME LinkInv, WireByte
    PROVE  LinkInv'
  <1>1. /\ peer.wire # <<>> /\ link' = UartByte(link, Head(peer.wire))
        /\ peer' = [peer EXCEPT !.wire = Tail(@)] /\ UNCHANGED <<svc, script, hist>>
    BY DEF WireByte
  <1>2. LinkOK(link) /\ OnTheBus(link.target, link.slave, peer) /\ TargetOK(link.target)
    BY DEF LinkInv, TargetInv
  <1>3. /\ peer' \in PeerType /\ Head(peer.wire) \in Byte
        /\ OnTheBus(link.target, link.slave, peer')
    BY <1>1, <1>2, WireTailIs
  <1>4. /\ LinkOK(link') /\ SameMode(link', link) /\ link'.op = link.op
        /\ link'.target = link.target /\ link'.slave = link.slave
    BY <1>1, <1>2, <1>3, UartByteOK
  <1>5. ServiceInSync'
    BY <1>1, <1>4 DEF LinkInv, ServiceInSync, SameMode
  <1> QED
    BY <1>1, <1>2, <1>3, <1>4, <1>5 DEF LinkInv, LinkTypeOK, LinkOK, TargetInv

LEMMA WireLosesStep ==
    ASSUME LinkInv, WireLoses
    PROVE  LinkInv'
  <1>1. /\ peer.wire # <<>> /\ hist.faults < FaultMax
        /\ hist' = [hist EXCEPT !.faults = @ + 1]
        /\ peer' = [peer EXCEPT !.wire = Tail(@)] /\ UNCHANGED <<link, svc, script>>
    BY DEF WireLoses
  <1>2. LinkOK(link) /\ OnTheBus(link.target, link.slave, peer) /\ TargetOK(link.target)
    BY DEF LinkInv, TargetInv
  <1>3. peer' \in PeerType /\ OnTheBus(link.target, link.slave, peer')
    BY <1>1, <1>2, WireTailIs
  <1>4. hist' \in HistType /\ hist'.bad = 0 /\ hist'.torn = 0
    BY <1>1, OneMoreFault DEF LinkInv, LinkTypeOK, TargetInv, ServiceInSync
  <1>5. ServiceInSync'
    BY <1>1, <1>4 DEF LinkInv, ServiceInSync
  <1> QED
    BY <1>1, <1>2, <1>3, <1>4, <1>5 DEF LinkInv, LinkTypeOK, LinkOK, TargetInv

LEMMA WireSendsStep ==
    ASSUME LinkInv, WireSends
    PROVE  LinkInv'
  <1> DEFINE b == Head(link.txFifo)
             rest == Tail(link.txFifo)
             g == IF b = Token(peer.asks, Len(peer.got) + 1) THEN Append(peer.got, b) ELSE <<>>
             over == Len(g) = ResponseSize
  <1>1. /\ link.uart = 1 /\ link.txFifo # <<>>
        /\ link' = [link EXCEPT !.txFifo = rest]
        /\ peer' = [peer EXCEPT !.got = IF over THEN <<>> ELSE g, !.asks = IF over THEN 0 ELSE @]
        /\ hist' = [hist EXCEPT !.done = IF over THEN 1 - @ ELSE @,
                                !.torn = IF link.claimant = "service" /\ b = Fill THEN 1 ELSE @]
        /\ UNCHANGED <<svc, script>>
    BY DEF WireSends, LinkInv, LinkTypeOK, LinkType
  <1>2. /\ LinkOK(link) /\ link \in LinkType /\ link.txFifo \in Seq(Byte) /\ peer \in PeerType
        /\ hist \in HistType /\ hist.bad = 0 /\ hist.torn = 0
        /\ OnTheBus(link.target, link.slave, peer) /\ TargetOK(link.target)
    BY DEF LinkInv, LinkTypeOK, TargetInv, ServiceInSync, LinkOK, LinkType
  <1>3. /\ b \in Byte /\ b # Fill /\ rest \in Seq(Byte) /\ Len(rest) = Len(link.txFifo) - 1
        /\ \A i \in 1 .. Len(rest) : rest[i] # Fill
    <2> DEFINE w == link.txFifo
    <2>1. w \in Seq(Byte) /\ w # <<>> /\ \A i \in 1 .. Len(w) : w[i] # Fill
      BY <1>1, <1>2 DEF LinkOK, Sending
    <2> HIDE DEF w
    <2>2. /\ Head(w) \in Byte /\ Tail(w) \in Seq(Byte) /\ Len(Tail(w)) = Len(w) - 1
          /\ \A i \in 1 .. Len(Tail(w)) : Tail(w)[i] = w[i + 1]
      BY <2>1, HeadTailProperties
    <2>3. Len(w) \in Nat /\ Len(w) # 0
      BY <2>1, EmptySeq
    <2>4. Head(w) = w[1] /\ 1 \in 1 .. Len(w)
      BY <2>1, <2>3
    <2>5. \A i \in 1 .. Len(Tail(w)) : i + 1 \in 1 .. Len(w)
      BY <2>2, <2>3
    <2>6. /\ Head(w) \in Byte /\ Head(w) # Fill /\ Tail(w) \in Seq(Byte)
          /\ Len(Tail(w)) = Len(w) - 1 /\ \A i \in 1 .. Len(Tail(w)) : Tail(w)[i] # Fill
      BY <2>1, <2>2, <2>4, <2>5
    <2> QED
      BY <2>6 DEF w
  <1>4. g \in Seq(Byte)
    BY <1>2, <1>3, EmptySeq, AppendProperties DEF PeerType
  <1> HIDE DEF b, rest, g, over
  <1>5. link' \in LinkType
    BY <1>1, <1>2, <1>3 DEF LinkType
  <1>6. /\ SameMode(link', link) /\ link'.target = link.target /\ link'.slave = link.slave
        /\ link'.op = link.op /\ link'.uart = link.uart /\ link'.controller = link.controller
        /\ link'.txFifo = rest
    BY <1>1, <1>2, <1>5 DEF LinkType, SameMode
  <1>7. LinkOK(link')
    <2>1. Sending(link')
      <3>1. Len(link.txFifo) \in Nat /\ Len(link.txFifo) <= FifoDepth /\ FifoDepth \in Nat
        BY <1>2, Sizes DEF LinkOK, Sending
      <3> QED
        BY <1>3, <1>6, <3>1 DEF Sending
    <2> QED
      BY <1>2, <1>5, <1>6, <2>1, PeripheralStep
  <1>8. /\ peer' \in PeerType /\ peer'.bus = peer.bus /\ peer'.sent = peer.sent
        /\ peer'.read = peer.read
    BY <1>1, <1>2, <1>4, EmptySeq DEF PeerType
  <1>9. link.slave = NoSlave
    BY <1>1, <1>2, NoSlaveUnlessTarget DEF LinkOK, SwitchedOn
  <1>10. OnTheBus(link'.target, link'.slave, peer')
    BY <1>2, <1>6, <1>8, <1>9, BusOfUart
  <1>11. hist' \in HistType /\ hist'.bad = 0 /\ hist'.torn = 0
    <2> DEFINE d == IF over THEN 1 - hist.done ELSE hist.done
    <2>1. d \in {0, 1}
      <3>1. hist.done \in {0, 1}
        BY <1>2 DEF HistType
      <3> QED
        BY <3>1
    <2>2. hist' = [hist EXCEPT !.done = d, !.torn = hist.torn]
      BY <1>1, <1>2, <1>3 DEF HistType
    <2> HIDE DEF d
    <2> QED
      BY <1>2, <2>1, <2>2 DEF HistType
  <1>12. ServiceInSync'
    BY <1>1, <1>6, <1>11 DEF LinkInv, ServiceInSync, SameMode
  <1> QED
    BY <1>1, <1>2, <1>6, <1>7, <1>8, <1>10, <1>11, <1>12
    DEF LinkInv, LinkTypeOK, LinkOK, TargetInv

-----------------------------------------------------------------------------
(* The bus: the master's transactions and the target's interrupt. *)

LEMMA BusStep ==
    ASSUME LinkInv, UNCHANGED <<svc, script, hist>>, peer' \in PeerType,
           link.slave.on = 1, NEW s \in SlaveType, s.on = 1, NEW t, TargetOK(t),
           link' = [link EXCEPT !.target = t, !.slave = s], OnTheBus(t, s, peer')
    PROVE  LinkInv'
  <1>1. link \in LinkType /\ LinkOK(link) /\ t \in TargetType
    BY DEF LinkInv, LinkOK, TargetOK
  <1>2. link' \in LinkType
    <2> DEFINE m == [link EXCEPT !.target = t]
    <2>1. m \in LinkType
      BY <1>1 DEF LinkType
    <2>2. link' = [m EXCEPT !.slave = s]
      BY <1>1 DEF LinkType
    <2> HIDE DEF m
    <2> QED
      BY <2>1, <2>2 DEF LinkType
  <1>3. /\ SameMode(link', link) /\ link'.target = t /\ link'.slave = s /\ link'.op = link.op
        /\ link'.uart = link.uart /\ link'.controller = link.controller
        /\ link'.txFifo = link.txFifo
    BY <1>1, <1>2 DEF LinkType, SameMode
  <1>4. LinkOK(link')
    <2>1. Sending(link')
      BY <1>1, <1>3 DEF LinkOK, Sending
    <2>2. link.slave.on # 0 /\ link'.slave.on = link.slave.on
      BY <1>3
    <2> QED
      BY <1>1, <1>2, <1>3, <2>1, <2>2, PeripheralStep
  <1>5. ServiceInSync'
    BY <1>3 DEF LinkInv, ServiceInSync, SameMode
  <1> QED
    BY <1>3, <1>4, <1>5 DEF LinkInv, LinkTypeOK, LinkOK, TargetInv

LEMMA BusIs ==
    ASSUME LinkInv
    PROVE  /\ link \in LinkType /\ link.slave \in SlaveType /\ link.target \in TargetType
           /\ TargetOK(link.target) /\ OnTheBus(link.target, link.slave, peer)
           /\ peer \in PeerType
           /\ ~Heard => link.slave.heard = 0
  <1>1. link.slave \in SlaveType /\ link \in LinkType
    BY DEF LinkInv, LinkTypeOK, LinkType
  <1>2. OnTheBus(link.target, link.slave, peer)
    BY DEF LinkInv, TargetInv
  <1>3. ~Heard => link.slave.heard = 0
    BY <1>1, <1>2 DEF Heard, OnTheBus, SlaveType
  <1> QED
    BY <1>1, <1>2, <1>3 DEF LinkInv, LinkTypeOK, TargetInv, TargetOK

(* A transaction begins when nothing is left of the one before. *)
LEMMA AddressedOK ==
    ASSUME LinkInv, Addresses
    PROVE  LET s == [link.slave EXCEPT !.heard = 1]
           IN  /\ s \in SlaveType /\ s.on = 1 /\ s.heard = 1 /\ s.stop = 0 /\ s.fifo = <<>>
               /\ link' = [link EXCEPT !.target = link.target, !.slave = s]
               /\ link.slave.on = 1
               /\ link.target.rxActive = 0 /\ link.target.discard = 0 /\ link.target.reading = 0
  <1> DEFINE s == [link.slave EXCEPT !.heard = 1]
  <1>1. /\ link \in LinkType /\ link.slave \in SlaveType
        /\ OnTheBus(link.target, link.slave, peer)
    BY BusIs
  <1>2. link.slave.on = 1 /\ link.slave.stop = 0 /\ peer.bus = "idle"
    BY DEF Addresses
  <1>3. ~Writing(link.slave, peer) /\ ~Reading(link.slave, peer)
    BY <1>1, <1>2 DEF OnTheBus, Writing, Reading
  <1>4. /\ link.target.rxActive = 0 /\ link.target.discard = 0 /\ link.target.reading = 0
        /\ link.slave.fifo = <<>>
    BY <1>1, <1>3 DEF OnTheBus
  <1>5. link' = [link EXCEPT !.slave = s]
    BY <1>1 DEF Addresses, LinkType
  <1>6. s \in SlaveType /\ s.on = 1 /\ s.heard = 1 /\ s.stop = 0 /\ s.fifo = <<>>
    BY <1>1, <1>2, <1>4 DEF SlaveType
  <1> HIDE DEF s
  <1>7. link' = [link EXCEPT !.target = link.target, !.slave = s]
    BY <1>1, <1>5 DEF LinkType
  <1> QED
    BY <1>2, <1>4, <1>6, <1>7 DEF s

LEMMA MasterWritesStep ==
    ASSUME LinkInv, NEW extra \in 0 .. BufferMax - FrameSize + 1, MasterWrites(extra)
    PROVE  LinkInv'
  <1> DEFINE t == link.target
             s == [link.slave EXCEPT !.heard = 1]
  <1>1. /\ s \in SlaveType /\ s.on = 1 /\ s.heard = 1 /\ s.stop = 0 /\ s.fifo = <<>>
        /\ link' = [link EXCEPT !.target = t, !.slave = s] /\ link.slave.on = 1
        /\ t.rxActive = 0 /\ t.discard = 0 /\ t.reading = 0
    BY AddressedOK DEF MasterWrites
  <1>2. TargetOK(t) /\ peer \in PeerType
    BY BusIs
  <1>3. /\ peer' = [peer EXCEPT !.bus = "write", !.sent = 0, !.long = extra,
                                !.asks = peer.next, !.next = NextFrame]
        /\ UNCHANGED <<svc, script, hist>>
    BY DEF MasterWrites, Addresses
  <1>4. peer.next \in Nat /\ NextFrame \in Frames /\ extra \in Nat
    BY <1>2, FrameIs, NextFrameIs, Sizes DEF PeerType
  <1>5. peer' \in PeerType
    <2> DEFINE m == [peer EXCEPT !.bus = "write", !.sent = 0, !.long = extra]
    <2>1. m \in PeerType
      BY <1>2, <1>4 DEF PeerType
    <2>2. peer' = [m EXCEPT !.asks = peer.next, !.next = NextFrame]
      BY <1>2, <1>3 DEF PeerType
    <2> HIDE DEF m
    <2> QED
      BY <1>4, <2>1, <2>2 DEF PeerType
  <1>6. peer'.bus = "write" /\ peer'.sent = 0
    BY <1>2, <1>3 DEF PeerType
  <1> HIDE DEF s, t
  <1>7. Receiving(t, s.fifo, peer'.asks, 0)
    BY <1>1 DEF Receiving, Taken
  <1>8. OnTheBus(t, s, peer')
    BY <1>1, <1>6, <1>7 DEF OnTheBus, Writing, Reading, ReadWhole
  <1> QED
    BY <1>1, <1>2, <1>3, <1>5, <1>8, BusStep DEF t

LEMMA NothingRead ==
    ASSUME NEW p, p.read = <<>>
    PROVE  ReadWhole(p)
  <1>1. Len(p.read) = 0 /\ 1 .. Len(p.read) = {}
    OBVIOUS
  <1>2. 1 \in Frames /\ 0 \in 0 .. ResponseSize
    BY ServiceAssumption, Sizes
  <1>3. ReadOf(p.read, 1, 0)
    BY <1>1 DEF ReadOf
  <1> QED
    BY <1>2, <1>3 DEF ReadWhole

LEMMA MasterReadsStep ==
    ASSUME LinkInv, MasterReads
    PROVE  LinkInv'
  <1> DEFINE t == link.target
             s == [link.slave EXCEPT !.heard = 1]
  <1>1. /\ s \in SlaveType /\ s.on = 1 /\ s.heard = 1 /\ s.stop = 0 /\ s.fifo = <<>>
        /\ link' = [link EXCEPT !.target = t, !.slave = s] /\ link.slave.on = 1
        /\ t.rxActive = 0 /\ t.discard = 0 /\ t.reading = 0
    BY AddressedOK DEF MasterReads
  <1>2. TargetOK(t) /\ peer \in PeerType
    BY BusIs
  <1>3. /\ peer' = [peer EXCEPT !.bus = "read", !.read = <<>>, !.sent = 0]
        /\ UNCHANGED <<svc, script, hist>>
    BY DEF MasterReads, Addresses
  <1>4. peer' \in PeerType /\ peer'.bus = "read" /\ peer'.sent = 0 /\ peer'.read = <<>>
    BY <1>2, <1>3, EmptySeq DEF PeerType
  <1> HIDE DEF s, t
  <1>5. OnTheBus(t, s, peer')
    BY <1>1, <1>4, NothingRead DEF OnTheBus, Writing, Reading
  <1> QED
    BY <1>1, <1>2, <1>3, <1>4, <1>5, BusStep DEF t

(* A step of the master that a target which was not addressed does not see. *)
LEMMA UnheardStep ==
    ASSUME LinkInv, link' = link, UNCHANGED <<svc, script, hist>>, peer' \in PeerType,
           OnTheBus(link.target, link.slave, peer')
    PROVE  LinkInv'
  <1>1. ServiceInSync'
    BY DEF LinkInv, ServiceInSync
  <1> QED
    BY <1>1 DEF LinkInv, LinkTypeOK, TargetInv

LEMMA MasterByteStep ==
    ASSUME LinkInv, MasterByte
    PROVE  LinkInv'
  <1> DEFINE t == link.target
             s == link.slave
             b == Token(peer.asks, peer.sent + 1)
             fifo == Append(s.fifo, b)
             r == [s EXCEPT !.fifo = fifo]
  <1>1. /\ link \in LinkType /\ s \in SlaveType /\ t \in TargetType
        /\ TargetOK(t) /\ OnTheBus(t, s, peer) /\ peer \in PeerType
        /\ ~Heard => s.heard = 0
    BY BusIs
  <1>2. /\ peer.bus = "write" /\ peer' = [peer EXCEPT !.sent = @ + 1]
        /\ link' = IF Heard THEN [link EXCEPT !.slave = r] ELSE link
        /\ UNCHANGED <<svc, script, hist>>
    BY <1>1 DEF MasterByte, LinkType, SlaveType
  <1>3. /\ peer' \in PeerType /\ peer'.bus = "write" /\ peer'.sent = peer.sent + 1
        /\ peer'.asks = peer.asks /\ peer.sent \in Nat /\ peer.asks \in Nat
    <2> DEFINE n == peer.sent + 1
    <2>1. n \in Nat /\ peer' = [peer EXCEPT !.sent = n] /\ peer.sent \in Nat /\ peer.asks \in Nat
      BY <1>1, <1>2 DEF PeerType
    <2> HIDE DEF n
    <2>2. peer' \in PeerType /\ peer'.bus = "write" /\ peer'.sent = n /\ peer'.asks = peer.asks
      BY <1>1, <1>2, <2>1 DEF PeerType
    <2> QED
      BY <2>1, <2>2 DEF n
  <1>4. s.stop = 0
    BY <1>1, <1>2 DEF OnTheBus, SlaveType
  <1>5. CASE ~Heard
    <2>1. s.heard = 0
      BY <1>1, <1>5
    <2>2. OnTheBus(t, s, peer')
      BY <1>1, <1>2, <1>3, <1>4, <2>1 DEF OnTheBus, Writing, Reading, ReadWhole
    <2> QED
      BY <1>2, <1>3, <1>5, <2>2, UnheardStep
  <1>6. CASE Heard
    <2>1. s.on = 1 /\ s.heard = 1
      BY <1>6 DEF Heard
    <2>2. b \in Byte
      <3>1. peer.sent + 1 \in Nat
        BY <1>3
      <3> QED
        BY <1>3, <3>1 DEF Byte, Token
    <2>3. s.fifo \in Seq(Byte)
      BY <1>1 DEF SlaveType
    <2>4. /\ fifo \in Seq(Byte) /\ Len(fifo) = Len(s.fifo) + 1 /\ fifo[Len(s.fifo) + 1] = b
          /\ \A i \in 1 .. Len(s.fifo) : fifo[i] = s.fifo[i]
      BY <2>2, <2>3, AppendProperties
    <2>5. link' = [link EXCEPT !.slave = r]
      BY <1>2, <1>6
    <2> HIDE DEF fifo
    <2>6. /\ r \in SlaveType /\ r.on = 1 /\ r.heard = 1 /\ r.stop = 0 /\ r.fifo = fifo
      BY <1>1, <1>4, <2>1, <2>4 DEF SlaveType
    <2>7. ASSUME t.overflow = 0 PROVE Receiving(t, fifo, peer.asks, peer.sent + 1)
      <3>1. Receiving(t, s.fifo, peer.asks, peer.sent)
        BY <1>1, <1>2, <2>1, <2>7 DEF OnTheBus, Writing
      <3>2. Len(Taken(t)) \in Nat /\ Len(s.fifo) \in Nat
        BY <1>1, <2>3, TakenIs
      <3>3. Len(Taken(t)) + Len(s.fifo) = peer.sent
        BY <3>1 DEF Receiving
      <3> DEFINE m == Len(Taken(t))
                 n == Len(s.fifo)
      <3>4. b = Token(peer.asks, m + (n + 1)) /\ m + (n + 1) = peer.sent + 1
        <4>1. m \in Nat /\ n \in Nat /\ m + n = peer.sent
          BY <3>2, <3>3
        <4> HIDE DEF m, n
        <4>2. m + (n + 1) = peer.sent + 1
          BY <4>1
        <4> QED
          BY <4>2
      <3>5. \A k \in 1 .. Len(fifo) : k \in 1 .. Len(s.fifo) \/ k = Len(s.fifo) + 1
        BY <2>4, <3>2
      <3>6. \A k \in 1 .. Len(fifo) : fifo[k] = Token(peer.asks, Len(Taken(t)) + k)
        BY <2>4, <3>1, <3>4, <3>5 DEF Receiving
      <3>7. Len(Taken(t)) + Len(fifo) = peer.sent + 1
        BY <2>4, <3>4
      <3> QED
        BY <3>1, <3>6, <3>7 DEF Receiving
    <2>8. t.reading = 0
      BY <1>1, <1>2, <1>4 DEF OnTheBus, Reading
    <2> HIDE DEF r
    <2>9. OnTheBus(t, r, peer')
      BY <1>2, <1>3, <2>6, <2>7, <2>8 DEF OnTheBus, Writing, Reading, ReadWhole
    <2>10. link' = [link EXCEPT !.target = t, !.slave = r]
      BY <1>1, <2>5 DEF LinkType
    <2> HIDE DEF s
    <2> QED
      BY <1>1, <1>2, <1>3, <2>1, <2>6, <2>9, <2>10, BusStep DEF s
  <1> QED
    BY <1>5, <1>6

LEMMA MasterFetchesStep ==
    ASSUME LinkInv, MasterFetches
    PROVE  LinkInv'
  <1> DEFINE t == link.target
             s == link.slave
             b == IF Heard THEN Transmitted(t) ELSE Fill
             a == Append(peer.read, b)
             u == Transmit(t)
  <1>1. /\ link \in LinkType /\ s \in SlaveType /\ t \in TargetType
        /\ TargetOK(t) /\ OnTheBus(t, s, peer) /\ peer \in PeerType
        /\ ~Heard => s.heard = 0
    BY BusIs
  <1>2. /\ peer.bus = "read" /\ peer' = [peer EXCEPT !.read = a]
        /\ link' = IF Heard THEN [link EXCEPT !.target = u] ELSE link
        /\ UNCHANGED <<svc, script, hist>>
    BY <1>1 DEF MasterFetches, LinkType, PeerType
  <1>3. peer.read \in Seq(Byte) /\ peer.sent = 0 /\ ReadWhole(peer)
    BY <1>1, <1>2 DEF OnTheBus, PeerType
  <1>4. s.stop = 0
    BY <1>1, <1>2 DEF OnTheBus, SlaveType
  <1>5. ASSUME b \in Byte
        PROVE  /\ peer' \in PeerType /\ peer'.bus = "read" /\ peer'.sent = 0 /\ peer'.read = a
               /\ Len(a) = Len(peer.read) + 1 /\ a[Len(peer.read) + 1] = b
               /\ \A i \in 1 .. Len(peer.read) : a[i] = peer.read[i]
    <2>1. /\ a \in Seq(Byte) /\ Len(a) = Len(peer.read) + 1 /\ a[Len(peer.read) + 1] = b
          /\ \A i \in 1 .. Len(peer.read) : a[i] = peer.read[i]
      BY <1>3, <1>5, AppendProperties
    <2> HIDE DEF a
    <2> QED
      BY <1>1, <1>2, <1>3, <2>1 DEF PeerType
  <1>6. CASE ~Heard
    <2>1. s.heard = 0 /\ b = Fill /\ b \in Byte
      BY <1>1, <1>6 DEF Fill, Byte
    <2> HIDE DEF a, b
    <2>2. ReadWhole(peer')
      <3> DEFINE m == Len(peer.read)
      <3>1. PICK f \in Frames, n \in 0 .. ResponseSize : ReadOf(peer.read, f, n)
        BY <1>2, <1>3 DEF ReadWhole
      <3> DEFINE k == IF n <= m THEN n ELSE m
      <3>2. m \in Nat /\ n \in Nat
        BY <1>3, <3>1
      <3>3. k \in 0 .. ResponseSize
        BY <3>2, <3>1, Sizes
      <3>4. \A i \in 1 .. m + 1 : i \in 1 .. m \/ i = m + 1
        BY <3>2
      <3>5. \A i \in 1 .. m : i <= k <=> i <= n
        BY <3>2
      <3>6. ~(m + 1 <= k)
        BY <3>2
      <3>7. ReadOf(a, f, k)
        <4> HIDE DEF k
        <4>1. /\ Len(a) = m + 1 /\ a[m + 1] = Fill
              /\ \A i \in 1 .. m : a[i] = peer.read[i]
          BY <1>5, <2>1
        <4> HIDE DEF m
        <4>2. \A i \in 1 .. m : peer.read[i] = IF i <= n THEN Token(f, i) ELSE Fill
          BY <3>1 DEF ReadOf, m
        <4>3. \A i \in 1 .. m + 1 : a[i] = IF i <= k THEN Token(f, i) ELSE Fill
          BY <3>4, <3>5, <3>6, <4>1, <4>2
        <4> QED
          BY <4>1, <4>3 DEF ReadOf
      <3>8. peer'.read = a
        BY <1>5, <2>1
      <3> QED
        BY <3>3, <3>7, <3>8 DEF ReadWhole
    <2>3. OnTheBus(t, s, peer')
      BY <1>1, <1>2, <1>3, <1>4, <1>5, <2>1, <2>2 DEF OnTheBus, Writing, Reading
    <2> QED
      BY <1>2, <1>5, <1>6, <2>1, <2>3, UnheardStep
  <1>7. CASE Heard
    <2>1. s.on = 1 /\ s.heard = 1 /\ b = Transmitted(t)
      BY <1>7 DEF Heard
    <2>2. /\ t.reading = 0 => peer.read = <<>>
          /\ t.reading = 1 => ReadSoFar(t, peer.read)
      BY <1>1, <1>2, <2>1 DEF OnTheBus
    <2>3. /\ TargetOK(u) /\ u.reading = 1 /\ u.rxActive = t.rxActive /\ u.discard = t.discard
          /\ Transmitted(t) \in Byte /\ ReadSoFar(u, Append(peer.read, Transmitted(t)))
      BY <1>1, <1>3, <2>2, TransmitOK
    <2>4. b \in Byte /\ ReadSoFar(u, a)
      BY <2>1, <2>3
    <2> HIDE DEF a, b, u
    <2>5. ~Writing(s, peer) /\ ~Writing(s, peer')
      BY <1>2, <1>4, <1>5, <2>4 DEF Writing
    <2>6. ReadWhole(peer')
      <3>1. CASE u.readSlot \in Slots
        <4>1. PICK f \in Frames : ReadOf(a, f, ResponseSize)
          BY <2>4, <3>1 DEF ReadSoFar
        <4>2. ResponseSize \in 0 .. ResponseSize
          BY Sizes
        <4> QED
          BY <1>5, <2>4, <4>1, <4>2 DEF ReadWhole
      <3>2. CASE u.readSlot \notin Slots
        <4>1. ReadOf(a, 1, 0) /\ 1 \in Frames /\ 0 \in 0 .. ResponseSize
          BY <2>4, <3>2, ServiceAssumption, Sizes DEF ReadSoFar
        <4> QED
          BY <1>5, <2>4, <4>1 DEF ReadWhole
      <3> QED
        BY <3>1, <3>2
    <2>7. OnTheBus(u, s, peer')
      <3>1. t.rxActive = 0 /\ t.discard = 0 /\ s.fifo = <<>>
        BY <1>1, <2>5 DEF OnTheBus
      <3>2. Reading(s, peer')
        BY <1>5, <2>1, <2>4 DEF Reading
      <3> QED
        BY <1>4, <1>5, <2>1, <2>3, <2>4, <2>5, <2>6, <3>1, <3>2 DEF OnTheBus
    <2>8. link' = [link EXCEPT !.target = u, !.slave = s]
      BY <1>1, <1>2, <1>7 DEF LinkType
    <2> HIDE DEF t
    <2> QED
      BY <1>1, <1>2, <1>5, <2>1, <2>3, <2>4, <2>7, <2>8, BusStep
  <1> QED
    BY <1>6, <1>7

LEMMA MasterStopsStep ==
    ASSUME LinkInv, MasterStops
    PROVE  LinkInv'
  <1> DEFINE t == link.target
             s == link.slave
             r == [s EXCEPT !.stop = 1, !.heard = 0]
  <1>1. /\ link \in LinkType /\ s \in SlaveType /\ t \in TargetType
        /\ TargetOK(t) /\ OnTheBus(t, s, peer) /\ peer \in PeerType
        /\ ~Heard => s.heard = 0
    BY BusIs
  <1>2. /\ \/ peer.bus = "write" /\ peer.sent = MasterLength
           \/ peer.bus = "read" /\ Len(peer.read) = ReadMax
        /\ peer' = [peer EXCEPT !.bus = "idle", !.read = <<>>, !.long = 0]
        /\ link' = IF Heard THEN [link EXCEPT !.slave = r] ELSE link
        /\ UNCHANGED <<svc, script, hist>>
    BY <1>1 DEF MasterStops, LinkType, SlaveType
  <1>3. /\ peer' \in PeerType /\ peer'.bus = "idle" /\ peer'.sent = peer.sent
        /\ peer'.asks = peer.asks
    BY <1>1, <1>2, EmptySeq DEF PeerType
  <1>4. s.stop = 0
    BY <1>1, <1>2 DEF OnTheBus, SlaveType
  <1>5. /\ peer.sent \in Nat
        /\ peer.bus = "write" => peer.sent >= FrameSize /\ peer.sent > 0
        /\ peer.bus = "read" => peer.sent = 0
    <2>1. peer.sent \in Nat /\ peer.long \in Nat /\ FrameSize \in Nat /\ FrameSize > 0
      BY <1>1, Sizes DEF PeerType
    <2>2. peer.bus = "write" => peer.sent = FrameSize + peer.long
      BY <1>2 DEF MasterLength
    <2>3. peer.bus = "read" => peer.sent = 0
      BY <1>1 DEF OnTheBus
    <2> QED
      BY <2>1, <2>2, <2>3
  <1>6. CASE ~Heard
    <2>1. s.heard = 0
      BY <1>1, <1>6
    <2>2. OnTheBus(t, s, peer')
      BY <1>1, <1>3, <1>4, <2>1 DEF OnTheBus, Writing, Reading, ReadWhole
    <2> QED
      BY <1>2, <1>3, <1>6, <2>2, UnheardStep
  <1>7. CASE Heard
    <2>1. s.on = 1 /\ s.heard = 1
      BY <1>7 DEF Heard
    <2>2. /\ r \in SlaveType /\ r.on = 1 /\ r.heard = 0 /\ r.stop = 1 /\ r.fifo = s.fifo
      BY <1>1, <2>1 DEF SlaveType
    <2> HIDE DEF r
    <2>3. /\ Writing(r, peer') <=> Writing(s, peer)
          /\ Reading(r, peer') <=> Reading(s, peer)
      BY <1>2, <1>3, <1>4, <1>5, <2>1, <2>2 DEF Writing, Reading
    <2>4. OnTheBus(t, r, peer')
      BY <1>1, <1>2, <1>3, <1>5, <2>2, <2>3 DEF OnTheBus, ReadWhole
    <2>5. link' = [link EXCEPT !.target = t, !.slave = r]
      BY <1>1, <1>2, <1>7 DEF LinkType, r
    <2> HIDE DEF s
    <2> QED
      BY <1>1, <1>2, <1>3, <2>1, <2>2, <2>4, <2>5, BusStep DEF s
  <1> QED
    BY <1>6, <1>7

(* i2c_event at STOP: the transaction on the bus is over for the target. *)
LEMMA StoppedOK ==
    ASSUME NEW t, TargetOK(t), NEW s \in SlaveType, OnTheBus(t, s, peer), peer \in PeerType,
           s.stop = 1
    PROVE  LET w == Owed(Stop(DrainTo(t, s.fifo)))
           IN  TargetOK(w) /\ w.reading = 0 /\ w.rxActive = 0 /\ w.discard = 0
  <1> DEFINE d == DrainTo(t, s.fifo)
             w == Owed(Stop(d))
  <1>1. peer.sent \in Nat /\ peer.asks \in Nat /\ s.fifo \in Seq(Byte) /\ s.heard = 0
    BY DEF PeerType, SlaveType, OnTheBus
  <1>2. CASE peer.sent > 0
    <2>1. /\ t.reading = 0 /\ peer.sent >= FrameSize
          /\ t.overflow = 0 => Receiving(t, s.fifo, peer.asks, peer.sent)
      BY <1>1, <1>2 DEF OnTheBus, Writing, Reading
    <2>2. /\ TargetOK(d) /\ d.reading = 0
          /\ d.overflow = 0 => Holds(d, peer.asks, peer.sent)
      BY <1>1, <2>1, DrainedOK
    <2> HIDE DEF d
    <2>3. CASE d.rxActive = 1 \/ d.discard = 1
      <3>1. w = OwedTo(StopWrite(d), peer.asks)
        BY <1>2, <2>2, <2>3 DEF Stop, Owed, OwedTo
      <3> HIDE DEF w
      <3>2. TargetOK(w) /\ w.reading = 0 /\ w.rxActive = 0 /\ w.discard = 0
        BY <1>1, <2>1, <2>2, <3>1, StopWriteOK
      <3> QED
        BY <3>2 DEF w, d
    <2>4. CASE ~(d.rxActive = 1 \/ d.discard = 1)
      <3>1. d.rxActive = 0 /\ d.discard = 0
        BY <2>2, <2>4 DEF TargetOK, TargetType
      <3>2. d.overflow = 1
        <4>1. SUFFICES ASSUME d.overflow = 0 PROVE FALSE
          BY <2>2 DEF TargetOK, TargetType
        <4>2. Len(Taken(d)) = peer.sent /\ Taken(d) = <<>>
          BY <2>2, <3>1, <4>1 DEF Holds, Taken
        <4> QED
          BY <1>2, <4>2
      <3>3. w = d
        BY <2>2, <2>4, <3>2 DEF Stop, Owed
      <3> HIDE DEF w
      <3>4. TargetOK(w) /\ w.reading = 0 /\ w.rxActive = 0 /\ w.discard = 0
        BY <2>2, <3>1, <3>3
      <3> QED
        BY <3>4 DEF w, d
    <2> QED
      BY <2>3, <2>4
  <1>3. CASE peer.sent = 0
    <2>1. t.rxActive = 0 /\ t.discard = 0 /\ s.fifo = <<>>
      BY <1>1, <1>3 DEF OnTheBus, Writing
    <2>2. d = t
      BY <2>1, NothingDrained
    <2>3. w = Stop(t)
      BY <1>3, <2>2 DEF Owed
    <2> HIDE DEF w, d
    <2>4. TargetOK(w) /\ w.reading = 0 /\ w.rxActive = 0 /\ w.discard = 0
      <3>1. CASE t.reading = 1
        BY <2>1, <2>3, <3>1, StopReadOK DEF Stop
      <3>2. CASE t.reading # 1
        <4>1. t.reading = 0
          BY <3>2 DEF TargetOK, TargetType
        <4>2. w = t
          BY <2>1, <2>3, <3>2 DEF Stop
        <4> QED
          BY <2>1, <4>1, <4>2
      <3> QED
        BY <3>1, <3>2
    <2> QED
      BY <2>4 DEF w, d
  <1> QED
    BY <1>1, <1>2, <1>3

LEMMA TargetIrqStep ==
    ASSUME LinkInv, TargetIrq
    PROVE  LinkInv'
  <1> DEFINE t == link.target
             s == link.slave
  <1>1. /\ link \in LinkType /\ s \in SlaveType /\ t \in TargetType
        /\ TargetOK(t) /\ OnTheBus(t, s, peer) /\ peer \in PeerType
    BY BusIs
  <1>2. s.on = 1 /\ UNCHANGED <<svc, script, hist>>
    BY DEF TargetIrq
  <1>3. CASE s.stop = 1
    <2> DEFINE w == Owed(Stop(DrainTo(t, s.fifo)))
               r == [s EXCEPT !.fifo = <<>>, !.stop = 0]
    <2>1. TargetOK(w) /\ w.reading = 0 /\ w.rxActive = 0 /\ w.discard = 0
      BY <1>1, <1>3, StoppedOK
    <2>2. peer' = [peer EXCEPT !.sent = 0, !.asks = 0]
      BY <1>3 DEF TargetIrq
    <2>3. link' = [link EXCEPT !.target = w, !.slave = r]
      <3> DEFINE m == [link EXCEPT !.target = w]
      <3>1. link' = [m EXCEPT !.slave.fifo = <<>>, !.slave.stop = 0]
        BY <1>1, <1>3 DEF TargetIrq, LinkType
      <3> HIDE DEF w
      <3>2. m.slave = s
        BY <1>1 DEF LinkType
      <3> QED
        BY <1>1, <3>1, <3>2 DEF LinkType, SlaveType
    <2> HIDE DEF w
    <2>4. s.heard = 0 /\ peer.bus = "idle"
      BY <1>1, <1>3 DEF OnTheBus, SlaveType
    <2>5. /\ peer' \in PeerType /\ peer'.bus = "idle" /\ peer'.sent = 0
      BY <1>1, <2>2, <2>4 DEF PeerType
    <2>6. r \in SlaveType /\ r.on = 1 /\ r.heard = 0 /\ r.stop = 0 /\ r.fifo = <<>>
      BY <1>1, <1>2, <2>4, EmptySeq DEF SlaveType
    <2> HIDE DEF r
    <2>7. OnTheBus(w, r, peer')
      BY <2>1, <2>5, <2>6 DEF OnTheBus, Writing, Reading, ReadWhole
    <2> QED
      BY <1>2, <2>1, <2>3, <2>5, <2>6, <2>7, BusStep
  <1>4. CASE s.stop # 1
    <2> DEFINE b == Head(s.fifo)
               rest == Tail(s.fifo)
               u == Receive(t, b)
               r == [s EXCEPT !.fifo = rest]
    <2>1. s.fifo # <<>> /\ UNCHANGED peer /\ s.fifo \in Seq(Byte)
      BY <1>1, <1>4 DEF TargetIrq, SlaveType
    <2>2. Writing(s, peer) /\ s.heard = 1 /\ peer.bus = "write" /\ s.stop = 0
      BY <1>1, <1>4, <2>1 DEF OnTheBus, Writing, SlaveType
    <2>3. link' = [link EXCEPT !.target = u, !.slave = r]
      <3> DEFINE m == [link EXCEPT !.target = u]
      <3>1. link' = [m EXCEPT !.slave.fifo = rest]
        BY <1>1, <1>4 DEF TargetIrq, LinkType, SlaveType
      <3> HIDE DEF u
      <3>2. m.slave = s
        BY <1>1 DEF LinkType
      <3> QED
        BY <1>1, <3>1, <3>2 DEF LinkType, SlaveType
    <2>4. /\ b \in Byte /\ rest \in Seq(Byte) /\ Len(rest) = Len(s.fifo) - 1
          /\ \A i \in 1 .. Len(rest) : rest[i] = s.fifo[i + 1]
          /\ Len(s.fifo) \in Nat /\ Len(s.fifo) # 0 /\ b = s.fifo[1]
      <3> DEFINE q == s.fifo
      <3>1. q \in Seq(Byte) /\ q # <<>>
        BY <2>1
      <3> HIDE DEF q
      <3>2. /\ Head(q) \in Byte /\ Tail(q) \in Seq(Byte) /\ Len(Tail(q)) = Len(q) - 1
            /\ \A i \in 1 .. Len(Tail(q)) : Tail(q)[i] = q[i + 1]
            /\ Len(q) \in Nat /\ Len(q) # 0 /\ Head(q) = q[1]
        BY <3>1, EmptySeq, HeadTailProperties
      <3> QED
        BY <3>2 DEF q
    <2>5. /\ TargetOK(u) /\ u.reading = t.reading
          /\ u.overflow = 0 => /\ t.overflow = 0 /\ u.rxActive = 1
                              /\ Taken(u) = Append(Taken(t), b)
      BY <1>1, <2>4, ReceiveOK
    <2>6. r \in SlaveType /\ r.on = 1 /\ r.heard = 1 /\ r.stop = 0 /\ r.fifo = rest
      <3> HIDE DEF rest
      <3> QED
        BY <1>1, <1>2, <2>2, <2>4 DEF SlaveType
    <2> HIDE DEF b, rest, u, r
    <2>7. ASSUME u.overflow = 0 PROVE Receiving(u, rest, peer.asks, peer.sent)
      <3> DEFINE m == Len(Taken(t))
                 n == Len(s.fifo)
      <3>1. Receiving(t, s.fifo, peer.asks, peer.sent)
        BY <1>1, <2>2, <2>5, <2>7 DEF OnTheBus
      <3>2. Taken(t) \in Seq(Byte) /\ m \in Nat /\ n \in Nat /\ n # 0
        BY <1>1, <2>4, TakenIs
      <3>3. /\ Len(Taken(u)) = m + 1 /\ Taken(u)[m + 1] = b
            /\ \A i \in 1 .. m : Taken(u)[i] = Taken(t)[i]
        BY <2>4, <2>5, <2>7, <3>2, AppendProperties
      <3>4. /\ m + n = peer.sent
            /\ \A k \in 1 .. m : Taken(t)[k] = Token(peer.asks, k)
            /\ \A k \in 1 .. n : s.fifo[k] = Token(peer.asks, m + k)
        BY <3>1 DEF Receiving
      <3>5. Len(rest) = n - 1 /\ \A i \in 1 .. n - 1 : rest[i] = s.fifo[i + 1]
        BY <2>4
      <3>6. b = Token(peer.asks, m + 1)
        <4>1. 1 \in 1 .. n
          BY <3>2
        <4> QED
          BY <2>4, <3>4, <4>1
      <3> HIDE DEF m, n
      <3>7. \A k \in 1 .. m + 1 : k \in 1 .. m \/ k = m + 1
        BY <3>2
      <3>8. \A k \in 1 .. m + 1 : Taken(u)[k] = Token(peer.asks, k)
        BY <3>3, <3>4, <3>6, <3>7
      <3>9. \A k \in 1 .. n - 1 : k + 1 \in 1 .. n /\ m + (k + 1) = (m + 1) + k
        BY <3>2
      <3>10. \A k \in 1 .. n - 1 : rest[k] = Token(peer.asks, (m + 1) + k)
        BY <3>4, <3>5, <3>9
      <3>11. (m + 1) + (n - 1) = peer.sent
        BY <3>2, <3>4
      <3> QED
        BY <3>3, <3>5, <3>8, <3>10, <3>11 DEF Receiving
    <2>8. t.reading = 0
      BY <1>1, <2>2 DEF OnTheBus, Reading
    <2>9. OnTheBus(u, r, peer)
      BY <1>1, <2>2, <2>5, <2>6, <2>7, <2>8 DEF OnTheBus, Writing, Reading
    <2>10. peer' \in PeerType /\ OnTheBus(u, r, peer')
      BY <1>1, <2>1, <2>9
    <2> QED
      BY <1>2, <2>3, <2>5, <2>6, <2>10, BusStep
  <1> QED
    BY <1>3, <1>4

-----------------------------------------------------------------------------
(* The controller, the deadline and the script bridge. *)

LEMMA ControllerStep ==
    ASSUME LinkInv, UNCHANGED <<svc, script, peer, hist>>, NEW c \in ControllerType,
           c.active = link.controller.active, c.gen = link.controller.gen,
           link' = [link EXCEPT !.controller = c]
    PROVE  LinkInv'
  <1>1. link \in LinkType /\ LinkOK(link)
    BY DEF LinkInv, LinkOK
  <1>2. link' \in LinkType
    BY <1>1 DEF LinkType
  <1>3. /\ SameMode(link', link) /\ link'.target = link.target /\ link'.slave = link.slave
        /\ link'.op = link.op /\ link'.uart = link.uart /\ link'.controller = c
        /\ link'.txFifo = link.txFifo
    BY <1>1, <1>2 DEF LinkType, SameMode
  <1>4. Sending(link')
    BY <1>1, <1>3 DEF LinkOK, Sending
  <1>5. LinkOK(link')
    BY <1>1, <1>2, <1>3, <1>4, PeripheralStep
  <1>6. ServiceInSync'
    BY <1>3 DEF LinkInv, ServiceInSync, SameMode
  <1> QED
    BY <1>3, <1>5, <1>6 DEF LinkInv, LinkTypeOK, LinkOK, TargetInv

LEMMA FillTxOK ==
    ASSUME NEW c \in ControllerType
    PROVE  /\ FillTx(c) \in ControllerType /\ FillTx(c).active = c.active
           /\ FillTx(c).gen = c.gen
  <1> DEFINE n == Least(Total, c.done + FifoDepth)
  <1>1. n \in Nat
    BY Sizes DEF Least, Total, ControllerType
  <1>2. FillTx(c) = [c EXCEPT !.commands = n]
    BY DEF FillTx
  <1> HIDE DEF n
  <1> QED
    BY <1>1, <1>2 DEF ControllerType

LEMMA HardwareStep ==
    ASSUME LinkInv, Hardware
    PROVE  LinkInv'
  <1> DEFINE c == link.controller
  <1>1. link \in LinkType /\ c \in ControllerType
    BY DEF LinkInv, LinkTypeOK, LinkType
  <1>2. UNCHANGED <<svc, script, peer, hist>>
    BY DEF Hardware
  <1>3. CASE ControllerRuns
    <2> DEFINE m == c.done + 1
               n == IF c.done >= TxSize THEN c.fifo + 1 ELSE c.fifo
               r == [c EXCEPT !.done = m, !.fifo = n]
    <2>1. m \in Nat /\ n \in Nat
      BY <1>1 DEF ControllerType
    <2>2. link' = [link EXCEPT !.controller = r]
      BY <1>1, <1>3 DEF ControllerRuns, LinkType, ControllerType
    <2> HIDE DEF m, n
    <2>3. r \in ControllerType /\ r.active = c.active /\ r.gen = c.gen
      BY <1>1, <2>1 DEF ControllerType
    <2> HIDE DEF r
    <2> QED
      BY <1>2, <2>2, <2>3, ControllerStep
  <1>4. CASE ControllerIrq
    <2> DEFINE m == c.received + c.fifo
               d == [c EXCEPT !.received = m, !.fifo = 0]
               r == FillTx(d)
    <2>1. m \in Nat
      BY <1>1 DEF ControllerType
    <2>2. link' = [link EXCEPT !.controller = r]
      BY <1>1, <1>4 DEF ControllerIrq, LinkType, ControllerType
    <2> HIDE DEF m
    <2>3. d \in ControllerType /\ d.active = c.active /\ d.gen = c.gen
      BY <1>1, <2>1 DEF ControllerType
    <2> HIDE DEF d
    <2>4. r \in ControllerType /\ r.active = c.active /\ r.gen = c.gen
      BY <2>3, FillTxOK
    <2> HIDE DEF r
    <2> QED
      BY <1>2, <2>2, <2>4, ControllerStep
  <1>5. CASE ControllerAborts
    <2> DEFINE r == [c EXCEPT !.aborted = 1]
    <2>1. link' = [link EXCEPT !.controller = r]
      BY <1>1, <1>5 DEF ControllerAborts, LinkType
    <2>2. r \in ControllerType /\ r.active = c.active /\ r.gen = c.gen
      BY <1>1 DEF ControllerType
    <2> HIDE DEF r
    <2> QED
      BY <1>2, <2>1, <2>2, ControllerStep
  <1> QED
    BY <1>3, <1>4, <1>5 DEF Hardware

LEMMA LateStep ==
    ASSUME LinkInv, Late
    PROVE  LinkInv'
  <1>1. /\ link \in LinkType /\ LinkOK(link) /\ hist \in HistType /\ hist.bad = 0
        /\ hist.torn = 0
    BY DEF LinkInv, LinkOK, LinkTypeOK, TargetInv, ServiceInSync
  <1>2. link' = [link EXCEPT !.late = 1] /\ UNCHANGED <<svc, script, peer>>
    BY DEF Late, DeadlinePasses
  <1>3. link' \in LinkType
    BY <1>1, <1>2 DEF LinkType
  <1>4. /\ SameMode(link', link) /\ link'.target = link.target /\ link'.slave = link.slave
        /\ link'.op = link.op /\ link'.uart = link.uart /\ link'.controller = link.controller
        /\ link'.txFifo = link.txFifo
    BY <1>1, <1>2, <1>3 DEF LinkType, SameMode
  <1>5. Sending(link')
    BY <1>1, <1>4 DEF LinkOK, Sending
  <1>6. LinkOK(link')
    BY <1>1, <1>3, <1>4, <1>5, PeripheralStep
  <1>7. hist' \in HistType /\ hist'.bad = 0 /\ hist'.torn = 0
    <2>1. CASE link.claimant = "service"
      <3>1. hist.faults < FaultMax /\ hist' = [hist EXCEPT !.faults = @ + 1]
        BY <2>1 DEF Late
      <3> QED
        BY <1>1, <3>1, OneMoreFault
    <2>2. CASE link.claimant # "service"
      <3>1. hist' = [hist EXCEPT !.faults = @]
        BY <2>2 DEF Late
      <3>2. hist' = hist
        BY <1>1, <3>1 DEF HistType
      <3> QED
        BY <1>1, <3>2
    <2> QED
      BY <2>1, <2>2
  <1>8. ServiceInSync'
    BY <1>2, <1>4, <1>7 DEF LinkInv, ServiceInSync, SameMode
  <1> QED
    BY <1>2, <1>4, <1>6, <1>7, <1>8 DEF LinkInv, LinkTypeOK, LinkOK, TargetInv

(* binding_claim_external: the service has let go, or nothing is claimed. *)
LEMMA ScriptClaimsStep ==
    ASSUME LinkInv, ScriptClaims
    PROVE  LinkInv'
  <1> DEFINE c == Cancelled(link)
             l == IF svc.suspended = 1 THEN link ELSE Retired(c, "service", FALSE)
             i == Idle(svc)
  <1>1. /\ LinkOK(c) /\ SameMode(c, link)
        /\ TargetOK(c.target) /\ OnTheBus(c.target, c.slave, peer)
    BY CancelledLink
  <1>2. /\ i \in ServiceType /\ i.torn = 0 /\ i.gen = 0 /\ i.pc = "tick" /\ i.open = svc.open
        /\ i.suspended = svc.suspended /\ i.transport = svc.transport
    BY IdleIs DEF LinkInv, LinkTypeOK, ScriptClaims
  <1>3. hist' \in HistType /\ hist'.bad = 0 /\ hist'.torn = 0
    BY OneMoreFault DEF LinkInv, LinkTypeOK, ScriptClaims, TargetInv, ServiceInSync
  <1>4. /\ link.claimant # "script" /\ LinkOK(link)
        /\ svc.suspended = 1 => link.claimant # "service"
        /\ UNCHANGED <<script, peer>>
    BY DEF ScriptClaims, LinkInv, ServiceInSync
  <1>5. TargetOK(link.target) /\ OnTheBus(link.target, link.slave, peer)
    BY DEF LinkInv, TargetInv
  <1> HIDE DEF c
  <1>6. LinkOK(l) /\ l.claimant = NoUser
    <2>0. link.claimant \in {"service", NoUser}
      BY <1>4 DEF LinkOK, Held
    <2>1. CASE svc.suspended = 1
      BY <1>4, <2>0, <2>1
    <2>2. CASE svc.suspended # 1
      <3> DEFINE r == Retired(c, "service", FALSE)
      <3>1. /\ LinkOK(r) /\ (c.claimant = "service" => r.claimant = NoUser)
            /\ (c.claimant # "service" => r = c)
        BY <1>1, RetiredOK
      <3>2. l = r
        BY <2>2
      <3> HIDE DEF r, l
      <3> QED
        BY <1>1, <2>0, <3>1, <3>2 DEF SameMode
    <2> QED
      BY <2>1, <2>2
  <1>7. TargetOK(l.target) /\ OnTheBus(l.target, l.slave, peer)
    <2>1. CASE svc.suspended = 1
      BY <1>5, <2>1
    <2>2. CASE svc.suspended # 1 /\ c.claimant # "service"
      BY <1>1, <2>2 DEF Retired
    <2>3. CASE svc.suspended # 1 /\ c.claimant = "service"
      <3> DEFINE s == StopMode(c)
                 r == [s EXCEPT !.owner = NoUser, !.claimant = NoUser,
                                !.quarantined = IF FALSE THEN 1 ELSE @]
      <3>1. s \in LinkType /\ Stopped(s)
        BY <1>1, StopModeOK
      <3>2. l = r
        BY <2>3 DEF Retired
      <3> HIDE DEF l, s
      <3>3. l.target = NoTarget /\ l.slave = NoSlave
        BY <3>1, <3>2 DEF LinkType, Stopped
      <3> QED
        BY <3>3, TargetCleared
    <2> QED
      BY <2>1, <2>2, <2>3
  <1>8. IF CanOpen(l)
          THEN link' = Opened(l, "script") /\ svc' = [i EXCEPT !.open = 0, !.suspended = 1]
          ELSE link' = l /\ svc' = [i EXCEPT !.open = 0, !.suspended = 0]
    BY DEF ScriptClaims, c
  <1> HIDE DEF l, i
  <1>9. CASE CanOpen(l)
    <2>1. link' = Opened(l, "script") /\ svc' = [i EXCEPT !.open = 0, !.suspended = 1]
      BY <1>8, <1>9
    <2>2. /\ LinkOK(link') /\ link'.claimant = "script"
          /\ link'.op = NoOp /\ link'.target = NoTarget /\ link'.slave = NoSlave
      BY <1>6, <1>9, <2>1, OpenedOK
    <2>3. TargetOK(link'.target) /\ OnTheBus(link'.target, link'.slave, peer)
      BY <2>2, TargetCleared
    <2>4. /\ svc' \in ServiceType /\ svc'.pc = "tick" /\ svc'.open = 0 /\ svc'.suspended = 1
          /\ svc'.torn = 0
      BY <1>2, <2>1 DEF ServiceType
    <2>5. ServiceInSync'
      BY <1>3, <2>2, <2>4 DEF ServiceInSync
    <2> QED
      BY <1>3, <1>4, <2>2, <2>3, <2>4, <2>5 DEF LinkInv, LinkTypeOK, LinkOK, TargetInv
  <1>10. CASE ~CanOpen(l)
    <2>1. link' = l /\ svc' = [i EXCEPT !.open = 0, !.suspended = 0]
      BY <1>8, <1>10
    <2>2. /\ svc' \in ServiceType /\ svc'.pc = "tick" /\ svc'.open = 0 /\ svc'.suspended = 0
          /\ svc'.torn = 0
      BY <1>2, <2>1 DEF ServiceType
    <2>3. ServiceInSync'
      BY <1>3, <1>6, <2>1, <2>2, NoUserFact DEF ServiceInSync
    <2> QED
      BY <1>3, <1>4, <1>6, <1>7, <2>1, <2>2, <2>3 DEF LinkInv, LinkTypeOK, LinkOK, TargetInv
  <1> QED
    BY <1>9, <1>10

LEMMA RetiredTarget ==
    ASSUME NEW l, LinkOK(l), l.claimant = "script", NEW expired \in BOOLEAN
    PROVE  LET m == Retired(l, "script", expired)
           IN  /\ LinkOK(m) /\ m.claimant = NoUser /\ m.target = NoTarget /\ m.slave = NoSlave
  <1> DEFINE s == StopMode(l)
             m == Retired(l, "script", expired)
  <1>1. LinkOK(m) /\ m.claimant = NoUser
    BY RetiredOK
  <1>2. s \in LinkType /\ Stopped(s)
    BY StopModeOK
  <1>3. m = [s EXCEPT !.owner = NoUser, !.claimant = NoUser,
                      !.quarantined = IF expired THEN 1 ELSE @]
    BY DEF Retired
  <1> HIDE DEF s, m
  <1>4. m.target = NoTarget /\ m.slave = NoSlave
    BY <1>2, <1>3 DEF LinkType, Stopped
  <1> QED
    BY <1>1, <1>4 DEF m

(* The script holds the connector before and after the step. *)
LEMMA ScriptKeeps ==
    ASSUME LinkInv, UNCHANGED <<svc, peer, hist>>, script' \in ScriptType,
           link.claimant = "script", link'.claimant = "script", LinkOK(link'),
           TargetOK(link'.target), OnTheBus(link'.target, link'.slave, peer)
    PROVE  LinkInv'
  <1>1. ServiceInSync'
    BY DEF LinkInv, ServiceInSync
  <1> QED
    BY <1>1 DEF LinkInv, LinkTypeOK, LinkOK, TargetInv

LEMMA ScriptConfiguresStep ==
    ASSUME LinkInv, NEW mode \in Features["script"], ScriptConfigures(mode)
    PROVE  LinkInv'
  <1>1. LinkOK(link) /\ script \in ScriptType
    BY DEF LinkInv, LinkTypeOK
  <1>2. /\ link.claimant = "script" /\ link.op.state # "flight"
        /\ link' = Configured(link, mode) /\ UNCHANGED <<svc, script, peer, hist>>
    BY DEF ScriptConfigures, CanConfigure
  <1>3. mode # "target"
    BY ServiceAssumption
  <1>4. /\ LinkOK(link') /\ SameClaim(link', link) /\ link'.target = NoTarget
        /\ link'.slave = NoSlave
    BY <1>1, <1>2, <1>3, ConfiguredOK
  <1>5. TargetOK(link'.target) /\ OnTheBus(link'.target, link'.slave, peer)
    BY <1>4, TargetCleared
  <1> QED
    BY <1>1, <1>2, <1>4, <1>5, ScriptKeeps DEF SameClaim

LEMMA ScriptBeginsStep ==
    ASSUME LinkInv, NEW kind \in {"write", "transfer"}, ScriptBegins(kind)
    PROVE  LinkInv'
  <1>1. LinkOK(link) /\ link \in LinkType
    BY DEF LinkInv, LinkTypeOK
  <1>2. /\ CanBegin(link, "script", kind) /\ link' = Begun(link, kind)
        /\ script' = [active |-> 1, gen |-> NextGen(link)] /\ UNCHANGED <<svc, peer, hist>>
    BY DEF ScriptBegins
  <1>3. link.claimant = "script" /\ link.mode # "target"
    BY <1>2 DEF CanBegin
  <1>4. LinkOK(link') /\ SameMode(link', link) /\ link'.target = link.target
    BY <1>1, <1>2, BegunOK
  <1>5. TargetOK(link'.target) /\ OnTheBus(link'.target, link'.slave, peer)
    BY <1>3, <1>4, TargetLeft DEF SameMode
  <1>6. script' \in ScriptType
    BY <1>1, <1>2, NextGenIs DEF ScriptType
  <1> QED
    BY <1>2, <1>3, <1>4, <1>5, <1>6, ScriptKeeps DEF SameMode

LEMMA ScriptPollsStep ==
    ASSUME LinkInv, NEW cancel \in BOOLEAN, ScriptPolls(cancel)
    PROVE  LinkInv'
  <1> DEFINE bytes == Tokens(0, TxSize)
  <1>1. LinkOK(link) /\ script \in ScriptType
    BY DEF LinkInv, LinkTypeOK
  <1>2. /\ link.claimant = "script" /\ link.op.state # "none"
        /\ link' = IF cancel THEN OpCancelled(link) ELSE OpPolled(link, bytes)
        /\ script' = IF link'.op.state = "terminal" THEN [active |-> 0, gen |-> 0] ELSE script
        /\ UNCHANGED <<svc, peer, hist>>
    BY DEF ScriptPolls, OpValid
  <1>3. /\ bytes \in Seq(Byte) /\ Len(bytes) = WriteSize(link.claimant)
        /\ \A i \in 1 .. Len(bytes) : bytes[i] # Fill
    <2>1. 0 \in Nat /\ TxSize \in Nat
      BY Sizes
    <2> QED
      BY <1>2, <2>1, TokensAre DEF WriteSize
  <1> HIDE DEF bytes
  <1>4. LinkOK(link') /\ SameHolder(link', link)
    <2>1. CASE cancel
      BY <1>1, <1>2, <2>1, CancelledOK
    <2>2. CASE ~cancel
      <3>1. link' = OpPolled(link, bytes)
        BY <1>2, <2>2
      <3> QED
        BY <1>1, <1>2, <1>3, <3>1, PolledOK
    <2> QED
      BY <2>1, <2>2
  <1>5. TargetOK(link'.target) /\ OnTheBus(link'.target, link'.slave, peer)
    BY <1>2, <1>4, TargetOfOp
  <1>6. script' \in ScriptType
    BY <1>1, <1>2 DEF ScriptType
  <1> QED
    BY <1>2, <1>4, <1>5, <1>6, ScriptKeeps DEF SameHolder

LEMMA ScriptReadsStep ==
    ASSUME LinkInv, ScriptReads
    PROVE  LinkInv'
  <1>1. LinkOK(link) /\ script \in ScriptType
    BY DEF LinkInv, LinkTypeOK
  <1>2. /\ link.claimant = "script" /\ link.mode = "uart" /\ link' = AfterRead(link)
        /\ UNCHANGED <<svc, script, peer, hist>>
    BY DEF ScriptReads
  <1>3. LinkOK(link') /\ SameMode(link', link) /\ link'.target = link.target
    BY <1>1, <1>2, AfterReadOK
  <1>4. TargetOK(link'.target) /\ OnTheBus(link'.target, link'.slave, peer)
    BY <1>2, <1>3, TargetLeft DEF SameMode
  <1> QED
    BY <1>1, <1>2, <1>3, <1>4, ScriptKeeps DEF SameMode

(* micropython_capability_bridge_cleanup: nothing of the run is left. *)
LEMMA ScriptEndsStep ==
    ASSUME LinkInv, NEW expired \in BOOLEAN, ScriptEnds(expired)
    PROVE  LinkInv'
  <1> DEFINE c == IF script.active = 1 /\ OpValid(link, "script", script.gen)
                    THEN OpCancelled(link) ELSE link
             l == Retired(c, "script", expired)
  <1>1. /\ LinkOK(link) /\ svc \in ServiceType /\ svc.torn = 0 /\ hist.torn = 0
        /\ link.claimant = "script" /\ svc.pc = "tick"
    BY DEF LinkInv, LinkTypeOK, ServiceInSync, ScriptEnds
  <1>2. svc.open = 0
    BY <1>1 DEF LinkInv, ServiceInSync, ServiceType
  <1>3. /\ link' = ServiceAcquired(l, svc.transport)
        /\ svc' = [svc EXCEPT !.suspended = 0, !.open = IF Acquires(l) THEN 1 ELSE 0]
        /\ script' = [active |-> 0, gen |-> 0] /\ UNCHANGED <<peer, hist>>
    BY DEF ScriptEnds
  <1>4. LinkOK(c) /\ c.claimant = "script"
    <2>1. CASE script.active = 1 /\ OpValid(link, "script", script.gen)
      <3>1. link.op.state # "none" /\ c = OpCancelled(link)
        BY <2>1 DEF OpValid
      <3> HIDE DEF c
      <3> QED
        BY <1>1, <3>1, CancelledOK DEF SameHolder
    <2>2. CASE ~(script.active = 1 /\ OpValid(link, "script", script.gen))
      BY <1>1, <2>2
    <2> QED
      BY <2>1, <2>2
  <1> HIDE DEF c
  <1>5. LinkOK(l) /\ l.claimant = NoUser /\ l.target = NoTarget /\ l.slave = NoSlave
    BY <1>4, RetiredTarget
  <1> HIDE DEF l
  <1>6. svc.transport \in {"uart", "i2c"}
    BY <1>1 DEF ServiceType
  <1>7. /\ LinkOK(link') /\ (Acquires(l) => ServiceModeSet(link', svc.transport))
        /\ (~Acquires(l) => link' = l)
    BY <1>3, <1>5, <1>6, ServiceAcquiredOK
  <1>8. TargetOK(link'.target) /\ OnTheBus(link'.target, link'.slave, peer)
    BY <1>5, <1>6, <1>7, ServiceSet, TargetCleared
  <1>9. /\ svc' \in ServiceType /\ svc'.pc = "tick" /\ svc'.suspended = 0
        /\ svc'.open = IF Acquires(l) THEN 1 ELSE 0
        /\ svc'.torn = 0 /\ svc'.transport = svc.transport
    BY <1>1, <1>3 DEF ServiceType
  <1>10. ServiceInSync'
    <2>1. CASE Acquires(l)
      BY <1>1, <1>3, <1>7, <1>9, <2>1
      DEF ServiceInSync, ServiceModeSet, TransportMode, NoOp
    <2>2. CASE ~Acquires(l)
      BY <1>1, <1>3, <1>5, <1>7, <1>9, <2>2, NoUserFact DEF ServiceInSync
    <2> QED
      BY <2>1, <2>2
  <1>11. script' \in ScriptType
    BY <1>3 DEF ScriptType
  <1> QED
    BY <1>3, <1>7, <1>8, <1>9, <1>10, <1>11 DEF LinkInv, LinkTypeOK, LinkOK, TargetInv

-----------------------------------------------------------------------------
(* The invariant. *)

LEMMA LinkInitially == ASSUME LinkInit PROVE LinkInv
  <1>1. /\ link = InitLink /\ script = [active |-> 0, gen |-> 0]
        /\ peer = [asks |-> 0, wire |-> <<>>, got |-> <<>>, bus |-> "idle", sent |-> 0,
                   long |-> 0, read |-> <<>>, next |-> 1]
        /\ hist = [faults |-> 0, done |-> 0, bad |-> 0, torn |-> 0]
        /\ svc = [transport |-> "uart", suspended |-> 0, open |-> 0, parse |-> NoParse,
                  staged |-> <<>>, response |-> 0, torn |-> 0, wait |-> 0, gen |-> 0,
                  pc |-> "tick", request |-> 0]
    BY DEF LinkInit
  <1>2. link \in LinkType
    BY <1>1, Initially
  <1>3. /\ link.claimant = NoUser /\ link.owner = NoUser /\ link.quarantined = 0
        /\ link.mode = "off" /\ link.op = NoOp /\ link.uart = 0 /\ link.txFifo = <<>>
        /\ link.target = NoTarget /\ link.slave = NoSlave /\ link.controller = NoController
    BY <1>1 DEF InitLink
  <1>4. /\ svc \in ServiceType /\ svc.pc = "tick" /\ svc.torn = 0 /\ svc.open = 0
    BY <1>1, EmptySeq DEF ServiceType, NoParse
  <1>5. script \in ScriptType /\ hist \in HistType /\ hist.bad = 0 /\ hist.torn = 0
    BY <1>1, Sizes DEF ScriptType, HistType
  <1>6. peer \in PeerType /\ peer.bus = "idle" /\ peer.sent = 0
    <2>1. 1 \in Frames
      BY ServiceAssumption
    <2> QED
      BY <1>1, <2>1, EmptySeq DEF PeerType
  <1>7. LinkOK(link)
    <2>1. Sending(link)
      BY <1>3, Sizes DEF Sending
    <2> QED
      BY <1>2, <1>3, <2>1 DEF LinkOK, Held, Operating, SwitchedOn, NoOp, NoController, NoSlave
  <1>8. ServiceInSync
    BY <1>3, <1>4, <1>5, NoUserFact DEF ServiceInSync
  <1>9. TargetOK(link.target)
    <2> DEFINE t == link.target
    <2>1. /\ t \in TargetType /\ t.events = <<>> /\ t.overflow = 0 /\ t.discard = 0
          /\ t.rxActive = 0 /\ t.preload = 0 /\ t.reading = 0 /\ t.owed = <<>>
      BY <1>3, Initially DEF NoTarget
    <2>2. Len(t.events) = 0 /\ 1 .. Len(t.events) = {} /\ Len(t.owed) = 0
      BY <2>1
    <2> QED
      BY <2>1, <2>2 DEF TargetOK, Exclusive, Events, Delivers, Responds, QueuedWrites
  <1>10. OnTheBus(link.target, link.slave, peer)
    BY <1>3, <1>6 DEF OnTheBus, Writing, Reading, ReadWhole, NoSlave, NoTarget
  <1> QED
    BY <1>2, <1>4, <1>5, <1>6, <1>7, <1>8, <1>9, <1>10 DEF LinkInv, LinkTypeOK, TargetInv

LEMMA LinkStep == ASSUME LinkInv, LinkNext PROVE LinkInv'
  <1>1. CASE Service
    BY <1>1, AcquireStep, TickPollStep, TickRespondStep, TickReadStep, RespondStep, TickFeedStep
    DEF Service
  <1>2. CASE TickTarget
    BY <1>2, TickTargetStep
  <1>3. CASE Cable
    <2>1. CASE PeerAsks(FALSE)
      BY <2>1, PeerAsksStep
    <2> QED
      BY <1>3, <2>1, WireByteStep, WireSendsStep, MasterByteStep, MasterFetchesStep,
         MasterStopsStep DEF Cable
  <1>4. CASE TargetIrq
    BY <1>4, TargetIrqStep
  <1>5. CASE Hardware \/ Late
    BY <1>5, HardwareStep, LateStep
  <1>6. CASE (\E transport \in {"uart", "i2c"} : SetTransport(transport)) \/ SetBaud
    BY <1>6, SetTransportStep, SetBaudStep
  <1>7. CASE ScriptClaims \/ ScriptReads
    BY <1>7, ScriptClaimsStep, ScriptReadsStep
  <1>8. CASE \E mode \in Features["script"] : ScriptConfigures(mode)
    BY <1>8, ScriptConfiguresStep
  <1>9. CASE \E kind \in {"write", "transfer"} : ScriptBegins(kind)
    BY <1>9, ScriptBeginsStep
  <1>10. CASE \E b \in BOOLEAN : ScriptPolls(b) \/ ScriptEnds(b)
    BY <1>10, ScriptPollsStep, ScriptEndsStep
  <1>11. CASE PeerAsks(TRUE)
    BY <1>11, PeerAsksStep
  <1>12. CASE WireLoses \/ MasterReads
    BY <1>12, WireLosesStep, MasterReadsStep
  <1>13. CASE \E extra \in 0 .. BufferMax - FrameSize + 1 : MasterWrites(extra)
    BY <1>13, MasterWritesStep
  <1> QED
    BY <1>1, <1>2, <1>3, <1>4, <1>5, <1>6, <1>7, <1>8, <1>9, <1>10, <1>11, <1>12, <1>13
    DEF LinkNext

LEMMA LinkStutter == ASSUME LinkInv, UNCHANGED linkVars PROVE LinkInv'
  BY DEF LinkInv, LinkTypeOK, LinkOK, TargetInv, ServiceInSync, linkVars

LEMMA LinkInvariant == LinkSpec => []LinkInv
  <1>1. LinkInit => LinkInv
    BY LinkInitially
  <1>2. LinkInv /\ [LinkNext]_linkVars => LinkInv'
    BY LinkStep, LinkStutter
  <1> QED
    BY <1>1, <1>2, PTL DEF LinkSpec

(* Whatever ended (a poll, a cancel, a deadline, a new mode, the end of a    *)
(* script: latch_terminal, stop_mode, hk_external_link_retire) left no       *)
(* peripheral at work for it, and no byte of a response was taken from the   *)
(* parser's buffer after the parser had begun to fill it again.              *)
THEOREM NothingLeftAtWork == LinkSpec => [](LinkTypeOK /\ NoLateEffect)
  <1>1. LinkInv => LinkTypeOK /\ NoLateEffect
    <2> SUFFICES ASSUME LinkInv PROVE LinkTypeOK /\ NoLateEffect
      OBVIOUS
    <2>1. LinkOK(link) /\ ServiceInSync /\ LinkTypeOK
      BY DEF LinkInv
    <2>2. ASSUME link.controller.active = 1
          PROVE  /\ link.claimant = "script" /\ link.mode = "controller"
                 /\ link.op.state = "flight" /\ link.op.gen = link.controller.gen
      <3>1. /\ link.op.state = "flight" /\ link.op.kind = "transfer"
            /\ link.op.gen = link.controller.gen /\ link.mode = "controller"
        BY <2>1, <2>2 DEF LinkOK, SwitchedOn, Operating
      <3>2. link.claimant \in {"service", "script"} /\ link.mode \in Features[link.claimant]
        BY <2>1, <3>1 DEF LinkOK, Held
      <3> QED
        BY <3>1, <3>2, ServiceAssumption
    <2>3. link.slave.on = 1 => link.mode = "target" /\ link.claimant = "service"
      <3> SUFFICES ASSUME link.slave.on = 1
                   PROVE  link.mode = "target" /\ link.claimant = "service"
        OBVIOUS
      <3>1. link.mode = "target"
        BY <2>1 DEF LinkOK, SwitchedOn
      <3>2. link.claimant \in {"service", "script"} /\ link.mode \in Features[link.claimant]
        BY <2>1, <3>1 DEF LinkOK, Held
      <3> QED
        BY <3>1, <3>2, ServiceAssumption
    <2>4. /\ link.uart = 1 => link.mode = "uart"
          /\ link.claimant = NoUser => link.mode = "off" /\ link.op = NoOp
          /\ hist.torn = 0
      BY <2>1 DEF LinkOK, SwitchedOn, Held, Operating, ServiceInSync
    <2> QED
      BY <2>1, <2>2, <2>3, <2>4 DEF NoLateEffect
  <1> QED
    BY <1>1, LinkInvariant, PTL

(* Of the bytes that the target's interrupt and the main loop hand over in   *)
(* two buffers (target_receive, target_event, target_poll, target_preload),  *)
(* what the service is given is the oldest whole transaction still owed, or  *)
(* a loss is reported; and what the master reads is one response, then fill. *)
THEOREM TransactionsWhole == LinkSpec => []TransfersWhole
  <1>1. LinkInv => TransfersWhole
    <2> SUFFICES ASSUME LinkInv PROVE TransfersWhole
      OBVIOUS
    <2>1. hist.bad = 0 /\ ReadWhole(peer) /\ peer \in PeerType
      BY DEF LinkInv, TargetInv, OnTheBus, LinkTypeOK
    <2>2. DOMAIN peer.read = 1 .. Len(peer.read)
      BY <2>1 DEF PeerType
    <2> QED
      BY <2>1, <2>2 DEF TransfersWhole, ReadWhole, ReadOf
  <1> QED
    BY <1>1, LinkInvariant, PTL

-----------------------------------------------------------------------------
(* The display. *)

(* What dirty_add makes: rectangles that do not meet, no more than fit.      *)
Separate(list) ==
    /\ list \in Lists /\ Cardinality(list) <= MaxDirty
    /\ \A c, d \in list : c # d => c \cap d = {}

(* Every rectangle of one list lies in a rectangle of the other.             *)
Within(more, list) == \A d \in more : \E r \in list : d \subseteq r

(* What the commands paint is dirty.                                         *)
Drawn(batch) == \A q \in Pixels : batch.paint[q] # None => q \in Covered(batch.dirty)

ListsOK ==
    /\ \A p \in Planes : Separate(planes[p].repair)
    /\ Separate(stage.dirty) /\ Separate(surface.dirty) /\ Separate(overlay.dirty)

(* A closed plane has nothing to repair, and while the overlay has, it is    *)
(* the overlay the repair was left for.                                      *)
RepairOK ==
    /\ \A p \in Planes : planes[p].open = 0 => planes[p].repair = {}
    /\ planes["overlay"].repair # {} => Within(overlay.dirty, planes["overlay"].repair)

(* Only commands make an overlay dirty.                                      *)
CountsOK ==
    /\ stage.owner = "overlay" /\ stage.dirty # {} => stage.count # 0
    /\ overlay.dirty # {} => overlay.count # 0

DisplayInv ==
    /\ DisplayTypeOK /\ ListsOK /\ Drawn(stage) /\ Drawn(overlay)
    /\ RepairOK /\ CountsOK /\ WorkspaceExact /\ DamageAccounted

-----------------------------------------------------------------------------
(* Rectangles. *)

LEMMA Screen ==
    /\ Width \in Nat \ {0} /\ Height \in Nat \ {0}
    /\ MaxDirty \in Nat \ {0} /\ MaxCommands \in Nat \ {0} /\ FailureMax \in Nat
    /\ Colors \subseteq Nat /\ 0 \in Colors /\ None \notin Colors
  <1>1. None \notin Nat
    BY DEF None
  <1> QED
    BY <1>1, DisplayAssumption

LEMMA RectIs ==
    ASSUME NEW r \in Rects
    PROVE  /\ r # {} /\ r \subseteq Pixels
           /\ \E x0, x1 \in 1 .. Width, y0, y1 \in 1 .. Height : r = Box(x0, x1, y0, y1)
  <1>1. PICK x0 \in 1 .. Width, x1 \in 1 .. Width, y0 \in 1 .. Height, y1 \in 1 .. Height :
          r = Box(x0, x1, y0, y1)
    BY DEF Rects
  <1>2. x0 .. x1 \subseteq 1 .. Width /\ y0 .. y1 \subseteq 1 .. Height
    BY <1>1, Screen
  <1>3. r \subseteq Pixels
    BY <1>1, <1>2 DEF Box, Pixels
  <1> QED
    BY <1>1, <1>3 DEF Rects

LEMMA ScreenIsRect == Pixels \in Rects
  <1>1. 1 \in 1 .. Width /\ Width \in 1 .. Width /\ 1 \in 1 .. Height /\ Height \in 1 .. Height
    BY Screen
  <1>2. Pixels = Box(1, Width, 1, Height)
    BY DEF Pixels, Box
  <1>3. <<1, 1>> \in Pixels
    BY <1>1 DEF Pixels
  <1> QED
    BY <1>1, <1>2, <1>3 DEF Rects

Spans(n) == {a .. b : a, b \in 1 .. n}

(* What two spans share is a span. *)
LEMMA Overlap ==
    ASSUME NEW n \in Nat, NEW s \in Spans(n), NEW t \in Spans(n)
    PROVE  s \cap t \in Spans(n)
  <1>1. PICK a \in 1 .. n, b \in 1 .. n : s = a .. b
    BY DEF Spans
  <1>2. PICK c \in 1 .. n, d \in 1 .. n : t = c .. d
    BY DEF Spans
  <1> DEFINE e == IF a < c THEN c ELSE a
             f == IF b < d THEN b ELSE d
  <1>3. e \in 1 .. n /\ f \in 1 .. n
    OBVIOUS
  <1>4. s \cap t = e .. f
    BY <1>1, <1>2
  <1> HIDE DEF e, f
  <1>5. e .. f \in Spans(n)
    BY <1>3 DEF Spans
  <1> QED
    BY <1>4, <1>5

LEMMA RectsAre ==
    /\ \A r \in Rects : \E s \in Spans(Width), t \in Spans(Height) : r = s \X t
    /\ \A s \in Spans(Width), t \in Spans(Height) : s \X t # {} => s \X t \in Rects
  <1>1. ASSUME NEW r \in Rects
        PROVE  \E s \in Spans(Width), t \in Spans(Height) : r = s \X t
    <2>1. PICK x0 \in 1 .. Width, x1 \in 1 .. Width, y0 \in 1 .. Height, y1 \in 1 .. Height :
            r = Box(x0, x1, y0, y1)
      BY RectIs
    <2>2. x0 .. x1 \in Spans(Width) /\ y0 .. y1 \in Spans(Height)
      BY DEF Spans
    <2> QED
      BY <2>1, <2>2 DEF Box
  <1>2. ASSUME NEW s \in Spans(Width), NEW t \in Spans(Height), s \X t # {}
        PROVE  s \X t \in Rects
    <2>1. PICK x0 \in 1 .. Width, x1 \in 1 .. Width : s = x0 .. x1
      BY DEF Spans
    <2>2. PICK y0 \in 1 .. Height, y1 \in 1 .. Height : t = y0 .. y1
      BY DEF Spans
    <2>3. s \X t = Box(x0, x1, y0, y1)
      BY <2>1, <2>2 DEF Box
    <2> QED
      BY <1>2, <2>3 DEF Rects
  <1> QED
    BY <1>1, <1>2

LEMMA RectsMeet ==
    ASSUME NEW b \in Rects, NEW c \in Rects, b \cap c # {}
    PROVE  b \cap c \in Rects
  <1>1. Width \in Nat /\ Height \in Nat
    BY Screen
  <1>2. PICK s \in Spans(Width), t \in Spans(Height) : b = s \X t
    BY RectsAre
  <1>3. PICK u \in Spans(Width), v \in Spans(Height) : c = u \X v
    BY RectsAre
  <1>4. s \cap u \in Spans(Width) /\ t \cap v \in Spans(Height)
    BY <1>1, Overlap
  <1>5. b \cap c = (s \cap u) \X (t \cap v)
    BY <1>2, <1>3
  <1> QED
    BY <1>4, <1>5, RectsAre

LEMMA RectsFinite == IsFiniteSet(Pixels) /\ IsFiniteSet(Rects)
  <1>1. IsFiniteSet(1 .. Width) /\ IsFiniteSet(1 .. Height)
    BY Screen, FS_Interval
  <1>2. IsFiniteSet(Pixels)
    BY <1>1, FS_Product DEF Pixels
  <1>3. IsFiniteSet(SUBSET Pixels)
    BY <1>2, FS_SUBSET
  <1>4. Rects \in SUBSET (SUBSET Pixels)
    BY RectIs
  <1> QED
    BY <1>2, <1>3, <1>4, FS_Subset

(* A set of rectangles that share a pixel, and with two what both hold, has  *)
(* a least one.                                                              *)
LEMMA LeastRect ==
    ASSUME NEW A \in SUBSET Rects, A # {}, \A b, c \in A : b \cap c \in A
    PROVE  \E b \in A : \A c \in A : b \subseteq c
  <1>1. ASSUME NEW b \in A PROVE IsFiniteSet(b) /\ Cardinality(b) \in Nat
    BY RectIs, RectsFinite, FS_Subset, FS_CardinalityType
  <1> DEFINE T == {Cardinality(b) : b \in A}
  <1>2. T \in SUBSET Nat /\ T # {}
    BY <1>1
  <1> HIDE DEF T
  <1>3. PICK n \in T : \A m \in T : n <= m
    BY <1>2, LeastNatural
  <1>4. PICK b \in A : n = Cardinality(b)
    BY DEF T
  <1>5. ASSUME NEW c \in A PROVE b \subseteq c
    <2>1. b \cap c \in A /\ b \cap c \in SUBSET b
      OBVIOUS
    <2>2. Cardinality(b) <= Cardinality(b \cap c)
      BY <1>3, <1>4, <2>1 DEF T
    <2>3. Cardinality(b \cap c) <= Cardinality(b)
      BY <1>1, <2>1, FS_Subset
    <2>4. Cardinality(b \cap c) = Cardinality(b)
      BY <1>1, <2>1, <2>2, <2>3
    <2>5. b \cap c = b
      BY <1>1, <2>1, <2>4, FS_Subset
    <2> QED
      BY <2>5
  <1> QED
    BY <1>5

-----------------------------------------------------------------------------
(* Lists of rectangles. *)

LEMMA AbsorbingIs ==
    ASSUME NEW list, NEW rect
    PROVE  \A b : b \in Absorbing(list, rect) <=>
             /\ b \in Rects /\ rect \subseteq b
             /\ \A d \in list : d \cap b = {} \/ d \subseteq b
  BY DEF Absorbing

LEMMA MergedIs ==
    ASSUME NEW list \in Lists, NEW rect \in Rects
    PROVE  LET box == Merged(list, rect)
           IN  /\ box \in Rects /\ rect \subseteq box
               /\ \A d \in list : d \cap box = {} \/ d \subseteq box
               /\ \A c \in Absorbing(list, rect) : box \subseteq c
  <1> DEFINE A == Absorbing(list, rect)
             box == Merged(list, rect)
  <1>1. A \in SUBSET Rects /\ list \subseteq Rects
    BY AbsorbingIs DEF Lists
  <1>2. Pixels \in A
    BY <1>1, AbsorbingIs, ScreenIsRect, RectIs
  <1>3. ASSUME NEW b \in A, NEW c \in A PROVE b \cap c \in A
    <2>1. b \in Rects /\ c \in Rects /\ rect \subseteq b \cap c
      BY <1>3, AbsorbingIs
    <2>2. b \cap c \in Rects
      BY <2>1, RectIs, RectsMeet
    <2>3. ASSUME NEW d \in list PROVE d \cap (b \cap c) = {} \/ d \subseteq b \cap c
      BY <1>3, AbsorbingIs
    <2> QED
      BY <2>1, <2>2, <2>3, AbsorbingIs
  <1> HIDE DEF A
  <1>4. \E b \in A : \A c \in A : b \subseteq c
    BY <1>1, <1>2, <1>3, LeastRect
  <1>5. box = CHOOSE b \in A : \A c \in A : b \subseteq c
    BY DEF Merged, A
  <1> HIDE DEF box
  <1>6. box \in A /\ \A c \in A : box \subseteq c
    BY <1>4, <1>5
  <1>7. /\ box \in Rects /\ rect \subseteq box
        /\ \A d \in list : d \cap box = {} \/ d \subseteq box
        /\ \A c \in Absorbing(list, rect) : box \subseteq c
    BY <1>6, AbsorbingIs DEF A
  <1> QED
    BY <1>7 DEF box

(* What dirty_add leaves of a list. *)
Found == [list : Lists, full : {0, 1}]

FoundOK(a) == a \in Found /\ Separate(a.list)

LEMMA SeparateFinite ==
    ASSUME NEW list, Separate(list)
    PROVE  IsFiniteSet(list) /\ Cardinality(list) \in 0 .. MaxDirty
  <1>1. list \in SUBSET Rects
    BY DEF Separate, Lists
  <1>2. IsFiniteSet(list)
    BY <1>1, RectsFinite, FS_Subset
  <1> QED
    BY <1>2, FS_CardinalityType, Screen DEF Separate

LEMMA SeparatePart ==
    ASSUME NEW list, Separate(list), NEW part \in SUBSET list
    PROVE  Separate(part) /\ Cardinality(part) <= Cardinality(list)
  <1>1. IsFiniteSet(list) /\ Cardinality(list) \in Nat /\ Cardinality(list) <= MaxDirty
    BY SeparateFinite
  <1>2. IsFiniteSet(part) /\ Cardinality(part) <= Cardinality(list)
    BY <1>1, FS_Subset
  <1>3. Cardinality(part) \in Nat
    BY <1>2, FS_CardinalityType
  <1>4. Cardinality(part) <= MaxDirty
    BY <1>1, <1>2, <1>3, Screen
  <1> QED
    BY <1>2, <1>4 DEF Separate, Lists

LEMMA DirtyAddOK ==
    ASSUME NEW found, FoundOK(found), NEW rect \in Rects
    PROVE  LET r == DirtyAdd(found, rect)
           IN  /\ FoundOK(r)
               /\ r.full = 0 => /\ found.full = 0 /\ Within(found.list, r.list)
                                /\ \E b \in r.list : rect \subseteq b
  <1> DEFINE list == found.list
             box  == Merged(list, rect)
             rest == {d \in list : d \cap box = {}}
             r    == DirtyAdd(found, rect)
  <1>1. list \in Lists /\ Separate(list) /\ found \in Found
    BY DEF FoundOK, Found
  <1>2. /\ box \in Rects /\ rect \subseteq box
        /\ \A d \in list : d \cap box = {} \/ d \subseteq box
    BY <1>1, MergedIs
  <1>3. r = IF Cardinality(rest) < MaxDirty
            THEN [found EXCEPT !.list = rest \cup {box}] ELSE [list |-> rest, full |-> 1]
    BY DEF DirtyAdd
  <1> HIDE DEF box, r
  <1>4. rest \in SUBSET list /\ \A d \in rest : d \cap box = {}
    OBVIOUS
  <1>5. \A d \in list : d \in rest \/ d \subseteq box
    BY <1>2
  <1> HIDE DEF rest, list
  <1>6. Separate(rest) /\ IsFiniteSet(rest) /\ Cardinality(rest) \in Nat
    BY <1>1, <1>4, SeparatePart, SeparateFinite
  <1>7. CASE Cardinality(rest) < MaxDirty
    <2>1. Cardinality(rest \cup {box}) <= MaxDirty
      <3>1. \/ Cardinality(rest \cup {box}) = Cardinality(rest)
            \/ Cardinality(rest \cup {box}) = Cardinality(rest) + 1
        BY <1>6, FS_AddElement
      <3> QED
        BY <1>6, <1>7, <3>1, Screen
    <2>2. rest \cup {box} \in Lists
      BY <1>2, <1>6 DEF Separate, Lists
    <2>3. Separate(rest \cup {box})
      BY <1>4, <1>6, <2>1, <2>2 DEF Separate
    <2>4. r \in Found /\ r.list = rest \cup {box} /\ r.full = found.full
      BY <1>1, <1>3, <1>7, <2>2 DEF Found
    <2>5. FoundOK(r)
      BY <2>3, <2>4 DEF FoundOK
    <2>6. Within(list, r.list) /\ \E b \in r.list : rect \subseteq b
      BY <1>2, <1>5, <2>4 DEF Within
    <2> QED
      BY <2>4, <2>5, <2>6 DEF r, list
  <1>8. CASE ~(Cardinality(rest) < MaxDirty)
    <2>1. r = [list |-> rest, full |-> 1]
      BY <1>3, <1>8
    <2>2. rest \in Lists
      BY <1>6 DEF Separate
    <2>3. FoundOK(r) /\ r.full # 0
      BY <1>6, <2>1, <2>2 DEF FoundOK, Found
    <2> QED
      BY <2>3 DEF r
  <1> QED
    BY <1>7, <1>8

(* A rectangle that lies in an entry changes nothing. *)
LEMMA DirtyAddInside ==
    ASSUME NEW found, FoundOK(found), found.full = 0, NEW rect \in Rects,
           NEW d \in found.list, rect \subseteq d
    PROVE  DirtyAdd(found, rect) = found
  <1> DEFINE list == found.list
             box  == Merged(list, rect)
             rest == {c \in list : c \cap box = {}}
  <1>1. list \in Lists /\ Separate(list) /\ found \in Found
    BY DEF FoundOK, Found
  <1>2. /\ box \in Rects /\ rect \subseteq box
        /\ \A c \in list : c \cap box = {} \/ c \subseteq box
        /\ \A c \in Absorbing(list, rect) : box \subseteq c
    BY <1>1, MergedIs
  <1>3. d \in Rects /\ rect # {}
    BY <1>1, RectIs DEF Lists
  <1>4. \A c \in list : c # d => c \cap d = {}
    BY <1>1 DEF Separate
  <1>5. d \in Absorbing(list, rect)
    BY <1>3, <1>4, AbsorbingIs
  <1>6. box = d
    BY <1>2, <1>3, <1>5
  <1> HIDE DEF box
  <1>7. rest = list \ {d}
    BY <1>3, <1>4, <1>6, RectIs
  <1>8. DirtyAdd(found, rect) = IF Cardinality(rest) < MaxDirty
            THEN [found EXCEPT !.list = rest \cup {box}] ELSE [list |-> rest, full |-> 1]
    BY DEF DirtyAdd, box
  <1> HIDE DEF rest
  <1>9. Cardinality(rest) < MaxDirty
    <2>1. IsFiniteSet(list) /\ Cardinality(list) \in 0 .. MaxDirty
      BY <1>1, SeparateFinite
    <2>2. Cardinality(rest) = Cardinality(list) - 1
      BY <1>7, <2>1, FS_RemoveElement
    <2> QED
      BY <2>1, <2>2, Screen
  <1>10. rest \cup {box} = list
    BY <1>6, <1>7
  <1>11. DirtyAdd(found, rect) = [found EXCEPT !.list = list]
    BY <1>8, <1>9, <1>10
  <1> QED
    BY <1>1, <1>11 DEF Found

(* One that meets no entry is added as it is. *)
LEMMA DirtyAddApart ==
    ASSUME NEW list, Separate(list), Cardinality(list) < MaxDirty, NEW rect \in Rects,
           \A d \in list : d \cap rect = {}
    PROVE  DirtyAdd(Listed(list), rect) = Listed(list \cup {rect})
  <1> DEFINE box  == Merged(list, rect)
             rest == {c \in list : c \cap box = {}}
  <1>1. list \in Lists
    BY DEF Separate
  <1>2. /\ box \in Rects /\ rect \subseteq box
        /\ \A c \in Absorbing(list, rect) : box \subseteq c
    BY <1>1, MergedIs
  <1>3. rect \in Absorbing(list, rect)
    BY AbsorbingIs
  <1>4. box = rect
    BY <1>2, <1>3
  <1> HIDE DEF box
  <1>5. rest = list
    BY <1>4
  <1>6. DirtyAdd(Listed(list), rect) = IF Cardinality(rest) < MaxDirty
            THEN [Listed(list) EXCEPT !.list = rest \cup {box}] ELSE [list |-> rest, full |-> 1]
    BY DEF DirtyAdd, box, Listed
  <1> HIDE DEF rest
  <1>7. DirtyAdd(Listed(list), rect) = [Listed(list) EXCEPT !.list = list \cup {rect}]
    BY <1>4, <1>5, <1>6
  <1> QED
    BY <1>7 DEF Listed

-----------------------------------------------------------------------------
(* One dirty_add after the other. *)

(* The lists a run goes through. *)
Adds(g, list, s, n) ==
    /\ g[0] = Listed(list)
    /\ \A i \in 1 .. n : g[i] = DirtyAdd(g[i - 1], s[i])

Runs(g, list, s, n) ==
    g = [i \in 0 .. n |-> IF i = 0 THEN Listed(list) ELSE DirtyAdd(g[i - 1], s[i])]

LEMMA AddsExist ==
    ASSUME NEW list, NEW s, NEW n \in Nat
    PROVE  \E g : Runs(g, list, s, n)
  <1> USE DEF Runs
  <1> DEFINE Run(g, k) == Runs(g, list, s, k)
             T == {k \in Nat : ~\E g : Run(g, k)}
  <1>1. SUFFICES ASSUME T # {} PROVE FALSE
    OBVIOUS
  <1>2. PICK k \in T : \A m \in T : k <= m
    BY <1>1, LeastNatural
  <1>3. k # 0
    <2> DEFINE g == [i \in 0 .. 0 |-> Listed(list)]
    <2>1. Run(g, 0)
      OBVIOUS
    <2> QED
      BY <1>2, <2>1
  <1>4. k \in Nat /\ k - 1 \in Nat /\ k - 1 \notin T
    BY <1>2, <1>3
  <1>5. PICK g : Run(g, k - 1)
    BY <1>4
  <1> DEFINE h == [i \in 0 .. k |-> IF i < k THEN g[i] ELSE DirtyAdd(g[k - 1], s[k])]
  <1>6. ASSUME NEW i \in 0 .. k
        PROVE  h[i] = IF i = 0 THEN Listed(list) ELSE DirtyAdd(h[i - 1], s[i])
    <2>1. CASE i = 0
      <3>1. 0 \in 0 .. k - 1 /\ 0 < k /\ 0 \in 0 .. k
        BY <1>3, <1>4
      <3> QED
        BY <1>5, <2>1, <3>1
    <2>2. CASE i # 0 /\ i < k
      <3>1. i \in 0 .. k - 1 /\ i - 1 \in 0 .. k /\ i - 1 < k
        BY <1>4, <2>2
      <3>2. h[i - 1] = g[i - 1] /\ h[i] = g[i]
        BY <2>2, <3>1
      <3>3. g[i] = DirtyAdd(g[i - 1], s[i])
        BY <1>5, <2>2, <3>1
      <3> QED
        BY <2>2, <3>2, <3>3
    <2>3. CASE i = k
      <3>1. k - 1 \in 0 .. k /\ k - 1 < k /\ ~(k < k)
        BY <1>3, <1>4
      <3>2. h[k - 1] = g[k - 1] /\ h[k] = DirtyAdd(g[k - 1], s[k])
        BY <2>3, <3>1
      <3> QED
        BY <1>3, <2>3, <3>2
    <2> QED
      BY <1>4, <2>1, <2>2, <2>3
  <1>7. h = [i \in 0 .. k |-> h[i]]
    OBVIOUS
  <1> HIDE DEF h
  <1>8. Run(h, k)
    BY <1>6, <1>7
  <1> QED
    BY <1>2, <1>8

LEMMA DirtyAddsIs ==
    ASSUME NEW list, NEW s, NEW n \in Nat
    PROVE  \E g : Adds(g, list, s, n) /\ g[n] = DirtyAdds(list, s, n)
  <1> DEFINE f == CHOOSE g : Runs(g, list, s, n)
  <1>2. DirtyAdds(list, s, n) = f[n]
    BY DEF DirtyAdds, Runs
  <1>3. Runs(f, list, s, n)
    BY AddsExist
  <1> HIDE DEF f
  <1>1. f = [i \in 0 .. n |-> IF i = 0 THEN Listed(list) ELSE DirtyAdd(f[i - 1], s[i])]
    BY <1>3 DEF Runs
  <1>4. Adds(f, list, s, n)
    <2>1. f[0] = Listed(list)
      BY <1>1
    <2>2. ASSUME NEW i \in 1 .. n PROVE f[i] = DirtyAdd(f[i - 1], s[i])
      <3>1. i \in 0 .. n /\ i # 0
        OBVIOUS
      <3> QED
        BY <1>1, <3>1
    <2> QED
      BY <2>1, <2>2 DEF Adds
  <1> QED
    BY <1>2, <1>4

LEMMA UpTo ==
    ASSUME NEW n \in Nat, NEW S, 0 \in S, \A i \in 1 .. n : i - 1 \in S => i \in S
    PROVE  n \in S
  <1> DEFINE T == {i \in 0 .. n : i \notin S}
  <1>1. SUFFICES ASSUME T # {} PROVE FALSE
    OBVIOUS
  <1>2. PICK k \in T : \A m \in T : k <= m
    <2>1. T \in SUBSET Nat
      OBVIOUS
    <2> QED
      BY <1>1, <2>1, LeastNatural
  <1>3. k \in 1 .. n /\ k - 1 \in 0 .. n /\ k - 1 \notin T
    BY <1>2
  <1> QED
    BY <1>2, <1>3

(* A sequence of SetToSeqs goes once through the set. *)
LEMMA EntriesOnce ==
    ASSUME NEW more \in Lists, NEW s \in SetToSeqs(more)
    PROVE  /\ Cardinality(more) \in Nat
           /\ \A i \in 1 .. Cardinality(more) : s[i] \in more
           /\ \A i, j \in 1 .. Cardinality(more) : i # j => s[i] # s[j]
           /\ \A d \in more : \E i \in 1 .. Cardinality(more) : s[i] = d
  <1> DEFINE n == Cardinality(more)
             D == 1 .. n
  <1>1. IsFiniteSet(more) /\ n \in Nat
    BY RectsFinite, FS_Subset, FS_CardinalityType DEF Lists
  <1>2. s \in [D -> more] /\ \A i, j \in D : i # j => s[i] # s[j]
    BY DEF SetToSeqs
  <1>3. s \in Injection(D, more)
    BY <1>2 DEF Injection, IsInjective
  <1>4. IsFiniteSet(D) /\ Cardinality(D) = n
    BY <1>1, FS_Interval
  <1> HIDE DEF D
  <1>5. s \in Surjection(D, more)
    BY <1>1, <1>3, <1>4, FS_Injection
  <1>6. \A d \in more : \E i \in D : s[i] = d
    BY <1>5 DEF Surjection
  <1> QED
    BY <1>1, <1>2, <1>6 DEF D

LEMMA AddAllIs ==
    ASSUME NEW list, NEW more \in Lists, NEW a \in DirtyAddAll(list, more)
    PROVE  \E s \in SetToSeqs(more) : \E g : /\ Adds(g, list, s, Cardinality(more))
                                            /\ g[Cardinality(more)] = a
  <1>1. PICK s \in SetToSeqs(more) : a = DirtyAdds(list, s, Cardinality(more))
    BY DEF DirtyAddAll
  <1>2. Cardinality(more) \in Nat
    BY EntriesOnce
  <1> QED
    BY <1>1, <1>2, DirtyAddsIs

LEMMA AddAllOK ==
    ASSUME NEW list, Separate(list), NEW more \in Lists, NEW a \in DirtyAddAll(list, more)
    PROVE  /\ FoundOK(a)
           /\ a.full = 0 => Within(list, a.list) /\ Within(more, a.list)
  <1> DEFINE n == Cardinality(more)
  <1>0a. PICK s \in SetToSeqs(more) : \E g : Adds(g, list, s, n) /\ g[n] = a
    BY AddAllIs
  <1>1. PICK g : Adds(g, list, s, n) /\ g[n] = a
    BY <1>0a
  <1>2. /\ n \in Nat /\ \A i \in 1 .. n : s[i] \in Rects
        /\ \A d \in more : \E i \in 1 .. n : s[i] = d
    BY EntriesOnce DEF Lists
  <1> HIDE DEF n
  <1> DEFINE Good(i) == /\ FoundOK(g[i])
                        /\ g[i].full = 0 =>
                             /\ Within(list, g[i].list)
                             /\ \A j \in 1 .. i : \E b \in g[i].list : s[j] \subseteq b
             S == {i \in 0 .. n : Good(i)}
  <1>3. 0 \in S
    <2>1. g[0] = Listed(list) /\ list \in Lists
      BY <1>1 DEF Adds, Separate
    <2>2. FoundOK(g[0]) /\ Within(list, g[0].list)
      BY <2>1 DEF FoundOK, Found, Listed, Within
    <2> QED
      BY <1>2, <2>2
  <1>4. ASSUME NEW i \in 1 .. n, i - 1 \in S PROVE i \in S
    <2> DEFINE u == g[i - 1]
               v == g[i]
    <2>1. i \in 0 .. n /\ s[i] \in Rects /\ i \in Nat
      BY <1>2
    <2>2. Good(i - 1)
      BY <1>4
    <2>3. v = DirtyAdd(u, s[i])
      BY <1>1 DEF Adds
    <2>4. /\ FoundOK(v)
          /\ v.full = 0 => /\ u.full = 0 /\ Within(u.list, v.list)
                           /\ \E b \in v.list : s[i] \subseteq b
      BY <2>1, <2>2, <2>3, DirtyAddOK
    <2>5. ASSUME v.full = 0 PROVE Within(list, v.list)
      BY <2>2, <2>4, <2>5 DEF Within
    <2>6. ASSUME v.full = 0, NEW j \in 1 .. i PROVE \E b \in v.list : s[j] \subseteq b
      <3>1. CASE j = i
        BY <2>4, <2>6, <3>1
      <3>2. CASE j # i
        <4>1. j \in 1 .. i - 1
          BY <2>1, <3>2
        <4>2. PICK b \in u.list : s[j] \subseteq b
          BY <2>2, <2>4, <2>6, <4>1
        <4>3. PICK c \in v.list : b \subseteq c
          BY <2>4, <2>6 DEF Within
        <4> QED
          BY <4>2, <4>3
      <3> QED
        BY <3>1, <3>2
    <2> QED
      BY <2>1, <2>4, <2>5, <2>6
  <1>5. n \in S
    <2> HIDE DEF S
    <2> QED
      BY <1>2, <1>3, <1>4, UpTo
  <1>6. ASSUME a.full = 0 PROVE Within(more, a.list)
    BY <1>1, <1>2, <1>5, <1>6 DEF Within
  <1> QED
    BY <1>1, <1>5, <1>6

(* Entries that lie in entries of the list change nothing. *)
LEMMA AddAllInside ==
    ASSUME NEW list, Separate(list), NEW more \in Lists, Within(more, list),
           NEW a \in DirtyAddAll(list, more)
    PROVE  a = Listed(list)
  <1> DEFINE n == Cardinality(more)
  <1>0a. PICK s \in SetToSeqs(more) : \E g : Adds(g, list, s, n) /\ g[n] = a
    BY AddAllIs
  <1>1. PICK g : Adds(g, list, s, n) /\ g[n] = a
    BY <1>0a
  <1>2. n \in Nat /\ \A i \in 1 .. n : s[i] \in more
    BY EntriesOnce
  <1> HIDE DEF n
  <1>3. FoundOK(Listed(list)) /\ Listed(list).list = list /\ Listed(list).full = 0
    BY DEF FoundOK, Found, Listed, Separate
  <1> DEFINE S == {i \in 0 .. n : g[i] = Listed(list)}
  <1>4. 0 \in S
    BY <1>1, <1>2 DEF Adds
  <1>5. ASSUME NEW i \in 1 .. n, i - 1 \in S PROVE i \in S
    <2>1. i \in 0 .. n /\ g[i] = DirtyAdd(Listed(list), s[i])
      BY <1>1, <1>2, <1>5 DEF Adds
    <2>2. s[i] \in Rects /\ \E d \in list : s[i] \subseteq d
      BY <1>2 DEF Lists, Within
    <2>3. DirtyAdd(Listed(list), s[i]) = Listed(list)
      BY <1>3, <2>2, DirtyAddInside
    <2> QED
      BY <2>1, <2>3
  <1>6. n \in S
    <2> HIDE DEF S
    <2> QED
      BY <1>2, <1>4, <1>5, UpTo
  <1> QED
    BY <1>1, <1>6

(* Separate entries are added as they are. *)
LEMMA AddAllApart ==
    ASSUME NEW more, Separate(more), NEW a \in DirtyAddAll({}, more)
    PROVE  a = Listed(more)
  <1> DEFINE n == Cardinality(more)
  <1>0. more \in Lists /\ IsFiniteSet(more) /\ n \in 0 .. MaxDirty
    BY SeparateFinite DEF Separate
  <1>0a. PICK s \in SetToSeqs(more) : \E g : Adds(g, {}, s, n) /\ g[n] = a
    BY <1>0, AddAllIs
  <1>1. PICK g : Adds(g, {}, s, n) /\ g[n] = a
    BY <1>0a
  <1>2. /\ n \in Nat /\ \A i \in 1 .. n : s[i] \in more
        /\ \A i, j \in 1 .. n : i # j => s[i] # s[j]
        /\ \A d \in more : \E i \in 1 .. n : s[i] = d
    BY <1>0, EntriesOnce
  <1>3. Cardinality(more) = n
    OBVIOUS
  <1> HIDE DEF n
  <1> DEFINE First(i) == {s[j] : j \in 1 .. i}
             S == {i \in 0 .. n : g[i] = Listed(First(i))}
  <1>4. 0 \in S
    <2>1. First(0) = {}
      OBVIOUS
    <2> HIDE DEF First
    <2> QED
      BY <1>1, <1>2, <2>1 DEF Adds
  <1>5. ASSUME NEW i \in 1 .. n, i - 1 \in S PROVE i \in S
    <2>1. i \in 0 .. n /\ i \in Nat /\ s[i] \in more /\ s[i] \in Rects
      BY <1>0, <1>2 DEF Lists
    <2>2. First(i - 1) \in SUBSET more /\ s[i] \notin First(i - 1)
      BY <1>2, <2>1
    <2>3. First(i) = First(i - 1) \cup {s[i]}
      <3>1. \A j \in 1 .. i : j = i \/ j \in 1 .. i - 1
        BY <2>1
      <3>2. i \in 1 .. i /\ \A j \in 1 .. i - 1 : j \in 1 .. i
        BY <2>1
      <3> QED
        BY <3>1, <3>2
    <2>4. g[i] = DirtyAdd(Listed(First(i - 1)), s[i])
      BY <1>1, <1>5 DEF Adds
    <2> HIDE DEF First
    <2> DEFINE w == First(i - 1)
    <2>5. Separate(w) /\ \A d \in w : d \cap s[i] = {}
      <3>1. Separate(w)
        BY <2>2, SeparatePart
      <3> QED
        BY <2>1, <2>2, <3>1 DEF Separate
    <2>6. Cardinality(w) < MaxDirty
      <3>1. IsFiniteSet(w) /\ Cardinality(w) <= n /\ (Cardinality(w) = n => w = more)
        BY <1>0, <1>3, <2>2, FS_Subset
      <3>2. Cardinality(w) \in Nat /\ w # more
        BY <2>1, <2>2, <3>1, FS_CardinalityType
      <3> QED
        BY <1>0, <1>3, <3>1, <3>2, Screen
    <2>7. DirtyAdd(Listed(w), s[i]) = Listed(w \cup {s[i]})
      BY <2>1, <2>5, <2>6, DirtyAddApart
    <2> QED
      BY <2>1, <2>3, <2>4, <2>7
  <1>6. n \in S
    <2> HIDE DEF S
    <2> QED
      BY <1>2, <1>4, <1>5, UpTo
  <1>7. First(n) = more
    BY <1>2
  <1> QED
    BY <1>1, <1>6, <1>7

-----------------------------------------------------------------------------
(* What a call sends or cleans. *)

LEMMA CoveredIs ==
    ASSUME NEW list \in Lists
    PROVE  Covered(list) \subseteq Pixels
  <1>1. \A r \in list : r \subseteq Pixels
    BY RectIs DEF Lists
  <1> QED
    BY <1>1 DEF Covered

LEMMA CoveredWithin ==
    ASSUME NEW more, NEW list, Within(more, list)
    PROVE  Covered(more) \subseteq Covered(list)
  BY DEF Within, Covered

LEMMA OverIs ==
    ASSUME NEW paint, NEW below
    PROVE  \A q \in Pixels :
             Over(paint, below)[q] = IF paint[q] = None THEN below[q] ELSE paint[q]
  BY DEF Over

LEMMA OverType ==
    ASSUME NEW paint \in Paint, NEW below \in Picture
    PROVE  Over(paint, below) \in Picture
  <1>1. \A q \in Pixels : paint[q] \in Colors \cup {None} /\ below[q] \in Colors
    BY DEF Paint, Picture
  <1>2. \A q \in Pixels : (IF paint[q] = None THEN below[q] ELSE paint[q]) \in Colors
    BY <1>1
  <1> QED
    BY <1>2 DEF Over, Picture

LEMMA FailuresAre ==
    ASSUME NEW list \in Lists, NEW f \in Failures(list)
    PROVE  f[1] \subseteq Covered(list) /\ f[1] \subseteq Pixels /\ f[2] \in {0, 1}
  <1>1. f \in Arrived(list) \X {0, 1}
    BY DEF Failures
  <1>2. f[1] \in Arrived(list) /\ f[2] \in {0, 1}
    BY <1>1
  <1>3. f[1] \subseteq Covered(list)
    BY <1>2 DEF Arrived
  <1> QED
    BY <1>2, <1>3, CoveredIs

LEMMA EmptyIsSeparate == Separate({}) /\ {} \in Lists /\ Covered({}) = {}
  <1>1. Cardinality({}) = 0
    BY FS_EmptySet
  <1> QED
    BY <1>1, Screen DEF Separate, Lists, Covered

LEMMA AffectedOK ==
    ASSUME DisplayInv, NEW p \in Planes, Staged(p), NEW a \in AffectedLists(p)
    PROVE  /\ FoundOK(a) /\ a.list \in Lists
           /\ a.full = 0 =>
                /\ stage.owner = p => Covered(stage.dirty) \subseteq Covered(a.list)
                /\ p = "overlay" => Within(overlay.dirty, a.list)
  <1> DEFINE list == IF stage.owner = p THEN stage.dirty ELSE surface.dirty
             more == IF p = "overlay" THEN overlay.dirty ELSE {}
  <1>1. Separate(list) /\ more \in Lists
    BY EmptyIsSeparate DEF DisplayInv, ListsOK, Separate
  <1>2. a \in DirtyAddAll(list, more)
    BY DEF AffectedLists
  <1> HIDE DEF list, more
  <1>3. FoundOK(a) /\ (a.full = 0 => Within(list, a.list) /\ Within(more, a.list))
    BY <1>1, <1>2, AddAllOK
  <1>4. a.full = 0 => Covered(list) \subseteq Covered(a.list)
    BY <1>3, CoveredWithin
  <1> QED
    BY <1>3, <1>4 DEF list, more, FoundOK, Found

(* What k210_display_close adds up, and whether it had room.                 *)
Cleanups(p) == DirtyAddAll(planes[p].repair, IF p = "overlay" THEN overlay.dirty ELSE {})

CleanupFits == \A p \in Planes : \A a \in Cleanups(p) : a.full = 0

(* It is the repair list, or what the overlay left to clean.                 *)
LEMMA CleanupIs ==
    ASSUME DisplayInv, NEW p \in Planes, NEW a \in Cleanups(p)
    PROVE  /\ a.full = 0 /\ a.list \in Lists
           /\ Within(planes[p].repair, a.list)
           /\ p = "overlay" => Within(overlay.dirty, a.list)
  <1> DEFINE repair == planes[p].repair
             more == IF p = "overlay" THEN overlay.dirty ELSE {}
  <1>1. Separate(repair) /\ Separate(more) /\ more \in Lists
    BY EmptyIsSeparate DEF DisplayInv, ListsOK, Separate
  <1>2. a \in DirtyAddAll(repair, more)
    BY DEF Cleanups
  <1>3. repair # {} => Within(more, repair)
    BY DEF DisplayInv, RepairOK, Within, Planes
  <1>4. \A m : Within(m, m) /\ Within({}, m)
    BY DEF Within
  <1>5. \A l : Listed(l).list = l /\ Listed(l).full = 0
    BY DEF Listed
  <1> HIDE DEF repair, more
  <1>6. CASE Within(more, repair)
    <2>1. a = Listed(repair)
      BY <1>1, <1>2, <1>6, AddAllInside
    <2> QED
      BY <1>1, <1>4, <1>5, <1>6, <2>1 DEF repair, more, Separate
  <1>7. CASE repair = {}
    <2>1. a = Listed(more)
      BY <1>1, <1>2, <1>7, AddAllApart
    <2> QED
      BY <1>1, <1>4, <1>5, <1>7, <2>1 DEF repair, more
  <1> QED
    BY <1>3, <1>6, <1>7

LEMMA CleanupOK ==
    ASSUME DisplayInv, NEW p \in Planes, NEW list \in CleanupLists(p)
    PROVE  /\ list \in Lists
           /\ Within(planes[p].repair, list)
           /\ p = "overlay" => Within(overlay.dirty, list)
  <1>1. PICK a \in Cleanups(p) : list = a.list
    BY DEF CleanupLists, Cleanups
  <1> QED
    BY <1>1, CleanupIs

-----------------------------------------------------------------------------
(* The steps that send nothing. *)

LEMMA Cleared ==
    /\ NoStage \in [owner : Planes \cup {Nobody}, paint : Paint, dirty : Lists,
                    count : 0..MaxCommands, borrow : {0, 1}]
    /\ NoStage.owner = Nobody /\ NoStage.dirty = {} /\ Drawn(NoStage) /\ Separate(NoStage.dirty)
    /\ NoSurface \in [active : {0, 1}, dirty : Lists] /\ Separate(NoSurface.dirty)
    /\ NoOverlay \in [paint : Paint, dirty : Lists, count : 0..MaxCommands]
    /\ NoOverlay.dirty = {} /\ NoOverlay.count = 0 /\ Drawn(NoOverlay)
    /\ Separate(NoOverlay.dirty)
    /\ \A q \in Pixels : NoOverlay.paint[q] = None
  <1>1. Unpainted \in Paint /\ \A q \in Pixels : Unpainted[q] = None
    BY DEF Unpainted, Paint
  <1>2. 0 \in 0 .. MaxCommands
    BY Screen
  <1> QED
    BY <1>1, <1>2, EmptyIsSeparate DEF NoStage, NoSurface, NoOverlay, Drawn, Nobody, Planes

(* A step that neither sends nor changes the picture nor forgets a repair. *)
LEMMA SameDamage ==
    ASSUME DamageAccounted, panel' = panel, shadow' = shadow, overlay'.paint = overlay.paint,
           \A p \in Planes : planes'[p].repair = planes[p].repair,
           loose' = loose, lost' = lost
    PROVE  DamageAccounted'
  <1>1. \A q \in Pixels : Committed'[q] = Committed[q]
    BY DEF Committed, Over
  <1> QED
    BY <1>1 DEF DamageAccounted

LEMMA DisplayStart == ASSUME DisplayInit PROVE DisplayInv
  <1>1. DisplayTypeOK
    <2>1. panel \in Picture /\ shadow \in Picture
      BY Screen DEF DisplayInit, Picture
    <2>2. planes \in [Planes -> [open : {0, 1}, repair : Lists, quarantined : {0, 1}]]
      BY EmptyIsSeparate DEF DisplayInit
    <2> QED
      BY <2>1, <2>2, Cleared, Screen DEF DisplayInit, DisplayTypeOK
  <1>2. \A p \in Planes : planes[p].repair = {}
    BY DEF DisplayInit
  <1>3. ListsOK
    BY <1>2, Cleared, EmptyIsSeparate DEF DisplayInit, ListsOK
  <1>4. Drawn(stage) /\ Drawn(overlay)
    BY Cleared DEF DisplayInit
  <1>5. RepairOK
    BY <1>2 DEF RepairOK, Planes
  <1>6. CountsOK
    BY Cleared DEF DisplayInit, CountsOK
  <1>7. WorkspaceExact
    BY <1>2, Cleared DEF DisplayInit, WorkspaceExact, Planes
  <1>8. DamageAccounted
    <2>1. \A q \in Pixels : panel[q] = 0 /\ Committed[q] = 0
      BY Cleared, OverIs DEF DisplayInit, Committed
    <2> QED
      BY <2>1 DEF DamageAccounted
  <1> QED
    BY <1>1, <1>3, <1>4, <1>5, <1>6, <1>7, <1>8 DEF DisplayInv

LEMMA OpenStep ==
    ASSUME DisplayInv, NEW p \in Planes, Open(p)
    PROVE  DisplayInv'
  <1>1. \A r \in Planes : planes[r] \in [open : {0, 1}, repair : Lists, quarantined : {0, 1}]
    BY DEF DisplayInv, DisplayTypeOK
  <1> DEFINE m == [planes[p] EXCEPT !.open = 1, !.repair = {}]
  <1>2. /\ m \in [open : {0, 1}, repair : Lists, quarantined : {0, 1}]
        /\ m.open = 1 /\ m.repair = {}
    BY <1>1, EmptyIsSeparate
  <1>3. planes' = [planes EXCEPT ![p] = m]
    BY <1>1 DEF Open, DisplayInv, DisplayTypeOK
  <1> HIDE DEF m
  <1>4. planes' \in [Planes -> [open : {0, 1}, repair : Lists, quarantined : {0, 1}]]
    BY <1>2, <1>3 DEF DisplayInv, DisplayTypeOK
  <1>5. planes[p].repair = {}
    BY DEF Open, DisplayInv, RepairOK
  <1>6. \A r \in Planes : /\ planes'[r].repair = planes[r].repair
                          /\ planes'[r].open = 0 => planes[r].open = 0
    BY <1>2, <1>3, <1>5 DEF DisplayInv, DisplayTypeOK
  <1>7. DisplayTypeOK'
    BY <1>4 DEF Open, DisplayInv, DisplayTypeOK
  <1>8. ListsOK' /\ Drawn(stage)' /\ Drawn(overlay)'
    BY <1>6 DEF Open, DisplayInv, ListsOK, Drawn
  <1>9. RepairOK' /\ CountsOK' /\ WorkspaceExact'
    BY <1>6 DEF Open, DisplayInv, RepairOK, CountsOK, WorkspaceExact, Planes
  <1>10. DamageAccounted'
    BY <1>6, SameDamage DEF Open, DisplayInv
  <1> QED
    BY <1>7, <1>8, <1>9, <1>10 DEF DisplayInv

(* A step that only changes the batch and who holds the pool. *)
LEMMA StageStep ==
    ASSUME DisplayInv,
           UNCHANGED <<panel, shadow, planes, surface, overlay, loose, lost, faults>>,
           stage' \in [owner : Planes \cup {Nobody}, paint : Paint, dirty : Lists,
                       count : 0..MaxCommands, borrow : {0, 1}],
           pool' \in {"free", "display", "other"},
           Separate(stage'.dirty), Drawn(stage'),
           stage'.owner = "overlay" /\ stage'.dirty # {} => stage'.count # 0,
           WorkspaceExact'
    PROVE  DisplayInv'
  <1>1. DisplayTypeOK'
    BY DEF DisplayInv, DisplayTypeOK
  <1>2. ListsOK' /\ Drawn(stage)' /\ Drawn(overlay)'
    BY DEF DisplayInv, ListsOK, Drawn
  <1>3. RepairOK' /\ CountsOK'
    BY DEF DisplayInv, RepairOK, CountsOK
  <1>4. DamageAccounted'
    BY SameDamage DEF DisplayInv
  <1> QED
    BY <1>1, <1>2, <1>3, <1>4 DEF DisplayInv

LEMMA BeginBatchStep ==
    ASSUME DisplayInv, NEW p \in Planes, BeginBatch(p)
    PROVE  DisplayInv'
  <1>1. /\ stage' \in [owner : Planes \cup {Nobody}, paint : Paint, dirty : Lists,
                       count : 0..MaxCommands, borrow : {0, 1}]
        /\ stage'.owner = p /\ stage'.dirty = {} /\ stage'.paint = NoStage.paint
    BY Cleared DEF BeginBatch
  <1>2. Drawn(stage')
    BY <1>1, Cleared DEF Drawn
  <1>3. p # Nobody
    BY DEF Planes, Nobody
  <1>4. WorkspaceExact'
    BY <1>1, <1>3 DEF BeginBatch, WorkspaceExact
  <1> QED
    BY <1>1, <1>2, <1>4, StageStep, EmptyIsSeparate DEF BeginBatch

LEMMA DrawStep ==
    ASSUME DisplayInv, NEW d \in Draws, Draw(d)
    PROVE  DisplayInv'
  <1> DEFINE added == DirtyAdd(Listed(stage.dirty), d.rect)
             paint == [q \in Pixels |-> IF q \in d.on THEN d.color ELSE stage.paint[q]]
             count == stage.count + 1
             borrow == IF d.blit = 1 THEN 1 ELSE stage.borrow
  <1>1. /\ stage \in [owner : Planes \cup {Nobody}, paint : Paint, dirty : Lists,
                      count : 0..MaxCommands, borrow : {0, 1}]
        /\ Separate(stage.dirty) /\ Drawn(stage)
    BY DEF DisplayInv, DisplayTypeOK, ListsOK
  <1>2. /\ d.plane \in Planes /\ d.rect \in Rects /\ d.on \subseteq d.rect /\ d.color \in Colors
        /\ d.blit \in {0, 1}
    BY DisplayAssumption
  <1>3. FoundOK(Listed(stage.dirty))
    BY <1>1 DEF FoundOK, Found, Listed, Separate
  <1>4. /\ FoundOK(added) /\ Within(stage.dirty, added.list)
        /\ \E b \in added.list : d.rect \subseteq b
    <2>1. added.full = 0
      BY DEF Draw
    <2>2. Listed(stage.dirty).list = stage.dirty
      BY DEF Listed
    <2> HIDE DEF added
    <2> QED
      BY <1>2, <1>3, <2>1, <2>2, DirtyAddOK DEF added
  <1>5. paint \in Paint
    <2>1. \A q \in Pixels : stage.paint[q] \in Colors \cup {None}
      BY <1>1 DEF Paint
    <2> QED
      BY <1>2, <2>1 DEF Paint
  <1>6. count \in 0 .. MaxCommands /\ count # 0
    BY <1>1, Screen DEF Draw
  <1>7. stage' = [owner |-> stage.owner, paint |-> paint, dirty |-> added.list,
                  count |-> count, borrow |-> borrow]
    BY <1>1 DEF Draw
  <1>8. borrow \in {0, 1}
    BY <1>1
  <1>9. \A q \in Pixels : paint[q] # None => q \in d.rect \/ stage.paint[q] # None
    BY <1>2
  <1> HIDE DEF added, paint, count, borrow
  <1>10. stage' \in [owner : Planes \cup {Nobody}, paint : Paint, dirty : Lists,
                     count : 0..MaxCommands, borrow : {0, 1}]
    BY <1>1, <1>4, <1>5, <1>6, <1>7, <1>8 DEF FoundOK, Found
  <1>11. Drawn(stage')
    <2>1. Covered(stage.dirty) \subseteq Covered(added.list)
      BY <1>4, CoveredWithin
    <2>2. d.rect \subseteq Covered(added.list)
      BY <1>4 DEF Covered
    <2> QED
      BY <1>1, <1>7, <1>9, <2>1, <2>2 DEF Drawn
  <1>12. WorkspaceExact'
    <2>1. stage'.owner = stage.owner /\ stage.owner # Nobody
      BY <1>2, <1>7 DEF Draw, Planes, Nobody
    <2> QED
      BY <2>1 DEF Draw, DisplayInv, WorkspaceExact
  <1>13. /\ pool' \in {"free", "display", "other"} /\ Separate(stage'.dirty) /\ stage'.count # 0
         /\ UNCHANGED <<panel, shadow, planes, surface, overlay, loose, lost, faults>>
    <2>1. /\ pool' = pool
          /\ UNCHANGED <<panel, shadow, planes, surface, overlay, loose, lost, faults>>
      BY DEF Draw
    <2>2. stage'.dirty = added.list /\ stage'.count = count
      BY <1>7
    <2>3. pool \in {"free", "display", "other"}
      BY DEF DisplayInv, DisplayTypeOK
    <2> QED
      BY <1>4, <1>6, <2>1, <2>2, <2>3 DEF FoundOK
  <1> QED
    BY <1>10, <1>11, <1>12, <1>13, StageStep

(* A step that only changes the borrow of the shadow. *)
LEMMA SurfaceStep ==
    ASSUME DisplayInv,
           UNCHANGED <<panel, shadow, planes, stage, overlay, pool, loose, lost, faults>>,
           surface' \in [active : {0, 1}, dirty : Lists], Separate(surface'.dirty)
    PROVE  DisplayInv'
  <1>1. DisplayTypeOK'
    BY DEF DisplayInv, DisplayTypeOK
  <1>2. ListsOK' /\ Drawn(stage)' /\ Drawn(overlay)'
    BY DEF DisplayInv, ListsOK, Drawn
  <1>3. RepairOK' /\ CountsOK' /\ WorkspaceExact'
    BY DEF DisplayInv, RepairOK, CountsOK, WorkspaceExact
  <1>4. DamageAccounted'
    BY SameDamage DEF DisplayInv
  <1> QED
    BY <1>1, <1>2, <1>3, <1>4 DEF DisplayInv

LEMMA MarkStep ==
    ASSUME DisplayInv, NEW rect \in Regions, Mark(rect)
    PROVE  DisplayInv'
  <1> DEFINE list == IF stage.owner = "base" THEN stage.dirty ELSE surface.dirty
             added == DirtyAdd(Listed(list), rect)
  <1>1. rect \in Rects
    BY DisplayAssumption
  <1>2. /\ Separate(list) /\ Drawn(stage)
        /\ stage \in [owner : Planes \cup {Nobody}, paint : Paint, dirty : Lists,
                      count : 0..MaxCommands, borrow : {0, 1}]
        /\ surface \in [active : {0, 1}, dirty : Lists]
    BY DEF DisplayInv, DisplayTypeOK, ListsOK
  <1>3. added.full = 0
    BY DEF Mark
  <1>4. /\ stage.owner = "base" => stage' = [stage EXCEPT !.dirty = added.list]
        /\ stage.owner = "base" => surface' = surface
        /\ stage.owner # "base" => surface' = [surface EXCEPT !.dirty = added.list]
        /\ stage.owner # "base" => stage' = stage
        /\ UNCHANGED <<panel, shadow, planes, overlay, pool, loose, lost, faults>>
    BY DEF Mark
  <1> HIDE DEF list
  <1>5. FoundOK(Listed(list)) /\ Listed(list).list = list
    BY <1>2 DEF FoundOK, Found, Listed, Separate
  <1> HIDE DEF added
  <1>6. FoundOK(added) /\ Within(list, added.list)
    BY <1>1, <1>3, <1>5, DirtyAddOK DEF added
  <1>7. added.list \in Lists /\ Separate(added.list)
    BY <1>6 DEF FoundOK, Found
  <1>8. CASE stage.owner = "base"
    <2>1. /\ stage' \in [owner : Planes \cup {Nobody}, paint : Paint, dirty : Lists,
                         count : 0..MaxCommands, borrow : {0, 1}]
          /\ stage'.owner = "base" /\ stage'.paint = stage.paint /\ stage'.dirty = added.list
      BY <1>2, <1>4, <1>7, <1>8
    <2>2. Drawn(stage')
      <3>1. Covered(stage.dirty) \subseteq Covered(added.list)
        BY <1>6, <1>8, CoveredWithin DEF list
      <3> QED
        BY <1>2, <2>1, <3>1 DEF Drawn
    <2>3. WorkspaceExact'
      BY <1>4, <1>8, <2>1 DEF DisplayInv, WorkspaceExact, Nobody
    <2>4. pool' \in {"free", "display", "other"}
      BY <1>4 DEF DisplayInv, DisplayTypeOK
    <2> QED
      BY <1>4, <1>7, <1>8, <2>1, <2>2, <2>3, <2>4, StageStep
  <1>9. CASE stage.owner # "base"
    <2>1. surface' \in [active : {0, 1}, dirty : Lists] /\ surface'.dirty = added.list
      BY <1>2, <1>4, <1>7, <1>9
    <2> QED
      BY <1>4, <1>7, <1>9, <2>1, SurfaceStep
  <1> QED
    BY <1>8, <1>9

LEMMA AcquireSurfaceStep == ASSUME DisplayInv, AcquireSurface PROVE DisplayInv'
  <1>1. surface' \in [active : {0, 1}, dirty : Lists] /\ surface'.dirty = {}
    BY EmptyIsSeparate DEF AcquireSurface
  <1> QED
    BY <1>1, SurfaceStep, EmptyIsSeparate DEF AcquireSurface

LEMMA WriteSurfaceStep ==
    ASSUME DisplayInv, NEW w \in Writes, WriteSurface(w)
    PROVE  DisplayInv'
  <1>1. w.rect \subseteq Pixels /\ w.color \in Colors
    BY DisplayAssumption, RectIs
  <1>2. shadow' \in Picture /\ \A q \in Pixels : q \notin w.rect => shadow'[q] = shadow[q]
    BY <1>1 DEF WriteSurface, Picture, DisplayInv, DisplayTypeOK
  <1>3. DisplayTypeOK'
    BY <1>1, <1>2 DEF WriteSurface, DisplayInv, DisplayTypeOK
  <1>4. ListsOK' /\ Drawn(stage)' /\ Drawn(overlay)'
    BY DEF WriteSurface, DisplayInv, ListsOK, Drawn
  <1>5. RepairOK' /\ CountsOK' /\ WorkspaceExact'
    BY DEF WriteSurface, DisplayInv, RepairOK, CountsOK, WorkspaceExact
  <1>6. DamageAccounted'
    <2>1. \A q \in Pixels : q \in w.rect \/ Committed'[q] = Committed[q]
      BY <1>2, OverIs DEF WriteSurface, Committed
    <2> QED
      BY <2>1 DEF WriteSurface, DisplayInv, DamageAccounted
  <1> QED
    BY <1>3, <1>4, <1>5, <1>6 DEF DisplayInv

LEMMA PoolAfterIs ==
    ASSUME DisplayTypeOK, NEW st, NEW ov, NEW repair
    PROVE  /\ PoolAfter(st, ov, repair) \in {"free", "display", "other"}
           /\ PoolAfter(st, ov, repair) = "display" <=>
                pool = "display" /\ (st.owner # Nobody \/ ov.count # 0 \/ repair # {})
  BY DEF PoolAfter, DisplayTypeOK

LEMMA AbortStep ==
    ASSUME DisplayInv, NEW p \in Planes, Abort(p)
    PROVE  DisplayInv'
  <1>1. CASE stage.owner = p
    <2>1. /\ stage' = NoStage
          /\ pool' = PoolAfter(NoStage, overlay, planes["overlay"].repair)
          /\ UNCHANGED <<panel, shadow, planes, surface, overlay, loose, lost, faults>>
      BY <1>1 DEF Abort
    <2>2. p # Nobody
      BY DEF Planes, Nobody
    <2>3. WorkspaceExact' /\ pool' \in {"free", "display", "other"}
      BY <1>1, <2>1, <2>2, Cleared, PoolAfterIs DEF DisplayInv, WorkspaceExact, CountsOK
    <2> QED
      BY <2>1, <2>3, Cleared, StageStep
  <1>2. CASE stage.owner # p
    <2>1. /\ surface' = NoSurface
          /\ UNCHANGED <<panel, shadow, planes, stage, overlay, pool, loose, lost, faults>>
      BY <1>2 DEF Abort
    <2> QED
      BY <2>1, Cleared, SurfaceStep
  <1> QED
    BY <1>1, <1>2

LEMMA PoolStep == ASSUME DisplayInv, PoolTaken \/ PoolGiven PROVE DisplayInv'
  <1>1. /\ UNCHANGED <<panel, shadow, planes, stage, surface, overlay, loose, lost, faults>>
        /\ pool # "display" /\ pool' # "display" /\ pool' \in {"free", "display", "other"}
    BY DEF PoolTaken, PoolGiven
  <1>2. WorkspaceExact'
    BY <1>1 DEF DisplayInv, WorkspaceExact
  <1> QED
    BY <1>1, <1>2, StageStep DEF DisplayInv, DisplayTypeOK, ListsOK, CountsOK

-----------------------------------------------------------------------------
(* A present that fails or overflows. *)

LEMMA ShowsIs ==
    ASSUME panel \in Picture, NEW picture \in Picture, NEW S
    PROVE  /\ Shows(picture, S) \in Picture
           /\ \A q \in Pixels : Shows(picture, S)[q] = IF q \in S THEN picture[q] ELSE panel[q]
  <1>1. \A q \in Pixels : panel[q] \in Colors /\ picture[q] \in Colors
    BY DEF Picture
  <1> QED
    BY <1>1 DEF Shows, Picture

LEMMA PicturesOK ==
    ASSUME DisplayTypeOK, NEW p \in Planes
    PROVE  /\ panel \in Picture /\ Committed \in Picture /\ Prospect(p) \in Picture
           /\ Mended(p) \in Picture
           /\ \A q \in Pixels :
                Mended(p)[q] = IF q \in Repaired(p) THEN Committed[q] ELSE panel[q]
  <1>1. /\ panel \in Picture /\ shadow \in Picture
        /\ overlay.paint \in Paint /\ stage.paint \in Paint
    BY DEF DisplayTypeOK
  <1>2. Committed \in Picture
    BY <1>1, OverType DEF Committed
  <1>3. Over(stage.paint, shadow) \in Picture
    BY <1>1, OverType
  <1>4. Over(overlay.paint, Over(stage.paint, shadow)) \in Picture
    BY <1>1, <1>3, OverType
  <1>5. Prospect(p) \in Picture
    BY <1>2, <1>3, <1>4 DEF Prospect
  <1>6. /\ Mended(p) \in Picture
        /\ \A q \in Pixels : Mended(p)[q] = IF q \in Repaired(p) THEN Committed[q] ELSE panel[q]
    BY <1>1, <1>2, ShowsIs DEF Mended, RepairPicture
  <1> QED
    BY <1>1, <1>2, <1>5, <1>6

LEMMA FaultOK ==
    ASSUME DisplayTypeOK, Fault
    PROVE  faults' \in 0 .. FailureMax
  BY Screen DEF DisplayTypeOK, Fault

(* The repair list of one plane is replaced. *)
LEMMA RepairSet ==
    ASSUME DisplayTypeOK, NEW p \in Planes, NEW list \in Lists,
           planes' = [planes EXCEPT ![p].repair = list]
    PROVE  /\ planes' \in [Planes -> [open : {0, 1}, repair : Lists, quarantined : {0, 1}]]
           /\ planes'[p].repair = list /\ planes'[p].open = planes[p].open
           /\ \A r \in Planes : r # p => planes'[r] = planes[r]
  <1>1. \A r \in Planes : planes[r] \in [open : {0, 1}, repair : Lists, quarantined : {0, 1}]
    BY DEF DisplayTypeOK
  <1> DEFINE m == [planes[p] EXCEPT !.repair = list]
  <1>2. /\ m \in [open : {0, 1}, repair : Lists, quarantined : {0, 1}]
        /\ m.repair = list /\ m.open = planes[p].open
    BY <1>1
  <1>3. planes' = [planes EXCEPT ![p] = m]
    BY DEF DisplayTypeOK
  <1> HIDE DEF m
  <1> QED
    BY <1>2, <1>3 DEF DisplayTypeOK

LEMMA PresentRepairFailsStep ==
    ASSUME DisplayInv, NEW p \in Planes, PresentRepairFails(p)
    PROVE  DisplayInv'
  <1>1. PICK f \in Failures(planes[p].repair) :
          /\ panel' = Shows(RepairPicture, f[1])
          /\ loose' = loose \ f[1] /\ lost' = lost \ f[1]
    BY DEF PresentRepairFails
  <1>2. UNCHANGED <<shadow, planes, stage, surface, overlay, pool>> /\ Fault
    BY DEF PresentRepairFails
  <1>3. DisplayTypeOK /\ panel \in Picture /\ Committed \in Picture
    BY PicturesOK DEF DisplayInv
  <1>4. /\ panel' \in Picture
        /\ \A q \in Pixels : panel'[q] = IF q \in f[1] THEN Committed[q] ELSE panel[q]
    BY <1>1, <1>3, ShowsIs DEF RepairPicture
  <1>5. DisplayTypeOK'
    <2>1. faults' \in 0 .. FailureMax
      BY <1>2, <1>3, FaultOK
    <2> QED
      BY <1>1, <1>2, <1>4, <2>1 DEF DisplayInv, DisplayTypeOK
  <1>6. ListsOK' /\ Drawn(stage)' /\ Drawn(overlay)'
    BY <1>2 DEF DisplayInv, ListsOK, Drawn
  <1>7. RepairOK' /\ CountsOK' /\ WorkspaceExact'
    BY <1>2 DEF DisplayInv, RepairOK, CountsOK, WorkspaceExact
  <1>8. DamageAccounted'
    <2>1. \A q \in Pixels : Committed'[q] = Committed[q]
      BY <1>2 DEF Committed
    <2> QED
      BY <1>1, <1>2, <1>4, <2>1 DEF DisplayInv, DamageAccounted
  <1> QED
    BY <1>5, <1>6, <1>7, <1>8 DEF DisplayInv

LEMMA PresentOverflowsStep ==
    ASSUME DisplayInv, NEW p \in Planes, PresentOverflows(p)
    PROVE  DisplayInv'
  <1>1. /\ panel' = Mended(p) /\ planes' = [planes EXCEPT ![p].repair = {}]
        /\ loose' = loose \ Repaired(p) /\ lost' = lost \ Repaired(p)
        /\ UNCHANGED <<shadow, stage, surface, overlay, pool, faults>>
        /\ Staged(p)
    BY DEF PresentOverflows
  <1>2. DisplayTypeOK
    BY DEF DisplayInv
  <1>3. /\ planes' \in [Planes -> [open : {0, 1}, repair : Lists, quarantined : {0, 1}]]
        /\ planes'[p].repair = {} /\ planes'[p].open = planes[p].open
        /\ \A r \in Planes : r # p => planes'[r] = planes[r]
    BY <1>1, <1>2, RepairSet, EmptyIsSeparate
  <1>4. /\ panel' \in Picture
        /\ \A q \in Pixels : panel'[q] = IF q \in Repaired(p) THEN Committed[q] ELSE panel[q]
    BY <1>1, <1>2, PicturesOK
  <1>5. DisplayTypeOK'
    BY <1>1, <1>2, <1>3, <1>4 DEF DisplayTypeOK
  <1>6. ListsOK' /\ Drawn(stage)' /\ Drawn(overlay)'
    <2>1. \A r \in Planes : Separate(planes'[r].repair)
      BY <1>3, EmptyIsSeparate DEF DisplayInv, ListsOK
    <2> QED
      BY <1>1, <2>1 DEF DisplayInv, ListsOK, Drawn
  <1>7. RepairOK'
    BY <1>1, <1>3 DEF DisplayInv, RepairOK, Planes
  <1>8. CountsOK' /\ WorkspaceExact'
    <2>1. p = "overlay" => stage.owner # Nobody
      BY <1>1 DEF Staged, Nobody
    <2>2. p # "overlay" => planes'["overlay"].repair = planes["overlay"].repair
      BY <1>3 DEF Planes
    <2> QED
      BY <1>1, <2>1, <2>2 DEF DisplayInv, CountsOK, WorkspaceExact
  <1>9. DamageAccounted'
    <2>1. \A q \in Pixels : Committed'[q] = Committed[q]
      BY <1>1 DEF Committed
    <2>2. ASSUME NEW q \in Pixels, q \notin Repaired(p), panel[q] # Committed[q]
          PROVE  (\E r \in Planes : q \in Covered(planes'[r].repair)) \/ q \in loose' \cup lost'
      <3>1. CASE \E r \in Planes : q \in Covered(planes[r].repair)
        <4>1. PICK r \in Planes : q \in Covered(planes[r].repair)
          BY <3>1
        <4>2. r # p
          BY <2>2, <4>1 DEF Repaired
        <4> QED
          BY <1>3, <4>1, <4>2
      <3>2. CASE q \in loose \cup lost
        BY <1>1, <2>2, <3>2
      <3> QED
        BY <2>2, <3>1, <3>2 DEF DisplayInv, DamageAccounted
    <2> QED
      BY <1>4, <2>1, <2>2 DEF DamageAccounted
  <1> QED
    BY <1>5, <1>6, <1>7, <1>8, <1>9 DEF DisplayInv

LEMMA PresentTransferFailsStep ==
    ASSUME DisplayInv, NEW p \in Planes, PresentTransferFails(p)
    PROVE  DisplayInv'
  <1>1. Staged(p) /\ Fault /\ UNCHANGED <<shadow, stage, surface, overlay, pool>>
    BY DEF PresentTransferFails
  <1> DEFINE Stops(a, f) ==
          /\ a.full = 0
          /\ panel' = [q \in Pixels |-> IF q \in f[1] THEN Prospect(p)[q] ELSE Mended(p)[q]]
          /\ planes' = [planes EXCEPT ![p].repair = RepairAfter(p, a.list, f[2])]
          /\ loose' = loose \ (Repaired(p) \cup f[1])
          /\ lost' = IF f[2] = 1 \/ planes[p].repair # {}
                     THEN lost \ (Repaired(p) \cup f[1]) ELSE lost \cup f[1]
  <1>0. PICK a \in AffectedLists(p) : \E f \in Failures(a.list) : Stops(a, f)
    BY DEF PresentTransferFails
  <1>16. PICK f \in Failures(a.list) : Stops(a, f)
    BY <1>0
  <1>2. /\ a.full = 0
        /\ panel' = [q \in Pixels |-> IF q \in f[1] THEN Prospect(p)[q] ELSE Mended(p)[q]]
        /\ planes' = [planes EXCEPT ![p].repair = RepairAfter(p, a.list, f[2])]
        /\ loose' = loose \ (Repaired(p) \cup f[1])
        /\ lost' = IF f[2] = 1 \/ planes[p].repair # {}
                   THEN lost \ (Repaired(p) \cup f[1]) ELSE lost \cup f[1]
    BY <1>16
  <1> DEFINE repair == RepairAfter(p, a.list, f[2])
  <1>3. /\ FoundOK(a) /\ a.list \in Lists /\ Separate(a.list)
        /\ p = "overlay" => Within(overlay.dirty, a.list)
    BY <1>1, <1>2, AffectedOK DEF FoundOK
  <1>4. f[1] \subseteq Covered(a.list) /\ f[1] \subseteq Pixels
    BY <1>2, <1>3, FailuresAre
  <1>5. repair = a.list \/ repair = {}
    BY DEF RepairAfter
  <1>6. f[2] = 1 \/ planes[p].repair # {} => repair = a.list
    BY DEF RepairAfter
  <1> HIDE DEF repair
  <1>7. Separate(repair) /\ repair \in Lists
    BY <1>3, <1>5, EmptyIsSeparate
  <1>8. DisplayTypeOK /\ planes' = [planes EXCEPT ![p].repair = repair]
    BY <1>2 DEF DisplayInv, repair
  <1>9. /\ planes' \in [Planes -> [open : {0, 1}, repair : Lists, quarantined : {0, 1}]]
        /\ planes'[p].repair = repair /\ planes'[p].open = planes[p].open
        /\ \A r \in Planes : r # p => planes'[r] = planes[r]
    BY <1>7, <1>8, RepairSet
  <1>10. /\ Prospect(p) \in Picture /\ Mended(p) \in Picture
         /\ \A q \in Pixels : Mended(p)[q] = IF q \in Repaired(p) THEN Committed[q] ELSE panel[q]
    BY <1>8, PicturesOK
  <1>11. DisplayTypeOK'
    <2>1. \A q \in Pixels : Prospect(p)[q] \in Colors /\ Mended(p)[q] \in Colors
      BY <1>10 DEF Picture
    <2>2. panel' \in Picture
      BY <1>2, <2>1 DEF Picture
    <2>3. faults' \in 0 .. FailureMax
      BY <1>1, <1>8, FaultOK
    <2>4. loose' \subseteq Pixels /\ lost' \subseteq Pixels
      BY <1>2, <1>4, <1>8 DEF DisplayTypeOK
    <2> QED
      BY <1>1, <1>8, <1>9, <2>2, <2>3, <2>4 DEF DisplayTypeOK
  <1>12. ListsOK' /\ Drawn(stage)' /\ Drawn(overlay)'
    <2>1. \A r \in Planes : Separate(planes'[r].repair)
      BY <1>7, <1>9 DEF DisplayInv, ListsOK
    <2> QED
      BY <1>1, <2>1 DEF DisplayInv, ListsOK, Drawn
  <1>13. RepairOK'
    <2>1. planes[p].open = 1
      BY DEF PresentTransferFails, Usable
    <2>2. p # "overlay" => planes'["overlay"] = planes["overlay"]
      BY <1>9 DEF Planes
    <2> QED
      BY <1>1, <1>3, <1>5, <1>9, <2>1, <2>2 DEF DisplayInv, RepairOK
  <1>14. CountsOK' /\ WorkspaceExact'
    <2>1. p = "overlay" => stage.owner # Nobody
      BY <1>1 DEF Staged, Nobody
    <2>2. p # "overlay" => planes'["overlay"].repair = planes["overlay"].repair
      BY <1>9 DEF Planes
    <2> QED
      BY <1>1, <2>1, <2>2 DEF DisplayInv, CountsOK, WorkspaceExact
  <1>15. DamageAccounted'
    <2>1. \A q \in Pixels : Committed'[q] = Committed[q]
      BY <1>1 DEF Committed
    <2>2. \A q \in Pixels : q \in f[1] => q \in Covered(planes'[p].repair) \/ q \in lost'
      BY <1>2, <1>4, <1>6, <1>9
    <2>3. \A q \in Pixels : q \notin f[1] => panel'[q] = Mended(p)[q]
      BY <1>2
    <2>4. ASSUME NEW q \in Pixels, q \notin f[1], q \notin Repaired(p), panel[q] # Committed[q]
          PROVE  (\E r \in Planes : q \in Covered(planes'[r].repair)) \/ q \in loose' \cup lost'
      <3>1. CASE \E r \in Planes : q \in Covered(planes[r].repair)
        <4>1. PICK r \in Planes : q \in Covered(planes[r].repair)
          BY <3>1
        <4>2. r # p
          BY <2>4, <4>1 DEF Repaired
        <4> QED
          BY <1>9, <4>1, <4>2
      <3>2. CASE q \in loose \cup lost
        BY <1>2, <2>4, <3>2
      <3> QED
        BY <2>4, <3>1, <3>2 DEF DisplayInv, DamageAccounted
    <2> QED
      BY <1>10, <2>1, <2>2, <2>3, <2>4 DEF DamageAccounted
  <1> QED
    BY <1>11, <1>12, <1>13, <1>14, <1>15 DEF DisplayInv

-----------------------------------------------------------------------------
(* A present that succeeds. *)

(* Where nothing is sent the picture stays; elsewhere it becomes what was    *)
(* sent.                                                                     *)
LEMMA PresentedPicture ==
    ASSUME DisplayInv, NEW p \in Planes, Presents(p), NEW a \in AffectedLists(p), a.full = 0
    PROVE  \A q \in Pixels :
             Committed'[q] = IF q \in Covered(a.list) THEN Prospect(p)[q] ELSE Committed[q]
  <1>1. Staged(p)
    BY DEF Presents
  <1>2. /\ stage.owner = p => Covered(stage.dirty) \subseteq Covered(a.list)
        /\ p = "overlay" => Covered(overlay.dirty) \subseteq Covered(a.list)
    BY <1>1, AffectedOK, CoveredWithin
  <1>3. \A q \in Pixels : /\ stage.paint[q] # None => q \in Covered(stage.dirty)
                          /\ overlay.paint[q] # None => q \in Covered(overlay.dirty)
    BY DEF DisplayInv, Drawn
  <1>4. \A q \in Pixels :
          /\ Committed[q] = IF overlay.paint[q] = None THEN shadow[q] ELSE overlay.paint[q]
          /\ Committed'[q] = IF overlay'.paint[q] = None THEN shadow'[q] ELSE overlay'.paint[q]
    BY DEF Committed, Over
  <1>5. CASE p = "overlay"
    <2>1. stage.owner = p /\ overlay'.paint = stage.paint /\ shadow' = shadow
      BY <1>1, <1>5 DEF Presents, Staged
    <2>2. \A q \in Pixels : Committed'[q] = Prospect(p)[q]
      BY <1>4, <1>5, <2>1, OverIs DEF Prospect
    <2>3. \A q \in Pixels : q \notin Covered(a.list) => Committed'[q] = Committed[q]
      BY <1>2, <1>3, <1>4, <1>5, <2>1
    <2> QED
      BY <2>2, <2>3
  <1>6. CASE p = "base" /\ stage.owner = "base"
    <2>1. shadow' = Over(stage.paint, shadow) /\ overlay' = overlay
      BY <1>6 DEF Presents
    <2>2. \A q \in Pixels : shadow'[q] = IF stage.paint[q] = None THEN shadow[q] ELSE stage.paint[q]
      BY <2>1, OverIs
    <2>3. Prospect(p) = Over(overlay.paint, shadow')
      BY <1>6, <2>1 DEF Prospect
    <2>4. \A q \in Pixels : Committed'[q] = Prospect(p)[q]
      BY <1>4, <2>1, <2>3, OverIs
    <2>5. \A q \in Pixels : q \notin Covered(a.list) => Committed'[q] = Committed[q]
      BY <1>2, <1>3, <1>4, <1>6, <2>1, <2>2
    <2> QED
      BY <2>4, <2>5
  <1>7. CASE p = "base" /\ stage.owner # "base"
    <2>1. shadow' = shadow /\ overlay' = overlay
      BY <1>7 DEF Presents
    <2>2. Prospect(p) = Committed
      BY <1>7 DEF Prospect
    <2> QED
      BY <1>4, <2>1, <2>2
  <1> QED
    BY <1>5, <1>6, <1>7 DEF Planes

LEMMA PresentsStep ==
    ASSUME DisplayInv, NEW p \in Planes, Presents(p)
    PROVE  DisplayInv'
  <1>1. /\ Staged(p) /\ planes[p].open = 1
        /\ planes' = [planes EXCEPT ![p].repair = {}] /\ faults' = faults
    BY DEF Presents, Usable
  <1>2. PICK a \in AffectedLists(p) :
          /\ a.full = 0
          /\ panel' = [q \in Pixels |->
                  IF q \in Covered(a.list) THEN Prospect(p)[q] ELSE Mended(p)[q]]
          /\ loose' = loose \ (Repaired(p) \cup Covered(a.list))
          /\ lost' = lost \ (Repaired(p) \cup Covered(a.list))
    BY DEF Presents
  <1>3. DisplayTypeOK
    BY DEF DisplayInv
  <1>4. /\ planes' \in [Planes -> [open : {0, 1}, repair : Lists, quarantined : {0, 1}]]
        /\ planes'[p].repair = {} /\ planes'[p].open = planes[p].open
        /\ \A r \in Planes : r # p => planes'[r] = planes[r]
    BY <1>1, <1>3, RepairSet, EmptyIsSeparate
  <1>5. /\ Prospect(p) \in Picture /\ Mended(p) \in Picture
        /\ \A q \in Pixels : Mended(p)[q] = IF q \in Repaired(p) THEN Committed[q] ELSE panel[q]
    BY <1>3, PicturesOK
  <1>6. panel' \in Picture
    <2>1. \A q \in Pixels : Prospect(p)[q] \in Colors /\ Mended(p)[q] \in Colors
      BY <1>5 DEF Picture
    <2> QED
      BY <1>2, <2>1 DEF Picture
  <1>7. DamageAccounted'
    <2>1. \A q \in Pixels :
            Committed'[q] = IF q \in Covered(a.list) THEN Prospect(p)[q] ELSE Committed[q]
      BY <1>2, PresentedPicture
    <2>2. \A q \in Pixels : /\ q \in Covered(a.list) => panel'[q] = Prospect(p)[q]
                            /\ q \notin Covered(a.list) => panel'[q] = Mended(p)[q]
      BY <1>2
    <2>3. ASSUME NEW q \in Pixels, q \notin Covered(a.list), q \notin Repaired(p),
                 panel[q] # Committed[q]
          PROVE  (\E r \in Planes : q \in Covered(planes'[r].repair)) \/ q \in loose' \cup lost'
      <3>1. CASE \E r \in Planes : q \in Covered(planes[r].repair)
        <4>1. PICK r \in Planes : q \in Covered(planes[r].repair)
          BY <3>1
        <4>2. r # p
          BY <2>3, <4>1 DEF Repaired
        <4> QED
          BY <1>4, <4>1, <4>2
      <3>2. CASE q \in loose \cup lost
        BY <1>2, <2>3, <3>2
      <3> QED
        BY <2>3, <3>1, <3>2 DEF DisplayInv, DamageAccounted
    <2> QED
      BY <1>5, <2>1, <2>2, <2>3 DEF DamageAccounted
  <1>8. \A r \in Planes : Separate(planes'[r].repair)
    BY <1>4, EmptyIsSeparate DEF DisplayInv, ListsOK
  <1>9. loose' \subseteq Pixels /\ lost' \subseteq Pixels
    BY <1>2, <1>3 DEF DisplayTypeOK
  <1>10. CASE p = "overlay"
    <2>1. /\ overlay' = [paint |-> stage.paint, dirty |-> stage.dirty, count |-> stage.count]
          /\ stage' = NoStage /\ pool' = PoolAfter(NoStage, overlay', {})
          /\ UNCHANGED <<shadow, surface>> /\ stage.owner = "overlay"
      BY <1>1, <1>10 DEF Presents, Staged
    <2>2. overlay' \in [paint : Paint, dirty : Lists, count : 0..MaxCommands]
      BY <1>3, <2>1 DEF DisplayTypeOK
    <2>3. /\ overlay'.paint = stage.paint /\ overlay'.dirty = stage.dirty
          /\ overlay'.count = stage.count
      BY <2>1
    <2>4. /\ pool' \in {"free", "display", "other"}
          /\ pool' = "display" <=> pool = "display" /\ overlay'.count # 0
      BY <1>3, <2>1, Cleared, PoolAfterIs
    <2>5. DisplayTypeOK'
      BY <1>1, <1>3, <1>4, <1>6, <1>9, <2>1, <2>2, <2>4, Cleared DEF DisplayTypeOK
    <2>6. ListsOK' /\ Drawn(stage)' /\ Drawn(overlay)'
      BY <1>8, <2>1, <2>3, Cleared DEF DisplayInv, ListsOK, Drawn
    <2>7. RepairOK' /\ CountsOK'
      BY <1>1, <1>4, <1>10, <2>1, <2>3, Cleared DEF DisplayInv, RepairOK, CountsOK
    <2>8. WorkspaceExact'
      <3>1. pool = "display" /\ (stage.dirty # {} => stage.count # 0)
        BY <2>1 DEF DisplayInv, WorkspaceExact, CountsOK, Nobody
      <3>2. planes'["overlay"].repair = {}
        BY <1>4, <1>10
      <3> QED
        BY <2>1, <2>3, <2>4, <3>1, <3>2, Cleared DEF WorkspaceExact
    <2> QED
      BY <1>7, <2>5, <2>6, <2>7, <2>8 DEF DisplayInv
  <1>11. CASE p = "base" /\ stage.owner = "base"
    <2>1. /\ shadow' = Over(stage.paint, shadow) /\ stage' = NoStage
          /\ pool' = PoolAfter(NoStage, overlay, planes["overlay"].repair)
          /\ UNCHANGED <<surface, overlay>>
      BY <1>11 DEF Presents
    <2>2. shadow' \in Picture
      BY <1>3, <2>1, OverType DEF DisplayTypeOK
    <2>3. /\ pool' \in {"free", "display", "other"}
          /\ pool' = "display" <=>
               pool = "display" /\ (overlay.count # 0 \/ planes["overlay"].repair # {})
      BY <1>3, <2>1, Cleared, PoolAfterIs
    <2>4. DisplayTypeOK'
      BY <1>1, <1>3, <1>4, <1>6, <1>9, <2>1, <2>2, <2>3, Cleared DEF DisplayTypeOK
    <2>5. planes'["overlay"] = planes["overlay"]
      BY <1>4, <1>11 DEF Planes
    <2>6. ListsOK' /\ Drawn(stage)' /\ Drawn(overlay)'
      BY <1>8, <2>1, Cleared DEF DisplayInv, ListsOK, Drawn
    <2>7. RepairOK' /\ CountsOK'
      BY <1>1, <1>4, <2>1, <2>5, Cleared DEF DisplayInv, RepairOK, CountsOK
    <2>8. WorkspaceExact'
      <3>1. pool = "display" /\ (overlay.dirty # {} => overlay.count # 0)
        BY <1>11 DEF DisplayInv, WorkspaceExact, CountsOK, Nobody
      <3> QED
        BY <2>1, <2>3, <2>5, <3>1, Cleared DEF WorkspaceExact
    <2> QED
      BY <1>7, <2>4, <2>6, <2>7, <2>8 DEF DisplayInv
  <1>12. CASE p = "base" /\ stage.owner # "base"
    <2>1. surface' = NoSurface /\ UNCHANGED <<shadow, stage, overlay, pool>>
      BY <1>12 DEF Presents
    <2>2. DisplayTypeOK'
      BY <1>1, <1>3, <1>4, <1>6, <1>9, <2>1, Cleared DEF DisplayTypeOK
    <2>3. planes'["overlay"] = planes["overlay"]
      BY <1>4, <1>12 DEF Planes
    <2>4. ListsOK' /\ Drawn(stage)' /\ Drawn(overlay)'
      BY <1>8, <2>1, Cleared DEF DisplayInv, ListsOK, Drawn
    <2>5. RepairOK' /\ CountsOK' /\ WorkspaceExact'
      BY <1>1, <1>4, <2>1, <2>3 DEF DisplayInv, RepairOK, CountsOK, WorkspaceExact
    <2> QED
      BY <1>7, <2>2, <2>4, <2>5 DEF DisplayInv
  <1> QED
    BY <1>10, <1>11, <1>12 DEF Planes

-----------------------------------------------------------------------------
(* Close and retire. *)

LEMMA WithoutIs ==
    ASSUME DisplayInv, NEW p \in Planes
    PROVE  /\ StageWithout(p) \in [owner : Planes \cup {Nobody}, paint : Paint, dirty : Lists,
                                   count : 0..MaxCommands, borrow : {0, 1}]
           /\ Separate(StageWithout(p).dirty) /\ Drawn(StageWithout(p))
           /\ StageWithout(p) = stage \/ StageWithout(p).owner = Nobody
           /\ SurfaceWithout(p) \in [active : {0, 1}, dirty : Lists]
           /\ Separate(SurfaceWithout(p).dirty)
           /\ OverlayWithout(p) \in [paint : Paint, dirty : Lists, count : 0..MaxCommands]
           /\ Separate(OverlayWithout(p).dirty) /\ Drawn(OverlayWithout(p))
           /\ IF p = "overlay" THEN OverlayWithout(p) = NoOverlay ELSE OverlayWithout(p) = overlay
  <1>1. /\ stage \in [owner : Planes \cup {Nobody}, paint : Paint, dirty : Lists,
                      count : 0..MaxCommands, borrow : {0, 1}]
        /\ surface \in [active : {0, 1}, dirty : Lists]
        /\ overlay \in [paint : Paint, dirty : Lists, count : 0..MaxCommands]
        /\ Separate(stage.dirty) /\ Separate(surface.dirty) /\ Separate(overlay.dirty)
        /\ Drawn(stage) /\ Drawn(overlay)
    BY DEF DisplayInv, DisplayTypeOK, ListsOK
  <1>2. /\ StageWithout(p) = stage \/ StageWithout(p) = NoStage
        /\ SurfaceWithout(p) = surface \/ SurfaceWithout(p) = NoSurface
        /\ OverlayWithout(p) = IF p = "overlay" THEN NoOverlay ELSE overlay
    BY DEF StageWithout, SurfaceWithout, OverlayWithout
  <1> QED
    BY <1>1, <1>2, Cleared

(* What closes keep, whatever they sent. *)
LEMMA ClosedStep ==
    ASSUME DisplayInv, NEW p \in Planes,
           stage' = StageWithout(p), surface' = SurfaceWithout(p),
           overlay' = OverlayWithout(p), shadow' = shadow,
           pool' = PoolAfter(StageWithout(p), OverlayWithout(p), RepairWithout(p)),
           planes' \in [Planes -> [open : {0, 1}, repair : Lists, quarantined : {0, 1}]],
           \A r \in Planes : \/ /\ planes'[r].repair = planes[r].repair
                                /\ planes'[r].open = planes[r].open
                             \/ planes'[r].repair = {},
           planes'["overlay"].repair = RepairWithout(p),
           panel' \in Picture, loose' \subseteq Pixels, lost' \subseteq Pixels,
           faults' \in 0 .. FailureMax, DamageAccounted'
    PROVE  DisplayInv'
  <1>1. DisplayTypeOK
    BY DEF DisplayInv
  <1>2. /\ pool' \in {"free", "display", "other"}
        /\ pool' = "display" <=>
             /\ pool = "display"
             /\ stage'.owner # Nobody \/ overlay'.count # 0 \/ planes'["overlay"].repair # {}
    BY <1>1, PoolAfterIs
  <1>3. DisplayTypeOK'
    BY <1>1, <1>2, WithoutIs DEF DisplayTypeOK
  <1>4. ListsOK' /\ Drawn(stage)' /\ Drawn(overlay)'
    <2>1. \A r \in Planes : Separate(planes'[r].repair)
      BY EmptyIsSeparate DEF DisplayInv, ListsOK
    <2>2. Drawn(stage') /\ Drawn(overlay')
      BY WithoutIs
    <2> QED
      BY <2>1, <2>2, WithoutIs DEF ListsOK, Drawn
  <1>5. RepairOK'
    <2>1. \A r \in Planes : planes'[r].open = 0 => planes'[r].repair = {}
      BY DEF DisplayInv, RepairOK
    <2>2. planes'["overlay"].repair # {} =>
             /\ overlay' = overlay /\ planes'["overlay"].repair = planes["overlay"].repair
      BY WithoutIs DEF RepairWithout
    <2> QED
      BY <2>1, <2>2 DEF DisplayInv, RepairOK
  <1>6. /\ overlay' = overlay \/ (overlay'.dirty = {} /\ overlay'.count = 0)
        /\ stage' = stage \/ stage'.owner = Nobody
    BY WithoutIs, Cleared
  <1>7. CountsOK'
    BY <1>6 DEF DisplayInv, CountsOK, Nobody
  <1>8. WorkspaceExact'
    <2>1. planes'["overlay"].repair # {} => planes["overlay"].repair # {}
      BY DEF RepairWithout
    <2> QED
      BY <1>2, <1>6, <1>7, <2>1 DEF DisplayInv, WorkspaceExact, CountsOK
  <1> QED
    BY <1>3, <1>4, <1>5, <1>7, <1>8 DEF DisplayInv

LEMMA ClosedPicture ==
    ASSUME DisplayInv, NEW p \in Planes, overlay' = OverlayWithout(p), shadow' = shadow
    PROVE  \A q \in Pixels :
             /\ p = "overlay" => Committed'[q] = shadow[q]
             /\ p = "base" => Committed'[q] = Committed[q]
             /\ overlay.paint[q] = None => Committed[q] = shadow[q]
             /\ overlay.paint[q] # None => q \in Covered(overlay.dirty)
  <1>1. \A q \in Pixels :
          /\ Committed[q] = IF overlay.paint[q] = None THEN shadow[q] ELSE overlay.paint[q]
          /\ Committed'[q] = IF overlay'.paint[q] = None THEN shadow[q] ELSE overlay'.paint[q]
    BY DEF Committed, Over
  <1> QED
    BY <1>1, WithoutIs, Cleared DEF DisplayInv, Drawn

(* After a cleaning that reached the pixels of S, those of the lists it      *)
(* forgets are in S or lost.                                                 *)
LEMMA ClosedDamage ==
    ASSUME DisplayInv, NEW p \in Planes, overlay' = OverlayWithout(p), shadow' = shadow,
           NEW S, panel' = Shows(shadow, S), loose' = loose \ S,
           lost \ S \subseteq lost', Hidden(p, S) \subseteq lost',
           \A r \in Planes : \/ planes'[r].repair = planes[r].repair
                             \/ r = p /\ Covered(planes[r].repair) \subseteq S \cup lost',
           p = "overlay" => Covered(overlay.dirty) \subseteq S \cup lost'
    PROVE  DamageAccounted'
  <1>1. \A q \in Pixels : panel'[q] = IF q \in S THEN shadow[q] ELSE panel[q]
    BY DEF Shows
  <1>2. ASSUME NEW q \in Pixels
        PROVE  \/ panel'[q] = Committed'[q]
               \/ \E r \in Planes : q \in Covered(planes'[r].repair)
               \/ q \in loose' \cup lost'
    <2>1. CASE q \in S
      <3>1. panel'[q] = shadow[q]
        BY <1>1, <2>1
      <3>2. p = "base" /\ overlay.paint[q] # None => q \in lost'
        BY <2>1 DEF Hidden
      <3> QED
        BY <3>1, <3>2, ClosedPicture DEF Planes
    <2>2. CASE q \notin S
      <3>1. panel'[q] = panel[q]
        BY <1>1, <2>2
      <3>2. CASE panel[q] = Committed[q]
        <4>1. p = "overlay" /\ overlay.paint[q] # None => q \in lost'
          BY <2>2, ClosedPicture
        <4> QED
          BY <3>1, <3>2, <4>1, ClosedPicture DEF Planes
      <3>3. CASE \E r \in Planes : q \in Covered(planes[r].repair)
        BY <2>2, <3>3
      <3>4. CASE q \in loose \cup lost
        BY <2>2, <3>4
      <3> QED
        BY <3>2, <3>3, <3>4 DEF DisplayInv, DamageAccounted
    <2> QED
      BY <2>1, <2>2
  <1> QED
    BY <1>2 DEF DamageAccounted

(* Two fields of the plane at once. *)
LEMMA PlaneClosed ==
    ASSUME DisplayTypeOK, NEW p \in Planes, NEW quarantined \in {0, 1},
           planes' = [planes EXCEPT ![p].open = 0, ![p].repair = {}, ![p].quarantined = quarantined]
    PROVE  /\ planes' \in [Planes -> [open : {0, 1}, repair : Lists, quarantined : {0, 1}]]
           /\ planes'[p].repair = {}
           /\ \A r \in Planes : r # p => planes'[r] = planes[r]
  <1>1. \A r \in Planes : planes[r] \in [open : {0, 1}, repair : Lists, quarantined : {0, 1}]
    BY DEF DisplayTypeOK
  <1> DEFINE m == [planes[p] EXCEPT !.open = 0, !.repair = {}, !.quarantined = quarantined]
  <1>2. m \in [open : {0, 1}, repair : Lists, quarantined : {0, 1}] /\ m.repair = {}
    BY <1>1, EmptyIsSeparate
  <1>3. planes' = [planes EXCEPT ![p] = m]
    BY <1>1 DEF DisplayTypeOK
  <1> HIDE DEF m
  <1> QED
    BY <1>2, <1>3, ZenonT(60) DEF DisplayTypeOK

LEMMA CleansStep ==
    ASSUME DisplayInv, NEW p \in Planes, Cleans(p), faults' = faults,
           planes' = [planes EXCEPT ![p].open = 0, ![p].repair = {}]
    PROVE  DisplayInv'
  <1>1. PICK list \in CleanupLists(p) :
          /\ panel' = Shows(shadow, Covered(list))
          /\ loose' = loose \ Covered(list)
          /\ lost' = (lost \ Covered(list)) \cup Hidden(p, Covered(list))
    BY DEF Cleans
  <1>2. /\ stage' = StageWithout(p) /\ surface' = SurfaceWithout(p)
        /\ overlay' = OverlayWithout(p) /\ shadow' = shadow
        /\ pool' = PoolAfter(StageWithout(p), OverlayWithout(p), RepairWithout(p))
    BY DEF Cleans
  <1>3. DisplayTypeOK
    BY DEF DisplayInv
  <1>4. /\ planes' \in [Planes -> [open : {0, 1}, repair : Lists, quarantined : {0, 1}]]
        /\ planes'[p].repair = {}
        /\ \A r \in Planes : r # p => planes'[r] = planes[r]
    <2> DEFINE quarantined == planes[p].quarantined
    <2>1. quarantined \in {0, 1} /\ planes[p] = [planes[p] EXCEPT !.quarantined = quarantined]
      BY <1>3 DEF DisplayTypeOK
    <2>2. planes' = [planes EXCEPT ![p].open = 0, ![p].repair = {},
                                   ![p].quarantined = quarantined]
      BY <1>3 DEF DisplayTypeOK
    <2> HIDE DEF quarantined
    <2> QED
      BY <1>3, <2>1, <2>2, PlaneClosed
  <1>5. /\ list \in Lists /\ Covered(planes[p].repair) \subseteq Covered(list)
        /\ p = "overlay" => Covered(overlay.dirty) \subseteq Covered(list)
    BY CleanupOK, CoveredWithin
  <1>6. DamageAccounted'
    <2> DEFINE S == Covered(list)
    <2>1. /\ panel' = Shows(shadow, S) /\ loose' = loose \ S
          /\ lost \ S \subseteq lost' /\ Hidden(p, S) \subseteq lost'
      BY <1>1
    <2>2. \A r \in Planes : \/ planes'[r].repair = planes[r].repair
                            \/ r = p /\ Covered(planes[r].repair) \subseteq S \cup lost'
      BY <1>4, <1>5
    <2>3. p = "overlay" => Covered(overlay.dirty) \subseteq S \cup lost'
      BY <1>5
    <2> HIDE DEF S
    <2> QED
      BY <1>2, <2>1, <2>2, <2>3, ClosedDamage
  <1>7. panel' \in Picture /\ loose' \subseteq Pixels /\ lost' \subseteq Pixels
    <2>1. panel' \in Picture
      BY <1>1, <1>3, ShowsIs DEF DisplayTypeOK
    <2>2. Hidden(p, Covered(list)) \subseteq Pixels
      BY <1>5, CoveredIs DEF Hidden
    <2> QED
      BY <1>1, <1>3, <2>1, <2>2 DEF DisplayTypeOK
  <1>8. planes'["overlay"].repair = RepairWithout(p)
    BY <1>4 DEF RepairWithout, Planes
  <1>9. faults' \in 0 .. FailureMax
    BY <1>3 DEF DisplayTypeOK
  <1> QED
    BY <1>2, <1>4, <1>6, <1>7, <1>8, <1>9, ClosedStep

LEMMA CloseFailsStep == ASSUME DisplayInv, CloseFails PROVE DisplayInv'
  <1> DEFINE p == "base"
  <1>1. PICK f \in Failures(planes[p].repair) :
          /\ panel' = Shows(shadow, f[1])
          /\ loose' = loose \ f[1]
          /\ lost' = (lost \ f[1]) \cup Hidden(p, f[1])
          /\ planes' = [planes EXCEPT ![p].quarantined = IF f[2] = 1 THEN 1 ELSE @]
    BY DEF CloseFails
  <1>2. /\ stage' = StageWithout(p) /\ surface' = SurfaceWithout(p)
        /\ overlay' = OverlayWithout(p) /\ shadow' = shadow
        /\ pool' = PoolAfter(StageWithout(p), OverlayWithout(p), RepairWithout(p))
        /\ Fault
    BY DEF CloseFails, SurfaceWithout, OverlayWithout, RepairWithout
  <1>3. DisplayTypeOK /\ p \in Planes
    BY DEF DisplayInv, Planes
  <1>4. f[1] \subseteq Pixels
    BY <1>3, FailuresAre DEF DisplayTypeOK
  <1>5. /\ planes' \in [Planes -> [open : {0, 1}, repair : Lists, quarantined : {0, 1}]]
        /\ \A r \in Planes : /\ planes'[r].repair = planes[r].repair
                             /\ planes'[r].open = planes[r].open
    <2>1. planes \in [Planes -> [open : {0, 1}, repair : Lists, quarantined : {0, 1}]]
      BY <1>3 DEF DisplayTypeOK
    <2> DEFINE flag == IF f[2] = 1 THEN 1 ELSE planes[p].quarantined
               m == [planes[p] EXCEPT !.quarantined = flag]
    <2>2. flag \in {0, 1} /\ planes' = [planes EXCEPT ![p] = m]
      BY <1>1, <1>3, <2>1
    <2> HIDE DEF flag
    <2>3. /\ m \in [open : {0, 1}, repair : Lists, quarantined : {0, 1}]
          /\ m.repair = planes[p].repair /\ m.open = planes[p].open
      BY <1>3, <2>1, <2>2
    <2> HIDE DEF m
    <2> QED
      BY <2>1, <2>2, <2>3
  <1>6. DamageAccounted'
    <2>1. /\ lost \ f[1] \subseteq lost' /\ Hidden(p, f[1]) \subseteq lost'
      BY <1>1
    <2>2. p # "overlay"
      OBVIOUS
    <2> HIDE DEF p
    <2> QED
      BY <1>1, <1>2, <1>3, <1>5, <2>1, <2>2, ClosedDamage
  <1>7. panel' \in Picture /\ loose' \subseteq Pixels /\ lost' \subseteq Pixels
    <2>1. panel' \in Picture
      BY <1>1, <1>3, ShowsIs DEF DisplayTypeOK
    <2>2. Hidden(p, f[1]) \subseteq Pixels
      BY <1>4 DEF Hidden
    <2> QED
      BY <1>1, <1>3, <2>1, <2>2 DEF DisplayTypeOK
  <1>8. planes'["overlay"].repair = RepairWithout(p)
    BY <1>5 DEF RepairWithout, Planes
  <1>9. faults' \in 0 .. FailureMax
    BY <1>2, <1>3, FaultOK
  <1> HIDE DEF p
  <1> QED
    BY <1>2, <1>3, <1>5, <1>6, <1>7, <1>8, <1>9, ClosedStep

LEMMA RetireFailsStep ==
    ASSUME DisplayInv, NEW p \in Planes, RetireFails(p)
    PROVE  DisplayInv'
  <1> DEFINE Stops(list, f) == /\ panel' = Shows(shadow, f[1])
                               /\ loose' = loose \ f[1]
                               /\ lost' = lost \cup Covered(list)
  <1>1. PICK list \in CleanupLists(p) : \E f \in Failures(list) : Stops(list, f)
    BY DEF RetireFails
  <1>2. PICK f \in Failures(list) : Stops(list, f)
    BY <1>1
  <1>3. /\ stage' = StageWithout(p) /\ surface' = SurfaceWithout(p)
        /\ overlay' = OverlayWithout(p) /\ shadow' = shadow
        /\ pool' = PoolAfter(StageWithout(p), OverlayWithout(p), RepairWithout(p))
        /\ planes' = [planes EXCEPT ![p].open = 0, ![p].repair = {}, ![p].quarantined = 1]
        /\ Fault
    BY DEF RetireFails
  <1>4. DisplayTypeOK
    BY DEF DisplayInv
  <1>5. /\ planes' \in [Planes -> [open : {0, 1}, repair : Lists, quarantined : {0, 1}]]
        /\ planes'[p].repair = {}
        /\ \A r \in Planes : r # p => planes'[r] = planes[r]
    BY <1>3, <1>4, PlaneClosed
  <1>6. /\ list \in Lists /\ Covered(planes[p].repair) \subseteq Covered(list)
        /\ p = "overlay" => Covered(overlay.dirty) \subseteq Covered(list)
    BY CleanupOK, CoveredWithin
  <1>7. f[1] \subseteq Covered(list) /\ Covered(list) \subseteq Pixels
    BY <1>6, FailuresAre, CoveredIs
  <1>8. DamageAccounted'
    <2>1. /\ panel' = Shows(shadow, f[1]) /\ loose' = loose \ f[1]
          /\ lost \ f[1] \subseteq lost' /\ Covered(list) \subseteq lost'
      BY <1>2
    <2>2. Hidden(p, f[1]) \subseteq lost'
      BY <1>7, <2>1 DEF Hidden
    <2>3. \A r \in Planes : \/ planes'[r].repair = planes[r].repair
                            \/ r = p /\ Covered(planes[r].repair) \subseteq f[1] \cup lost'
      BY <1>5, <1>6, <2>1
    <2>4. p = "overlay" => Covered(overlay.dirty) \subseteq f[1] \cup lost'
      BY <1>6, <2>1
    <2> QED
      BY <1>3, <2>1, <2>2, <2>3, <2>4, ClosedDamage
  <1>9. panel' \in Picture /\ loose' \subseteq Pixels /\ lost' \subseteq Pixels
    <2>1. panel' \in Picture
      BY <1>2, <1>4, ShowsIs DEF DisplayTypeOK
    <2> QED
      BY <1>2, <1>4, <1>7, <2>1 DEF DisplayTypeOK
  <1>10. planes'["overlay"].repair = RepairWithout(p)
    BY <1>5 DEF RepairWithout, Planes
  <1>11. faults' \in 0 .. FailureMax
    BY <1>3, <1>4, FaultOK
  <1> QED
    BY <1>3, <1>5, <1>8, <1>9, <1>10, <1>11, ClosedStep

LEMMA DisplayStutter == ASSUME DisplayInv, UNCHANGED displayVars PROVE DisplayInv'
  <1>1. UNCHANGED <<panel, shadow, planes, surface, overlay, loose, lost, faults>>
    BY DEF displayVars
  <1>2. stage' = stage /\ pool' = pool
    BY DEF displayVars
  <1> QED
    BY <1>1, <1>2, StageStep
       DEF DisplayInv, DisplayTypeOK, ListsOK, CountsOK, WorkspaceExact

LEMMA DisplayStep == ASSUME DisplayInv, DisplayNext PROVE DisplayInv'
  <1>1. CASE AcquireSurface
    BY <1>1, AcquireSurfaceStep
  <1>2. CASE \E d \in Draws : Draw(d)
    BY <1>2, DrawStep
  <1>3. CASE \E r \in Regions : Mark(r)
    BY <1>3, MarkStep
  <1>4. CASE \E w \in Writes : WriteSurface(w)
    BY <1>4, WriteSurfaceStep
  <1>5. ASSUME NEW p \in Planes, Open(p) \/ BeginBatch(p) \/ Abort(p)
        PROVE  DisplayInv'
    BY <1>5, OpenStep, BeginBatchStep, AbortStep
  <1>6. ASSUME NEW p \in Planes,
               \/ PresentRepairFails(p) \/ PresentOverflows(p)
               \/ PresentTransferFails(p) \/ Presents(p)
        PROVE  DisplayInv'
    BY <1>6, PresentRepairFailsStep, PresentOverflowsStep, PresentTransferFailsStep, PresentsStep
  <1>7. ASSUME NEW p \in Planes, Close(p) \/ RetireQuarantined(p)
        PROVE  DisplayInv'
    BY <1>7, CleansStep DEF Close, RetireQuarantined
  <1>8. ASSUME NEW p \in Planes, RetireFails(p) PROVE DisplayInv'
    BY <1>8, RetireFailsStep
  <1>9. CASE CloseFails
    BY <1>9, CloseFailsStep
  <1>10. CASE PoolTaken \/ PoolGiven
    BY <1>10, PoolStep
  <1> QED
    BY <1>1, <1>2, <1>3, <1>4, <1>5, <1>6, <1>7, <1>8, <1>9, <1>10 DEF DisplayNext

LEMMA DisplayInvariant == DisplaySpec => []DisplayInv
  <1>1. DisplayInit => DisplayInv
    BY DisplayStart
  <1>2. DisplayInv /\ [DisplayNext]_displayVars => DisplayInv'
    BY DisplayStep, DisplayStutter
  <1> QED
    BY <1>1, <1>2, PTL DEF DisplaySpec

(* No failed transfer leaves a wrong pixel that nobody will mend, but for    *)
(* the cases DamageAccounted names: the repair lists of                      *)
(* k210_display_present and k210_display_close.                              *)
THEOREM DamageIsAccounted == DisplaySpec => [](DisplayTypeOK /\ DamageAccounted)
  <1>1. DisplayInv => DisplayTypeOK /\ DamageAccounted
    BY DEF DisplayInv
  <1> QED
    BY <1>1, DisplayInvariant, PTL

(* workspace_acquire and workspace_release_if_idle: the frame pool is the    *)
(* display's exactly while it keeps something there.                         *)
THEOREM WorkspaceHeldExactly == DisplaySpec => []WorkspaceExact
  <1>1. DisplayInv => WorkspaceExact
    BY DEF DisplayInv
  <1> QED
    BY <1>1, DisplayInvariant, PTL

(* k210_display_close ignores that dirty_add may find no room, for a repair  *)
(* list of up to MaxDirty rectangles and an overlay of as many more; there   *)
(* is always room, since the one is empty or holds the other.                *)
THEOREM CleanupAlwaysFits == DisplaySpec => []CleanupFits
  <1>1. DisplayInv => CleanupFits
    BY CleanupIs DEF CleanupFits
  <1> QED
    BY <1>1, DisplayInvariant, PTL

=============================================================================
