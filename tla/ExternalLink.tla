---------------------------- MODULE ExternalLink ----------------------------
(***************************************************************************)
(* The external connector: capabilities/external_link.c over               *)
(* platforms/k210/capabilities/external_link_adapter.c and                 *)
(* platforms/k210/hal/hal_external_link.c.                                 *)
(*                                                                         *)
(* One session owns the connector.  It runs it as a UART, as an I2C        *)
(* controller or as an I2C target; interrupts fill and drain the buffers   *)
(* behind its back.  The adapter and its peripherals are one record, link; *)
(* an operator is one call, which runs on core 0 with only the interrupts  *)
(* in between, and the interrupts are actions.                             *)
(*                                                                         *)
(* A byte is a token [f, i]: byte i of frame (or transaction) f.           *)
(***************************************************************************)
EXTENDS Integers, Sequences, FiniteSets

CONSTANTS Users,       \* the service and the script bridge
          NoUser,
          Features,    \* Users -> modes a user's session declares
          GenMax,      \* operation generations, in a ring: of 32 bits in the code,
                       \* which refuses the one after the last
          RingMax,     \* K210_EXTERNAL_MAX_BYTES, of the UART ring
          BufferMax,   \* K210_EXTERNAL_MAX_BYTES, of a target buffer
          FrameSize,   \* HK_LINK_MAX_FRAME: what the caller of target_poll takes
          PollMax,     \* K210_EXTERNAL_POLL_BYTES
          FifoDepth,   \* HAL_EXTERNAL_UART_FIFO_DEPTH, _I2C_FIFO_DEPTH
          TxSize, RxSize   \* bytes of a transfer

ASSUME LinkAssumption ==
    /\ NoUser \notin Users
    /\ {GenMax, RingMax, BufferMax, FrameSize, PollMax, FifoDepth, TxSize, RxSize} \subseteq Nat \ {0}

VARIABLE link

Modes == {"off", "uart", "controller", "target"}

(* The type of every field of link.                                          *)
Byte == [f : Nat, i : Nat]

OpType ==
    [state : {"none", "flight", "terminal"}, gen : Nat, kind : {"none", "write", "transfer"},
     result : {"none", "pending", "ok", "io", "deadline", "cancelled"},
     observed : {0, 1}, tx : Int, rx : Int, started : {0, 1}]

TargetType ==
    [events : Seq([type : {"read", "write"}, slot : 0..2]), overflow : {0, 1}, discard : {0, 1},
     rxActive : {0, 1}, rxSlot : 0..2, buf : [{0, 1} -> Seq(Byte)],
     preload : {0, 1}, preSlot : 0..2,
     reading : {0, 1}, readSlot : 0..2, index : Nat, owed : Seq(Nat)]

SlaveType == [on : {0, 1}, heard : {0, 1}, fifo : Seq(Byte), stop : {0, 1}]

ControllerType ==
    [active : {0, 1}, gen : Nat, commands : Nat, done : Nat, fifo : Nat, received : Nat,
     aborted : {0, 1}]

LinkType ==
    [claimant : Users \cup {NoUser}, quarantined : {0, 1}, owner : Users \cup {NoUser},
     mode : Modes, gen : Nat, op : OpType, late : {0, 1},
     ring : Seq(Byte), dropped : {0, 1}, uart : {0, 1}, txFifo : Seq(Byte),
     target : TargetType, slave : SlaveType, controller : ControllerType]

NoOp == [state |-> "none", gen |-> 0, kind |-> "none", result |-> "none",
         observed |-> 0, tx |-> 0, rx |-> 0, started |-> 0]

Slots  == {0, 1}
NoSlot == 2

(* clear_target; owed is history: the transactions whose STOP was served and *)
(* that are neither polled nor reported lost.                                *)
NoTarget == [events |-> <<>>, overflow |-> 0, discard |-> 0,
             rxActive |-> 0, rxSlot |-> NoSlot,
             buf |-> [s \in Slots |-> <<>>],
             preload |-> 0, preSlot |-> 0,
             reading |-> 0, readSlot |-> NoSlot, index |-> 0, owed |-> <<>>]

(* hal_external_i2c_stop.  Of the target's peripheral: whether it is         *)
(* enabled, whether it was addressed in the transaction on the bus, its      *)
(* receive FIFO and its STOP interrupt.                                      *)
NoSlave == [on |-> 0, heard |-> 0, fifo |-> <<>>, stop |-> 0]

NoController == [active |-> 0, gen |-> 0, commands |-> 0, done |-> 0, fifo |-> 0,
                 received |-> 0, aborted |-> 0]

InitLink == [claimant |-> NoUser, quarantined |-> 0,
             owner |-> NoUser, mode |-> "off", gen |-> 0, op |-> NoOp, late |-> 0,
             ring |-> <<>>, dropped |-> 0, uart |-> 0, txFifo |-> <<>>,
             target |-> NoTarget, slave |-> NoSlave, controller |-> NoController]

-----------------------------------------------------------------------------
(* The I2C target: interrupt side. *)

Reserved(t, s) ==
    \/ t.rxActive = 1 /\ t.rxSlot = s
    \/ t.reading = 1 /\ t.readSlot = s
    \/ t.preload = 1 /\ t.preSlot = s
    \/ \E i \in DOMAIN t.events : t.events[i].slot = s

(* target_find_free_buffer *)
FreeBuffer(t) == IF ~Reserved(t, 0) THEN 0 ELSE IF ~Reserved(t, 1) THEN 1 ELSE NoSlot

(* target_queue_event *)
Queue(t, event) ==
    IF t.overflow = 1 \/ Len(t.events) >= 2 THEN [t EXCEPT !.overflow = 1]
    ELSE [t EXCEPT !.events = Append(@, event)]

(* target_receive *)
Receive(t, byte) ==
    LET s == IF t.rxActive = 1 THEN t.rxSlot ELSE FreeBuffer(t)
        u == IF t.rxActive = 1 THEN t
             ELSE [t EXCEPT !.rxSlot = s, !.rxActive = 1, !.buf[s] = <<>>]
    IN  IF t.overflow = 1 \/ t.discard = 1 THEN [t EXCEPT !.discard = 1]
        ELSE IF s = NoSlot THEN [t EXCEPT !.overflow = 1, !.discard = 1]
        ELSE IF Len(u.buf[s]) < BufferMax THEN [u EXCEPT !.buf[s] = Append(@, byte)]
        ELSE [u EXCEPT !.overflow = 1, !.discard = 1]

(* target_transmit: a read that begins takes the preloaded response with it. *)
ReadBegun(t) ==
    IF t.reading = 1 THEN t
    ELSE [t EXCEPT !.readSlot = IF t.preload = 1 THEN t.preSlot ELSE NoSlot,
                   !.index = 0, !.preload = 0, !.preSlot = 0, !.reading = 1]

Fill == [f |-> 0, i |-> 0]

Transmitted(t) ==
    LET u == ReadBegun(t) IN
    IF u.readSlot # NoSlot /\ u.index < Len(u.buf[u.readSlot])
      THEN u.buf[u.readSlot][u.index + 1] ELSE Fill

Transmit(t) == [ReadBegun(t) EXCEPT !.index = @ + 1]

(* A buffer that nothing reserves holds nothing that matters. *)
Freed(t) == [t EXCEPT !.buf = [s \in Slots |-> IF Reserved(t, s) THEN @[s] ELSE <<>>]]

(* target_event at STOP: the response of a read is used up with it. *)
StopRead(t) ==
    Freed([Queue(t, [type |-> "read", slot |-> NoSlot])
             EXCEPT !.reading = 0, !.index = 0, !.readSlot = NoSlot])

StopWrite(t) ==
    Freed([(IF t.discard = 1 THEN t ELSE Queue(t, [type |-> "write", slot |-> t.rxSlot]))
             EXCEPT !.rxActive = 0, !.discard = 0, !.rxSlot = NoSlot])

Stop(t) == IF t.reading = 1 THEN StopRead(t)
           ELSE IF t.rxActive = 1 \/ t.discard = 1 THEN StopWrite(t)
           ELSE t

-----------------------------------------------------------------------------
(* The I2C target: main-loop side, under the target interrupt lock. *)

(* target_poll: what it returns, and the target after it. *)
Polled(t) ==
    IF t.overflow = 1 THEN [result |-> "overflow", bytes |-> <<>>]
    ELSE IF t.events = <<>> THEN [result |-> "pending", bytes |-> <<>>]
    ELSE IF Head(t.events).type = "write"
      THEN IF Len(t.buf[Head(t.events).slot]) > FrameSize
             THEN [result |-> "limit", bytes |-> <<>>]
             ELSE [result |-> "write", bytes |-> t.buf[Head(t.events).slot]]
      ELSE [result |-> "read", bytes |-> <<>>]

AfterPoll(t) ==
    IF t.overflow = 1 THEN Freed([t EXCEPT !.events = <<>>, !.overflow = 0, !.owed = <<>>])
    ELSE IF Polled(t).result \in {"pending", "limit"} THEN t
    ELSE Freed([t EXCEPT !.events = Tail(@),
                         !.owed = IF Head(t.events).type = "write" THEN Tail(@) ELSE @])

(* Mutant: the events that make room for a response go unreported. *)
PreloadQuiet(t, bytes) ==
    LET u == IF FreeBuffer(t) # NoSlot THEN t ELSE [t EXCEPT !.events = <<>>]
        s == FreeBuffer(u)
    IN  IF s = NoSlot THEN u ELSE [u EXCEPT !.buf[s] = bytes, !.preSlot = s, !.preload = 1]

(* target_preload: an unread response is replaced, one that is being read is *)
(* left alone; when both buffers are taken the queued events go.             *)
Preload(t, bytes) ==
    LET first == IF t.reading = 0 /\ t.preload = 1 THEN t.preSlot ELSE FreeBuffer(t)
        u == IF first # NoSlot THEN t ELSE [t EXCEPT !.overflow = 1, !.events = <<>>]
        s == IF first # NoSlot THEN first ELSE FreeBuffer(u)
    IN  IF s = NoSlot THEN u
        ELSE Freed([u EXCEPT !.buf[s] = bytes, !.preSlot = s, !.preload = 1])

-----------------------------------------------------------------------------
(* Modes and sessions. *)

ClearRing(l) == [l EXCEPT !.ring = <<>>, !.dropped = 0]

(* hal_external_uart_init and _stop: the receive interrupt on and off. *)
StartUart(l) == [l EXCEPT !.uart = 1, !.txFifo = <<>>, !.slave = NoSlave, !.controller = NoController]
StopUart(l)  == [l EXCEPT !.uart = 0, !.txFifo = <<>>]
StopI2c(l)   == [l EXCEPT !.slave = NoSlave, !.controller = NoController]
ResetUart(l) == StartUart(ClearRing(StopUart(l)))

(* stop_mode *)
StopMode(l) ==
    [ClearRing(CASE l.mode \in {"controller", "target"} -> StopI2c(l)
                 [] l.mode = "uart" -> StopUart(l)
                 [] OTHER -> l)
       EXCEPT !.target = NoTarget, !.op = NoOp, !.mode = "off"]

(* configure_uart, configure_i2c_controller, configure_i2c_target: the       *)
(* session must have declared the mode; not while an operation is in flight. *)
CanConfigure(l, user, mode) ==
    /\ l.claimant = user /\ l.quarantined = 0
    /\ mode \in Features[user] /\ l.op.state # "flight"

Configured(l, mode) ==
    LET m == [StopMode(l) EXCEPT !.op = IF l.mode = "off" THEN l.op ELSE NoOp, !.mode = mode] IN
    CASE mode = "uart" -> StartUart(m)
      [] mode = "target" -> [m EXCEPT !.slave = [NoSlave EXCEPT !.on = 1]]
      [] OTHER -> m

(* hk_external_link_open and k210_external_open: the generation survives. *)
CanOpen(l) == l.quarantined = 0 /\ l.claimant = NoUser /\ l.owner = NoUser

Opened(l, user) ==
    [InitLink EXCEPT !.gen = l.gen, !.claimant = user, !.owner = user, !.uart = l.uart,
                     !.slave = l.slave, !.controller = l.controller, !.txFifo = l.txFifo]

(* hk_external_link_retire: quiesced in any case, quarantined when the close *)
(* itself came after its deadline.                                           *)
Retired(l, user, expired) ==
    IF l.claimant # user THEN l
    ELSE [StopMode(l) EXCEPT !.owner = NoUser, !.claimant = NoUser,
                             !.quarantined = IF expired THEN 1 ELSE @]

-----------------------------------------------------------------------------
(* Operations: one at a time, a fresh generation each. *)

CanBegin(l, user, kind) ==
    /\ l.claimant = user /\ l.quarantined = 0
    /\ l.mode = IF kind = "write" THEN "uart" ELSE "controller"
    /\ l.op.state = "none" \/ (l.op.state = "terminal" /\ l.op.observed = 1)

NextGen(l) == (l.gen % GenMax) + 1

Begun(l, kind) ==
    [l EXCEPT !.gen = NextGen(l), !.late = 0,
              !.op = [NoOp EXCEPT !.state = "flight", !.gen = NextGen(l), !.kind = kind,
                                  !.result = "pending"]]

(* latch_terminal: the hardware is quiet before the result is. *)
Latched(l, result) ==
    LET q == IF l.op.kind = "transfer" THEN StopI2c(l)
             ELSE IF result # "ok" THEN ResetUart(l) ELSE l
    IN  [q EXCEPT !.op.state = "terminal", !.op.result = result]

(* hal_external_i2c_controller_start, then the first fill of the FIFO. *)
Total == TxSize + RxSize

Least(a, b) == IF a < b THEN a ELSE b

FillTx(c) ==
    [c EXCEPT !.commands = Least(Total, c.done + FifoDepth)]

ControllerStarted(l) ==
    IF l.op.started = 1 THEN l
    ELSE [l EXCEPT !.op.started = 1, !.slave = NoSlave,
                   !.controller = FillTx([NoController EXCEPT !.active = 1, !.gen = l.op.gen])]

(* poll_i2c: a bounded part of what the interrupt has moved is reported. *)
PolledI2c(l0) ==
    LET l == ControllerStarted(l0)
        c == l.controller
        dt == Least(PollMax, Least(c.commands, TxSize) - l.op.tx)
        dr == Least(PollMax - dt, c.received - l.op.rx)
        m == [l EXCEPT !.op.tx = @ + dt, !.op.rx = @ + dr]
    IN  IF c.aborted = 1 THEN Latched(l, "io")
        ELSE IF m.op.tx = TxSize /\ m.op.rx = RxSize /\ c.commands = Total
                /\ c.received = RxSize /\ c.done = Total
          THEN Latched(m, "ok")
        ELSE m

(* The UART write: what fits goes to the FIFO; done when the line is idle.   *)
(* bytes is the caller's buffer, read now.                                   *)
PolledWrite(l, bytes) ==
    LET n == Least(Least(PollMax, Len(bytes) - l.op.tx), FifoDepth - Len(l.txFifo))
        m == [l EXCEPT !.op.tx = @ + n,
                       !.txFifo = @ \o SubSeq(bytes, l.op.tx + 1, l.op.tx + n)]
    IN  IF m.op.tx = Len(bytes) /\ m.txFifo = <<>> THEN Latched(m, "ok") ELSE m

(* k210_external_poll: a latched result first, then the deadline. *)
OpValid(l, user, gen) ==
    l.claimant = user /\ l.quarantined = 0 /\ l.op.state # "none" /\ gen # 0 /\ l.op.gen = gen

OpPolled(l, bytes) ==
    LET p == IF l.op.state = "terminal" THEN l
             ELSE IF l.late = 1 THEN Latched(l, "deadline")
             ELSE IF l.op.kind = "write" THEN PolledWrite(l, bytes)
             ELSE PolledI2c(l)
    IN  IF p.op.state = "terminal" THEN [p EXCEPT !.op.observed = 1] ELSE p

(* k210_external_cancel *)
OpCancelled(l) ==
    [(IF l.op.state = "flight" THEN Latched(l, "cancelled") ELSE l) EXCEPT !.op.observed = 1]

(* k210_external_uart_read: after a loss the receiver starts afresh. *)
UartRead(l)  == IF l.dropped = 1 THEN <<>> ELSE SubSeq(l.ring, 1, Least(PollMax, Len(l.ring)))

(* Mutant: the loss is reported and not cleared. *)
AfterReadReports(l) ==
    IF l.dropped = 1 THEN l
    ELSE [l EXCEPT !.ring = SubSeq(@, Least(PollMax, Len(l.ring)) + 1, Len(@))]

AfterRead(l) ==
    IF l.dropped = 1 THEN ResetUart(l)
    ELSE [l EXCEPT !.ring = SubSeq(@, Least(PollMax, Len(l.ring)) + 1, Len(@))]

-----------------------------------------------------------------------------
(* Interrupts and hardware. *)

(* uart_receive_irq, uart_receive: a byte that finds the ring full is dropped *)
(* and the loss recorded.                                                     *)
UartByte(l, byte) ==
    IF l.uart = 0 \/ l.mode # "uart" THEN l
    ELSE IF Len(l.ring) >= RingMax THEN [l EXCEPT !.dropped = 1]
    ELSE [l EXCEPT !.ring = Append(@, byte)]

(* The controller executes a command: a read command delivers a byte.        *)
(* i2c_controller_irq comes in time to refill the FIFO.                      *)
ControllerRuns ==
    LET c == link.controller IN
    /\ c.active = 1 /\ c.aborted = 0 /\ c.done < c.commands
    /\ link' = [link EXCEPT !.controller.done = @ + 1,
                            !.controller.fifo = IF c.done >= TxSize THEN @ + 1 ELSE @]

(* i2c_controller_drain_rx: received bytes to the caller's buffer, then fill. *)
ControllerIrq ==
    LET c == link.controller IN
    /\ c.active = 1 /\ c.aborted = 0
    /\ c.fifo > 0 \/ c.commands < Least(Total, c.done + FifoDepth)
    /\ link' = [link EXCEPT !.controller =
                  FillTx([c EXCEPT !.received = @ + c.fifo, !.fifo = 0])]

(* No answer on the bus, or the receive FIFO ran over. *)
ControllerAborts ==
    /\ link.controller.active = 1 /\ link.controller.aborted = 0
    /\ link.controller.done < Total
    /\ link' = [link EXCEPT !.controller.aborted = 1]

(* The deadline of the operation in flight passes. *)
DeadlinePasses ==
    /\ link.op.state = "flight" /\ link.late = 0
    /\ link' = [link EXCEPT !.late = 1]

=============================================================================
