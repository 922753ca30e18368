---------------------------- MODULE LinkService -----------------------------
(***************************************************************************)
(* services/external_link_service.c, the native protocol on the connector, *)
(* with its frame parser (services/external_link_protocol.c), the script   *)
(* bridge that borrows the connector from it                               *)
(* (adapters/micropython/micropython_capability_bridge.c), and the device  *)
(* at the other end of the cable.                                          *)
(*                                                                         *)
(* A UART frame is the tokens [f, 1] .. [f, 4]: the two magic bytes, the   *)
(* length and the rest with its CRC.  The line may lose bytes.  A response *)
(* to frame f is the tokens [f, 1] .. [f, ResponseSize].                   *)
(***************************************************************************)
EXTENDS ExternalLink

CONSTANTS Frames,        \* sequence numbers the peer uses, 1 .. n, in a ring
          ResponseSize,  \* bytes of a response
          FrameMax,      \* HK_LINK_MAX_FRAME
          FaultMax,      \* bound on lost bytes, early or late deadlines,
                         \* transport changes and script runs together
          ReadMax        \* bound on the bytes of one I2C read

(* HK_EXTERNAL_LINK_FEATURE_...: service_acquire and binding_claim_external. *)
ASSUME ServiceAssumption ==
    /\ {"service", "script"} \subseteq Users
    /\ Features["service"] = {"uart", "target"}
    /\ Features["script"] = {"uart", "controller"}
    /\ Cardinality(Frames) \in Nat \ {0} /\ Frames = 1 .. Cardinality(Frames)
    /\ {ResponseSize, FrameMax, FaultMax, ReadMax} \subseteq Nat

VARIABLES
    svc,     \* the service: transport, suspended, parser, response, operation
    script,  \* the script bridge: its operation's token
    peer,    \* the device on the cable
    hist     \* history: what was delivered and reported

linkVars == <<link, svc, script, peer, hist>>

Body == 4                       \* tokens of an intact UART frame

Token(f, i) == [f |-> f, i |-> i]
Tokens(f, n) == [i \in 1 .. n |-> Token(f, i)]

(* hk_link_stream_parser_t: bytes held, bytes expected, and, as history, the *)
(* frame that all of them belong to (0: they come from several).             *)
NoParse == [n |-> 0, need |-> 0, f |-> 0]

(* The type of every variable. *)
ServiceType ==
    [transport : {"uart", "i2c"}, suspended : {0, 1}, open : {0, 1},
     parse : [n : Nat, need : Nat, f : Nat], staged : Seq(Byte),
     response : Nat, torn : {0, 1}, wait : {0, 1}, gen : Nat,
     pc : {"tick", "respond"}, request : Nat]

ScriptType == [active : {0, 1}, gen : Nat]

PeerType ==
    [asks : Nat, wire : Seq(Byte), got : Seq(Byte), bus : {"idle", "write", "read"},
     sent : Nat, long : Nat, read : Seq(Byte), next : Frames]

HistType == [faults : 0 .. FaultMax, done : {0, 1}, bad : {0, 1}, torn : {0, 1}]

LinkTypeOK ==
    /\ link \in LinkType /\ svc \in ServiceType /\ script \in ScriptType
    /\ peer \in PeerType /\ hist \in HistType

LinkInit ==
    /\ link = InitLink
    /\ svc = [transport |-> "uart", suspended |-> 0, open |-> 0, parse |-> NoParse,
              staged |-> <<>>, response |-> 0, torn |-> 0, wait |-> 0, gen |-> 0, pc |-> "tick",
              request |-> 0]
    /\ script = [active |-> 0, gen |-> 0]
    /\ peer = [asks |-> 0, wire |-> <<>>, got |-> <<>>, bus |-> "idle", sent |-> 0, long |-> 0,
               read |-> <<>>, next |-> 1]
    /\ hist = [faults |-> 0, done |-> 0, bad |-> 0, torn |-> 0]

-----------------------------------------------------------------------------
(* The parser. *)

IsH(b) == b.i = 1
IsK(b) == b.i = 2

Same(p, b) == IF p.f = b.f /\ b.i = p.n + 1 THEN p.f ELSE 0

(* hk_link_stream_feed: synchronise on the two magic bytes, read the length, *)
(* collect; whatever fails starts over with the next byte.                   *)
Feed(p, b, length) ==
    IF p.n = 0 \/ (p.n = 1 /\ ~IsK(b))
      THEN IF IsH(b) THEN [n |-> 1, need |-> 0, f |-> b.f] ELSE NoParse
    ELSE LET n == p.n + 1
             need == IF p.n = 2 THEN length ELSE p.need
             q == [n |-> n, need |-> need, f |-> Same(p, b)]
         IN  IF n > 2 /\ (need > FrameMax \/ n = need) THEN NoParse ELSE q

(* hk_link_frame_decode: the check sum passes exactly on a whole frame. *)
Complete(p, b, length) ==
    LET need == IF p.n = 2 THEN length ELSE p.need IN
    p.n > 1 /\ p.n + 1 = need /\ need = Body /\ Same(p, b) # 0

(* The length field, as read: a byte that is none is any number; one more    *)
(* than FrameMax stands for all that are refused, the ones that wrap too.    *)
Lengths(p, b) == IF p.n = 2 /\ b.i = 3 THEN {Body}
                 ELSE IF p.n = 2 THEN Body .. FrameMax + 1 ELSE {p.need}

-----------------------------------------------------------------------------
(* The service. *)

Idle(s) == [s EXCEPT !.gen = 0, !.response = 0, !.wait = 0, !.staged = <<>>, !.parse = NoParse,
                     !.torn = 0, !.request = 0]

(* service_cancel_uart *)
Cancelled(l) == IF svc.gen # 0 /\ svc.open = 1 /\ OpValid(l, "service", svc.gen)
                  THEN OpCancelled(l) ELSE l

(* service_configure *)
ServiceConfigured(l, transport) ==
    LET mode == IF transport = "i2c" THEN "target" ELSE "uart" IN
    IF CanConfigure(l, "service", mode) THEN Configured(l, mode) ELSE l

(* service_acquire *)
Acquires(l) == svc.open = 0 /\ CanOpen(l)

ServiceAcquired(l, transport) ==
    IF Acquires(l) THEN ServiceConfigured(Opened(l, "service"), transport) ELSE l

SetTransport(transport) ==
    /\ svc.pc = "tick" /\ hist.faults < FaultMax
    /\ hist' = [hist EXCEPT !.faults = @ + 1]
    /\ LET l == Cancelled(link) IN
       IF svc.suspended = 1
         THEN /\ link' = l
              /\ svc' = [Idle(svc) EXCEPT !.transport = transport]
         ELSE /\ link' = IF svc.open = 1 THEN ServiceConfigured(l, transport)
                         ELSE ServiceAcquired(l, transport)
              /\ svc' = [Idle(svc) EXCEPT !.transport = transport,
                                          !.open = IF Acquires(l) THEN 1 ELSE @]
    /\ UNCHANGED <<script, peer>>

(* external_link_service_set_uart_baud *)
SetBaud ==
    /\ svc.pc = "tick" /\ hist.faults < FaultMax
    /\ hist' = [hist EXCEPT !.faults = @ + 1]
    /\ LET l == Cancelled(link) IN
       link' = IF svc.transport = "uart" /\ svc.suspended = 0 /\ svc.open = 1
                 THEN ServiceConfigured(l, "uart") ELSE l
    /\ svc' = Idle(svc)
    /\ UNCHANGED <<script, peer>>

(* external_link_service_tick, up to service_acquire. *)
Acquire ==
    /\ svc.pc = "tick" /\ svc.suspended = 0 /\ Acquires(link)
    /\ link' = ServiceAcquired(link, svc.transport)
    /\ svc' = [svc EXCEPT !.open = 1]
    /\ UNCHANGED <<script, peer, hist>>

Ticks == svc.pc = "tick" /\ svc.suspended = 0 /\ svc.open = 1

UartTicks == Ticks /\ svc.transport = "uart"

(* The response is the buffer the parser collects in. *)
Response == [i \in 1 .. ResponseSize |->
               IF svc.torn = 1 THEN Fill ELSE Token(svc.response, i)]

(* The write in flight is polled; its end gives the buffer back. *)
TickPoll ==
    /\ UartTicks /\ svc.gen # 0
    /\ link' = IF OpValid(link, "service", svc.gen) THEN OpPolled(link, Response) ELSE link
    /\ svc' = IF link'.op.state = "flight" THEN svc
              ELSE [svc EXCEPT !.gen = 0, !.response = 0, !.torn = 0]
    /\ UNCHANGED <<script, peer, hist>>

(* A response waits for the turnaround of the line, then the write begins. *)
TickRespond ==
    /\ UartTicks /\ svc.gen = 0 /\ svc.response # 0
    /\ IF svc.wait = 1 THEN svc' = [svc EXCEPT !.wait = 0] /\ UNCHANGED link
       ELSE IF CanBegin(link, "service", "write")
         THEN link' = Begun(link, "write") /\ svc' = [svc EXCEPT !.gen = NextGen(link)]
         ELSE svc' = [svc EXCEPT !.response = 0] /\ UNCHANGED link
    /\ UNCHANGED <<script, peer, hist>>

TickRead ==
    /\ UartTicks /\ svc.gen = 0 /\ svc.response = 0 /\ svc.staged = <<>>
    /\ link' = AfterRead(link)
    /\ svc' = [svc EXCEPT !.staged = UartRead(link)]
    /\ UNCHANGED <<script, peer, hist>>

(* Mutant: the bytes behind a frame are parsed while its answer is pending. *)
MayFeedAlways == svc.gen = 0

MayFeed == svc.gen = 0 /\ svc.response = 0

(* The staged bytes go through the parser up to the end of a frame.  The     *)
(* response is built over the parser's buffer, so the rest stays staged.     *)
TickFeed(length) ==
    /\ UartTicks /\ MayFeed /\ svc.staged # <<>>
    /\ LET b == Head(svc.staged) IN
       /\ length \in Lengths(svc.parse, b)
       /\ svc' = [svc EXCEPT
                    !.staged = Tail(@),
                    !.torn = IF svc.response = 0 THEN 0 ELSE 1,
                    !.parse = IF Complete(@, b, length) THEN NoParse ELSE Feed(@, b, length),
                    !.response = IF Complete(svc.parse, b, length) THEN b.f ELSE @,
                    !.wait = IF Complete(svc.parse, b, length) THEN 1 ELSE @]
    /\ UNCHANGED <<link, script, peer, hist>>

(* The I2C target is polled; a reported loss configures it again. *)
TickTarget ==
    /\ Ticks /\ svc.transport = "i2c"
    /\ LET p == Polled(link.target)
           lost == p.result \in {"overflow", "limit"}
           polled == [link EXCEPT !.target = AfterPoll(@)]
           whole == p.result = "write" /\ \E f \in Frames : p.bytes = Tokens(f, FrameSize)
       IN  /\ p.result # "pending"
           /\ link' = IF lost THEN ServiceConfigured(polled, "i2c") ELSE polled
           /\ svc' = IF whole THEN [svc EXCEPT !.pc = "respond", !.request = p.bytes[1].f] ELSE svc
           /\ hist' = IF p.result = "write"
                        THEN [hist EXCEPT !.bad = IF link.target.owed # <<>>
                                                     /\ p.bytes = Tokens(Head(link.target.owed), FrameSize)
                                                    THEN @ ELSE 1]
                        ELSE hist
    /\ UNCHANGED <<script, peer>>

(* The response of the request just polled. *)
Respond ==
    /\ svc.pc = "respond"
    /\ link' = [link EXCEPT !.target = Preload(@, Tokens(svc.request, ResponseSize))]
    /\ svc' = [svc EXCEPT !.pc = "tick", !.request = 0]
    /\ UNCHANGED <<script, peer, hist>>

-----------------------------------------------------------------------------
(* The script bridge, on core 0: it claims the connector from the service,   *)
(* configures it, transfers, and gives it back when the run is over.         *)

(* binding_claim_external: external_link_service_suspend, then open. *)
ScriptClaims ==
    /\ svc.pc = "tick" /\ link.claimant # "script" /\ hist.faults < FaultMax
    /\ hist' = [hist EXCEPT !.faults = @ + 1]
    /\ LET l == IF svc.suspended = 1 THEN link ELSE Retired(Cancelled(link), "service", FALSE) IN
       IF CanOpen(l)
         THEN link' = Opened(l, "script") /\ svc' = [Idle(svc) EXCEPT !.open = 0, !.suspended = 1]
         ELSE link' = l /\ svc' = [Idle(svc) EXCEPT !.open = 0, !.suspended = 0]
    /\ UNCHANGED <<script, peer>>

(* binding_select_uart, binding_select_i2c *)
ScriptConfigures(mode) ==
    /\ svc.pc = "tick" /\ script.active = 0 /\ link.mode # mode
    /\ CanConfigure(link, "script", mode)
    /\ link' = Configured(link, mode)
    /\ UNCHANGED <<svc, script, peer, hist>>

(* binding_external_operation_start *)
ScriptBegins(kind) ==
    /\ svc.pc = "tick" /\ script.active = 0 /\ CanBegin(link, "script", kind)
    /\ link' = Begun(link, kind)
    /\ script' = [active |-> 1, gen |-> NextGen(link)]
    /\ UNCHANGED <<svc, peer, hist>>

(* binding_external_operation_progress: a poll, or a cancel when the call    *)
(* that asked for it has given up.                                           *)
ScriptPolls(cancel) ==
    /\ svc.pc = "tick" /\ script.active = 1 /\ OpValid(link, "script", script.gen)
    /\ link' = IF cancel THEN OpCancelled(link) ELSE OpPolled(link, Tokens(0, TxSize))
    /\ script' = IF link'.op.state = "terminal" THEN [active |-> 0, gen |-> 0] ELSE script
    /\ UNCHANGED <<svc, peer, hist>>

ScriptReads ==
    /\ svc.pc = "tick" /\ link.claimant = "script" /\ link.mode = "uart"
    /\ link.quarantined = 0
    /\ link' = AfterRead(link)
    /\ UNCHANGED <<svc, script, peer, hist>>

(* micropython_capability_bridge_cleanup: cancel, retire, resume. *)
ScriptEnds(expired) ==
    /\ svc.pc = "tick" /\ link.claimant = "script"
    /\ LET c == IF script.active = 1 /\ OpValid(link, "script", script.gen)
                  THEN OpCancelled(link) ELSE link
           l == Retired(c, "script", expired)
       IN  /\ link' = ServiceAcquired(l, svc.transport)
           /\ svc' = [svc EXCEPT !.suspended = 0, !.open = IF Acquires(l) THEN 1 ELSE 0]
    /\ script' = [active |-> 0, gen |-> 0]
    /\ UNCHANGED <<peer, hist>>

-----------------------------------------------------------------------------
(* The other end of the cable. *)

NextFrame == (peer.next % Cardinality(Frames)) + 1

Quiet ==
    /\ link.ring = <<>> /\ link.txFifo = <<>> /\ link.dropped = 0
    /\ svc.staged = <<>> /\ svc.response = 0 /\ svc.gen = 0

(* UART: a request, and another one when no answer came in time.  A peer     *)
(* that gives up too early is counted with the losses.                       *)
PeerAsks(early) ==
    /\ link.mode = "uart" /\ peer.wire = <<>> /\ peer.bus = "idle"
    /\ IF early THEN ~Quiet /\ hist.faults < FaultMax ELSE Quiet
    /\ peer' = [peer EXCEPT !.asks = peer.next, !.next = NextFrame, !.got = <<>>,
                            !.wire = Tokens(peer.next, Body)]
    /\ hist' = [hist EXCEPT !.faults = IF early THEN @ + 1 ELSE @]
    /\ UNCHANGED <<link, svc, script>>

(* A byte reaches the UART, or is lost on the line. *)
WireByte ==
    /\ peer.wire # <<>>
    /\ link' = UartByte(link, Head(peer.wire))
    /\ peer' = [peer EXCEPT !.wire = Tail(@)]
    /\ UNCHANGED <<svc, script, hist>>

WireLoses ==
    /\ peer.wire # <<>> /\ hist.faults < FaultMax
    /\ peer' = [peer EXCEPT !.wire = Tail(@)]
    /\ hist' = [hist EXCEPT !.faults = @ + 1]
    /\ UNCHANGED <<link, svc, script>>

(* The UART sends a byte; the peer collects the answer. *)
WireSends ==
    /\ link.uart = 1 /\ link.txFifo # <<>>
    /\ link' = [link EXCEPT !.txFifo = Tail(@)]
    /\ LET b == Head(link.txFifo)
           g == IF b = Token(peer.asks, Len(peer.got) + 1) THEN Append(peer.got, b) ELSE <<>>
           over == Len(g) = ResponseSize
       IN  /\ peer' = [peer EXCEPT !.got = IF over THEN <<>> ELSE g, !.asks = IF over THEN 0 ELSE @]
           /\ hist' = [hist EXCEPT !.done = IF over THEN 1 - @ ELSE @,
                                   !.torn = IF link.claimant = "service" /\ b = Fill THEN 1 ELSE @]
    /\ UNCHANGED <<svc, script>>

Heard == link.slave.on = 1 /\ link.slave.heard = 1

(* I2C: a transaction begins when the last STOP was served; the main loop    *)
(* may not have polled it yet.  A long write exceeds a frame, or the buffer. *)
Addresses ==
    /\ link.slave.on = 1 /\ link.slave.stop = 0 /\ peer.bus = "idle" /\ peer.wire = <<>>
    /\ link' = [link EXCEPT !.slave.heard = 1]
    /\ UNCHANGED <<svc, script, hist>>

MasterWrites(extra) ==
    /\ Addresses
    /\ peer' = [peer EXCEPT !.bus = "write", !.sent = 0, !.long = extra,
                            !.asks = peer.next, !.next = NextFrame]

MasterReads ==
    /\ Addresses
    /\ peer' = [peer EXCEPT !.bus = "read", !.read = <<>>, !.sent = 0]

MasterLength == FrameSize + peer.long

(* The interrupt keeps up with the bus: the FIFO does not run over. *)
MasterByte ==
    /\ peer.bus = "write" /\ peer.sent < MasterLength
    /\ Len(link.slave.fifo) < FifoDepth
    /\ peer' = [peer EXCEPT !.sent = @ + 1]
    /\ link' = IF Heard THEN [link EXCEPT !.slave.fifo = Append(@, Token(peer.asks, peer.sent + 1))]
               ELSE link
    /\ UNCHANGED <<svc, script, hist>>

(* A read request of the bus: the interrupt fetches the byte. *)
MasterFetches ==
    /\ peer.bus = "read" /\ Len(peer.read) < ReadMax
    /\ peer' = [peer EXCEPT !.read = Append(@, IF Heard THEN Transmitted(link.target) ELSE Fill)]
    /\ link' = IF Heard THEN [link EXCEPT !.target = Transmit(@)] ELSE link
    /\ UNCHANGED <<svc, script, hist>>

MasterStops ==
    /\ \/ peer.bus = "write" /\ peer.sent = MasterLength
       \/ peer.bus = "read" /\ Len(peer.read) = ReadMax
    /\ peer' = [peer EXCEPT !.bus = "idle", !.read = <<>>, !.long = 0]
    /\ link' = IF Heard THEN [link EXCEPT !.slave.stop = 1, !.slave.heard = 0] ELSE link
    /\ UNCHANGED <<svc, script, hist>>

(* The target's interrupt: one byte of the FIFO at a time, except that STOP  *)
(* first drains what is left (i2c_event).                                    *)
DrainTo(t, bytes) ==
    LET next[n \in 0 .. Len(bytes)] == IF n = 0 THEN t ELSE Receive(next[n - 1], bytes[n])
    IN  next[Len(bytes)]

Owed(t) == IF t.overflow = 1 \/ peer.sent = 0 THEN t ELSE [t EXCEPT !.owed = Append(@, peer.asks)]

TargetIrq ==
    /\ link.slave.on = 1 /\ (link.slave.fifo # <<>> \/ link.slave.stop = 1)
    /\ IF link.slave.stop = 1
         THEN /\ link' = [link EXCEPT !.target = Owed(Stop(DrainTo(@, link.slave.fifo))),
                                      !.slave.fifo = <<>>, !.slave.stop = 0]
              /\ peer' = [peer EXCEPT !.sent = 0, !.asks = 0]
         ELSE /\ link' = [link EXCEPT !.target = Receive(@, Head(link.slave.fifo)),
                                      !.slave.fifo = Tail(@)]
              /\ UNCHANGED peer
    /\ UNCHANGED <<svc, script, hist>>

-----------------------------------------------------------------------------
Hardware == (ControllerRuns \/ ControllerIrq \/ ControllerAborts)
            /\ UNCHANGED <<svc, script, peer, hist>>

(* A deadline passes; that of a response, a second, with the losses. *)
Late ==
    /\ DeadlinePasses
    /\ link.claimant = "service" => hist.faults < FaultMax
    /\ hist' = [hist EXCEPT !.faults = IF link.claimant = "service" THEN @ + 1 ELSE @]
    /\ UNCHANGED <<svc, script, peer>>

Service ==
    \/ Acquire \/ TickPoll \/ TickRespond \/ TickRead \/ Respond
    \/ \E length \in 0 .. FrameMax + 1 : TickFeed(length)

Cable == PeerAsks(FALSE) \/ WireByte \/ WireSends
         \/ MasterByte \/ MasterFetches \/ MasterStops

LinkNext ==
    \/ Service \/ TickTarget \/ Cable \/ TargetIrq \/ Hardware \/ Late
    \/ \E transport \in {"uart", "i2c"} : SetTransport(transport)
    \/ SetBaud
    \/ ScriptClaims \/ ScriptReads
    \/ \E mode \in Features["script"] : ScriptConfigures(mode)
    \/ \E kind \in {"write", "transfer"} : ScriptBegins(kind)
    \/ \E b \in BOOLEAN : ScriptPolls(b) \/ ScriptEnds(b)
    \/ PeerAsks(TRUE) \/ WireLoses
    \/ \E extra \in 0 .. BufferMax - FrameSize + 1 : MasterWrites(extra)
    \/ MasterReads

(* The main loop ticks the UART's service, the peer goes on asking and ends its *)
(* transactions, and the line moves its bytes.                               *)
Fairness == WF_linkVars(Service) /\ WF_linkVars(Cable)

LinkSpec == LinkInit /\ [][LinkNext]_linkVars /\ Fairness

-----------------------------------------------------------------------------
(* Properties. *)

(* Nothing an earlier owner or an earlier operation started is still at work *)
(* (external_link_adapter.c stop_mode, latch_terminal): a controller whose   *)
(* interrupt may write a caller's buffer belongs to the operation in flight, *)
(* a receiver that may call back belongs to the mode of the session that     *)
(* holds the connector, and the bytes of a response are never taken from a   *)
(* buffer the parser has begun to fill again.                                *)
NoLateEffect ==
    /\ link.controller.active = 1 =>
         /\ link.claimant = "script" /\ link.mode = "controller"
         /\ link.op.state = "flight" /\ link.op.gen = link.controller.gen
    /\ link.uart = 1 => link.mode = "uart"
    /\ link.slave.on = 1 => link.mode = "target" /\ link.claimant = "service"
    /\ link.claimant = NoUser => link.mode = "off" /\ link.op = NoOp
    /\ hist.torn = 0

(* A write event is the whole of the oldest transaction of the master that   *)
(* was neither delivered nor reported lost (target_receive, target_poll,     *)
(* target_preload): bytes of two transactions never mix and none vanishes    *)
(* without HK_ERR_OVERFLOW.  What the master reads in one transaction is the *)
(* beginning of one response, then the fill byte (target_transmit), whatever *)
(* response is preloaded and whatever is reconfigured while it reads.        *)
TransfersWhole ==
    /\ hist.bad = 0
    /\ peer.bus = "read" =>
         \E f \in Frames, n \in 0 .. ResponseSize :
           \A i \in DOMAIN peer.read : peer.read[i] = IF i <= n THEN Token(f, i) ELSE Fill

(* While the service holds the line as a UART, the peer is answered again    *)
(* and again: after lost bytes, dropped bytes and cancelled writes the       *)
(* parser finds the next frame (hk_link_stream_feed) and the write ends.     *)
RequestsAnswered ==
    <>[](link.mode = "uart" /\ link.claimant = "service")
      => []<>(hist.done = 0) /\ []<>(hist.done = 1)

=============================================================================
