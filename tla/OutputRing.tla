----------------------------- MODULE OutputRing -----------------------------
(***************************************************************************)
(* The stdout ring of the MicroPython runtime (micropython_runtime.c): the  *)
(* VM on core 1 writes, the app and the HMPY session on core 0 read with    *)
(* cursors of their own.  A byte is modelled by its position in the stream, *)
(* and every access to a shared word or cell is a step of its own.          *)
(***************************************************************************)
EXTENDS Naturals

CONSTANTS
    Bytes,      \* MICROPYTHON_OUTPUT_BYTES
    Capacity,   \* bytes a reader takes at once
    MaxStream,  \* bound: bytes of one run
    MaxRuns     \* bound: runs

ASSUME RingAssumption ==
    /\ Bytes \in Nat \ {0} /\ Capacity \in Nat \ {0}
    /\ MaxStream \in Nat \ {0} /\ MaxRuns \in Nat

Readers == {"app", "session"}

VARIABLES
    cells,      \* output[]: the position of the byte each cell holds
    write,      \* output_write
    dropped,    \* output_dropped
    cursor,     \* output_read of the app, output_cursor of the session
    pos, end,   \* the writer's local index and the end of its call
    run,        \* run_id
    seenRun,    \* last_run_id of the session
    who,        \* the reader that is copying, or "none"
    from, count, copied, \* its locals: first position, bytes, bytes copied
    lost, got,  \* history: bytes reported lost, and delivered, to each reader
    torn        \* history: the last copy delivered a byte of another position

writer == <<cells, write, dropped, pos, end>>
reader == <<cursor, who, from, count, copied, lost, got, torn>>
ringVars == <<writer, reader, run, seenRun>>

(* The type of every variable. *)
RingTypeOK ==
    /\ cells \in [0..Bytes - 1 -> 0..MaxStream - 1]
    /\ write \in 0..MaxStream /\ dropped \in 0..MaxStream
    /\ pos \in 0..MaxStream /\ end \in 0..MaxStream
    /\ cursor \in [Readers -> 0..MaxStream]
    /\ lost \in [Readers -> 0..MaxStream] /\ got \in [Readers -> 0..MaxStream]
    /\ run \in 0..MaxRuns /\ seenRun \in 0..MaxRuns
    /\ who \in Readers \cup {"none"}
    /\ from \in 0..MaxStream /\ count \in 0..Capacity /\ copied \in 0..Capacity
    /\ torn \in {0, 1}

RingInit ==
    /\ cells = [c \in 0..Bytes - 1 |-> 0] /\ write = 0 /\ dropped = 0
    /\ pos = 0 /\ end = 0 /\ run = 0 /\ seenRun = 0
    /\ cursor = [r \in Readers |-> 0] /\ who = "none"
    /\ from = 0 /\ count = 0 /\ copied = 0
    /\ lost = [r \in Readers |-> 0] /\ got = [r \in Readers |-> 0] /\ torn = 0

-----------------------------------------------------------------------------
(* Core 1 *)

WriterIdle == pos = write /\ end = write

WriteCall(k) ==
    /\ run > 0 /\ WriterIdle /\ k > 0 /\ write + k <= MaxStream
    /\ end' = write + k
    /\ UNCHANGED <<cells, write, dropped, pos, reader, run, seenRun>>

WriteCell ==
    /\ pos < end
    /\ dropped' = IF pos - cursor["app"] >= Bytes THEN dropped + 1 ELSE dropped
    /\ cells' = [cells EXCEPT ![pos % Bytes] = pos]
    /\ pos' = pos + 1
    /\ UNCHANGED <<write, end, reader, run, seenRun>>

WritePublish ==
    /\ pos = end /\ write # end /\ write' = end
    /\ UNCHANGED <<cells, dropped, pos, end, reader, run, seenRun>>

-----------------------------------------------------------------------------
(* Core 0 *)

(* An accepted start empties the ring; the VM is not running. *)
StartRun ==
    /\ run < MaxRuns /\ WriterIdle /\ who = "none"
    /\ run' = run + 1 /\ write' = 0 /\ dropped' = 0 /\ pos' = 0 /\ end' = 0
    /\ cursor' = [cursor EXCEPT !["app"] = 0]
    /\ lost' = [lost EXCEPT !["app"] = 0] /\ got' = [got EXCEPT !["app"] = 0]
    /\ UNCHANGED <<cells, seenRun, who, from, count, copied, torn>>

(* Mutant: the run id is not compared, so that a second run that ends in the *)
(* state of the first between two ticks is not noticed.                      *)
SessionSeesFirst ==
    /\ who = "none" /\ seenRun = 0 /\ run # 0 /\ seenRun' = run
    /\ cursor' = [cursor EXCEPT !["session"] = 0]
    /\ lost' = [lost EXCEPT !["session"] = 0] /\ got' = [got EXCEPT !["session"] = 0]
    /\ UNCHANGED <<writer, run, who, from, count, copied, torn>>

(* hmpy_pump_runtime_state finds the run new and reports it; the output is *)
(* pumped in a later tick.                                                 *)
SessionSeesRun ==
    /\ who = "none" /\ seenRun # run /\ seenRun' = run
    /\ cursor' = [cursor EXCEPT !["session"] = 0]
    /\ lost' = [lost EXCEPT !["session"] = 0] /\ got' = [got EXCEPT !["session"] = 0]
    /\ UNCHANGED <<writer, run, who, from, count, copied, torn>>

Oldest == IF write > Bytes THEN write - Bytes ELSE 0

Least(a, b) == IF a < b THEN a ELSE b

(* The first byte to copy: what was overwritten is skipped, and a cursor past *)
(* the end comes back to it.                                                  *)
First(r) ==
    IF cursor[r] < Oldest THEN Oldest
    ELSE IF write < cursor[r] THEN write ELSE cursor[r]

LostSilently(r) == 0    \* Mutant: the skipped bytes are not reported

LostBytes(r) == IF cursor[r] < Oldest THEN Oldest - cursor[r] ELSE 0

(* The write index is read once; the cells are copied afterwards. *)
ReadCall(r) ==
    /\ who = "none" /\ (r = "session" => seenRun = run)
    /\ First(r) < write \/ LostBytes(r) > 0
    /\ who' = r /\ from' = First(r) /\ copied' = 0 /\ torn' = 0
    /\ count' = Least(write - First(r), Capacity)
    /\ lost' = [lost EXCEPT ![r] = @ + LostBytes(r)]
    /\ UNCHANGED <<writer, cursor, got, run, seenRun>>

(* Mutant: the copy starts at the cursor and not at the first byte kept. *)
ReadCellAtCursor ==
    /\ who # "none" /\ copied < count
    /\ copied' = copied + 1
    /\ torn' = IF cells[(cursor[who] + copied) % Bytes] = from + copied THEN torn ELSE 1
    /\ UNCHANGED <<writer, cursor, who, from, count, lost, got, run, seenRun>>

ReadCell ==
    /\ who # "none" /\ copied < count
    /\ copied' = copied + 1
    /\ torn' = IF cells[(from + copied) % Bytes] = from + copied THEN torn ELSE 1
    /\ UNCHANGED <<writer, cursor, who, from, count, lost, got, run, seenRun>>

ReadReturns ==
    /\ who # "none" /\ copied = count
    /\ cursor' = [cursor EXCEPT ![who] = from + count]
    /\ got' = [got EXCEPT ![who] = @ + count]
    /\ who' = "none" /\ from' = 0 /\ count' = 0 /\ copied' = 0
    /\ UNCHANGED <<writer, lost, torn, run, seenRun>>

Write == (\E k \in 1..MaxStream : WriteCall(k)) \/ WriteCell \/ WritePublish

Read == (\E r \in Readers : ReadCall(r)) \/ ReadCell \/ ReadReturns

(* The bounds are reached: no more is written. *)
Rest == run = MaxRuns /\ write = MaxStream /\ UNCHANGED ringVars

RingNext == Write \/ Read \/ StartRun \/ SessionSeesRun \/ Rest

RingSpec == RingInit /\ [][RingNext]_ringVars

(* Core 1 finishes a call it has begun.  The main loop gives the app and the *)
(* session a tick in every round.                                            *)
FairRingSpec ==
    /\ RingSpec
    /\ WF_ringVars(WriteCell \/ WritePublish)
    /\ WF_ringVars(ReadCell \/ ReadReturns) /\ WF_ringVars(SessionSeesRun)
    /\ \A r \in Readers : SF_ringVars(ReadCall(r))

-----------------------------------------------------------------------------
(* Output never disappears silently: what a reader has been given and what it *)
(* skipped add up to its place in the stream of the run.  The session is told *)
(* what it skipped by the call; the app reads without that argument, and what *)
(* it skipped is in the output_dropped it shows.                              *)
NothingSilent ==
    /\ \A r \in Readers :
         who # r /\ (r = "session" => seenRun = run) => got[r] + lost[r] = cursor[r]
    /\ lost["app"] <= dropped

(* While the writer, finished or not, stays within one ring of the first byte *)
(* a reader copies, the reader gets exactly the bytes of that place.          *)
CopyExact == who # "none" /\ pos <= from + Bytes => torn = 0

(* Every reader catches up: the end of the stream as it is now is delivered   *)
(* or reported lost, or the next run begins.                                  *)
ReaderCatchesUp ==
    \A r \in Readers, n \in 1..MaxStream, k \in 1..MaxRuns :
        (write = n /\ run = k) ~>
            (run # k \/ (got[r] + lost[r] >= n /\ (r = "session" => seenRun = k)))

=============================================================================
