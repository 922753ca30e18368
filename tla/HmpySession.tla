---------------------------- MODULE HmpySession ----------------------------
(***************************************************************************)
(* The HMPY session (services/hmpy_session.c) over the program store: the  *)
(* frames of the host, the answers, the streaming read, the lease, and the *)
(* other users of the store on core 0 (the MicroPython app and the power-  *)
(* off sequence), which run between two ticks of the session.  The codec   *)
(* drops damaged frames, so a frame or an answer may be lost and the host  *)
(* may send the same request again; a frame is any request at any time.    *)
(***************************************************************************)
EXTENDS UserFs

VARIABLES
    session,            \* g_session.active
    upload,             \* g_session.upload_id
    lastOffset, lastData, \* the chunk that was written last
    readName, readOffset, readEnd,  \* readName = NoName: no read is active
    frame,              \* the request whose store operation is running
    host,               \* the host still sends ("up") or not ("gone")
    reply, nextOffset,  \* what the last step sent: nothing, "ok", "error", a
                        \* chunk of "data", or the "ack" of a chunk
    readFrom            \* history: the file when its READ was accepted

readVars == <<readName, readOffset, readEnd, readFrom>>
chunkVars == <<upload, lastOffset, lastData>>
sessionVars == <<session, chunkVars, readVars, frame, host, reply, nextOffset>>
allVars == <<vars, sessionVars>>

Requests == {"none", "HELLO", "COMMIT", "DELETE", "SET_STARTUP", "FORMAT",
             "RUN", "START", "OTHER"}

(* The type of every variable of the session. *)
SessionTypeOK ==
    /\ TypeOK
    /\ session \in {0, 1} /\ upload \in 0..MaxId
    /\ lastOffset \in 0..MaxSize /\ lastData \in Contents
    /\ readName \in Names \cup {NoName} /\ readFrom \in Contents
    /\ readOffset \in 0..MaxSize /\ readEnd \in 0..MaxSize
    /\ readOffset <= readEnd
    /\ frame \in Requests /\ host \in {"up", "gone"}
    /\ reply \in {"none", "ok", "error", "data", "ack"}
    /\ nextOffset \in 0..MaxSize + 1

SessionInit ==
    /\ Init
    /\ session = 0 /\ upload = 0 /\ lastOffset = 0 /\ lastData = <<>>
    /\ readName = NoName /\ readOffset = 0 /\ readEnd = 0 /\ readFrom = <<>>
    /\ frame = "none" /\ host = "up" /\ reply = "none"
    /\ nextOffset = 0

NoRead == readName' = NoName /\ readOffset' = 0 /\ readEnd' = 0 /\ readFrom' = <<>>

(* Core 0 is at a tick of the session. *)
AtTick == session = 1 /\ frame = "none" /\ Idle

(* Mutant: any request is served while a read streams. *)
ReceiveAlways == AtTick /\ host = "up"

(* A frame is decoded; while a read streams only PING, STOP, STATUS and *)
(* SESSION_CLOSE are served.                                            *)
Receive == AtTick /\ host = "up" /\ readName = NoName

Send(a, n) == reply' = a /\ nextOffset' = n

Answer(a) == Send(a, 0) /\ UNCHANGED <<session, readVars, host>>

Acknowledge(n) == Send("ack", n) /\ UNCHANGED <<session, readVars, host>>

-----------------------------------------------------------------------------
(* Entering and leaving framed mode *)

(* HKMPROTO 1: the session state is cleared and the volume mounted. *)
SessionBegin ==
    /\ session = 0 /\ frame = "none" /\ Idle
    /\ session' = 1 /\ host' = "up"
    /\ upload' = 0 /\ lastOffset' = 0 /\ lastData' = <<>> /\ NoRead
    /\ frame' = "START" /\ Send("none", 0)
    /\ UNCHANGED vars

(* Mutant: the upload is left to the store when the session ends. *)
FinishForgets ==
    /\ UNCHANGED vars
    /\ session' = 0 /\ upload' = 0 /\ UNCHANGED <<lastOffset, lastData>>
    /\ NoRead

Finish ==
    /\ \/ upload # 0 /\ upload = uploadId /\ UploadAbort(upload)
       \/ upload # 0 /\ upload # uploadId /\ Refuse("INVALID")
       \/ upload = 0 /\ UNCHANGED vars
    /\ session' = 0 /\ upload' = 0 /\ UNCHANGED <<lastOffset, lastData>>
    /\ NoRead

SessionClose ==
    /\ AtTick /\ host = "up" /\ Finish
    /\ Send("ok", 0) /\ UNCHANGED <<frame, host>>

(* Mutant: an open upload keeps the lease alive. *)
LeaseExpiresIdle ==
    /\ AtTick /\ upload = 0 /\ Finish
    /\ Send("none", 0) /\ UNCHANGED <<frame, host>>

LeaseExpires ==
    /\ AtTick /\ Finish
    /\ Send("none", 0) /\ UNCHANGED <<frame, host>>

HostGone ==
    /\ session = 1 /\ host = "up" /\ host' = "gone" /\ Send("none", 0)
    /\ UNCHANGED <<vars, session, chunkVars, readVars, frame>>

(* PING, STOP and STATUS, and requests refused for their payload or because a *)
(* read streams, leave the store and the session as they are.                 *)
HandleOther ==
    /\ AtTick /\ host = "up"
    /\ UNCHANGED <<vars, chunkVars, frame>>
    /\ \E a \in {"ok", "error"} : Answer(a)

(* LIST, STAT and a READ of a file or an offset that is not there. *)
HandleQuery ==
    /\ Receive
    /\ \/ \E r \in {"OK", "NOT_FOUND", "IO"} :
            Query(r) /\ Answer(IF r = "OK" THEN "ok" ELSE "error")
       \/ \E r \in {"BUSY", "NOT_MOUNTED"} : Refuse(r) /\ Answer("error")
    /\ UNCHANGED <<chunkVars, frame>>

-----------------------------------------------------------------------------
(* Reading a file, one chunk a tick *)

HandleRead(n, at, k) ==
    /\ Receive /\ state = "MOUNTED" /\ files[n] # NoFile /\ at <= Len(files[n])
    /\ readName' = n /\ readOffset' = at /\ readFrom' = files[n]
    /\ readEnd' = IF k = 0 \/ at + k > Len(files[n]) THEN Len(files[n]) ELSE at + k
    /\ lastError' = "OK" /\ Send("none", 0)
    /\ UNCHANGED <<disk, uploadVars, state, nextId, remount, device, op, arg, session,
                   chunkVars, frame, host>>

(* What userfs_read returns for a file. *)
ReadResult(n) ==
    IF state # "MOUNTED" THEN "NOT_MOUNTED"
    ELSE IF active = 1 THEN "BUSY"
    ELSE IF files[n] = NoFile THEN "NOT_FOUND" ELSE "OK"

(* The next chunk of the file is sent; a failed or short read ends the stream. *)
PumpRead ==
    /\ AtTick /\ readName # NoName
    /\ \E r \in Results :
        /\ \/ r = ReadResult(readName) /\ UNCHANGED device
           \/ r = "IO" /\ state = "MOUNTED" /\ FlashFails
        /\ lastError' = r
        /\ IF r = "OK" /\ (readOffset < readEnd => readOffset < Len(files[readName]))
             THEN /\ Send("data", 0)
                  /\ IF readOffset + 1 < readEnd
                       THEN /\ readOffset' = readOffset + 1
                            /\ UNCHANGED <<readName, readEnd, readFrom>>
                       ELSE NoRead
             ELSE Send("error", 0) /\ NoRead
    /\ UNCHANGED <<disk, uploadVars, state, nextId, remount, op, arg, session,
                   chunkVars, frame, host>>

-----------------------------------------------------------------------------
(* Uploading *)

(* Mutant: the chunk of the last upload is not forgotten. *)
HandleBeginStale(n, c) ==
    /\ Receive /\ UploadBegin(n, c)
    /\ upload' = NextId /\ Answer("ok")
    /\ UNCHANGED <<lastOffset, lastData, frame>>

HandleBegin(n, c) ==
    /\ Receive /\ UploadBegin(n, c)
    /\ upload' = NextId /\ lastData' = <<>> /\ Answer("ok")
    /\ UNCHANGED <<lastOffset, frame>>

HandleBeginFails ==
    /\ Receive
    /\ Refuse("BUSY") \/ Refuse("NOT_MOUNTED") \/ UploadBeginFails
    /\ Answer("error") /\ UNCHANGED <<chunkVars, frame>>

Repeated(at, d) == lastOffset = at /\ lastData = d

HandleRepeated(id, at, d) ==
    /\ Receive /\ id # 0 /\ id = upload /\ Repeated(at, d)
    /\ Acknowledge(at + Len(d)) /\ UNCHANGED <<vars, chunkVars, frame>>

HandleChunk(id, at, d) ==
    /\ Receive /\ id # 0 /\ id = upload /\ ~Repeated(at, d)
    /\ UploadWrite(id, at, d) \/ (UploadWriteClosed(id, at, d) /\ Idle')
    /\ lastOffset' = at /\ lastData' = d
    /\ Acknowledge(at + Len(d)) /\ UNCHANGED <<upload, frame>>

HandleChunkRefused(id, at, d) ==
    /\ Receive
    /\ \/ (id = 0 \/ id # upload) /\ UNCHANGED vars
       \/ id # 0 /\ id = upload /\ ~Repeated(at, d) /\ UploadWriteRefused(id, at, d)
       \/ id # 0 /\ id = upload /\ ~Repeated(at, d) /\ UploadWriteFails(id, at, d)
       \/ id # 0 /\ id = upload /\ ~Repeated(at, d) /\ UploadWriteClosed(id, at, d) /\ ~Idle'
    /\ Answer(IF Idle' THEN "error" ELSE "none") /\ UNCHANGED <<chunkVars, frame>>

HandleCommit(id) ==
    /\ Receive /\ id # 0 /\ id = upload
    /\ UploadCommit(id) \/ CommitRefused(id)
    /\ frame' = "COMMIT" /\ Answer("none") /\ UNCHANGED chunkVars

HandleAbort(id) ==
    /\ Receive /\ id # 0 /\ id = upload
    /\ \/ UploadAbort(id) /\ upload' = 0 /\ lastData' = <<>> /\ Answer("ok")
          /\ UNCHANGED lastOffset
       \/ (active = 0 \/ id # uploadId) /\ Refuse("INVALID") /\ Answer("error")
          /\ UNCHANGED chunkVars
    /\ UNCHANGED frame

-----------------------------------------------------------------------------
(* Requests whose store operation takes several steps *)

(* userfs_mount, as HELLO, the program loader and a new session call it. *)
MountCall ==
    \/ MountAgain
    \/ Idle /\ Mount
    \/ Idle /\ \E s \in States, r \in Results : MountFails(s, r)

HandleHello ==
    /\ Receive /\ MountCall /\ frame' = "HELLO" /\ Answer("none")
    /\ UNCHANGED chunkVars

SessionMounts ==
    /\ frame = "START" /\ MountCall /\ frame' = "OTHER" /\ Answer("none")
    /\ UNCHANGED chunkVars

(* RUN mounts the volume before it looks for the program. *)
HandleRun ==
    /\ Receive /\ MountCall /\ frame' = "RUN" /\ Answer("none")
    /\ UNCHANGED chunkVars

(* What is left in the store's last error by a program that is looked up and *)
(* read whole; n is the name that was sent, or that of the startup program.   *)
(* An empty program is refused before it is read.                             *)
ProgramResult(n) ==
    IF n = NoName \/ files[n] = NoFile THEN "NOT_FOUND"
    ELSE IF files[n] = <<>> THEN "OK" ELSE ReadResult(n)

(* The volume is mounted, and the program handed to the runtime, which may be *)
(* occupied; or the mount, the look-up or the read has failed.                *)
RunReturns ==
    /\ frame = "RUN" /\ Idle /\ frame' = "none"
    /\ \/ lastError # "OK" /\ UNCHANGED <<lastError, device>> /\ Answer("error")
       \/ /\ lastError = "OK"
          /\ \E n \in Names \cup {startup}, r \in Results :
                /\ \/ r = ProgramResult(n) /\ UNCHANGED device
                   \/ r = "IO" /\ FlashFails
                /\ lastError' = r
                /\ \/ Answer("error")
                   \/ r = "OK" /\ files[n] # <<>> /\ Answer("ok")
    /\ UNCHANGED <<disk, uploadVars, state, nextId, remount, op, arg, chunkVars>>

HandleDelete(n) ==
    /\ Receive /\ Remove(n) /\ frame' = "DELETE" /\ Answer("none")
    /\ UNCHANGED chunkVars

HandleSetStartup(n) ==
    /\ Receive /\ (SetStartup(n) \/ ClearStartup)
    /\ frame' = "SET_STARTUP" /\ Answer("none") /\ UNCHANGED chunkVars

(* FORMAT is refused while the session has an upload. *)
HandleFormat ==
    /\ Receive /\ upload = 0 /\ FormatCall /\ frame' = "FORMAT"
    /\ Answer("none") /\ UNCHANGED chunkVars

(* The store has answered and the handler sends its response; a commit that *)
(* went through ends the upload of the session, a failed one keeps it.      *)
HandlerReturns ==
    /\ frame \notin {"none", "START", "RUN"} /\ Idle
    /\ IF frame = "COMMIT" /\ lastError = "OK"
         THEN upload' = 0 /\ lastData' = <<>> /\ UNCHANGED lastOffset
         ELSE UNCHANGED chunkVars
    /\ frame' = "none"
    /\ Answer(IF frame = "OTHER" THEN "none"
              ELSE IF frame = "HELLO" \/ lastError = "OK" THEN "ok" ELSE "error")
    /\ UNCHANGED vars

-----------------------------------------------------------------------------
(* The other users of the store, between two ticks: the app deletes a file or *)
(* selects the startup program, the power-off sequence unmounts and restores, *)
(* the line console formats when no session is active.                        *)
OtherCall ==
    /\ frame = "none" /\ frame' = "OTHER"
    /\ \/ \E n \in Names : Remove(n) \/ SetStartup(n)
       \/ ShutdownPrepare \/ ShutdownRestore
       \/ session = 0 /\ FormatCall
       \/ session = 0 /\ MountCall
    /\ Answer("none") /\ UNCHANGED chunkVars

StoreStep == FsStep /\ Answer("none") /\ UNCHANGED <<chunkVars, frame>>

Reboot ==
    /\ PowerLoss
    /\ session' = 0 /\ upload' = 0 /\ lastOffset' = 0 /\ lastData' = <<>>
    /\ NoRead /\ frame' = "none" /\ host' = "up" /\ Send("none", 0)

(* A frame carries one chunk, or an UPLOAD_CHUNK with no bytes. *)
SessionChunks == UNION {[1..k -> Data] : k \in 0..1}

HostRequest ==
    \/ SessionClose \/ HandleOther \/ HandleQuery \/ HandleHello \/ HandleRun
    \/ HandleFormat
    \/ HandleBeginFails
    \/ \E n \in Names : HandleDelete(n) \/ HandleSetStartup(n)
    \/ \E n \in Names, at \in 0..MaxSize, k \in 0..MaxSize : HandleRead(n, at, k)
    \/ \E n \in Names, c \in Files : HandleBegin(n, c)
    \/ \E id \in 0..MaxId :
         \/ HandleCommit(id) \/ HandleAbort(id)
         \/ \E at \in 0..MaxSize, d \in SessionChunks :
              \/ HandleRepeated(id, at, d) \/ HandleChunk(id, at, d)
              \/ HandleChunkRefused(id, at, d)

(* What core 0 does by itself. *)
Progress ==
    SessionMounts \/ StoreStep \/ HandlerReturns \/ RunReturns \/ PumpRead

SessionNext ==
    \/ SessionBegin \/ HostRequest \/ Progress \/ LeaseExpires \/ HostGone
    \/ OtherCall \/ Reboot

SessionSpec == SessionInit /\ [][SessionNext]_allVars

(* Core 0 goes on with what it is doing.  The main loop gives the session a  *)
(* tick in every round, whatever the app does in the same round, and a tick  *)
(* after ten silent seconds finds the lease expired: hence strong fairness.  *)
FairSessionSpec ==
    /\ SessionSpec
    /\ WF_allVars(Progress)
    /\ SF_allVars(host = "gone" /\ LeaseExpires)

-----------------------------------------------------------------------------
(* Between two requests the session and the store agree on the upload: the   *)
(* store has one only while a session holds its id, so an upload can never    *)
(* be left behind to keep the store busy.                                    *)
UploadOwned ==
    frame = "none" /\ Idle /\ active = 1 => session = 1 /\ upload = uploadId

(* A chunk with bytes is acknowledged with the offset the store has reached,  *)
(* for a new chunk and for the repetition of the last one alike: hmpy_handle_- *)
(* upload_chunk acknowledges no bytes the upload does not have.  (An upload    *)
(* that the power-off sequence has discarded is the store's no longer.  A      *)
(* chunk without bytes at the offset the previous upload has ended on passes   *)
(* for a repetition and is acknowledged with that offset.)                     *)
AckMeansStored ==
    reply = "ack" /\ upload = uploadId => nextOffset = offset \/ lastData = <<>>

(* Every chunk of a READ comes from the version of the file its first chunk   *)
(* came from, although the app may delete the file between two ticks.         *)
ReadConsistent ==
    [][readName # NoName /\ reply' = "data" => files[readName] = readFrom]_allVars

(* A host that disappears does not keep the console or the store: the lease   *)
(* ends its session, and with it its upload, unless a repeated commit has     *)
(* stopped the firmware.                                                      *)
LeaseEnds ==
    host = "gone" ~> ((session = 0 /\ (active = 0 \/ ~Idle)) \/ host = "up" \/ op = "halted")

=============================================================================
