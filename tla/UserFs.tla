------------------------------- MODULE UserFs -------------------------------
(***************************************************************************)
(* The store of user programs on the internal flash (storage/userfs.c): a  *)
(* flat littlefs volume with hidden temporaries for an upload and for the  *)
(* startup selection.  Every operation is a chain of littlefs calls on core *)
(* 0, and power may be lost between any two of them.  littlefs itself is   *)
(* external: a create, remove, rename or sync is one atomic change of the   *)
(* disk, and data written to an open file reaches the disk at the sync.     *)
(***************************************************************************)
EXTENDS Naturals, Sequences

CONSTANTS
    Names,      \* valid program names
    NoName,     \* no name (an empty .startup, no target)
    Data,       \* the contents of one chunk of a file
    NoFile,     \* the entry does not exist
    MaxSize,    \* bound: chunks in a file (USERFS_FILE_MAX)
    MaxId,      \* bound: upload ids before g_next_upload_id wraps
    Faults      \* what may fail: "flash" (an access times out), "space" (a write
                \* finds no room or no good block)

ASSUME NamesAssumption == NoName \notin Names
ASSUME FileAssumption == NoFile \notin Seq(Data)
ASSUME BoundsAssumption == MaxSize \in Nat \ {0} /\ MaxId \in Nat \ {0}

VARIABLES
    \* on flash
    flash,      \* "good", or "small": the capacity does not fit the layout
    media,      \* "blank", "formatted" or "corrupt"
    files,      \* program files
    startup,    \* the name held by .startup
    metaTemp,   \* .meta-upload exists
    temporary,  \* .upload-<id> files
    \* in RAM
    state,      \* g_state
    lastError,  \* g_last_error: the result of the last operation
    active, fileOpen, uploadId, expected, offset, target, \* g_upload
    content,    \* what has been written to the open temporary
    nextId,     \* g_next_upload_id
    remount,    \* s_remount of power_shutdown.c
    device,     \* g_boot_flash_info: "off" (not initialized), "ready", "faulted"
    op, arg,    \* the next littlefs call of the running operation
    published   \* history: what the uploader declared for each file

disk == <<flash, media, files, startup, metaTemp, temporary, published>>
uploadVars == <<active, fileOpen, uploadId, expected, offset, target, content>>
ram == <<uploadVars, state, lastError, nextId, remount, device, op, arg>>
vars == <<disk, ram>>

Ids == 1..MaxId
Contents == Seq(Data)
States == {"UNINITIALIZED", "UNSUPPORTED", "UNFORMATTED", "CORRUPT",
           "IO_ERROR", "MOUNTED"}
Results == {"OK", "INVALID", "NOT_MOUNTED", "UNSUPPORTED", "UNFORMATTED",
            "CORRUPT", "IO", "NOT_FOUND", "BUSY", "OUT_OF_ORDER", "SIZE", "CRC"}
Ops == {"none", "cleanup", "format", "mount", "removeSelection", "removeFile",
        "commitSync", "commitVerify", "commitRename", "metaWrite",
        "metaRename", "halted"}

NextId == IF nextId = MaxId THEN 1 ELSE nextId + 1

(* The type of every variable. *)
TypeOK ==
    /\ flash \in {"good", "small"} /\ media \in {"blank", "formatted", "corrupt"}
    /\ files \in [Names -> Contents \cup {NoFile}]
    /\ published \in [Names -> Contents \cup {NoFile}]
    /\ startup \in Names \cup {NoName} /\ metaTemp \in {0, 1}
    /\ temporary \in [Ids -> Contents \cup {NoFile}]
    /\ state \in States /\ lastError \in Results
    /\ active \in {0, 1} /\ fileOpen \in {0, 1} /\ remount \in {0, 1}
    /\ uploadId \in 0..MaxId /\ nextId \in 0..MaxId
    /\ expected \in Contents /\ content \in Contents /\ offset \in Nat
    /\ target \in Names \cup {NoName} /\ arg \in Names \cup {NoName}
    /\ device \in {"off", "ready", "faulted"}
    /\ op \in Ops /\ (active = 1 => uploadId \in Ids)

Empty == [n \in Names |-> NoFile]
NoTemporaries == [i \in Ids |-> NoFile]

Idle == op = "none"

Return(r) == op' = "none" /\ lastError' = r

ClearUpload ==
    /\ active' = 0 /\ fileOpen' = 0 /\ uploadId' = 0 /\ offset' = 0
    /\ expected' = <<>> /\ content' = <<>> /\ target' = NoName

(* An erased or half-formatted volume gives nothing back. *)
Wiped ==
    /\ files' = Empty /\ published' = Empty /\ startup' = NoName
    /\ metaTemp' = 0 /\ temporary' = NoTemporaries

(* settings_store_init has initialized the flash at boot, or failed to. *)
Boot(d) == d = "ready" \/ (d = "off" /\ "flash" \in Faults)

Init ==
    /\ flash \in {"good", "small"} /\ media \in {"blank", "formatted"}
    /\ files = Empty /\ published = Empty /\ startup = NoName
    /\ metaTemp = 0 /\ temporary = NoTemporaries
    /\ state = "UNINITIALIZED" /\ lastError = "OK"
    /\ active = 0 /\ fileOpen = 0 /\ uploadId = 0 /\ offset = 0
    /\ expected = <<>> /\ content = <<>> /\ target = NoName
    /\ nextId = 0 /\ remount = 0 /\ op = "none" /\ arg = NoName
    /\ Boot(device)

-----------------------------------------------------------------------------
(* The flash.  An access that times out latches the fault, and every later    *)
(* access fails until the next boot; a write that finds no room latches       *)
(* nothing.  Reads that succeed may come from the caches of littlefs.         *)

FlashWorks == device = "ready"

FlashFails == (device = "faulted" \/ "flash" \in Faults) /\ device' = "faulted"

WriteFails == FlashFails \/ ("space" \in Faults /\ FlashWorks /\ UNCHANGED device)

(* A call that returns before it touches the disk: the volume is not mounted, *)
(* an upload has it, or the arguments are not valid.                          *)
Refuse(r) ==
    /\ Idle
    /\ \/ r = "NOT_MOUNTED" /\ state # "MOUNTED"
       \/ r = "BUSY" /\ state = "MOUNTED" /\ active = 1
       \/ r = "INVALID"
    /\ lastError' = r
    /\ UNCHANGED <<disk, uploadVars, state, nextId, remount, device, op, arg>>

(* stat, list, read and get_startup only leave their result. *)
Query(r) ==
    /\ Idle /\ state = "MOUNTED"
    /\ \/ r \in {"OK", "NOT_FOUND"} /\ UNCHANGED device
       \/ r = "IO" /\ FlashFails
    /\ lastError' = r
    /\ UNCHANGED <<disk, uploadVars, state, nextId, remount, op, arg>>

-----------------------------------------------------------------------------
(* Mounting *)

Mounting == (Idle \/ op = "mount") /\ state # "MOUNTED"

MountAgain ==
    /\ Idle /\ state = "MOUNTED" /\ lastError' = "OK"
    /\ UNCHANGED <<disk, uploadVars, state, nextId, remount, device, op, arg>>

(* A flash that is not initialized is initialized by the call; one that is  *)
(* faulted counts as not available.                                          *)
MountFails(s, r) ==
    /\ Mounting
    /\ \/ s = "IO_ERROR" /\ r = "IO" /\ device = "off" /\ "flash" \in Faults
          /\ UNCHANGED device
       \/ s = "UNSUPPORTED" /\ r = "UNSUPPORTED"
          /\ \/ device = "faulted" /\ UNCHANGED device
             \/ device # "faulted" /\ flash = "small" /\ device' = "ready"
       \/ /\ device # "faulted" /\ flash = "good"
          /\ \/ s = "UNFORMATTED" /\ r = "UNFORMATTED" /\ media = "blank"
                /\ device' = "ready"
             \/ s = "CORRUPT" /\ r = "CORRUPT" /\ media = "corrupt" /\ device' = "ready"
             \/ s = "CORRUPT" /\ r = "CORRUPT" /\ media = "blank" /\ FlashFails
             \/ s = "IO_ERROR" /\ r = "IO" /\ FlashFails
    /\ state' = s /\ Return(r)
    /\ UNCHANGED <<disk, uploadVars, nextId, remount, arg>>

(* Mutant: the mount does not scan for temporaries. *)
MountUnscanned ==
    /\ Mounting /\ device # "faulted" /\ flash = "good" /\ media = "formatted"
    /\ device' = "ready"
    /\ state' = "MOUNTED" /\ ClearUpload /\ Return("OK")
    /\ UNCHANGED <<disk, nextId, remount, arg>>

Mount ==
    /\ Mounting /\ device # "faulted" /\ flash = "good" /\ media = "formatted"
    /\ device' = "ready"
    /\ state' = "MOUNTED" /\ ClearUpload /\ op' = "cleanup"
    /\ UNCHANGED <<disk, lastError, nextId, remount, arg>>

Stale(i) == temporary[i] # NoFile

(* One round of the scan: the first stale temporary is removed. *)
CleanupRemoves ==
    /\ op = "cleanup" /\ FlashWorks
    /\ \/ metaTemp = 1 /\ metaTemp' = 0 /\ UNCHANGED temporary
       \/ /\ \E i \in Ids : Stale(i) /\ temporary' = [temporary EXCEPT ![i] = NoFile]
          /\ UNCHANGED metaTemp
    /\ UNCHANGED <<flash, media, files, startup, published, ram>>

(* Nothing stale is left, or the directory cannot be read or changed. *)
CleanupEnds ==
    /\ op = "cleanup"
    /\ \/ metaTemp = 0 /\ (\A i \in Ids : ~Stale(i)) /\ UNCHANGED device
       \/ WriteFails
    /\ Return("OK")
    /\ UNCHANGED <<disk, uploadVars, state, nextId, remount, arg>>

-----------------------------------------------------------------------------
(* Unmounting and formatting *)

(* A failed lfs_remove leaves the temporary behind. *)
Discard(id) ==
    \/ FlashWorks /\ temporary' = [temporary EXCEPT ![id] = NoFile] /\ UNCHANGED device
    \/ WriteFails /\ UNCHANGED temporary

(* userfs_unmount aborts the upload; lfs_unmount does no flash access. *)
Unmount ==
    /\ state' = IF state = "MOUNTED" THEN "UNINITIALIZED" ELSE state
    /\ IF state = "MOUNTED" /\ active = 1
         THEN Discard(uploadId) /\ ClearUpload
         ELSE UNCHANGED <<temporary, uploadVars, device>>

FormatCall ==
    /\ Idle /\ Unmount /\ op' = "format"
    /\ UNCHANGED <<flash, media, files, startup, metaTemp, published, lastError,
                   nextId, remount, arg>>

FormatRefused ==
    /\ op = "format"
    /\ \/ /\ state' = "UNSUPPORTED" /\ Return("UNSUPPORTED")
          /\ \/ device = "faulted" /\ UNCHANGED device
             \/ device # "faulted" /\ flash = "small" /\ device' = "ready"
       \/ /\ device = "off" /\ "flash" \in Faults /\ UNCHANGED device
          /\ state' = "IO_ERROR" /\ Return("IO")
    /\ UNCHANGED <<disk, uploadVars, nextId, remount, arg>>

FormatFails ==
    /\ op = "format" /\ device # "faulted" /\ flash = "good"
    /\ \/ FlashFails
       \/ "space" \in Faults /\ device' = "ready"
    /\ \/ media' = "corrupt" /\ Wiped
       \/ UNCHANGED <<media, files, published, startup, metaTemp, temporary>>
    /\ state' = "IO_ERROR" /\ Return("IO")
    /\ UNCHANGED <<flash, uploadVars, nextId, remount, arg>>

Format ==
    /\ op = "format" /\ device # "faulted" /\ flash = "good"
    /\ media' = "formatted" /\ Wiped /\ device' = "ready"
    /\ state' = "UNINITIALIZED" /\ op' = "mount"
    /\ UNCHANGED <<flash, uploadVars, lastError, nextId, remount, arg>>

(* power_shutdown_prepare: abort the upload and unmount, to remount if the *)
(* power is not cut after all.                                             *)
ShutdownPrepare ==
    /\ Idle /\ Unmount
    /\ remount' = IF state = "MOUNTED" THEN 1 ELSE remount
    /\ lastError' = IF state = "MOUNTED" THEN "OK" ELSE lastError
    /\ UNCHANGED <<flash, media, files, startup, metaTemp, published, nextId, op,
                   arg>>

ShutdownRestore ==
    /\ Idle /\ remount = 1 /\ remount' = 0
    /\ op' = IF state = "MOUNTED" THEN "none" ELSE "mount"
    /\ UNCHANGED <<disk, uploadVars, state, lastError, nextId, device, arg>>

-----------------------------------------------------------------------------
(* Removing a program: the selection first, then the file *)

Ready == Idle /\ state = "MOUNTED" /\ active = 0

(* Mutant: the startup selection is not looked at. *)
RemoveUnselected(n) ==
    /\ Ready /\ arg' = n /\ op' = "removeFile"
    /\ UNCHANGED <<disk, uploadVars, state, lastError, nextId, remount, device>>

(* A selection that cannot be read is taken for another one. *)
Remove(n) ==
    /\ Ready /\ arg' = n
    /\ \/ op' = (IF startup = n THEN "removeSelection" ELSE "removeFile")
          /\ UNCHANGED device
       \/ op' = "removeFile" /\ FlashFails
    /\ UNCHANGED <<disk, uploadVars, state, lastError, nextId, remount>>

RemoveSelection ==
    /\ op = "removeSelection" /\ FlashWorks
    /\ startup' = NoName /\ op' = "removeFile"
    /\ UNCHANGED <<flash, media, files, metaTemp, temporary, published, uploadVars,
                   state, lastError, nextId, remount, device, arg>>

RemoveFile ==
    /\ op = "removeFile" /\ FlashWorks
    /\ files' = [files EXCEPT ![arg] = NoFile]
    /\ published' = [published EXCEPT ![arg] = NoFile]
    /\ Return(IF files[arg] = NoFile THEN "NOT_FOUND" ELSE "OK")
    /\ UNCHANGED <<flash, media, startup, metaTemp, temporary, uploadVars, state,
                   nextId, remount, device, arg>>

(* An lfs call of the operation fails and the operation returns its error. *)
CallFails ==
    /\ \/ op \in {"removeSelection", "removeFile", "commitRename", "metaRename"}
          /\ WriteFails
       \/ op = "commitVerify" /\ FlashFails
    /\ Return("IO")
    /\ UNCHANGED <<disk, uploadVars, state, nextId, remount, arg>>

-----------------------------------------------------------------------------
(* Uploading a program *)

UploadBegin(n, c) ==
    /\ Ready /\ FlashWorks /\ nextId' = NextId
    /\ temporary' = [temporary EXCEPT ![NextId] = <<>>]
    /\ active' = 1 /\ fileOpen' = 1 /\ uploadId' = NextId
    /\ expected' = c /\ offset' = 0 /\ content' = <<>> /\ target' = n
    /\ lastError' = "OK"
    /\ UNCHANGED <<flash, media, files, startup, metaTemp, published, state,
                   remount, device, op, arg>>

(* The old temporary cannot be removed, or the new one not created. *)
UploadBeginFails ==
    /\ Ready /\ nextId' = NextId
    /\ \/ WriteFails /\ UNCHANGED temporary
       \/ WriteFails /\ FlashWorks /\ temporary' = [temporary EXCEPT ![NextId] = NoFile]
    /\ ClearUpload /\ lastError' = "IO"
    /\ UNCHANGED <<flash, media, files, startup, metaTemp, published, state,
                   remount, op, arg>>

WriteError(id, at, d) ==
    IF active = 0 \/ id # uploadId THEN "INVALID"
    ELSE IF at # offset THEN "OUT_OF_ORDER"
    ELSE IF offset + Len(d) > Len(expected) THEN "SIZE" ELSE "OK"

UploadWriteRefused(id, at, d) ==
    /\ Idle /\ WriteError(id, at, d) # "OK"
    /\ lastError' = WriteError(id, at, d)
    /\ UNCHANGED <<disk, uploadVars, state, nextId, remount, device, op, arg>>

UploadWrite(id, at, d) ==
    /\ Idle /\ WriteError(id, at, d) = "OK" /\ fileOpen = 1
    /\ content' = content \o d /\ offset' = offset + Len(d)
    /\ lastError' = "OK"
    /\ UNCHANGED <<disk, active, fileOpen, uploadId, expected, target, state,
                   nextId, remount, device, op, arg>>

(* A failed commit has closed the file.  A chunk of no bytes still gets to    *)
(* littlefs, whose assertion stops the firmware or which writes nothing.      *)
UploadWriteClosed(id, at, d) ==
    /\ Idle /\ WriteError(id, at, d) = "OK" /\ fileOpen = 0
    /\ \/ op' = "halted" /\ UNCHANGED lastError
       \/ lastError' = "OK" /\ UNCHANGED op
    /\ UNCHANGED <<disk, uploadVars, state, nextId, remount, device, arg>>

(* Part of the chunk reached the file and the offset did not move.  Bound: *)
(* one chunk beyond the size of the file.                                  *)
UploadWriteFails(id, at, d) ==
    /\ Idle /\ WriteError(id, at, d) = "OK" /\ fileOpen = 1 /\ WriteFails
    /\ \E k \in 0..Len(d) :
         /\ Len(content) + k <= MaxSize + 1
         /\ content' = content \o SubSeq(d, 1, k)
    /\ lastError' = "IO"
    /\ UNCHANGED <<disk, active, fileOpen, uploadId, expected, offset, target,
                   state, nextId, remount, op, arg>>

CommitError(id) ==
    IF active = 0 \/ id # uploadId THEN "INVALID"
    ELSE IF offset # Len(expected) THEN "SIZE" ELSE "OK"

CommitRefused(id) ==
    /\ Idle /\ CommitError(id) # "OK"
    /\ lastError' = CommitError(id)
    /\ UNCHANGED <<disk, uploadVars, state, nextId, remount, device, op, arg>>

UploadCommit(id) ==
    /\ Idle /\ CommitError(id) = "OK" /\ op' = "commitSync"
    /\ UNCHANGED <<disk, uploadVars, state, lastError, nextId, remount, device, arg>>

CommitSync ==
    /\ op = "commitSync" /\ fileOpen = 1
    /\ FlashWorks \/ temporary[uploadId] = content
    /\ temporary' = [temporary EXCEPT ![uploadId] = content]
    /\ fileOpen' = 0 /\ op' = "commitVerify"
    /\ UNCHANGED <<flash, media, files, startup, metaTemp, published, active,
                   uploadId, expected, offset, target, content, state,
                   lastError, nextId, remount, device, arg>>

CommitSyncFails ==
    /\ op = "commitSync" /\ fileOpen = 1 /\ WriteFails
    /\ fileOpen' = 0 /\ Return("IO")
    /\ UNCHANGED <<disk, active, uploadId, expected, offset, target, content,
                   state, nextId, remount, arg>>

(* A second commit after a failed one: littlefs is handed a closed file, *)
(* and its assertion stops the firmware or the call does nothing.        *)
CommitSyncClosed ==
    /\ op = "commitSync" /\ fileOpen = 0
    /\ op' \in {"halted", "commitVerify"}
    /\ UNCHANGED <<disk, uploadVars, state, lastError, nextId, remount, device, arg>>

(* Mutant: the length is compared and the checksum is not. *)
VerifiedLength ==
    temporary[uploadId] # NoFile /\ Len(temporary[uploadId]) = Len(expected)

Verified == temporary[uploadId] = expected

VerifyError ==
    IF temporary[uploadId] = NoFile THEN "NOT_FOUND"
    ELSE IF Len(temporary[uploadId]) # Len(expected) THEN "SIZE" ELSE "CRC"

CommitVerify ==
    /\ op = "commitVerify"
    /\ IF Verified THEN op' = "commitRename" /\ UNCHANGED lastError
                   ELSE Return(VerifyError)
    /\ UNCHANGED <<disk, uploadVars, state, nextId, remount, device, arg>>

CommitRename ==
    /\ op = "commitRename" /\ FlashWorks
    /\ files' = [files EXCEPT ![target] = temporary[uploadId]]
    /\ published' = [published EXCEPT ![target] = expected]
    /\ temporary' = [temporary EXCEPT ![uploadId] = NoFile]
    /\ ClearUpload /\ Return("OK")
    /\ UNCHANGED <<flash, media, startup, metaTemp, state, nextId, remount, device, arg>>

UploadAbort(id) ==
    /\ Idle /\ active = 1 /\ id = uploadId
    /\ Discard(id) /\ ClearUpload /\ lastError' = "OK"
    /\ UNCHANGED <<flash, media, files, startup, metaTemp, published, state,
                   nextId, remount, op, arg>>

-----------------------------------------------------------------------------
(* Selecting the startup program *)

ClearStartup ==
    /\ Ready
    /\ \/ FlashWorks /\ startup' = NoName /\ lastError' = "OK" /\ UNCHANGED device
       \/ WriteFails /\ UNCHANGED startup /\ lastError' = "IO"
    /\ UNCHANGED <<flash, media, files, metaTemp, temporary, published, uploadVars,
                   state, nextId, remount, op, arg>>

SetStartup(n) ==
    /\ Ready
    /\ \/ files[n] = NoFile /\ UNCHANGED <<arg, device>> /\ Return("NOT_FOUND")
       \/ FlashFails /\ UNCHANGED arg /\ Return("NOT_FOUND")
       \/ files[n] # NoFile /\ op' = "metaWrite" /\ arg' = n
          /\ UNCHANGED <<lastError, device>>
    /\ UNCHANGED <<disk, uploadVars, state, nextId, remount>>

MetaWrite ==
    /\ op = "metaWrite"
    /\ \/ FlashWorks /\ metaTemp' = 1 /\ op' = "metaRename"
          /\ UNCHANGED <<lastError, device>>
       \/ /\ WriteFails /\ Return("IO")
          /\ metaTemp' = metaTemp \/ (FlashWorks /\ metaTemp' \in {0, 1})
    /\ UNCHANGED <<flash, media, files, startup, temporary, published, uploadVars,
                   state, nextId, remount, arg>>

MetaRename ==
    /\ op = "metaRename" /\ FlashWorks
    /\ startup' = arg /\ metaTemp' = 0 /\ Return("OK")
    /\ UNCHANGED <<flash, media, files, temporary, published, uploadVars, state,
                   nextId, remount, device, arg>>

-----------------------------------------------------------------------------
(* Power is lost between two littlefs calls, or inside a format. *)
PowerLoss ==
    /\ \/ UNCHANGED disk
       \/ op = "format" /\ device # "faulted" /\ flash = "good"
          /\ media' = "corrupt" /\ Wiped /\ UNCHANGED flash
    /\ state' = "UNINITIALIZED" /\ lastError' = "OK" /\ ClearUpload
    /\ nextId' = 0 /\ remount' = 0 /\ op' = "none" /\ arg' = NoName
    /\ Boot(device')

(* The next littlefs call of the running operation. *)
FsStep ==
    /\ op # "none"
    /\ \/ Mount \/ \E s \in States, r \in Results : MountFails(s, r)
       \/ CleanupRemoves \/ CleanupEnds
       \/ FormatRefused \/ FormatFails \/ Format
       \/ RemoveSelection \/ RemoveFile \/ CallFails
       \/ CommitSync \/ CommitSyncFails \/ CommitSyncClosed
       \/ CommitVerify \/ CommitRename
       \/ MetaWrite \/ MetaRename

(* Programs and chunks a caller may hand in. *)
Files == UNION {[1..k -> Data] : k \in 0..MaxSize}
Chunks == Files

(* What the callers of userfs.h do: the HMPY session, the MicroPython app, *)
(* the program loader and the power-off sequence.                          *)
FsCall ==
    \/ \E r \in Results : Refuse(r) \/ Query(r)
    \/ MountAgain \/ (Idle /\ Mount)
    \/ Idle /\ \E s \in States, r \in Results : MountFails(s, r)
    \/ FormatCall \/ ShutdownPrepare \/ ShutdownRestore
    \/ \E n \in Names : Remove(n) \/ SetStartup(n)
    \/ ClearStartup \/ UploadBeginFails
    \/ \E n \in Names, c \in Files : UploadBegin(n, c)
    \/ \E id \in 0..MaxId :
         \/ \E at \in 0..MaxSize, d \in Chunks :
               \/ UploadWriteRefused(id, at, d) \/ UploadWrite(id, at, d)
               \/ UploadWriteFails(id, at, d) \/ UploadWriteClosed(id, at, d)
         \/ CommitRefused(id) \/ UploadCommit(id) \/ UploadAbort(id)

FsNext == FsCall \/ FsStep \/ PowerLoss

Spec == Init /\ [][FsNext]_vars

-----------------------------------------------------------------------------
(* The startup selection never names a file that is not there: userfs_remove *)
(* clears the selection first, so that power loss between its two calls, or a *)
(* failed one, leaves an unselected file; and when the selection could not be *)
(* read, the latched fault keeps the file from being removed.                 *)
StartupExists == startup # NoName => files[startup] # NoFile

(* Whatever is stored under a name is exactly what the uploader declared for  *)
(* it: size and checksum are verified on the closed temporary before it is    *)
(* renamed, whichever writes, commits and power cycles came before.           *)
FilesPublished == files = published

(* With a flash that does not fail, a mounted volume at rest holds no         *)
(* temporary but that of the running upload: what a power loss left behind is *)
(* removed by the scan of the next mount.                                     *)
NoLeftovers ==
    Idle /\ state = "MOUNTED" =>
        /\ metaTemp = 0
        /\ \A i \in Ids : Stale(i) => active = 1 /\ i = uploadId

=============================================================================
