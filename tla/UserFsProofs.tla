---------------------------- MODULE UserFsProofs ----------------------------
(***************************************************************************)
(* Proofs about the program store: a dangling startup selection and a file *)
(* that was never declared are impossible, for any names, contents, sizes  *)
(* and numbers of uploads, and with power lost at any point.  Then about   *)
(* the HMPY session, which is shown to use the store only as the store     *)
(* allows: its uploads have an owner, what it acknowledges is stored, and  *)
(* what it streams is one file.                                            *)
(***************************************************************************)
EXTENDS HmpySession, SequenceTheorems, TLAPS

(* What a half-finished operation has already made sure of. *)
Pending ==
    /\ active = 1 => target \in Names
    /\ op \in {"removeSelection", "removeFile", "metaWrite", "metaRename"} => arg \in Names
    /\ op = "removeFile" /\ startup = arg => device = "faulted"
    /\ op \in {"metaWrite", "metaRename"} => files[arg] # NoFile
    /\ op \in {"commitSync", "commitVerify", "commitRename"} => active = 1
    /\ op = "commitRename" => temporary[uploadId] = expected

IInv == TypeOK /\ Pending /\ StartupExists /\ FilesPublished

(* Files and chunks handed in by a caller are finite sequences of chunks. *)
LEMMA CallerData == Files \subseteq Contents /\ Chunks \subseteq Contents
  <1>1. ASSUME NEW k \in Nat, NEW f \in [1..k -> Data] PROVE f \in Seq(Data)
    BY <1>1, IsASeq
  <1>2. \A c \in Files : \E k \in Nat : c \in [1..k -> Data]
    BY BoundsAssumption DEF Files
  <1> QED BY <1>1, <1>2 DEF Contents, Chunks

(* A new upload has an id that names a temporary. *)
LEMMA NextIdType == TypeOK => NextId \in Ids
  BY BoundsAssumption DEF TypeOK, NextId, Ids

(* The initial states satisfy the inductive invariant. *)
LEMMA InitIInv == Init => IInv
  <1> SUFFICES ASSUME Init PROVE IInv OBVIOUS
  <1>1. <<>> \in Contents BY DEF Contents
  <1> QED
    BY <1>1, NamesAssumption, BoundsAssumption
    DEF Init, IInv, TypeOK, Pending, StartupExists, FilesPublished,
        Empty, NoTemporaries, Contents, States, Results, Ops, Ids, Boot

(* Every step of the store preserves it. *)
LEMMA NextIInv == IInv /\ [FsNext]_vars => IInv'
  <1> SUFFICES ASSUME IInv, [FsNext]_vars PROVE IInv' OBVIOUS
  <1> USE NamesAssumption, FileAssumption, BoundsAssumption, NextIdType
  <1> USE DEF IInv, TypeOK, Pending, StartupExists, FilesPublished,
          States, Results, Ops, disk, uploadVars, ram, Return, ClearUpload, Idle,
          FlashWorks, FlashFails, WriteFails
  <1>e. <<>> \in Contents BY DEF Contents
  <1>a. CASE UNCHANGED vars
    BY <1>a DEF vars
  <1>b. ASSUME NEW r \in Results, Refuse(r) \/ Query(r) PROVE IInv'
    BY <1>b DEF Refuse, Query
  <1>c. CASE MountAgain
    BY <1>c DEF MountAgain
  <1>d. CASE Mount
    BY <1>d, <1>e DEF Mount, Mounting, Ids
  <1>f. ASSUME NEW s \in States, NEW r \in Results, MountFails(s, r) PROVE IInv'
    BY <1>f DEF MountFails, Mounting
  <1>g. CASE FormatCall
    BY <1>g, <1>e DEF FormatCall, Unmount, Discard, Ids
  <1>h. CASE ShutdownPrepare
    BY <1>h, <1>e DEF ShutdownPrepare, Unmount, Discard, Ids
  <1>i. CASE ShutdownRestore
    BY <1>i DEF ShutdownRestore
  <1>j. ASSUME NEW n \in Names, Remove(n) PROVE IInv'
    BY <1>j DEF Remove, Ready
  <1>k. ASSUME NEW n \in Names, SetStartup(n) PROVE IInv'
    BY <1>k DEF SetStartup, Ready
  <1>l. CASE ClearStartup
    BY <1>l DEF ClearStartup, Ready
  <1>m. CASE UploadBeginFails
    BY <1>m, <1>e DEF UploadBeginFails, Ready, Discard, Ids
  <1>n. ASSUME NEW n \in Names, NEW c \in Files, UploadBegin(n, c) PROVE IInv'
    BY <1>n, <1>e, CallerData DEF UploadBegin, Ready, Ids
  <1>o. ASSUME NEW id \in 0..MaxId, NEW at \in 0..MaxSize, NEW d \in Chunks,
               UploadWriteRefused(id, at, d)
        PROVE  IInv'
    BY <1>o DEF UploadWriteRefused, WriteError
  <1>p. ASSUME NEW id \in 0..MaxId, NEW at \in 0..MaxSize, NEW d \in Chunks,
               UploadWrite(id, at, d)
        PROVE  IInv'
    <2>1. d \in Seq(Data) BY CallerData DEF Contents
    <2>2. content \o d \in Contents /\ offset + Len(d) \in Nat
      BY <2>1 DEF Contents
    <2> QED BY <1>p, <2>2 DEF UploadWrite
  <1>q. ASSUME NEW id \in 0..MaxId, NEW at \in 0..MaxSize, NEW d \in Chunks,
               UploadWriteFails(id, at, d)
        PROVE  IInv'
    <2>1. d \in Seq(Data) BY CallerData DEF Contents
    <2>2. PICK k \in 0..Len(d) : content' = content \o SubSeq(d, 1, k)
      BY <1>q DEF UploadWriteFails
    <2>3. SubSeq(d, 1, k) \in Seq(Data)
      BY <2>1, <2>2, SubSeqProperties, LenProperties
    <2>4. content' \in Contents
      BY <2>2, <2>3 DEF Contents
    <2> QED BY <1>q, <2>4 DEF UploadWriteFails
  <1>C. ASSUME NEW id \in 0..MaxId, NEW at \in 0..MaxSize, NEW d \in Chunks,
               UploadWriteClosed(id, at, d)
        PROVE  IInv'
    BY <1>C DEF UploadWriteClosed
  <1>r. ASSUME NEW id \in 0..MaxId,
               CommitRefused(id) \/ UploadCommit(id)
        PROVE  IInv'
    BY <1>r DEF CommitRefused, UploadCommit, CommitError
  <1>s. ASSUME NEW id \in 0..MaxId, UploadAbort(id) PROVE IInv'
    BY <1>s, <1>e DEF UploadAbort, Discard, Ids
  <1>t. CASE CleanupRemoves
    BY <1>t DEF CleanupRemoves, Ids
  <1>u. CASE CleanupEnds
    BY <1>u DEF CleanupEnds
  <1>v. CASE FormatRefused \/ FormatFails \/ Format
    BY <1>v DEF FormatRefused, FormatFails, Format, Wiped, Empty, NoTemporaries, Ids
  <1>w. CASE RemoveSelection \/ RemoveFile \/ CallFails
    BY <1>w DEF RemoveSelection, RemoveFile, CallFails
  <1>x. CASE CommitSync \/ CommitSyncFails \/ CommitSyncClosed
    BY <1>x DEF CommitSync, CommitSyncFails, CommitSyncClosed, Ids
  <1>y. CASE CommitVerify
    BY <1>y DEF CommitVerify, Verified, VerifyError
  <1>z. CASE CommitRename
    BY <1>z, <1>e DEF CommitRename, Ids, Contents
  <1>A. CASE MetaWrite \/ MetaRename
    BY <1>A DEF MetaWrite, MetaRename
  <1>B. CASE PowerLoss
    BY <1>B, <1>e DEF PowerLoss, Boot, Wiped, Empty, NoTemporaries, Ids
  <1> HIDE DEF IInv, TypeOK, Pending, StartupExists, FilesPublished
  <1> QED
    BY <1>a, <1>b, <1>c, <1>d, <1>f, <1>g, <1>h, <1>i, <1>j, <1>k, <1>l, <1>m,
       <1>n, <1>o, <1>p, <1>q, <1>r, <1>s, <1>t, <1>u, <1>v, <1>w, <1>x, <1>y,
       <1>z, <1>A, <1>B, <1>C
    DEF FsNext, FsCall, FsStep

(* The store keeps its types, its half-done operations stay consistent, and *)
(* every stored file is what its uploader declared, over all power cycles   *)
(* and all failures of the flash.                                           *)
THEOREM StoredAsDeclared == Spec => [](TypeOK /\ FilesPublished)
  <1>1. Spec => []IInv
    BY InitIInv, NextIInv, PTL DEF Spec
  <1>2. IInv => TypeOK /\ FilesPublished
    BY DEF IInv
  <1> QED BY <1>1, <1>2, PTL

(* The startup selection always names a stored file, although userfs_remove *)
(* and the selection take several steps, and power, a write or the flash     *)
(* itself may fail between any two.  What it rests on: once the selection    *)
(* could not be read, the latched fault keeps the file from being removed.   *)
THEOREM StartupNeverDangles == Spec => []StartupExists
  <1>1. Spec => []IInv
    BY InitIInv, NextIInv, PTL DEF Spec
  <1>2. IInv => StartupExists
    BY DEF IInv
  <1> QED BY <1>1, <1>2, PTL

-----------------------------------------------------------------------------
(* No temporary is left behind while the flash works. *)

(* The temporaries of a mounted volume: while its scan runs, while metadata *)
(* is replaced, while an upload runs, and otherwise none.                    *)
Tidy ==
    /\ device # "faulted"
    /\ active = 1 => state = "MOUNTED"
    /\ op \in Ops \ {"none", "format", "mount", "halted"} => state = "MOUNTED"
    /\ op \in {"format", "mount"} => state # "MOUNTED"
    /\ op = "cleanup" => active = 0
    /\ state = "MOUNTED" /\ op # "cleanup" =>
          /\ metaTemp = 1 => op = "metaRename"
          /\ \A i \in Ids : Stale(i) => active = 1 /\ i = uploadId

(* Every step of the store leaves its temporaries accounted for. *)
LEMMA TidyStep ==
    ASSUME Faults = {}, IInv, Tidy, [FsNext]_vars
    PROVE  Tidy'
  <1> SUFFICES ASSUME TypeOK, Pending PROVE Tidy'
    BY DEF IInv
  <1> USE NamesAssumption, FileAssumption, BoundsAssumption, NextIdType
  <1> USE DEF TypeOK, Tidy, Ops, Ids, disk, uploadVars, ram, Return, ClearUpload,
          Idle, FlashWorks, FlashFails, WriteFails, Stale
  <1>a. CASE UNCHANGED vars
    BY <1>a DEF vars
  <1>b. ASSUME NEW r \in Results, Refuse(r) \/ Query(r) PROVE Tidy'
    BY <1>b DEF Refuse, Query
  <1>c. CASE MountAgain
    BY <1>c DEF MountAgain
  <1>d. CASE Mount
    BY <1>d DEF Mount, Mounting
  <1>f. ASSUME NEW s \in States, NEW r \in Results, MountFails(s, r) PROVE Tidy'
    BY <1>f DEF MountFails, Mounting
  <1>g. CASE FormatCall
    BY <1>g DEF FormatCall, Unmount, Discard
  <1>h. CASE ShutdownPrepare
    BY <1>h DEF ShutdownPrepare, Unmount, Discard
  <1>i. CASE ShutdownRestore
    BY <1>i DEF ShutdownRestore
  <1>j. ASSUME NEW n \in Names, Remove(n) PROVE Tidy'
    BY <1>j DEF Remove, Ready
  <1>k. ASSUME NEW n \in Names, SetStartup(n) PROVE Tidy'
    BY <1>k DEF SetStartup, Ready
  <1>l. CASE ClearStartup
    BY <1>l DEF ClearStartup, Ready
  <1>m. CASE UploadBeginFails
    BY <1>m DEF UploadBeginFails
  <1>n. ASSUME NEW n \in Names, NEW c \in Files, UploadBegin(n, c) PROVE Tidy'
    BY <1>n DEF UploadBegin, Ready
  <1>o. ASSUME NEW id \in 0..MaxId, NEW at \in 0..MaxSize, NEW d \in Chunks,
               \/ UploadWriteRefused(id, at, d) \/ UploadWrite(id, at, d)
               \/ UploadWriteFails(id, at, d) \/ UploadWriteClosed(id, at, d)
        PROVE  Tidy'
    BY <1>o DEF UploadWriteRefused, UploadWrite, UploadWriteFails, UploadWriteClosed
  <1>r. ASSUME NEW id \in 0..MaxId,
               CommitRefused(id) \/ UploadCommit(id)
        PROVE  Tidy'
    BY <1>r DEF CommitRefused, UploadCommit, CommitError
  <1>s. ASSUME NEW id \in 0..MaxId, UploadAbort(id) PROVE Tidy'
    BY <1>s DEF UploadAbort, Discard
  <1>t. CASE CleanupRemoves
    BY <1>t DEF CleanupRemoves
  <1>u. CASE CleanupEnds
    BY <1>u DEF CleanupEnds
  <1>v. CASE FormatRefused \/ FormatFails \/ Format
    BY <1>v DEF FormatRefused, FormatFails, Format
  <1>w. CASE RemoveSelection \/ RemoveFile \/ CallFails
    BY <1>w DEF RemoveSelection, RemoveFile, CallFails
  <1>x. CASE CommitSync \/ CommitSyncFails \/ CommitSyncClosed
    BY <1>x DEF CommitSync, CommitSyncFails, CommitSyncClosed, Pending
  <1>y. CASE CommitVerify
    BY <1>y DEF CommitVerify
  <1>z. CASE CommitRename
    BY <1>z DEF CommitRename
  <1>A. CASE MetaWrite \/ MetaRename
    BY <1>A DEF MetaWrite, MetaRename
  <1>B. CASE PowerLoss
    BY <1>B DEF PowerLoss, Boot
  <1> QED
    BY <1>a, <1>b, <1>c, <1>d, <1>f, <1>g, <1>h, <1>i, <1>j, <1>k, <1>l, <1>m,
       <1>n, <1>o, <1>r, <1>s, <1>t, <1>u, <1>v, <1>w, <1>x, <1>y, <1>z, <1>A, <1>B
    DEF FsNext, FsCall, FsStep

(* While the flash works, a mounted volume at rest holds no temporary but    *)
(* that of the running upload, wherever power was lost before: the scan of   *)
(* the mount removes them all before the first operation.                    *)
THEOREM NothingLeftBehind == ASSUME Faults = {} PROVE Spec => []NoLeftovers
  <1>1. Init => Tidy
    BY DEF Init, Boot, Tidy, Ops
  <1>2. IInv /\ Tidy => NoLeftovers
    BY DEF IInv, TypeOK, Tidy, Idle, NoLeftovers
  <1>3. IInv /\ Tidy /\ [FsNext]_vars => IInv' /\ Tidy'
    BY NextIInv, TidyStep
  <1> QED BY InitIInv, <1>1, <1>2, <1>3, PTL DEF Spec

-----------------------------------------------------------------------------
(* No file is larger than USERFS_FILE_MAX. *)

Bounded == expected \in Files /\ \A n \in Names : files[n] \in Files \cup {NoFile}

(* An upload whose file is closed, or is being closed, is complete. *)
Closed == (active = 1 /\ fileOpen = 0) \/ op = "commitSync" => offset = Len(expected)

(* A file is no longer than the bound. *)
LEMMA FileLength == \A f \in Files : f \in Contents /\ Len(f) \in 0..MaxSize
  <1> SUFFICES ASSUME NEW f \in Files PROVE f \in Contents /\ Len(f) \in 0..MaxSize
    OBVIOUS
  <1>1. PICK k \in 0..MaxSize : f \in [1..k -> Data]
    BY DEF Files
  <1>2. Len(f) = k
    BY <1>1, BoundsAssumption
  <1> QED BY <1>2, CallerData

(* The file without a byte is one. *)
LEMMA EmptyFile == <<>> \in Files
  <1>1. <<>> \in [1..0 -> Data]
    OBVIOUS
  <1> QED BY <1>1, BoundsAssumption DEF Files

(* Only a verified upload of a declared size becomes a file, and only a *)
(* complete one is closed.                                              *)
LEMMA BoundedStep == ASSUME IInv, Bounded, Closed, [FsNext]_vars PROVE Bounded' /\ Closed'
  <1> SUFFICES ASSUME TypeOK, Pending PROVE Bounded' /\ Closed'
    BY DEF IInv
  <1> USE EmptyFile
      DEF TypeOK, Bounded, Closed, Idle, Ready, disk, uploadVars, ram, Return, ClearUpload, Wiped, Empty
  <1>a. CASE UNCHANGED vars
    BY <1>a DEF vars
  <1>b. ASSUME NEW r \in Results, Refuse(r) \/ Query(r) PROVE Bounded' /\ Closed'
    BY <1>b DEF Refuse, Query
  <1>c. CASE MountAgain \/ Mount
    BY <1>c DEF MountAgain, Mount
  <1>d. ASSUME NEW s \in States, NEW r \in Results, MountFails(s, r) PROVE Bounded' /\ Closed'
    BY <1>d DEF MountFails, Mounting
  <1>f. CASE FormatCall \/ ShutdownPrepare \/ ShutdownRestore
    BY <1>f DEF FormatCall, ShutdownPrepare, ShutdownRestore, Unmount
  <1>g. ASSUME NEW n \in Names, Remove(n) \/ SetStartup(n) PROVE Bounded' /\ Closed'
    BY <1>g DEF Remove, SetStartup
  <1>h. CASE ClearStartup \/ UploadBeginFails
    BY <1>h DEF ClearStartup, UploadBeginFails
  <1>i. ASSUME NEW n \in Names, NEW c \in Files, UploadBegin(n, c) PROVE Bounded' /\ Closed'
    BY <1>i DEF UploadBegin
  <1>j. ASSUME NEW id \in 0..MaxId, NEW at \in 0..MaxSize, NEW d \in Chunks,
               \/ UploadWriteRefused(id, at, d) \/ UploadWrite(id, at, d)
               \/ UploadWriteFails(id, at, d) \/ UploadWriteClosed(id, at, d)
        PROVE  Bounded' /\ Closed'
    BY <1>j DEF UploadWriteRefused, UploadWrite, UploadWriteFails, UploadWriteClosed
  <1>k. ASSUME NEW id \in 0..MaxId,
               CommitRefused(id) \/ UploadCommit(id) \/ UploadAbort(id)
        PROVE  Bounded' /\ Closed'
    BY <1>k DEF CommitRefused, UploadCommit, UploadAbort, CommitError
  <1>l. CASE CleanupRemoves \/ CleanupEnds
    BY <1>l DEF CleanupRemoves, CleanupEnds
  <1>m. CASE FormatRefused \/ FormatFails \/ Format
    BY <1>m DEF FormatRefused, FormatFails, Format
  <1>n. CASE RemoveSelection \/ RemoveFile \/ CallFails
    BY <1>n DEF RemoveSelection, RemoveFile, CallFails
  <1>o. CASE CommitSync \/ CommitSyncFails \/ CommitSyncClosed \/ CommitVerify
    BY <1>o DEF CommitSync, CommitSyncFails, CommitSyncClosed, CommitVerify
  <1>p. CASE CommitRename
    BY <1>p DEF CommitRename, Pending
  <1>q. CASE MetaWrite \/ MetaRename
    BY <1>q DEF MetaWrite, MetaRename
  <1>r. CASE PowerLoss
    BY <1>r DEF PowerLoss
  <1> QED
    BY <1>a, <1>b, <1>c, <1>d, <1>f, <1>g, <1>h, <1>i, <1>j, <1>k, <1>l, <1>m,
       <1>n, <1>o, <1>p, <1>q, <1>r
    DEF FsNext, FsCall, FsStep

-----------------------------------------------------------------------------
(* The session over the store. *)

CommitOps == {"commitSync", "commitVerify", "commitRename"}

(* The store's upload belongs to the session that holds its id. *)
Owned ==
    /\ active = 0 => uploadId = 0
    /\ active = 1 => session = 1 /\ upload = uploadId

(* The chunk the session remembers is the last one the store has. *)
Stored == active = 1 /\ lastData # <<>> => offset = lastOffset + Len(lastData)

(* A commit the store has answered with success has ended its upload. *)
Committing ==
    frame = "COMMIT" =>
        /\ op \in CommitOps \cup {"none", "halted"}
        /\ op = "none" /\ active = 1 => lastError # "OK"

(* A program is looked up on a mounted volume only. *)
Running ==
    frame = "RUN" =>
        /\ op \in {"none", "cleanup"}
        /\ op = "cleanup" \/ lastError = "OK" => state = "MOUNTED"

(* No upload can replace the file that is being read. *)
Streaming ==
    readName # NoName =>
        /\ op \notin CommitOps
        /\ files[readName] \in {readFrom, NoFile}

SInv ==
    /\ IInv /\ Bounded /\ Closed /\ SessionTypeOK
    /\ Owned /\ Stored /\ Committing /\ Running /\ Streaming /\ AckMeansStored

(* The upload is as it was, or there is none. *)
UploadKept ==
    \/ UNCHANGED <<active, uploadId, offset>>
    \/ active' = 0 /\ uploadId' = 0

(* The files are as they were, or some are gone. *)
FilesKept == \A n \in Names : files'[n] \in {files[n], NoFile}

(* What a step of a running operation does to the upload and the files. *)
LEMMA FsStepEffect ==
    ASSUME IInv, FsStep
    PROVE  /\ UploadKept
           /\ op \notin CommitOps => FilesKept /\ op' \notin CommitOps
           /\ op \in CommitOps =>
                 /\ op' \in CommitOps \cup {"none", "halted"}
                 /\ op' = "none" /\ active' = 1 => lastError' # "OK"
           /\ op = "cleanup" /\ state = "MOUNTED" =>
                 op' \in {"none", "cleanup"} /\ state' = "MOUNTED"
  <1> SUFFICES ASSUME TypeOK
               PROVE  /\ UploadKept
                      /\ op \notin CommitOps => FilesKept /\ op' \notin CommitOps
                      /\ op \in CommitOps =>
                            /\ op' \in CommitOps \cup {"none", "halted"}
                            /\ op' = "none" /\ active' = 1 => lastError' # "OK"
                      /\ op = "cleanup" /\ state = "MOUNTED" =>
                            op' \in {"none", "cleanup"} /\ state' = "MOUNTED"
    BY DEF IInv
  <1> USE DEF TypeOK, disk, uploadVars, ram, Return, ClearUpload, Idle, CommitOps,
          UploadKept, FilesKept
  <1>a. CASE Mount
    BY <1>a, FsStep DEF FsStep, Mount, Mounting
  <1>b. ASSUME NEW s \in States, NEW r \in Results, MountFails(s, r) PROVE
          /\ UNCHANGED <<uploadVars, files>> /\ op' = "none"
          /\ op \notin CommitOps /\ ~(op = "cleanup" /\ state = "MOUNTED")
    BY <1>b DEF MountFails, Mounting
  <1>c. CASE CleanupRemoves \/ CleanupEnds
    BY <1>c DEF CleanupRemoves, CleanupEnds
  <1>d. CASE FormatRefused \/ FormatFails \/ Format
    BY <1>d DEF FormatRefused, FormatFails, Format, Wiped, Empty
  <1>e. CASE RemoveSelection \/ RemoveFile \/ CallFails
    BY <1>e DEF RemoveSelection, RemoveFile, CallFails
  <1>f. CASE CommitSync \/ CommitSyncFails \/ CommitSyncClosed
    BY <1>f DEF CommitSync, CommitSyncFails, CommitSyncClosed
  <1>g. CASE CommitVerify
    BY <1>g DEF CommitVerify, VerifyError
  <1>h. CASE CommitRename
    BY <1>h DEF CommitRename
  <1>i. CASE MetaWrite \/ MetaRename
    BY <1>i DEF MetaWrite, MetaRename
  <1> QED
    BY <1>a, <1>b, <1>c, <1>d, <1>e, <1>f, <1>g, <1>h, <1>i DEF FsStep

(* A firmware that has stopped goes no further. *)
LEMMA Halted == FsStep => op # "halted"
  BY DEF FsStep, Mount, MountFails, Mounting, Idle, CleanupRemoves, CleanupEnds,
         FormatRefused, FormatFails, Format, RemoveSelection, RemoveFile, CallFails,
         CommitSync, CommitSyncFails, CommitSyncClosed, CommitVerify, CommitRename,
         MetaWrite, MetaRename

(* What a mount called by the session or by another user does. *)
LEMMA MountCallEffect ==
    ASSUME TypeOK, MountCall
    PROVE  /\ UploadKept /\ FilesKept
           /\ op' \in {"none", "cleanup"}
           /\ op' = "cleanup" \/ lastError' = "OK" => state' = "MOUNTED"
  <1> USE DEF TypeOK, disk, uploadVars, ram, Return, ClearUpload, Idle, UploadKept,
          FilesKept
  <1>1. CASE MountAgain
    BY <1>1 DEF MountAgain
  <1>2. CASE Idle /\ Mount
    BY <1>2 DEF Mount, Mounting
  <1>3. ASSUME NEW s \in States, NEW r \in Results, Idle, MountFails(s, r)
        PROVE  /\ UNCHANGED <<uploadVars, files>> /\ op' = "none"
               /\ lastError' # "OK"
    BY <1>3 DEF MountFails, Mounting
  <1> QED BY <1>1, <1>2, <1>3 DEF MountCall

(* What every other call that leaves the running upload alone, or ends it, *)
(* does.                                                                   *)
LEMMA CallEffect ==
    ASSUME IInv,
           \/ \E r \in Results : Refuse(r) \/ Query(r)
           \/ \E n \in Names : Remove(n) \/ SetStartup(n)
           \/ ClearStartup \/ FormatCall \/ ShutdownPrepare \/ ShutdownRestore
           \/ \E id \in 0..MaxId : UploadAbort(id)
    PROVE  UploadKept /\ FilesKept /\ op' \notin CommitOps
  <1> USE DEF TypeOK, disk, uploadVars, ram, Return, ClearUpload, Idle, UploadKept,
          FilesKept, CommitOps
  <1>1. ASSUME NEW r \in Results, Refuse(r) \/ Query(r)
        PROVE  UploadKept /\ FilesKept /\ op' \notin CommitOps
    BY <1>1 DEF Refuse, Query
  <1>2. ASSUME NEW n \in Names, Remove(n) \/ SetStartup(n)
        PROVE  UploadKept /\ FilesKept /\ op' \notin CommitOps
    BY <1>2 DEF Remove, SetStartup, Ready
  <1>3. CASE ClearStartup \/ FormatCall
    BY <1>3 DEF ClearStartup, Ready, FormatCall, Unmount
  <1>4. CASE ShutdownPrepare \/ ShutdownRestore
    BY <1>4 DEF ShutdownPrepare, ShutdownRestore, Unmount
  <1>5. ASSUME NEW id \in 0..MaxId, UploadAbort(id)
        PROVE  UploadKept /\ FilesKept /\ op' \notin CommitOps
    BY <1>5 DEF UploadAbort
  <1> QED BY <1>1, <1>2, <1>3, <1>4, <1>5

(* A frame's chunk is a chunk of the store. *)
LEMMA FrameChunks == SessionChunks \subseteq Chunks
  <1> SUFFICES ASSUME NEW d \in SessionChunks PROVE d \in Chunks
    OBVIOUS
  <1>1. PICK k \in 0..1 : d \in [1..k -> Data]
    BY DEF SessionChunks
  <1>2. k \in 0..MaxSize
    BY BoundsAssumption
  <1> QED BY <1>1, <1>2 DEF Chunks, Files

(* A frame carries at most one piece of a file. *)
LEMMA FrameLength ==
    \A at \in 0..MaxSize, d \in SessionChunks :
        d \in Contents /\ at + Len(d) \in 0..MaxSize + 1
  <1> SUFFICES ASSUME NEW at \in 0..MaxSize, NEW d \in SessionChunks
               PROVE  d \in Contents /\ at + Len(d) \in 0..MaxSize + 1
    OBVIOUS
  <1>1. d \in Contents
    BY FrameChunks, CallerData
  <1>2. PICK k \in 0..1 : d \in [1..k -> Data]
    BY DEF SessionChunks
  <1>3. Len(d) = k
    BY <1>2
  <1> QED BY <1>1, <1>3, BoundsAssumption

(* Every step of the session is a call of the store, a step of the running  *)
(* operation, or none of the store's business.                              *)
LEMMA SessionStepMaps == ASSUME SInv, [SessionNext]_allVars PROVE [FsNext]_vars
  <1> SUFFICES ASSUME TypeOK, SessionTypeOK, Running PROVE FsNext \/ UNCHANGED vars
    BY DEF SInv, IInv
  <1> USE DEF Receive, AtTick
  <1>1. CASE UNCHANGED allVars
    BY <1>1 DEF allVars
  <1>2. CASE SessionBegin
    BY <1>2 DEF SessionBegin
  <1>3. CASE SessionClose \/ LeaseExpires
    <2>1. Finish
      BY <1>3 DEF SessionClose, LeaseExpires
    <2>2. upload \in 0..MaxId /\ "INVALID" \in Results
      BY DEF SessionTypeOK, Results
    <2> QED BY <2>1, <2>2 DEF Finish, FsNext, FsCall
  <1>4. CASE HandleOther \/ HandlerReturns \/ HostGone
    BY <1>4 DEF HandleOther, HandlerReturns, HostGone
  <1>5. CASE HandleQuery
    BY <1>5 DEF HandleQuery, Results, FsNext, FsCall
  <1>6. CASE HandleHello \/ HandleRun \/ SessionMounts
    BY <1>6 DEF HandleHello, HandleRun, SessionMounts, MountCall, FsNext, FsCall
  <1>7. CASE HandleFormat
    BY <1>7 DEF HandleFormat, FsNext, FsCall
  <1>8. CASE HandleBeginFails
    BY <1>8 DEF HandleBeginFails, Results, FsNext, FsCall
  <1>9. ASSUME NEW n \in Names, HandleDelete(n) \/ HandleSetStartup(n) PROVE FsNext
    BY <1>9 DEF HandleDelete, HandleSetStartup, FsNext, FsCall
  <1>10. ASSUME NEW n \in Names, NEW at \in 0..MaxSize, NEW k \in 0..MaxSize,
                HandleRead(n, at, k)
         PROVE  FsNext
    <2>1. Query("OK")
      BY <1>10 DEF HandleRead, Query
    <2> QED BY <2>1 DEF FsNext, FsCall, Results
  <1>11. ASSUME NEW n \in Names, NEW c \in Files, HandleBegin(n, c) PROVE FsNext
    BY <1>11 DEF HandleBegin, FsNext, FsCall
  <1>12. ASSUME NEW id \in 0..MaxId, HandleCommit(id) \/ HandleAbort(id) PROVE FsNext
    BY <1>12 DEF HandleCommit, HandleAbort, Results, FsNext, FsCall
  <1>13. ASSUME NEW id \in 0..MaxId, NEW at \in 0..MaxSize, NEW d \in SessionChunks,
                \/ HandleRepeated(id, at, d) \/ HandleChunk(id, at, d)
                \/ HandleChunkRefused(id, at, d)
         PROVE  FsNext \/ UNCHANGED vars
    <2>1. d \in Chunks
      BY FrameChunks
    <2> QED
      BY <1>13, <2>1 DEF HandleRepeated, HandleChunk, HandleChunkRefused, FsNext, FsCall
  <1>14. CASE StoreStep
    BY <1>14 DEF StoreStep, FsNext
  <1>15. CASE RunReturns
    <2>1. CASE UNCHANGED <<lastError, device>>
      BY <1>15, <2>1 DEF RunReturns, vars, disk, ram
    <2>2. ASSUME NEW n \in Names \cup {startup}, NEW r \in Results,
                 \/ r = ProgramResult(n) /\ UNCHANGED device
                 \/ r = "IO" /\ FlashFails,
                 lastError' = r, lastError = "OK"
          PROVE  Refuse(r) \/ Query(r)
      <3>1. Idle /\ state = "MOUNTED"
        BY <1>15, <2>2 DEF RunReturns, Running
      <3>2. r \in {"OK", "NOT_FOUND", "BUSY", "IO"}
        BY <2>2, <3>1 DEF ProgramResult, ReadResult
      <3>3. r = "BUSY" => active = 1 /\ UNCHANGED device
        BY <2>2, <3>1 DEF ProgramResult, ReadResult, FlashFails
      <3>4. r \in {"OK", "NOT_FOUND"} => UNCHANGED device
        BY <2>2, <3>1 DEF ProgramResult, ReadResult
      <3>5. r = "IO" => FlashFails
        BY <2>2, <3>1 DEF ProgramResult, ReadResult
      <3>6. UNCHANGED <<disk, uploadVars, state, nextId, remount, op, arg>>
        BY <1>15 DEF RunReturns
      <3> QED BY <2>2, <3>1, <3>2, <3>3, <3>4, <3>5, <3>6 DEF Refuse, Query
    <2> QED BY <1>15, <2>1, <2>2 DEF RunReturns, FsNext, FsCall
  <1>16. CASE PumpRead
    <2>1. PICK r \in Results :
             /\ \/ r = ReadResult(readName) /\ UNCHANGED device
                \/ r = "IO" /\ state = "MOUNTED" /\ FlashFails
             /\ lastError' = r
      BY <1>16 DEF PumpRead
    <2>2. UNCHANGED <<disk, uploadVars, state, nextId, remount, op, arg>>
      BY <1>16 DEF PumpRead
    <2>3. Refuse(r) \/ Query(r)
      BY <1>16, <2>1, <2>2 DEF PumpRead, ReadResult, Refuse, Query, TypeOK
    <2> QED BY <2>3 DEF FsNext, FsCall
  <1>17. CASE OtherCall
    BY <1>17 DEF OtherCall, MountCall, FsNext, FsCall
  <1>18. CASE Reboot
    BY <1>18 DEF Reboot, FsNext
  <1> QED
    BY <1>1, <1>2, <1>3, <1>4, <1>5, <1>6, <1>7, <1>8, <1>9, <1>10, <1>11, <1>12,
       <1>13, <1>14, <1>15, <1>16, <1>17, <1>18
    DEF SessionNext, HostRequest, Progress

(* The session's own variables keep their types. *)
LEMMA SessionTypes ==
    ASSUME TypeOK', Bounded, SessionTypeOK, [SessionNext]_allVars
    PROVE  SessionTypeOK'
  <1> USE NamesAssumption, BoundsAssumption
      DEF SessionTypeOK, Send, Answer, Acknowledge, NoRead, Receive, AtTick, Requests,
          readVars, chunkVars
  <1>e. <<>> \in Contents BY DEF Contents
  <1>1. CASE UNCHANGED allVars
    BY <1>1 DEF allVars, sessionVars
  <1>2. CASE SessionBegin
    BY <1>2, <1>e DEF SessionBegin
  <1>3. CASE SessionClose \/ LeaseExpires
    BY <1>3, <1>e DEF SessionClose, LeaseExpires, Finish
  <1>4. CASE HandleOther \/ HandlerReturns \/ HostGone
    BY <1>4, <1>e DEF HandleOther, HandlerReturns, HostGone
  <1>5. CASE HandleQuery
    BY <1>5 DEF HandleQuery
  <1>6. CASE HandleHello \/ HandleRun \/ SessionMounts
    BY <1>6 DEF HandleHello, HandleRun, SessionMounts
  <1>7. CASE HandleFormat
    BY <1>7 DEF HandleFormat
  <1>8. CASE HandleBeginFails
    BY <1>8 DEF HandleBeginFails
  <1>9. ASSUME NEW n \in Names, HandleDelete(n) \/ HandleSetStartup(n)
        PROVE  SessionTypeOK'
    BY <1>9 DEF HandleDelete, HandleSetStartup
  <1>10. ASSUME NEW n \in Names, NEW at \in 0..MaxSize, NEW k \in 0..MaxSize,
                HandleRead(n, at, k)
         PROVE  SessionTypeOK'
    <2>1. files[n] \in Contents /\ Len(files[n]) \in 0..MaxSize
      BY <1>10, FileLength DEF HandleRead, Bounded
    <2> QED BY <1>10, <2>1 DEF HandleRead
  <1>11. ASSUME NEW n \in Names, NEW c \in Files, HandleBegin(n, c)
         PROVE  SessionTypeOK'
    BY <1>11, <1>e, NextIdType DEF HandleBegin, Ids
  <1>12. ASSUME NEW id \in 0..MaxId, HandleCommit(id) \/ HandleAbort(id)
         PROVE  SessionTypeOK'
    BY <1>12, <1>e DEF HandleCommit, HandleAbort
  <1>13. ASSUME NEW id \in 0..MaxId, NEW at \in 0..MaxSize, NEW d \in SessionChunks,
                \/ HandleRepeated(id, at, d) \/ HandleChunk(id, at, d)
                \/ HandleChunkRefused(id, at, d)
         PROVE  SessionTypeOK'
    <2>1. d \in Contents /\ at + Len(d) \in 0..MaxSize + 1
      BY FrameLength
    <2> QED BY <1>13, <2>1 DEF HandleRepeated, HandleChunk, HandleChunkRefused
  <1>14. CASE StoreStep
    BY <1>14 DEF StoreStep
  <1>15. CASE RunReturns
    BY <1>15 DEF RunReturns
  <1>16. CASE PumpRead
    BY <1>16, <1>e DEF PumpRead
  <1>17. CASE OtherCall
    BY <1>17 DEF OtherCall
  <1>18. CASE Reboot
    BY <1>18, <1>e DEF Reboot
  <1> QED
    BY <1>1, <1>2, <1>3, <1>4, <1>5, <1>6, <1>7, <1>8, <1>9, <1>10, <1>11, <1>12,
       <1>13, <1>14, <1>15, <1>16, <1>17, <1>18
    DEF SessionNext, HostRequest, Progress

(* The session and the store agree after every step of either. *)
LEMMA AgreementStep ==
    ASSUME SInv, [SessionNext]_allVars
    PROVE  Owned' /\ Stored' /\ Committing' /\ Running' /\ Streaming' /\ AckMeansStored'
  <1> DEFINE Goal == Owned' /\ Stored' /\ Committing' /\ Running' /\ Streaming'
                     /\ AckMeansStored'
  <1> SUFFICES ASSUME IInv, TypeOK, Closed, SessionTypeOK, Owned, Stored, Committing, Running,
                      Streaming, AckMeansStored
               PROVE  Goal
    BY DEF SInv, IInv
  <1> USE DEF Send, Answer, Acknowledge, NoRead, Receive, AtTick, readVars, chunkVars,
          Owned, Stored, Committing, Running, Streaming, AckMeansStored
  <1>1. CASE UNCHANGED allVars
    BY <1>1 DEF allVars, sessionVars, vars, disk, uploadVars, ram
  <1>2. CASE SessionBegin
    BY <1>2 DEF SessionBegin, vars, disk, uploadVars, ram
  <1>4. CASE HandleOther \/ HostGone
    BY <1>4 DEF HandleOther, HostGone, vars, disk, uploadVars, ram
  <1>3. CASE SessionClose \/ LeaseExpires
    <2>1. /\ Finish /\ frame' = frame /\ frame = "none" /\ reply' # "ack"
          /\ readName' = NoName
      BY <1>3 DEF SessionClose, LeaseExpires, Finish
    <2>2. CASE upload # 0 /\ upload = uploadId /\ UploadAbort(upload)
      BY <2>1, <2>2 DEF UploadAbort, ClearUpload
    <2>3. CASE upload # uploadId /\ Refuse("INVALID")
      BY <2>1, <2>3 DEF Refuse, uploadVars, TypeOK
    <2>4. CASE upload = 0 /\ UNCHANGED vars
      <3>1. active = 0
        BY <2>4 DEF TypeOK, Ids
      <3> QED BY <2>1, <2>4, <3>1 DEF vars, ram, uploadVars
    <2> QED BY <2>1, <2>2, <2>3, <2>4 DEF Finish
  <1>20. ASSUME UploadKept, FilesKept, op' \notin CommitOps, UNCHANGED <<chunkVars, readVars>>,
                session' = session, frame' # "COMMIT", frame' # "RUN", reply' # "ack"
         PROVE  Goal
    BY <1>20 DEF UploadKept, FilesKept, SessionTypeOK
  <1>5. CASE HandleQuery
    BY <1>5, <1>20, CallEffect DEF HandleQuery, Results
  <1>6. CASE HandleHello \/ HandleRun \/ SessionMounts
    <2>1. /\ UploadKept /\ FilesKept
          /\ op' \in {"none", "cleanup"}
          /\ op' = "cleanup" \/ lastError' = "OK" => state' = "MOUNTED"
      BY <1>6, MountCallEffect DEF HandleHello, HandleRun, SessionMounts
    <2> QED
      BY <1>6, <2>1
      DEF HandleHello, HandleRun, SessionMounts, UploadKept, FilesKept, SessionTypeOK,
          CommitOps
  <1>7. CASE HandleFormat
    BY <1>7, <1>20, CallEffect DEF HandleFormat
  <1>8. CASE HandleBeginFails
    <2>1. CASE Refuse("BUSY") \/ Refuse("NOT_MOUNTED")
      BY <1>8, <1>20, <2>1, CallEffect DEF HandleBeginFails, Results
    <2>2. CASE UploadBeginFails
      BY <1>8, <2>2 DEF HandleBeginFails, UploadBeginFails, ClearUpload
    <2> QED BY <1>8, <2>1, <2>2 DEF HandleBeginFails
  <1>9. ASSUME NEW n \in Names, HandleDelete(n) \/ HandleSetStartup(n) PROVE Goal
    BY <1>9, <1>20, CallEffect DEF HandleDelete, HandleSetStartup
  <1>10. ASSUME NEW n \in Names, NEW at \in 0..MaxSize, NEW k \in 0..MaxSize,
                HandleRead(n, at, k)
         PROVE  Goal
    BY <1>10 DEF HandleRead, uploadVars, disk, Idle, CommitOps
  <1>11. ASSUME NEW n \in Names, NEW c \in Files, HandleBegin(n, c) PROVE Goal
    BY <1>11 DEF HandleBegin, UploadBegin
  <1>12. ASSUME NEW id \in 0..MaxId, HandleCommit(id) PROVE Goal
    BY <1>12
    DEF HandleCommit, UploadCommit, CommitRefused, uploadVars, Idle, CommitOps
  <1>13. ASSUME NEW id \in 0..MaxId, HandleAbort(id) PROVE Goal
    BY <1>13 DEF HandleAbort, UploadAbort, ClearUpload, Refuse, uploadVars
  <1>15. ASSUME NEW id \in 0..MaxId, NEW at \in 0..MaxSize, NEW d \in SessionChunks,
                HandleRepeated(id, at, d)
         PROVE  Goal
    <2>1. active = 1 /\ lastData # <<>> => at + Len(d) = offset
      BY <1>15 DEF HandleRepeated, Repeated
    <2> QED
      BY <1>15, <2>1 DEF HandleRepeated, vars, disk, ram, uploadVars, TypeOK
  <1>16. ASSUME NEW id \in 0..MaxId, NEW at \in 0..MaxSize, NEW d \in SessionChunks,
                HandleChunk(id, at, d)
         PROVE  Goal
    <2>1. at = offset
      BY <1>16 DEF HandleChunk, UploadWrite, UploadWriteClosed, WriteError
    <2>2. CASE UploadWrite(id, at, d)
      BY <1>16, <2>1, <2>2 DEF HandleChunk, UploadWrite
    <2>3. CASE UploadWriteClosed(id, at, d)
      <3>1. Len(d) = 0
        BY <2>3, FrameLength DEF UploadWriteClosed, WriteError, Closed, TypeOK
      <3>2. d = <<>>
        BY <3>1, FrameLength DEF Contents
      <3> QED BY <1>16, <2>3, <3>2 DEF HandleChunk, UploadWriteClosed, uploadVars
    <2> QED BY <1>16, <2>2, <2>3 DEF HandleChunk
  <1>17. ASSUME NEW id \in 0..MaxId, NEW at \in 0..MaxSize, NEW d \in SessionChunks,
                HandleChunkRefused(id, at, d)
         PROVE  Goal
    BY <1>17
    DEF HandleChunkRefused, UploadWriteRefused, UploadWriteFails, UploadWriteClosed,
        vars, ram, uploadVars
  <1>14. CASE StoreStep
    <2>1. FsStep /\ UNCHANGED <<chunkVars, readVars, session, host, frame>>
          /\ reply' = "none"
      BY <1>14 DEF StoreStep
    <2>2. /\ UploadKept
          /\ op \notin CommitOps => FilesKept /\ op' \notin CommitOps
          /\ op \in CommitOps =>
                /\ op' \in CommitOps \cup {"none", "halted"}
                /\ op' = "none" /\ active' = 1 => lastError' # "OK"
          /\ op = "cleanup" /\ state = "MOUNTED" =>
                op' \in {"none", "cleanup"} /\ state' = "MOUNTED"
      BY <2>1, FsStepEffect
    <2>3. op # "none" /\ op # "halted"
      BY <2>1, Halted DEF FsStep
    <2>4. Owned' /\ Stored' /\ AckMeansStored'
      BY <2>1, <2>2 DEF UploadKept
    <2>5. Committing' /\ Running'
      BY <2>1, <2>2, <2>3 DEF CommitOps
    <2>6. Streaming'
      BY <2>1, <2>2 DEF FilesKept, SessionTypeOK
    <2> QED BY <2>4, <2>5, <2>6
  <1>18. CASE HandlerReturns
    BY <1>18 DEF HandlerReturns, vars, disk, ram, uploadVars, TypeOK, Idle
  <1>19. CASE RunReturns
    BY <1>19 DEF RunReturns, disk, uploadVars
  <1>21. CASE PumpRead
    BY <1>21 DEF PumpRead, disk, uploadVars
  <1>22. CASE OtherCall
    BY <1>22, <1>20, CallEffect, MountCallEffect DEF OtherCall, CommitOps
  <1>23. CASE Reboot
    BY <1>23 DEF Reboot, PowerLoss, ClearUpload
  <1> HIDE DEF Goal
  <1> QED
    BY <1>1, <1>2, <1>3, <1>4, <1>5, <1>6, <1>7, <1>8, <1>9, <1>10, <1>11, <1>12,
       <1>13, <1>14, <1>15, <1>16, <1>17, <1>18, <1>19, <1>21, <1>22, <1>23
    DEF SessionNext, HostRequest, Progress

(* The session begins with an idle store and no upload. *)
LEMMA SessionInitInv == SessionInit => SInv
  <1> SUFFICES ASSUME SessionInit PROVE SInv
    OBVIOUS
  <1>1. IInv
    BY InitIInv DEF SessionInit
  <1>2. Bounded /\ Closed
    BY EmptyFile DEF SessionInit, Init, Empty, Bounded, Closed
  <1>3. SessionTypeOK
    BY <1>1, EmptyFile, FileLength, BoundsAssumption
    DEF IInv, SessionInit, SessionTypeOK, Requests
  <1>4. Owned /\ Stored /\ Committing /\ Running /\ Streaming /\ AckMeansStored
    BY DEF SessionInit, Init, Owned, Stored, Committing, Running, Streaming,
           AckMeansStored
  <1> QED BY <1>1, <1>2, <1>3, <1>4 DEF SInv

LEMMA SessionNextInv == SInv /\ [SessionNext]_allVars => SInv'
  <1> SUFFICES ASSUME SInv, [SessionNext]_allVars PROVE SInv'
    OBVIOUS
  <1>1. [FsNext]_vars
    BY SessionStepMaps
  <1>2. IInv' /\ Bounded' /\ Closed'
    BY <1>1, NextIInv, BoundedStep DEF SInv
  <1>3. SessionTypeOK'
    BY <1>2, SessionTypes DEF SInv, IInv
  <1> QED BY <1>2, <1>3, AgreementStep DEF SInv

LEMMA SessionInvariance == SessionSpec => []SInv
  BY SessionInitInv, SessionNextInv, PTL DEF SessionSpec

(* The session, the app and the power-off sequence use the store as its     *)
(* interface allows: every behaviour of the composed system is one of the   *)
(* store, and what holds of the store holds under the session.              *)
THEOREM SessionImplementsStore == SessionSpec => Spec
  <1>1. SessionInit => Init
    BY DEF SessionInit
  <1>2. SInv /\ [SessionNext]_allVars => [FsNext]_vars
    BY SessionStepMaps
  <1> QED BY <1>1, <1>2, SessionInvariance, PTL DEF SessionSpec, Spec

(* Under the session too a mounted volume at rest holds no temporary but    *)
(* that of the running upload.                                              *)
THEOREM SessionLeavesNothing ==
    ASSUME Faults = {} PROVE SessionSpec => []NoLeftovers
  BY SessionImplementsStore, NothingLeftBehind, PTL

(* The store has an upload only while a session holds its id: whoever ends  *)
(* it, the host, the lease, the power-off sequence or a remount, leaves     *)
(* none that would keep the store busy.                                     *)
THEOREM UploadHasOwner == SessionSpec => [](SessionTypeOK /\ UploadOwned)
  <1>1. SInv => SessionTypeOK /\ UploadOwned
    BY DEF SInv, Owned, UploadOwned
  <1> QED BY <1>1, SessionInvariance, PTL

(* An acknowledged chunk is in the upload, whether the chunk is new or a    *)
(* repetition of the last one.                                              *)
THEOREM AckIsStored == SessionSpec => []AckMeansStored
  <1>1. SInv => AckMeansStored
    BY DEF SInv
  <1> QED BY <1>1, SessionInvariance, PTL

(* A READ sends chunks of one version of the file: what is not there any    *)
(* more ends the stream, and nothing can take its name while it runs.       *)
THEOREM ReadsOneVersion == SessionSpec => ReadConsistent
  <1> DEFINE OneVersion == readName # NoName /\ reply' = "data" => files[readName] = readFrom
  <1>1. SInv /\ [SessionNext]_allVars => [OneVersion]_allVars
    <2> SUFFICES ASSUME SInv, SessionNext, readName # NoName, reply' = "data"
                 PROVE  files[readName] = readFrom
      OBVIOUS
    <2>1. PumpRead
      <3> USE DEF Send, Answer, Acknowledge
      <3>1. ~HostRequest
        BY DEF HostRequest, SessionClose, HandleOther, HandleQuery, HandleHello,
               HandleRun, HandleFormat, HandleBeginFails, HandleDelete,
               HandleSetStartup, HandleRead, HandleBegin, HandleCommit, HandleAbort,
               HandleRepeated, HandleChunk, HandleChunkRefused
      <3>2. ~(SessionMounts \/ StoreStep \/ HandlerReturns \/ RunReturns)
        BY DEF SessionMounts, StoreStep, HandlerReturns, RunReturns
      <3>3. ~(SessionBegin \/ LeaseExpires \/ HostGone \/ OtherCall \/ Reboot)
        BY DEF SessionBegin, LeaseExpires, HostGone, OtherCall, Reboot
      <3> QED BY <3>1, <3>2, <3>3 DEF SessionNext, Progress
    <2>2. PICK r \in Results :
             /\ \/ r = ReadResult(readName) /\ UNCHANGED device
                \/ r = "IO" /\ state = "MOUNTED" /\ FlashFails
             /\ r = "OK"
      BY <2>1 DEF PumpRead, Send
    <2>3. files[readName] # NoFile
      BY <2>2 DEF ReadResult
    <2> QED BY <2>3 DEF SInv, Streaming
  <1> QED BY <1>1, SessionInvariance, PTL DEF SessionSpec, ReadConsistent

=============================================================================
