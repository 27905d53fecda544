----------------------------- MODULE FileStore -----------------------------
(***************************************************************************)
(* Files and multipart uploads (local-services files.rs): rows in the      *)
(* database and bytes on disk, kept in step by callers that may crash,     *)
(* meet failed writes, or be overtaken by the purge.                       *)
(*                                                                         *)
(* A blob is staged (a row), streamed to tmp/, renamed into blobs/ and     *)
(* only then committed with the row that owns it.  Removal goes the other  *)
(* way: rows first, bytes afterwards.  One action is one transaction or    *)
(* one change of the file system; there is one upload, one internal file   *)
(* and any number of ordinary files.                                       *)
(***************************************************************************)
EXTENDS Naturals, Sequences, FiniteSets, FiniteSetsExt, SequencesExt

CONSTANTS
  Callers,        \* requests running at the same time
  Declared,       \* bytes the upload declares
  MaxPart,        \* largest part
  UploadTtl, FileTtl, StagingTtl,
  MaxBlobs,       \* bound: blobs ever staged
  MaxClock,       \* bound: time
  MaxFileFaults   \* bound: failed statements, commits and unlinks, and crashes

ASSUME FileBoundsAssumption ==
  /\ {Declared, MaxPart} \subseteq Nat \ {0}
  /\ {UploadTtl, FileTtl, StagingTtl, MaxBlobs, MaxClock, MaxFileFaults}
       \subseteq Nat

VARIABLES
  clock,
  blobRow,      \* file_blobs: [state, at], state "none" when there is no row
  staged,       \* blob ids drawn so far
  disk, tmp,    \* the blobs with an entry in blobs/ and in tmp/
  content,      \* the bytes streamed to each blob: the blobs they came from
  fileRows,     \* files
  internal,     \* internal_files holds the reserved id
  upload,       \* uploads
  parts,        \* upload_parts
  assembled,    \* history: files made of the upload
  call,         \* what each caller is doing
  fileFaults

fileTables == <<blobRow, staged, fileRows, internal, upload, parts, assembled>>
fileBytes  == <<disk, tmp, content>>
fileBounds == <<clock, fileFaults>>
filesVars  == <<fileTables, fileBytes, fileBounds, call>>

BlobIds    == 1..MaxBlobs
NoRow    == [state |-> "none", at |-> 0]
NoExpiry == MaxClock + 1
Reserved == 0          \* the internal file's id; other files are named by blob
IdleCall == [op |-> "idle", at |-> "idle", blob |-> 0, bytes |-> 0,
             parts |-> <<>>, todo |-> <<>>]

FilesInit ==
  /\ clock = 0 /\ staged = 0 /\ internal = FALSE /\ assembled = 0
  /\ blobRow = [b \in BlobIds |-> NoRow]
  /\ disk = {} /\ tmp = {} /\ content = [b \in BlobIds |-> <<>>]
  /\ fileRows = {} /\ parts = {}
  /\ upload = [status |-> "none", expires |-> 0]
  /\ call = [c \in Callers |-> IdleCall]
  /\ fileFaults = 0

FileGo(c, at) == call' = [call EXCEPT ![c].at = at]
Leave(c)      == call' = [call EXCEPT ![c] = IdleCall]
FileFault    == fileFaults < MaxFileFaults /\ fileFaults' = fileFaults + 1
NoFileFault  == UNCHANGED fileFaults
SizeOf(rows) == MapThenSumSet(LAMBDA p : p.bytes, rows)
PartBlobs    == {p.blob : p \in parts}

(* remove_blob: the entry in blobs/, then the one in tmp/.  Unlinks left   *)
(* to do are a sequence of <<directory, blob>>; after the last the purge   *)
(* goes on to its scan and any other caller is done.                       *)
Unlinks(bs) == LET order == SetToSeq(bs)
               IN [n \in 1..(2 * Len(order)) |->
                     IF n % 2 = 1 THEN <<"blobs", order[(n + 1) \div 2]>>
                                  ELSE <<"tmp", order[n \div 2]>>]

Unlinking(c, op, todo) ==
  call' = [call EXCEPT ![c] =
             IF todo # <<>>
             THEN [IdleCall EXCEPT !.op = op, !.at = "unlink", !.todo = todo]
             ELSE IF op = "purge" THEN [IdleCall EXCEPT !.op = op, !.at = "scan blobs"]
             ELSE IdleCall]

(* upload_status, ensure_mutable: pending and not past its expiry.         *)
UploadOpen == upload.status = "pending" /\ clock < upload.expires

(***************************************************************************)
(* Creating.  Every write begins with a committed staging row.             *)
(***************************************************************************)
StageBlob(c, op, limit, ps) ==
  /\ call[c].op = "idle" /\ staged < MaxBlobs
  /\ staged' = staged + 1
  /\ blobRow' = [blobRow EXCEPT ![staged'] = [state |-> "staging", at |-> clock]]
  /\ call' = [call EXCEPT ![c] = [IdleCall EXCEPT
                 !.op = op, !.at = "open", !.blob = staged', !.bytes = limit,
                 !.parts = ps]]
  /\ UNCHANGED <<fileRows, internal, upload, parts, assembled, fileBytes,
                 fileBounds>>

CreateFile(c) == StageBlob(c, "file", 1, <<>>)

(* create_internal_file: an id ever committed is answered from its row.    *)
CreateInternalFile(c) == ~internal /\ StageBlob(c, "internal", 1, <<>>)

CreateUpload(c) ==
  /\ call[c].op = "idle" /\ upload.status = "none"
  /\ upload' = [status |-> "pending", expires |-> clock + UploadTtl]
  /\ UNCHANGED <<blobRow, staged, fileRows, internal, parts, assembled,
                 fileBytes, fileBounds, call>>

AddUploadPart(c) ==
  LET remaining == Declared - SizeOf(parts)
  IN /\ UploadOpen /\ remaining > 0
     /\ StageBlob(c, "part", Min({MaxPart, remaining}), <<>>)

(* complete_upload: distinct parts of this upload that add up to the       *)
(* declared bytes, in the order asked for.                                 *)
CompleteUpload(c) ==
  /\ UploadOpen
  /\ \E n \in 1..Cardinality(parts) : \E ps \in [1..n -> parts] :
       /\ IsInjective(ps) /\ SizeOf(Range(ps)) = Declared
       /\ StageBlob(c, "complete", Declared, ps)

(* write_blob opens tmp/ and streams: a caller's body as one piece, an     *)
(* assembly part after part, opening each when it gets there.              *)
StreamBody(c) ==
  LET b == call[c].blob
  IN /\ call[c].at = "open"
     /\ tmp' = tmp \cup {b}
     /\ IF call[c].op = "complete"
        THEN FileGo(c, "copy") /\ UNCHANGED content
        ELSE /\ content' = [content EXCEPT ![b] = <<b>>]
             /\ \E n \in 1..call[c].bytes :
                  call' = [call EXCEPT ![c].at = "copy", ![c].bytes = n]
     /\ UNCHANGED <<fileTables, disk, fileBounds>>

CopyPart(c) ==
  LET b == call[c].blob
      n == Len(content[b]) + 1
  IN /\ call[c].at = "copy" /\ call[c].op = "complete" /\ n <= Len(call[c].parts)
     /\ call[c].parts[n].blob \in disk
     /\ content' = [content EXCEPT ![b] = @ \o content[call[c].parts[n].blob]]
     /\ UNCHANGED <<fileTables, disk, tmp, fileBounds, call>>

(* The stream fails, exceeds its limit, or a part is gone from disk:       *)
(* write_blob removes its temporary file and the blob is discarded.        *)
CopyFails(c) ==
  /\ call[c].at = "copy"
  /\ tmp' = tmp \ {call[c].blob}
  /\ FileGo(c, "discard")
  /\ UNCHANGED <<fileTables, disk, content, fileBounds>>

(* After the rename an empty body, or an assembly of the wrong size or     *)
(* checksum, is discarded too.                                             *)
RenameBlob(c) ==
  LET b == call[c].blob
  IN /\ call[c].at = "copy"
     /\ Len(content[b]) = IF call[c].op = "complete" THEN Len(call[c].parts) ELSE 1
     /\ b \in tmp
     /\ tmp' = tmp \ {b} /\ disk' = disk \cup {b}
     /\ \E at \in IF call[c].op = "internal" THEN {"commit"}
                                             ELSE {"commit", "discard"} : FileGo(c, at)
     /\ UNCHANGED <<fileTables, content, fileBounds>>

(***************************************************************************)
(* The commit transaction: commit_blob and the row that owns the blob.     *)
(* A commit that reports an error may have happened or not.                *)
(***************************************************************************)
DropRows(bs) == [b \in BlobIds |-> IF b \in bs THEN NoRow ELSE blobRow[b]]

CommitBlob(c, rows) ==
  /\ call[c].at = "commit" /\ blobRow[call[c].blob].state = "staging"
  /\ blobRow' = [rows EXCEPT ![call[c].blob].state = "committed"]

Reported(c, released) ==
  \/ NoFileFault /\ Unlinking(c, "remove", Unlinks(released))
  \/ FileFault /\ FileGo(c, "discard")

InsertFile(c, id, source, expiries) ==
  \E e \in expiries :
    fileRows' = fileRows \cup {[id |-> id, blob |-> call[c].blob,
                                content |-> source, expires |-> e]}

CommitNewFile(c) ==
  /\ call[c].op = "file"
  /\ CommitBlob(c, blobRow)
  /\ InsertFile(c, call[c].blob, <<call[c].blob>>, {clock + FileTtl, NoExpiry})
  /\ Reported(c, {})
  /\ UNCHANGED <<staged, internal, upload, parts, assembled, fileBytes, clock>>

(* commit_internal_file: only if no earlier attempt committed the id.      *)
CommitInternalFile(c) ==
  /\ call[c].op = "internal" /\ ~internal
  /\ CommitBlob(c, blobRow)
  /\ InsertFile(c, Reserved, <<call[c].blob>>, {clock + FileTtl})
  /\ internal' = TRUE
  /\ Reported(c, {})
  /\ UNCHANGED <<staged, upload, parts, assembled, fileBytes, clock>>

(* commit_new_part: the upload may have ended, or filled up, meanwhile.    *)
CommitNewPart(c) ==
  /\ call[c].op = "part" /\ UploadOpen
  /\ SizeOf(parts) + call[c].bytes <= Declared
  /\ CommitBlob(c, blobRow)
  /\ parts' = parts \cup {[blob |-> call[c].blob, bytes |-> call[c].bytes]}
  /\ Reported(c, {})
  /\ UNCHANGED <<staged, fileRows, internal, upload, assembled, fileBytes, clock>>

(* commit_completion: the parts are resolved again, the file inserted, the *)
(* upload completed and all its parts released, in one transaction.        *)
CommitCompletion(c) ==
  LET ps == call[c].parts
  IN /\ call[c].op = "complete" /\ UploadOpen
     /\ Range(ps) \subseteq parts /\ SizeOf(Range(ps)) = Declared
     /\ CommitBlob(c, DropRows(PartBlobs))
     /\ InsertFile(c, call[c].blob, [n \in DOMAIN ps |-> ps[n].blob],
                   {clock + FileTtl, NoExpiry})
     /\ upload' = [upload EXCEPT !.status = "completed"]
     /\ assembled' = assembled + 1
     /\ parts' = {}
     /\ Reported(c, PartBlobs)
     /\ UNCHANGED <<staged, internal, fileBytes, clock>>

CanCommit(c) ==
  /\ blobRow[call[c].blob].state = "staging"
  /\ CASE call[c].op = "file"     -> TRUE
       [] call[c].op = "internal" -> ~internal
       [] call[c].op = "part"     -> /\ UploadOpen
                                     /\ SizeOf(parts) + call[c].bytes <= Declared
       [] call[c].op = "complete" -> /\ UploadOpen
                                     /\ Range(call[c].parts) \subseteq parts

(* The transaction refuses (its checks fail) or fails without effect.      *)
CommitRefused(c) ==
  /\ call[c].at = "commit"
  /\ \/ NoFileFault /\ ~ CanCommit(c)
     \/ FileFault
  /\ FileGo(c, "discard")
  /\ UNCHANGED <<fileTables, fileBytes, clock>>

(* Mutant of DiscardBlob: the blob goes whatever its row says. *)
DiscardBlobAnyway(c) ==
  LET b == call[c].blob
  IN /\ call[c].at = "discard"
     /\ blobRow' = DropRows({b})
     /\ NoFileFault /\ Unlinking(c, "remove", Unlinks({b}))
     /\ UNCHANGED <<staged, fileRows, internal, upload, parts, assembled,
                    fileBytes, clock>>

(* discard_blob: only a row that is still staging is deleted, and only     *)
(* then are the bytes unlinked.                                            *)
DiscardBlob(c) ==
  LET b == call[c].blob
  IN /\ call[c].at = "discard"
     /\ \/ /\ blobRow[b].state = "staging"
           /\ blobRow' = DropRows({b})
           /\ NoFileFault /\ Unlinking(c, "remove", Unlinks({b}))
        \/ /\ blobRow[b].state # "staging"
           /\ NoFileFault /\ Leave(c) /\ UNCHANGED blobRow
        \/ FileFault /\ Leave(c) /\ UNCHANGED blobRow
     /\ UNCHANGED <<staged, fileRows, internal, upload, parts, assembled,
                    fileBytes, clock>>

(***************************************************************************)
(* Removing.                                                               *)
(***************************************************************************)
DeleteFile(c) ==
  /\ call[c].op = "idle"
  /\ \E f \in fileRows :
       /\ clock < f.expires
       /\ fileRows' = fileRows \ {f}
       /\ blobRow' = DropRows({f.blob})
       /\ Unlinking(c, "remove", Unlinks({f.blob}))
  /\ UNCHANGED <<staged, internal, upload, parts, assembled, fileBytes, fileBounds>>

CancelUpload(c) ==
  /\ call[c].op = "idle" /\ UploadOpen
  /\ upload' = [upload EXCEPT !.status = "cancelled"]
  /\ parts' = {} /\ blobRow' = DropRows(PartBlobs)
  /\ Unlinking(c, "remove", Unlinks(PartBlobs))
  /\ UNCHANGED <<staged, fileRows, internal, assembled, fileBytes, fileBounds>>

(* purge_file_storage: expired files, the parts of an expired upload and   *)
(* staging rows older than their time, then disk entries without a row.    *)
PurgeFileStorage(c) ==
  LET expired == {f \in fileRows : f.expires <= clock}
      dead    == IF upload.status = "pending" /\ upload.expires <= clock
                 THEN PartBlobs ELSE {}
      stale   == {b \in BlobIds : /\ blobRow[b].state = "staging"
                                /\ blobRow[b].at + StagingTtl <= clock}
      gone    == {f.blob : f \in expired} \cup dead \cup stale
  IN /\ call[c].op = "idle"
     /\ fileRows' = fileRows \ expired
     /\ parts' = {p \in parts : p.blob \notin dead}
     /\ blobRow' = DropRows(gone)
     /\ Unlinking(c, "purge", Unlinks(gone))
     /\ UNCHANGED <<staged, internal, upload, assembled, fileBytes, fileBounds>>

(* One unlink.  A failed one is ignored, except by the purge, which stops. *)
UnlinkBlob(c) ==
  LET todo == call[c].todo
      b    == Head(todo)[2]
  IN /\ call[c].at = "unlink"
     /\ \/ /\ NoFileFault /\ Unlinking(c, call[c].op, Tail(todo))
           /\ IF Head(todo)[1] = "blobs" THEN disk' = disk \ {b} /\ UNCHANGED tmp
                                         ELSE tmp' = tmp \ {b} /\ UNCHANGED disk
        \/ /\ FileFault /\ UNCHANGED <<disk, tmp>>
           /\ IF call[c].op = "purge" THEN Leave(c)
              ELSE Unlinking(c, call[c].op, Tail(todo))
     /\ UNCHANGED <<fileTables, content, clock>>

(* remove_orphans lists blobs/, then tmp/.                                 *)
RemoveOrphans(c) ==
  LET Known(b) == blobRow[b].state # "none"
  IN /\ \/ /\ call[c].at = "scan blobs" /\ FileGo(c, "scan tmp")
           /\ disk' = {b \in disk : Known(b)} /\ UNCHANGED tmp
        \/ /\ call[c].at = "scan tmp" /\ Leave(c)
           /\ tmp' = {b \in tmp : Known(b)} /\ UNCHANGED disk
     /\ UNCHANGED <<fileTables, content, fileBounds>>

(***************************************************************************)
(* Time, and the death of the process: rows and bytes stay.                *)
(***************************************************************************)
FileTick ==
  /\ clock < MaxClock /\ clock' = clock + 1
  /\ UNCHANGED <<fileTables, fileBytes, fileFaults, call>>

FileCrash ==
  /\ FileFault
  /\ call' = [c \in Callers |-> IdleCall]
  /\ UNCHANGED <<fileTables, fileBytes, clock>>

FilesNext ==
  \/ \E c \in Callers :
       \/ CreateFile(c) \/ CreateInternalFile(c) \/ CreateUpload(c)
       \/ AddUploadPart(c) \/ CompleteUpload(c)
       \/ StreamBody(c) \/ CopyPart(c) \/ CopyFails(c) \/ RenameBlob(c)
       \/ CommitNewFile(c) \/ CommitInternalFile(c) \/ CommitNewPart(c)
       \/ CommitCompletion(c) \/ CommitRefused(c) \/ DiscardBlob(c)
       \/ DeleteFile(c) \/ CancelUpload(c) \/ PurgeFileStorage(c)
       \/ UnlinkBlob(c) \/ RemoveOrphans(c)
  \/ FileTick \/ FileCrash

FilesSpec == FilesInit /\ [][FilesNext]_filesVars

(***************************************************************************)
(* Properties.                                                             *)
(***************************************************************************)
(* What a committed row names can be read: the blob of every file and of   *)
(* every part is in blobs/ and holds exactly the bytes it was committed    *)
(* with (an upload's file the parts asked for, in their order), whatever   *)
(* purge, cancellation, crash or failed commit ran beside it.              *)
FilesReadable ==
  /\ \A f \in fileRows : /\ blobRow[f.blob].state = "committed"
                         /\ f.blob \in disk
                         /\ content[f.blob] = f.content
  /\ \A p \in parts : blobRow[p.blob].state = "committed" /\ p.blob \in disk

(* An upload becomes at most one file, and only by completing; its parts   *)
(* never exceed what it declared, however many are streamed at once.       *)
UploadOnce ==
  /\ assembled = IF upload.status = "completed" THEN 1 ELSE 0
  /\ SizeOf(parts) <= Declared

(* The file store is sound: what it names it holds, and an upload that is  *)
(* completed, cancelled or fed by several requests at once is settled      *)
(* once.                                                                   *)
FilesInv == FilesReadable /\ UploadOnce
=============================================================================
