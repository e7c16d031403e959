--------------------------- MODULE ResumeStorage ---------------------------
(***************************************************************************)
(* DownloadStorage (src/storage.rs): the part file, the resume state file  *)
(* and the finished output of one torrent at one destination, across any   *)
(* number of processes that open it one after the other.                   *)
(*                                                                         *)
(* A piece's bytes are abstracted to whether they verify: contents are the *)
(* set of pieces whose bytes match their hash.  Zeros, torn writes, another*)
(* torrent's bytes and damaged bytes all simply do not verify.             *)
(*                                                                         *)
(* Two views of the disk are kept.  seen and dir are what the running      *)
(* system reads; disk and durable are what a power failure leaves.  File   *)
(* contents reach the disk at sync_data or whenever the kernel writes them *)
(* back; directory entries reach it when the file system commits, in the   *)
(* order they were made (the code never syncs a directory).                *)
(***************************************************************************)
EXTENDS Naturals, FiniteSets

CONSTANTS
  NumPieces,     \* info.pieces.len()
  Inodes,        \* the files the file system may create; naturals, so that
                 \* a new file can take the least free one
  Layouts,       \* which kinds of torrents: subset of {"single", "multi"}
  Faults,        \* what the world may do, see the actions of Environment
  None,          \* no such directory entry
  Foreign,       \* an entry that is not this download's
  Torn           \* a state file whose contents were lost

AllFaults == {"kill", "io", "power", "damage", "other", "foreign", "race"}

ASSUME StorageAssumption ==
  /\ NumPieces \in Nat \ {0}
  /\ Inodes \subseteq Nat
  /\ Layouts \subseteq {"single", "multi"}
  /\ Faults \subseteq AllFaults
  /\ None \notin Inodes
  /\ Foreign \notin Inodes
  /\ None # Foreign

Pieces == 0 .. (NumPieces - 1)

\* What a state file holds: whether it is this torrent's, the marks, the count,
\* and whether it was synced before it was renamed into place.
ResumeRecords == [mine : BOOLEAN, done : SUBSET Pieces, count : Nat,
                  synced : BOOLEAN]

ASSUME RecordAssumption == /\ None \notin ResumeRecords
                           /\ Torn \notin ResumeRecords
                           /\ None # Torn

VARIABLES
  layout,        \* finalize_target: SingleFile or MultiFile
  pc,            \* where the process is; "down" when there is none
  done,          \* state.completed_pieces, as the set of the true ones
  count,         \* state.completed_piece_count
  cursor,        \* the piece a loop or a write is at
  temp,          \* the temporary state file: "none", "written", "synced"
  failed,        \* some write_verified_piece has returned an error
  seen,          \* contents of each file, as processes read them
  disk,          \* contents of each file that a power failure leaves
  dir,           \* the directory, as processes see it
  durable        \* the directory that a power failure leaves

mem == <<done, count, cursor, temp, failed>>
files == <<seen, disk, dir, durable>>
vars == <<layout, pc, mem, files>>

EmptyDir == [part |-> None, out |-> None, staging |-> None, resume |-> None]

Init == /\ layout \in Layouts
        /\ pc = "down"
        /\ done = {}
        /\ count = 0
        /\ cursor = 0
        /\ temp = "none"
        /\ failed = FALSE
        /\ seen = [i \in Inodes |-> {}]
        /\ disk = [i \in Inodes |-> {}]
        /\ dir = EmptyDir
        /\ durable = EmptyDir

-----------------------------------------------------------------------------
(* Helpers *)

\* Files some directory still names, now or after a power failure.
InUse == {dir.part, dir.out, dir.staging,
          durable.part, durable.out, durable.staging}

\* The file system creates the next file under the least unused number.
IsFresh(i) == /\ i \in Inodes \ InUse
              /\ \A j \in Inodes \ InUse : i <= j

\* The resume record that persist_state writes.
Record == [mine |-> TRUE, done |-> done, count |-> count,
           synced |-> temp = "synced"]

\* A record this torrent may use (ResumeState::matches).
Matches(r) == r \notin {None, Torn} /\ r.mine

\* The process returns an error or Ok, or is killed: its memory is gone.
End == /\ pc' = "down"
       /\ done' = {}
       /\ count' = 0
       /\ cursor' = 0
       /\ temp' = "none"
       /\ failed' = FALSE

-----------------------------------------------------------------------------
(* DownloadStorage::open *)

TargetTaken == dir.out # None /\ dir.part = None /\ dir.resume = None

\* ensure_target_is_available fails: "Output path already exists".
RefuseOpen == /\ pc = "down"
              /\ TargetTaken
              /\ UNCHANGED vars

\* Mutant of OpenPart: an existing part file is truncated.
OpenPartTruncating == /\ pc = "down"
                      /\ ~TargetTaken
                      /\ pc' = "load"
                      /\ \E i \in Inodes :
                           /\ i = dir.part \/ (dir.part = None /\ IsFresh(i))
                           /\ seen' = [seen EXCEPT ![i] = {}]
                           /\ disk' = [disk EXCEPT ![i] = {}]
                           /\ dir' = [dir EXCEPT !.part = i]
                      /\ UNCHANGED <<layout, mem, durable>>

\* The part file is created if missing, kept otherwise, and given its length.
OpenPart == /\ pc = "down"
            /\ ~TargetTaken
            /\ pc' = "load"
            /\ \/ /\ dir.part # None
                  /\ UNCHANGED <<seen, disk, dir>>
               \/ /\ dir.part = None
                  /\ \E i \in Inodes :
                       /\ IsFresh(i)
                       /\ seen' = [seen EXCEPT ![i] = {}]
                       /\ disk' = [disk EXCEPT ![i] = {}]
                       /\ dir' = [dir EXCEPT !.part = i]
            /\ UNCHANGED <<layout, mem, durable>>

\* Mutant of LoadState: the loaded marks are trusted without reconciliation.
LoadStateTrusting == /\ pc = "load"
                     /\ done' = IF Matches(dir.resume) THEN dir.resume.done
                                                       ELSE {}
                     /\ count' = Cardinality(done')
                     /\ cursor' = NumPieces
                     /\ pc' = "persist"
                     /\ UNCHANGED <<layout, temp, failed, files>>

\* load_or_initialize_state: an unreadable file is an error, another
\* torrent's is ignored.
LoadState == /\ pc = "load"
             /\ \/ /\ dir.resume = Torn
                   /\ End
                \/ /\ Matches(dir.resume)
                   /\ done' = dir.resume.done
                   /\ count' = Cardinality(dir.resume.done)
                   /\ pc' = "reconcile"
                   /\ UNCHANGED <<cursor, temp, failed>>
                \/ /\ dir.resume # Torn
                   /\ ~Matches(dir.resume)
                   /\ pc' = "reconcile"
                   /\ UNCHANGED mem
             /\ UNCHANGED <<layout, files>>

\* One iteration of reconcile_completed_pieces: a piece that no longer
\* verifies loses its mark and is zeroed; the count is left alone.
Reconcile ==
  /\ pc = "reconcile"
  /\ \/ /\ cursor \in done \ seen[dir.part]
        /\ done' = done \ {cursor}
        /\ disk' = [disk EXCEPT ![dir.part] = seen[dir.part]]
     \/ /\ cursor \notin done \ seen[dir.part]
        /\ UNCHANGED <<done, disk>>
  /\ cursor' = cursor + 1
  /\ pc' = IF cursor' = NumPieces THEN "persist" ELSE "reconcile"
  /\ UNCHANGED <<layout, count, temp, failed, seen, dir, durable>>

-----------------------------------------------------------------------------
(* persist_state: create or truncate the temporary file, write it, sync it,*)
(* rename it over the state file.  Called by open and by each write.       *)

WriteTemp == /\ pc = "persist"
             /\ temp = "none"
             /\ temp' = "written"
             /\ UNCHANGED <<layout, pc, done, count, cursor, failed, files>>

\* Mutant of SyncTemp: the temporary file is renamed without sync_data.
SkipTempSync == /\ pc = "persist"
                /\ temp = "written"
                /\ pc' = "publish"
                /\ UNCHANGED <<layout, mem, files>>

SyncTemp == /\ pc = "persist"
            /\ temp = "written"
            /\ temp' = "synced"
            /\ pc' = "publish"
            /\ UNCHANGED <<layout, done, count, cursor, failed, files>>

RenameTemp == /\ pc = "publish"
              /\ dir' = [dir EXCEPT !.resume = Record]
              /\ temp' = "none"
              /\ cursor' = 0
              /\ pc' = "open"
              /\ UNCHANGED <<layout, done, count, failed, seen, disk, durable>>

-----------------------------------------------------------------------------
(* write_verified_piece, called with the bytes of piece p.  A partial      *)
(* write does not verify, and over a verified piece it rewrites the same   *)
(* bytes: only the completed write changes what the file holds.            *)

WriteData(p) == /\ pc = "open"
                /\ cursor' = p
                /\ seen' = [seen EXCEPT ![dir.part] = @ \union {p}]
                /\ pc' = "sync"
                /\ UNCHANGED <<layout, done, count, temp, failed,
                               disk, dir, durable>>

\* Mutant of SyncAndMark: the piece is marked without sync_data.
MarkWithoutSync == /\ pc = "sync"
                   /\ done' = done \union {cursor}
                   /\ count' = IF cursor \in done THEN count ELSE count + 1
                   /\ pc' = "persist"
                   /\ UNCHANGED <<layout, cursor, temp, failed, files>>

\* Mutant of SyncAndMark: the state file is left for a later write to update.
MarkWithoutPersist == /\ pc = "sync"
                      /\ disk' = [disk EXCEPT ![dir.part] = seen[dir.part]]
                      /\ done' = done \union {cursor}
                      /\ count' = IF cursor \in done THEN count ELSE count + 1
                      /\ cursor' = 0
                      /\ pc' = "open"
                      /\ UNCHANGED <<layout, temp, failed, seen, dir, durable>>

\* sync_data, and only then the mark and the count.
SyncAndMark == /\ pc = "sync"
               /\ disk' = [disk EXCEPT ![dir.part] = seen[dir.part]]
               /\ done' = done \union {cursor}
               /\ count' = IF cursor \in done THEN count ELSE count + 1
               /\ pc' = "persist"
               /\ UNCHANGED <<layout, cursor, temp, failed,
                              seen, dir, durable>>

\* seek, write_all, sync_data or persist_state fails inside a write: the
\* error goes to the worker, and an interrupted download lets the other
\* workers finish their pieces with the same storage.
WriteFails == /\ "io" \in Faults
              /\ \/ pc = "open"
                 \/ pc = "sync"
                 \/ pc \in {"persist", "publish"} /\ cursor \in Pieces
              /\ pc' = "open"
              /\ cursor' = 0
              /\ temp' = "none"
              /\ failed' = TRUE
              /\ UNCHANGED <<layout, done, count, files>>

-----------------------------------------------------------------------------
(* finalize *)

\* Mutant of BeginFinalize: completeness is judged by the printed count.
BeginFinalizeByCount == /\ pc = "open"
                        /\ count >= NumPieces
                        /\ ~failed
                        /\ pc' = "target"
                        /\ UNCHANGED <<layout, mem, files>>

\* is_complete; the download does not get here after a failed write.
BeginFinalize == /\ pc = "open"
                 /\ done = Pieces
                 /\ ~failed
                 /\ pc' = "target"
                 /\ UNCHANGED <<layout, mem, files>>

\* Mutant of CheckTarget: the output path is not checked again.
CheckTargetNever == /\ pc = "target"
                    /\ pc' = IF layout = "single" THEN "rename" ELSE "stage"
                    /\ UNCHANGED <<layout, mem, files>>

\* "Refusing to overwrite existing file" or directory.
CheckTarget == /\ pc = "target"
               /\ \/ /\ dir.out # None
                     /\ End
                  \/ /\ dir.out = None
                     /\ pc' = IF layout = "single" THEN "rename" ELSE "stage"
                     /\ UNCHANGED mem
               /\ UNCHANGED <<layout, files>>

\* SingleFile: the part file becomes the output (rename replaces a file).
RenamePart == /\ pc = "rename"
              /\ dir' = [dir EXCEPT !.out = dir.part, !.part = None]
              /\ pc' = "cleanup"
              /\ UNCHANGED <<layout, mem, seen, disk, durable>>

\* MultiFile: a stale staging tree is removed and an empty one created.
Stage == /\ pc = "stage"
         /\ \E i \in Inodes :
              /\ IsFresh(i)
              /\ seen' = [seen EXCEPT ![i] = {}]
              /\ disk' = [disk EXCEPT ![i] = {}]
              /\ dir' = [dir EXCEPT !.staging = i]
         /\ cursor' = 0
         /\ pc' = "copy"
         /\ UNCHANGED <<layout, done, count, temp, failed, durable>>

\* materialize_multi_file_tree, cut at pieces: flushed, never synced.
CopyPiece ==
  /\ pc = "copy"
  /\ seen' = [seen EXCEPT ![dir.staging] =
                @ \union ({cursor} \intersect seen[dir.part])]
  /\ cursor' = cursor + 1
  /\ pc' = IF cursor' = NumPieces THEN "renameStaging" ELSE "copy"
  /\ UNCHANGED <<layout, done, count, temp, failed, disk, dir, durable>>

\* An unsafe path or an I/O error: the staging tree is removed.
CopyFails == /\ pc = "copy"
             /\ dir' = [dir EXCEPT !.staging = None]
             /\ End
             /\ UNCHANGED <<layout, seen, disk, durable>>

\* rename of a directory fails when something (not empty) is in the way.
RenameStaging == /\ pc = "renameStaging"
                 /\ \/ /\ dir.out # None
                       /\ End
                       /\ UNCHANGED dir
                    \/ /\ dir.out = None
                       /\ dir' = [dir EXCEPT !.out = dir.staging,
                                             !.staging = None]
                       /\ cursor' = 0
                       /\ pc' = "removePart"
                       /\ UNCHANGED <<done, count, temp, failed>>
                 /\ UNCHANGED <<layout, seen, disk, durable>>

RemovePart == /\ pc = "removePart"
              /\ dir' = [dir EXCEPT !.part = None]
              /\ pc' = "cleanup"
              /\ UNCHANGED <<layout, mem, seen, disk, durable>>

\* The state file is removed if it exists and finalize returns Ok.
RemoveState == /\ pc = "cleanup"
               /\ dir' = [dir EXCEPT !.resume = None]
               /\ End
               /\ UNCHANGED <<layout, seen, disk, durable>>

-----------------------------------------------------------------------------
(* The world around the process *)

\* The process ends at any await point: killed, aborted with its tasks, or
\* returning an error or an interruption to the shell.
Kill == /\ "kill" \in Faults
        /\ pc # "down"
        /\ End
        /\ UNCHANGED <<layout, files>>

\* The kernel writes back one more piece of a file.
Writeback == /\ "power" \in Faults
             /\ \E i \in Inodes : \E p \in seen[i] \ disk[i] :
                  disk' = [disk EXCEPT ![i] = @ \union {p}]
             /\ UNCHANGED <<layout, pc, mem, seen, dir, durable>>

\* The file system commits the directory.
CommitDir == /\ "power" \in Faults
             /\ durable' = dir
             /\ UNCHANGED <<layout, pc, mem, seen, disk, dir>>

\* What a power failure leaves of a state file: one renamed without a sync
\* may have lost its contents.
AfterPowerLoss(r) == IF r \in {None, Torn} \/ r.synced THEN {r} ELSE {r, Torn}

PowerLoss == /\ "power" \in Faults
             /\ seen' = disk
             /\ \E r \in AfterPowerLoss(durable.resume) :
                  dir' = [durable EXCEPT !.resume = r]
             /\ durable' = dir'
             /\ End
             /\ UNCHANGED <<layout, disk>>

\* Somebody damages a piece of the part file of a stopped download.
DamagePiece == /\ "damage" \in Faults
               /\ pc = "down"
               /\ dir.part # None
               /\ \E p \in seen[dir.part] :
                    /\ seen' = [seen EXCEPT ![dir.part] = @ \ {p}]
                    /\ disk' = [disk EXCEPT ![dir.part] = @ \ {p}]
               /\ UNCHANGED <<layout, pc, mem, dir, durable>>

\* Somebody damages the state file: it is no longer valid JSON.
DamageState == /\ "damage" \in Faults
               /\ pc = "down"
               /\ dir.resume # None
               /\ dir' = [dir EXCEPT !.resume = Torn]
               /\ UNCHANGED <<layout, pc, mem, seen, disk, durable>>

\* Another torrent was downloaded for a while to the same destination.
OtherTorrent ==
  /\ "other" \in Faults
  /\ pc = "down"
  /\ dir.part # None
  /\ \E S \in SUBSET seen[dir.part] :
       /\ seen' = [seen EXCEPT ![dir.part] = S]
       /\ disk' = [disk EXCEPT ![dir.part] = S]
  /\ dir' = [dir EXCEPT !.resume = [mine |-> FALSE, done |-> {},
                                    count |-> 0, synced |-> TRUE]]
  /\ UNCHANGED <<layout, pc, mem, durable>>

\* Somebody puts something at the output path; with "race", even between
\* finalize's check and its rename.
ForeignOutput == /\ "foreign" \in Faults
                 /\ dir.out = None
                 /\ pc = "rename" => "race" \in Faults
                 /\ dir' = [dir EXCEPT !.out = Foreign]
                 /\ UNCHANGED <<layout, pc, mem, seen, disk, durable>>

-----------------------------------------------------------------------------
Open == RefuseOpen \/ OpenPart \/ LoadState \/ Reconcile

Persist == WriteTemp \/ SyncTemp \/ RenameTemp

Write == (\E p \in Pieces : WriteData(p)) \/ SyncAndMark \/ WriteFails

Finalize == \/ BeginFinalize \/ CheckTarget \/ RenamePart
            \/ Stage \/ CopyPiece \/ CopyFails \/ RenameStaging
            \/ RemovePart \/ RemoveState

Environment == \/ Kill \/ Writeback \/ CommitDir \/ PowerLoss
               \/ DamagePiece \/ DamageState \/ OtherTorrent \/ ForeignOutput

Next == Open \/ Persist \/ Write \/ Finalize \/ Environment

Spec == Init /\ [][Next]_vars

-----------------------------------------------------------------------------
(* Correctness *)

\* The positions of the process between reconciliation and the moment
\* finalize gives the part file away.
Trusting == {"open", "sync", "persist", "publish", "target", "rename",
             "stage", "copy", "renameStaging", "removePart"}

Directories == [part : Inodes \union {None},
                out : Inodes \union {None, Foreign},
                staging : Inodes \union {None},
                resume : ResumeRecords \union {None, Torn}]

\* Every variable has the type of what it stands for.
TypeOK == /\ layout \in Layouts
          /\ pc \in Trusting \union {"down", "load", "reconcile", "cleanup"}
          /\ done \subseteq Pieces
          /\ count \in Nat
          /\ cursor \in 0 .. NumPieces
          /\ temp \in {"none", "written", "synced"}
          /\ failed \in BOOLEAN
          /\ seen \in [Inodes -> SUBSET Pieces]
          /\ disk \in [Inodes -> SUBSET Pieces]
          /\ dir \in Directories
          /\ durable \in Directories

\* From the end of reconciliation on, a piece that is not going to be fetched
\* (missing_piece_indices leaves it out) is one whose bytes are in the part
\* file and verify, whatever happened to the files while no process ran.
TrustedAreVerified == pc \in Trusting => done \subseteq seen[dir.part]

\* Something this program put at the output path holds every piece: neither
\* a crash inside finalize nor a retry after one leaves a partial output.
OutputComplete == dir.out \in Inodes => seen[dir.out] = Pieces

\* An output that somebody else put in place is never replaced by finalize.
ForeignKept == [][dir.out = Foreign => dir'.out = Foreign]_vars

\* A piece reported as stored is one a restart finds: with the storage idle
\* and no failed write, the state file says what the memory says.
StoredIsRecorded == (pc = "open" /\ ~failed) =>
                       Matches(dir.resume) /\ dir.resume.done = done

\* The verified bytes that a power failure leaves under a file name.
OnDisk(f) == IF f \in Inodes THEN disk[f] ELSE {}

\* A piece that the state file marks as complete is on the disk: whichever
\* state file the file system has committed, a power failure leaves the
\* pieces it marks in the part file or in the finished output.
CheckpointDurable ==
  Matches(durable.resume) =>
    durable.resume.done \subseteq OnDisk(durable.part) \union OnDisk(durable.out)

\* A power failure never leaves a state file that the next open cannot read
\* (and every later one would fail on).
ResumeReadable == durable.resume # Torn

\* Once its directory entry is committed, the finished output is complete on
\* the disk.
OutputDurable == durable.out \in Inodes => disk[durable.out] = Pieces

\* The count that the resume message and each stored-piece message print is
\* the number of completed pieces.
CountIsExact == pc = "open" => count = Cardinality(done)

\* "resumes only the missing pieces": no process is left with pieces to
\* fetch when the output of the same download is already in place, complete.
ResumesOnlyMissing == (pc = "open" /\ done # Pieces) =>
                        ~(dir.out \in Inodes /\ seen[dir.out] = Pieces)

-----------------------------------------------------------------------------
(* The abstract specification this component implements *)

Delivered == dir.out \in Inodes

Kept == CASE Delivered -> Pieces
          [] ~Delivered /\ Matches(dir.resume) /\ dir.part # None ->
               dir.resume.done \intersect seen[dir.part]
          [] OTHER -> {}

Promise == INSTANCE Checkpoint WITH running <- pc # "down",
                                    kept <- Kept,
                                    delivered <- Delivered

\* Across kills, failed writes, restarts and damage done while it is down,
\* the storage only adds to what a restart finds and delivers once, complete.
ImplementsCheckpoint == Promise!Spec
=============================================================================
