------------------------ MODULE ResumeStorage_proofs ------------------------
(***************************************************************************)
(* Theorems about ResumeStorage, for every number of pieces, every number  *)
(* of files and every set of faults their statements do not exclude.       *)
(***************************************************************************)
EXTENDS ResumeStorage, FiniteSetTheorems, TLAPS

\* Counting a set of pieces gives a natural number.
LEMMA CountIsNat == \A S \in SUBSET Pieces : Cardinality(S) \in Nat
<1>1. IsFiniteSet(Pieces)
  BY FS_Interval, StorageAssumption DEF Pieces, StorageAssumption
<1>2. QED
  BY <1>1, FS_Subset, FS_CardinalityType

\* Changing what one file holds leaves a function from files to pieces.
LEMMA UpdateContents ==
  ASSUME NEW f \in [Inodes -> SUBSET Pieces], NEW i, NEW S,
         i \in Inodes => S \in SUBSET Pieces
  PROVE  [f EXCEPT ![i] = S] \in [Inodes -> SUBSET Pieces]
  OBVIOUS

-----------------------------------------------------------------------------
(* Type correctness.  TypeOK alone is not inductive: that a loop's cursor  *)
(* stays on a piece follows from where the process is.                     *)

CursorOK == /\ pc \in {"down", "load"} => cursor = 0
            /\ pc \in {"reconcile", "sync", "copy"} => cursor \in Pieces

TypeInv == TypeOK /\ CursorOK

LEMMA InitTypeInv == Init => TypeInv
<1> SUFFICES ASSUME Init PROVE TypeInv
  OBVIOUS
<1>1. failed \in BOOLEAN
  BY Zenon DEF Init
<1>2. dir \in Directories /\ durable \in Directories
  BY DEF Init, EmptyDir, Directories
<1>3. QED
  BY <1>1, <1>2, StorageAssumption
     DEF StorageAssumption, Init, TypeInv, TypeOK, CursorOK, Pieces

\* A process that ends leaves the files alone, except for one entry.
LEMMA EndTypeInv ==
  ASSUME TypeInv, End, UNCHANGED layout,
         seen' \in [Inodes -> SUBSET Pieces], disk' \in [Inodes -> SUBSET Pieces],
         dir' \in Directories, durable' \in Directories
  PROVE  TypeInv'
<1>1. failed' \in BOOLEAN
  BY Zenon DEF End
<1>2. QED
  BY <1>1, StorageAssumption
     DEF StorageAssumption, End, TypeInv, TypeOK, CursorOK, Pieces

LEMMA OpenTypeInv == TypeInv /\ Open => TypeInv'
<1> SUFFICES ASSUME TypeInv, Open PROVE TypeInv'
  OBVIOUS
<1> USE StorageAssumption DEF StorageAssumption, TypeInv, TypeOK, CursorOK
<1>1. CASE RefuseOpen
  BY <1>1 DEF RefuseOpen, vars, mem, files
<1>2. CASE OpenPart
  BY <1>2 DEF OpenPart, IsFresh, mem, Directories
<1>3. CASE LoadState /\ End
  BY <1>3, EndTypeInv DEF LoadState, files
<1>4. CASE LoadState /\ pc' = "reconcile"
  <2>1. 0 \in Pieces
    BY DEF Pieces
  <2>2. CASE Matches(dir.resume) /\ done' = dir.resume.done
             /\ count' = Cardinality(dir.resume.done)
             /\ UNCHANGED <<cursor, temp, failed>>
    <3>1. dir.resume.done \in SUBSET Pieces
      BY <2>2 DEF Matches, Directories, ResumeRecords
    <3>2. QED
      BY <1>4, <2>1, <2>2, <3>1, CountIsNat DEF LoadState, files
  <2>3. CASE UNCHANGED mem
    BY <1>4, <2>1, <2>3 DEF LoadState, files, mem
  <2>4. QED
    BY <1>4, <2>2, <2>3 DEF LoadState, End
<1>5. CASE Reconcile
  <2>1. disk' \in [Inodes -> SUBSET Pieces]
    BY <1>5, UpdateContents DEF Reconcile
  <2>2. cursor' \in 0 .. NumPieces
        /\ (pc' = "reconcile" => cursor' \in Pieces)
    BY <1>5 DEF Reconcile, Pieces
  <2>3. QED
    BY <1>5, <2>1, <2>2 DEF Reconcile, Trusting
<1>6. QED
  BY <1>1, <1>2, <1>3, <1>4, <1>5 DEF Open, LoadState

LEMMA RecordIsTyped == ASSUME TypeInv PROVE Record \in ResumeRecords
<1> DEFINE synced == temp = "synced"
<1>1. synced \in BOOLEAN /\ TRUE \in BOOLEAN
  BY Zenon
<1>2. Record = [mine |-> TRUE, done |-> done, count |-> count,
                synced |-> synced]
  BY DEF Record
<1> HIDE DEF synced
<1>3. QED
  BY <1>1, <1>2 DEF ResumeRecords, TypeInv, TypeOK

LEMMA PersistTypeInv == TypeInv /\ Persist => TypeInv'
<1> SUFFICES ASSUME TypeInv, Persist PROVE TypeInv'
  OBVIOUS
<1> USE StorageAssumption
    DEF StorageAssumption, TypeInv, TypeOK, CursorOK, files
<1>1. CASE WriteTemp
  BY <1>1 DEF WriteTemp
<1>2. CASE SyncTemp
  BY <1>2 DEF SyncTemp, Trusting
<1>3. CASE RenameTemp
  <2>1. QED
    BY <1>3, RecordIsTyped DEF RenameTemp, Trusting, Directories
<1>4. QED
  BY <1>1, <1>2, <1>3 DEF Persist

LEMMA WriteTypeInv == TypeInv /\ Write => TypeInv'
<1> SUFFICES ASSUME TypeInv, Write PROVE TypeInv'
  OBVIOUS
<1> USE StorageAssumption
    DEF StorageAssumption, TypeInv, TypeOK, CursorOK, files, Trusting
<1>1. ASSUME NEW p \in Pieces, WriteData(p) PROVE TypeInv'
  <2>1. seen' \in [Inodes -> SUBSET Pieces]
    BY <1>1, UpdateContents DEF WriteData
  <2>2. p \in 0 .. NumPieces
    BY DEF Pieces
  <2>3. QED
    BY <1>1, <2>1, <2>2 DEF WriteData
<1>2. CASE SyncAndMark
  <2>1. disk' \in [Inodes -> SUBSET Pieces]
    BY <1>2, UpdateContents DEF SyncAndMark
  <2>2. QED
    BY <1>2, <2>1 DEF SyncAndMark
<1>3. CASE WriteFails
  <2>1. failed' \in BOOLEAN
    BY <1>3, Zenon DEF WriteFails
  <2>2. QED
    BY <1>3, <2>1 DEF WriteFails
<1>4. QED
  BY <1>1, <1>2, <1>3 DEF Write

LEMMA FinalizeTypeInv == TypeInv /\ Finalize => TypeInv'
<1> SUFFICES ASSUME TypeInv, Finalize PROVE TypeInv'
  OBVIOUS
<1> USE StorageAssumption
    DEF StorageAssumption, TypeInv, TypeOK, CursorOK, files, mem, Trusting
<1>1. CASE BeginFinalize
  BY <1>1 DEF BeginFinalize
<1>2. CASE CheckTarget
  BY <1>2, EndTypeInv DEF CheckTarget
<1>3. CASE RenamePart
  BY <1>3 DEF RenamePart, Directories
<1>4. CASE Stage
  BY <1>4 DEF Stage, IsFresh, Directories, Pieces
<1>5. CASE CopyPiece
  <2>1. seen' \in [Inodes -> SUBSET Pieces]
    BY <1>5, UpdateContents DEF CopyPiece
  <2>2. cursor' \in 0 .. NumPieces /\ (pc' = "copy" => cursor' \in Pieces)
    BY <1>5 DEF CopyPiece, Pieces
  <2>3. QED
    BY <1>5, <2>1, <2>2 DEF CopyPiece
<1>6. CASE CopyFails
  <2>1. dir' \in Directories
    BY <1>6 DEF CopyFails, Directories
  <2>2. QED
    BY <1>6, <2>1, EndTypeInv DEF CopyFails
<1>7. CASE RenameStaging
  <2>1. dir' \in Directories
    BY <1>7 DEF RenameStaging, Directories
  <2>2. QED
    BY <1>7, <2>1, EndTypeInv DEF RenameStaging
<1>8. CASE RemovePart
  BY <1>8 DEF RemovePart, Directories
<1>9. CASE RemoveState
  <2>1. dir' \in Directories
    BY <1>9 DEF RemoveState, Directories
  <2>2. QED
    BY <1>9, <2>1, EndTypeInv DEF RemoveState
<1>10. QED
  BY <1>1, <1>2, <1>3, <1>4, <1>5, <1>6, <1>7, <1>8, <1>9 DEF Finalize

LEMMA EnvironmentTypeInv == TypeInv /\ Environment => TypeInv'
<1> SUFFICES ASSUME TypeInv, Environment PROVE TypeInv'
  OBVIOUS
<1> USE StorageAssumption
    DEF StorageAssumption, TypeInv, TypeOK, CursorOK, files, mem
<1>1. CASE Kill
  BY <1>1, EndTypeInv DEF Kill
<1>2. CASE Writeback
  BY <1>2 DEF Writeback
<1>3. CASE CommitDir
  BY <1>3 DEF CommitDir
<1>4. CASE PowerLoss
  <2>1. PICK r \in AfterPowerLoss(durable.resume) :
             dir' = [durable EXCEPT !.resume = r]
    BY <1>4 DEF PowerLoss
  <2>2. r \in ResumeRecords \union {None, Torn}
    BY <2>1 DEF AfterPowerLoss, Directories
  <2>3. dir' \in Directories
    BY <2>1, <2>2 DEF Directories
  <2>4. QED
    BY <1>4, <2>3, EndTypeInv DEF PowerLoss
<1>5. CASE DamagePiece
  <2>1. seen' \in [Inodes -> SUBSET Pieces]
        /\ disk' \in [Inodes -> SUBSET Pieces]
    BY <1>5, UpdateContents DEF DamagePiece
  <2>2. QED
    BY <1>5, <2>1 DEF DamagePiece
<1>6. CASE DamageState
  BY <1>6 DEF DamageState, Directories
<1>7. CASE OtherTorrent
  <2> DEFINE other == [mine |-> FALSE, done |-> {}, count |-> 0,
                       synced |-> TRUE]
  <2>1. other \in ResumeRecords
    BY DEF ResumeRecords
  <2>2. dir' \in Directories
    BY <1>7, <2>1 DEF OtherTorrent, Directories
  <2>3. seen' \in [Inodes -> SUBSET Pieces] /\ disk' \in [Inodes -> SUBSET Pieces]
    BY <1>7 DEF OtherTorrent, Directories
  <2>4. QED
    BY <1>7, <2>2, <2>3 DEF OtherTorrent
<1>8. CASE ForeignOutput
  BY <1>8 DEF ForeignOutput, Directories
<1>9. QED
  BY <1>1, <1>2, <1>3, <1>4, <1>5, <1>6, <1>7, <1>8 DEF Environment

LEMMA NextTypeInv == TypeInv /\ [Next]_vars => TypeInv'
<1>1. TypeInv /\ UNCHANGED vars => TypeInv'
  BY DEF TypeInv, TypeOK, CursorOK, vars, mem, files
<1>2. QED
  BY <1>1, OpenTypeInv, PersistTypeInv, WriteTypeInv, FinalizeTypeInv,
     EnvironmentTypeInv DEF Next

\* Every reachable state has its type, whatever the faults.
THEOREM TypeCorrect == Spec => []TypeOK
<1>1. Spec => []TypeInv
  BY InitTypeInv, NextTypeInv, PTL DEF Spec
<1>2. TypeInv => TypeOK
  BY DEF TypeInv
<1>3. QED
  BY <1>1, <1>2, PTL

-----------------------------------------------------------------------------
(* The part file.  What the process trusts is what it has verified, because*)
(* the part file is the same file from open to finalize, is never the file *)
(* of the output or of the staging tree, and is only damaged while no      *)
(* process has it open.                                                    *)

Active == Trusting \union {"load", "reconcile"}

\* No two names of a directory are the same file.
Distinct(d) == /\ d.part \in Inodes => d.part \notin {d.out, d.staging}
               /\ d.out \in Inodes => d.out # d.staging

PartInv == /\ pc \in Active => dir.part \in Inodes
           /\ Distinct(dir)
           /\ Distinct(durable)
           /\ pc = "reconcile" =>
                \A p \in done : p < cursor => p \in seen[dir.part]
           /\ pc = "sync" => cursor \in seen[dir.part]
           /\ TrustedAreVerified

LEMMA InitPartInv == Init => PartInv
  BY StorageAssumption
     DEF StorageAssumption, Init, EmptyDir, PartInv, Active, Trusting,
         Distinct, TrustedAreVerified

LEMMA OpenPartInv == TypeInv /\ PartInv /\ Open => PartInv'
<1> SUFFICES ASSUME TypeInv, PartInv, Open PROVE PartInv'
  OBVIOUS
<1> USE StorageAssumption
    DEF StorageAssumption, TypeInv, TypeOK, CursorOK, PartInv, Active,
        Trusting, Distinct, TrustedAreVerified, Directories, mem, files
<1>1. CASE RefuseOpen
  BY <1>1 DEF RefuseOpen, vars
<1>2. CASE OpenPart
  BY <1>2 DEF OpenPart, IsFresh, InUse
<1>3. CASE LoadState
  <2>1. cursor' = 0 /\ dir' = dir /\ durable' = durable
    BY <1>3 DEF LoadState, End
  <2>2. \A p \in done' : ~(p < cursor')
    BY <2>1, OpenTypeInv DEF Pieces
  <2>3. QED
    BY <1>3, <2>1, <2>2 DEF LoadState, End
<1>4. CASE Reconcile
  <2>1. ASSUME NEW p \in done', p < cursor' PROVE p \in seen[dir.part]
    <3>1. done' \subseteq done /\ done \subseteq Nat /\ cursor \in Nat
      <4>1. done' \subseteq done
        BY <1>4 DEF Reconcile
      <4>2. QED
        BY <4>1 DEF Pieces
    <3>2. p < cursor \/ p = cursor
      BY <1>4, <2>1, <3>1 DEF Reconcile
    <3>3. CASE p = cursor
      BY <1>4, <3>1, <3>3 DEF Reconcile
    <3>4. QED
      BY <1>4, <3>1, <3>2, <3>3 DEF Reconcile
  <2>2. ASSUME cursor' = NumPieces PROVE done' \subseteq seen[dir.part]
    <3>1. \A p \in done' : p < cursor'
      BY <2>2, OpenTypeInv DEF Pieces
    <3>2. QED
      BY <2>1, <3>1
  <2>3. QED
    BY <1>4, <2>1, <2>2 DEF Reconcile
<1>5. QED
  BY <1>1, <1>2, <1>3, <1>4 DEF Open

LEMMA PersistPartInv == TypeInv /\ PartInv /\ Persist => PartInv'
  BY DEF TypeInv, TypeOK, PartInv, Active, Trusting, Distinct,
         TrustedAreVerified, Directories, files, Persist, WriteTemp,
         SyncTemp, RenameTemp

LEMMA WritePartInv == TypeInv /\ PartInv /\ Write => PartInv'
<1> SUFFICES ASSUME TypeInv, PartInv, Write PROVE PartInv'
  OBVIOUS
<1> USE DEF TypeInv, TypeOK, CursorOK, PartInv, Active, Trusting, Distinct,
            TrustedAreVerified, files
<1>1. ASSUME NEW p \in Pieces, WriteData(p) PROVE PartInv'
  <2>1. dir.part \in Inodes
    BY <1>1 DEF WriteData
  <2>2. seen'[dir.part] = seen[dir.part] \union {p}
    BY <1>1, <2>1 DEF WriteData
  <2>3. cursor' \in seen'[dir'.part] /\ done' \subseteq seen'[dir'.part]
    BY <1>1, <2>2 DEF WriteData
  <2>4. QED
    BY <1>1, <2>1, <2>3 DEF WriteData
<1>2. CASE SyncAndMark
  BY <1>2 DEF SyncAndMark
<1>3. CASE WriteFails
  BY <1>3 DEF WriteFails
<1>4. QED
  BY <1>1, <1>2, <1>3 DEF Write

LEMMA FinalizePartInv == TypeInv /\ PartInv /\ Finalize => PartInv'
<1> SUFFICES ASSUME TypeInv, PartInv, Finalize PROVE PartInv'
  OBVIOUS
<1> USE StorageAssumption
    DEF StorageAssumption, TypeInv, TypeOK, CursorOK, PartInv, Active,
        Trusting, Distinct, TrustedAreVerified, Directories, files, mem, End
<1>1. CASE BeginFinalize
  BY <1>1 DEF BeginFinalize
<1>2. CASE CheckTarget
  BY <1>2 DEF CheckTarget
<1>3. CASE RenamePart
  BY <1>3 DEF RenamePart
<1>4. CASE Stage
  BY <1>4 DEF Stage, IsFresh, InUse
<1>5. CASE CopyPiece
  <2>1. seen'[dir.part] = seen[dir.part]
    BY <1>5 DEF CopyPiece
  <2>2. QED
    BY <1>5, <2>1 DEF CopyPiece
<1>6. CASE CopyFails
  BY <1>6 DEF CopyFails
<1>7. CASE RenameStaging
  BY <1>7 DEF RenameStaging
<1>8. CASE RemovePart
  BY <1>8 DEF RemovePart
<1>9. CASE RemoveState
  BY <1>9 DEF RemoveState
<1>10. QED
  BY <1>1, <1>2, <1>3, <1>4, <1>5, <1>6, <1>7, <1>8, <1>9 DEF Finalize

LEMMA EnvironmentPartInv == TypeInv /\ PartInv /\ Environment => PartInv'
<1> SUFFICES ASSUME TypeInv, PartInv, Environment PROVE PartInv'
  OBVIOUS
<1> USE StorageAssumption
    DEF StorageAssumption, TypeInv, TypeOK, CursorOK, PartInv, Active,
        Trusting, Distinct, TrustedAreVerified, Directories, files, mem, End
<1>1. CASE Kill
  BY <1>1 DEF Kill
<1>2. CASE Writeback
  BY <1>2 DEF Writeback
<1>3. CASE CommitDir
  BY <1>3 DEF CommitDir
<1>4. CASE PowerLoss
  BY <1>4 DEF PowerLoss
<1>5. CASE DamagePiece
  BY <1>5 DEF DamagePiece
<1>6. CASE DamageState
  BY <1>6 DEF DamageState
<1>7. CASE OtherTorrent
  BY <1>7 DEF OtherTorrent
<1>8. CASE ForeignOutput
  BY <1>8 DEF ForeignOutput
<1>9. QED
  BY <1>1, <1>2, <1>3, <1>4, <1>5, <1>6, <1>7, <1>8 DEF Environment

LEMMA NextPartInv == TypeInv /\ PartInv /\ [Next]_vars => PartInv'
<1>1. PartInv /\ UNCHANGED vars => PartInv'
  BY DEF PartInv, Distinct, TrustedAreVerified, vars, mem, files
<1>2. QED
  BY <1>1, OpenPartInv, PersistPartInv, WritePartInv, FinalizePartInv,
     EnvironmentPartInv DEF Next

LEMMA PartInvariant == Spec => [](TypeInv /\ PartInv)
<1>1. Init => TypeInv /\ PartInv
  BY InitTypeInv, InitPartInv
<1>2. TypeInv /\ PartInv /\ [Next]_vars => (TypeInv /\ PartInv)'
  BY NextTypeInv, NextPartInv
<1>3. QED
  BY <1>1, <1>2, PTL DEF Spec

\* Under every fault, the pieces a process will not fetch are in the part
\* file and verify.
THEOREM VerifiedBeforeTrusted == Spec => []TrustedAreVerified
<1>1. PartInv => TrustedAreVerified
  BY DEF PartInv
<1>2. QED
  BY <1>1, PartInvariant, PTL

-----------------------------------------------------------------------------
(* What is reported as stored.                                             *)

\* With the storage idle and no failed write, a kill loses no reported piece:
\* the only way back to idle is the rename of a state file with all marks.
THEOREM StoredPiecesAreRecorded == Spec => []StoredIsRecorded
<1>1. Init => StoredIsRecorded
  BY DEF Init, StoredIsRecorded
<1>2. TypeInv /\ StoredIsRecorded /\ [Next]_vars => StoredIsRecorded'
  <2> SUFFICES ASSUME TypeInv, StoredIsRecorded, [Next]_vars,
                      pc' = "open", ~failed'
               PROVE  Matches(dir'.resume) /\ dir'.resume.done = done'
    BY DEF StoredIsRecorded, Matches
  <2> USE DEF TypeInv, TypeOK, StoredIsRecorded, Matches, Directories, mem, files
  <2>1. CASE RenameTemp
    <3>1. Record \in ResumeRecords
      BY RecordIsTyped
    <3>2. dir'.resume = Record
      BY <2>1 DEF RenameTemp
    <3>3. QED
      BY <2>1, <3>1, <3>2, RecordAssumption
         DEF RenameTemp, Record, RecordAssumption
  <2>2. CASE UNCHANGED vars
    BY <2>2 DEF vars
  <2>3. CASE Writeback \/ CommitDir
    BY <2>3 DEF Writeback, CommitDir
  <2>4. CASE ForeignOutput
    BY <2>4 DEF ForeignOutput
  <2>5. CASE RefuseOpen
    BY <2>5 DEF RefuseOpen, vars
  <2>6. CASE WriteFails
    BY <2>6 DEF WriteFails
  <2>7. QED
    BY <2>1, <2>2, <2>3, <2>4, <2>5, <2>6
       DEF Next, Open, OpenPart, LoadState, Reconcile, Persist, WriteTemp,
           SyncTemp, Write, WriteData, SyncAndMark, Finalize, BeginFinalize,
           CheckTarget, RenamePart, Stage, CopyPiece, CopyFails,
           RenameStaging, RemovePart, RemoveState, Environment, Kill,
           PowerLoss, DamagePiece, DamageState, OtherTorrent, End
<1>3. Spec => []TypeInv
  BY InitTypeInv, NextTypeInv, PTL DEF Spec
<1>4. QED
  BY <1>1, <1>2, <1>3, PTL DEF Spec

-----------------------------------------------------------------------------
(* The output.  It appears by one rename of a file that holds every piece; *)
(* for a multi-file torrent that file is the staging tree, whose copy loop *)
(* has passed every piece of a part file that holds them all.              *)

Preparing == {"rename", "stage", "copy", "renameStaging"}

OutInv == /\ pc \in Preparing \union {"target", "removePart"} => done = Pieces
          /\ pc \in Preparing => dir.out \notin Inodes
          /\ pc \in {"copy", "renameStaging"} => dir.staging \in Inodes
          /\ pc = "copy" =>
               \A p \in Pieces : p < cursor => p \in seen[dir.staging]
          /\ pc = "renameStaging" => seen[dir.staging] = Pieces
          /\ OutputComplete

LEMMA InitOutInv == Init => OutInv
  BY StorageAssumption
     DEF StorageAssumption, Init, EmptyDir, OutInv, Preparing, OutputComplete

LEMMA OpenOutInv == TypeInv /\ PartInv /\ OutInv /\ Open => OutInv'
<1> SUFFICES ASSUME TypeInv, PartInv, OutInv, Open PROVE OutInv'
  OBVIOUS
<1> USE StorageAssumption
    DEF StorageAssumption, TypeInv, TypeOK, PartInv, Active, Trusting,
        Distinct, OutInv, Preparing, OutputComplete, Directories, mem, files
<1>1. CASE RefuseOpen
  BY <1>1 DEF RefuseOpen, vars
<1>2. CASE OpenPart
  BY <1>2 DEF OpenPart, IsFresh, InUse
<1>3. CASE LoadState
  BY <1>3 DEF LoadState, End
<1>4. CASE Reconcile
  BY <1>4 DEF Reconcile
<1>5. QED
  BY <1>1, <1>2, <1>3, <1>4 DEF Open

LEMMA PersistOutInv == TypeInv /\ OutInv /\ Persist => OutInv'
  BY DEF TypeInv, TypeOK, OutInv, Preparing, OutputComplete, Directories,
         files, Persist, WriteTemp, SyncTemp, RenameTemp

LEMMA WriteOutInv == TypeInv /\ PartInv /\ OutInv /\ Write => OutInv'
<1> SUFFICES ASSUME TypeInv, PartInv, OutInv, Write PROVE OutInv'
  OBVIOUS
<1> USE DEF TypeInv, TypeOK, PartInv, Active, Trusting, Distinct, OutInv,
            Preparing, OutputComplete, files
<1>1. ASSUME NEW p \in Pieces, WriteData(p) PROVE OutInv'
  BY <1>1 DEF WriteData
<1>2. CASE SyncAndMark
  BY <1>2 DEF SyncAndMark
<1>3. CASE WriteFails
  BY <1>3 DEF WriteFails
<1>4. QED
  BY <1>1, <1>2, <1>3 DEF Write

LEMMA FinalizeOutInv == TypeInv /\ PartInv /\ OutInv /\ Finalize => OutInv'
<1> SUFFICES ASSUME TypeInv, PartInv, OutInv, Finalize PROVE OutInv'
  OBVIOUS
<1> USE StorageAssumption
    DEF StorageAssumption, TypeInv, TypeOK, CursorOK, PartInv, Active,
        Trusting, Distinct, OutInv, Preparing, OutputComplete, Directories,
        files, mem, End
<1>1. CASE BeginFinalize
  BY <1>1 DEF BeginFinalize
<1>2. CASE CheckTarget
  BY <1>2 DEF CheckTarget
<1>3. CASE RenamePart
  <2>1. seen[dir.part] = Pieces
    BY <1>3 DEF RenamePart, TrustedAreVerified
  <2>2. QED
    BY <1>3, <2>1 DEF RenamePart
<1>4. CASE Stage
  BY <1>4 DEF Stage, IsFresh, InUse, Pieces
<1>5. CASE CopyPiece
  <2>1. seen'[dir.staging] = seen[dir.staging] \union {cursor}
    BY <1>5 DEF CopyPiece, TrustedAreVerified
  <2>2. \A p \in Pieces : p < cursor' => p \in seen'[dir.staging]
    <3>1. \A p \in Pieces : p < cursor + 1 => p < cursor \/ p = cursor
      BY <1>5 DEF CopyPiece, Pieces
    <3>2. QED
      BY <1>5, <2>1, <3>1 DEF CopyPiece
  <2>3. ASSUME cursor' = NumPieces PROVE seen'[dir.staging] = Pieces
    <3>1. \A p \in Pieces : p < cursor'
      BY <2>3 DEF Pieces
    <3>2. seen'[dir.staging] \subseteq Pieces
      BY <1>5, <2>1 DEF CopyPiece
    <3>3. QED
      BY <2>2, <3>1, <3>2
  <2>4. dir.out \in Inodes => seen'[dir.out] = seen[dir.out]
    BY <1>5 DEF CopyPiece
  <2>5. QED
    BY <1>5, <2>2, <2>3, <2>4 DEF CopyPiece
<1>6. CASE CopyFails
  BY <1>6 DEF CopyFails
<1>7. CASE RenameStaging
  BY <1>7 DEF RenameStaging
<1>8. CASE RemovePart
  BY <1>8 DEF RemovePart
<1>9. CASE RemoveState
  BY <1>9 DEF RemoveState
<1>10. QED
  BY <1>1, <1>2, <1>3, <1>4, <1>5, <1>6, <1>7, <1>8, <1>9 DEF Finalize

\* A power failure can undo a directory change, and is excluded here.
LEMMA EnvironmentOutInv ==
  ASSUME "power" \notin Faults
  PROVE  TypeInv /\ PartInv /\ OutInv /\ Environment => OutInv'
<1> SUFFICES ASSUME TypeInv, PartInv, OutInv, Environment PROVE OutInv'
  OBVIOUS
<1> USE StorageAssumption
    DEF StorageAssumption, TypeInv, TypeOK, PartInv, Active, Trusting,
        Distinct, OutInv, Preparing, OutputComplete, Directories, files, mem,
        End
<1>1. CASE Kill
  BY <1>1 DEF Kill
<1>2. CASE Writeback \/ CommitDir \/ PowerLoss
  BY <1>2 DEF Writeback, CommitDir, PowerLoss
<1>3. CASE DamagePiece
  BY <1>3 DEF DamagePiece
<1>4. CASE DamageState
  BY <1>4 DEF DamageState
<1>5. CASE OtherTorrent
  BY <1>5 DEF OtherTorrent
<1>6. CASE ForeignOutput
  BY <1>6 DEF ForeignOutput
<1>7. QED
  BY <1>1, <1>2, <1>3, <1>4, <1>5, <1>6 DEF Environment

\* Without power failures, whatever else happens, an output put in place by
\* finalize is complete and stays complete.
THEOREM OutputIsComplete ==
  ASSUME "power" \notin Faults
  PROVE  Spec => []OutputComplete
<1>1. OutInv /\ UNCHANGED vars => OutInv'
  BY DEF OutInv, OutputComplete, vars, mem, files
<1>2. TypeInv /\ PartInv /\ OutInv /\ [Next]_vars => OutInv'
  BY <1>1, OpenOutInv, PersistOutInv, WriteOutInv, FinalizeOutInv,
     EnvironmentOutInv DEF Next
<1>3. OutInv => OutputComplete
  BY DEF OutInv
<1>4. QED
  BY <1>2, <1>3, InitOutInv, PartInvariant, PTL DEF Spec

-----------------------------------------------------------------------------
(* The state file is readable: it is renamed into place only when synced.  *)

ReadInv == /\ dir.resume # Torn
           /\ durable.resume # Torn
           /\ dir.resume \in ResumeRecords => dir.resume.synced = TRUE
           /\ durable.resume \in ResumeRecords => durable.resume.synced = TRUE
           /\ pc = "publish" => temp = "synced"

\* Unless somebody damages the state file by hand, no crash and no power
\* failure makes it unreadable.
THEOREM ResumeFileIsReadable ==
  ASSUME "damage" \notin Faults
  PROVE  Spec => []ResumeReadable
<1>1. Init => ReadInv
  BY RecordAssumption, StorageAssumption
     DEF RecordAssumption, StorageAssumption, Init, EmptyDir, ReadInv
<1>2. TypeInv /\ ReadInv /\ [Next]_vars => ReadInv'
  <2> SUFFICES ASSUME TypeInv, ReadInv, [Next]_vars PROVE ReadInv'
    OBVIOUS
  <2> USE StorageAssumption, RecordAssumption
      DEF StorageAssumption, RecordAssumption, TypeInv, TypeOK, ReadInv,
          Directories, mem, files, End
  <2>1. CASE Open
    BY <2>1 DEF Open, RefuseOpen, OpenPart, LoadState, Reconcile, vars
  <2>2. CASE RenameTemp
    <3>1. Record \in ResumeRecords /\ Record.synced = (temp = "synced")
      BY RecordIsTyped DEF Record
    <3>2. dir'.resume = Record /\ durable' = durable /\ pc' = "open"
      BY <2>2 DEF RenameTemp
    <3>3. temp = "synced"
      BY <2>2 DEF RenameTemp
    <3>4. QED
      BY <3>1, <3>2, <3>3
  <2>3. CASE WriteTemp \/ SyncTemp
    BY <2>3 DEF WriteTemp, SyncTemp
  <2>4. CASE Write
    BY <2>4 DEF Write, WriteData, SyncAndMark, WriteFails
  <2>5. CASE Finalize
    BY <2>5 DEF Finalize, BeginFinalize, CheckTarget, RenamePart, Stage,
                CopyPiece, CopyFails, RenameStaging, RemovePart, RemoveState
  <2>6. CASE PowerLoss
    <3>1. AfterPowerLoss(durable.resume) = {durable.resume}
      <4>1. CASE durable.resume \in {None, Torn}
        BY <4>1 DEF AfterPowerLoss
      <4>2. CASE durable.resume \in ResumeRecords
        BY <4>2 DEF AfterPowerLoss
      <4>3. QED
        BY <4>1, <4>2
    <3>2. dir'.resume = durable.resume /\ durable'.resume = durable.resume
      BY <2>6, <3>1 DEF PowerLoss
    <3>3. pc' = "down"
      BY <2>6 DEF PowerLoss
    <3>4. QED
      BY <3>2, <3>3
  <2>7. CASE OtherTorrent
    <3> DEFINE other == [mine |-> FALSE, done |-> {}, count |-> 0,
                         synced |-> TRUE]
    <3>1. other \in ResumeRecords /\ other.synced = TRUE
      BY DEF ResumeRecords
    <3>2. dir'.resume = other /\ durable' = durable /\ pc' = pc /\ temp' = temp
      BY <2>7 DEF OtherTorrent
    <3> HIDE DEF other
    <3>3. QED
      BY <3>1, <3>2
  <2>8. CASE Kill \/ Writeback \/ CommitDir \/ DamagePiece \/ DamageState
    BY <2>8 DEF Kill, Writeback, CommitDir, DamagePiece, DamageState
  <2>9. CASE ForeignOutput
    BY <2>9 DEF ForeignOutput
  <2>10. CASE UNCHANGED vars
    BY <2>10 DEF vars
  <2>11. QED
    BY <2>1, <2>2, <2>3, <2>4, <2>5, <2>6, <2>7, <2>8, <2>9, <2>10
       DEF Next, Persist, Environment
<1>3. ReadInv => ResumeReadable
  BY DEF ReadInv, ResumeReadable
<1>4. QED
  BY <1>1, <1>2, <1>3, PartInvariant, PTL DEF Spec

-----------------------------------------------------------------------------
(* Durability, for single-file torrents whose files only this program      *)
(* touches.  The argument follows the order of write_verified_piece: bytes,*)
(* sync_data, mark, state file.  A mark in the memory or in any state file *)
(* is therefore behind a sync, and a restart cannot be fooled by bytes that*)
(* are only in the cache, because they have no mark.                       *)

\* The process has published the marks it loaded: the state file has no mark
\* that the memory lacks.
Published == \/ pc \in {"open", "sync", "target", "rename"}
             \/ pc \in {"persist", "publish"} /\ cursor \in Pieces

CacheInv ==
  /\ layout = "single"
  /\ pc \notin {"stage", "copy", "renameStaging", "removePart"}
  /\ \A i \in Inodes : disk[i] \subseteq seen[i]
  /\ pc \in {"down", "load"} => done = {}
  /\ Published => Matches(dir.resume) /\ dir.resume.done \subseteq done
  /\ (Matches(dir.resume) /\ dir.part \in Inodes) =>
       dir.resume.done \intersect seen[dir.part] \subseteq disk[dir.part]
  /\ pc = "reconcile" =>
       done \intersect seen[dir.part] \subseteq disk[dir.part]
  /\ pc \in Trusting => done \subseteq disk[dir.part]
  /\ pc \in {"target", "rename"} => done = Pieces

DiskInv ==
  /\ CheckpointDurable
  /\ Matches(dir.resume) =>
       dir.resume.done \subseteq OnDisk(dir.part) \union OnDisk(dir.out)
  /\ OutputDurable
  /\ dir.out \in Inodes => disk[dir.out] = Pieces

Undisturbed == /\ Layouts = {"single"}
               /\ "damage" \notin Faults
               /\ "other" \notin Faults

LEMMA NextCacheInv ==
  ASSUME Undisturbed
  PROVE  TypeInv /\ PartInv /\ CacheInv /\ [Next]_vars => CacheInv'
<1> SUFFICES ASSUME TypeInv, PartInv, CacheInv, [Next]_vars PROVE CacheInv'
  OBVIOUS
<1> USE StorageAssumption, RecordAssumption
    DEF StorageAssumption, RecordAssumption, Undisturbed, TypeInv, TypeOK,
        CursorOK, PartInv, Active, Trusting, CacheInv, Published, Matches,
        Directories, mem, files, End
<1>1. CASE OpenPart
  <2>1. CASE UNCHANGED <<seen, disk, dir>>
    BY <1>1, <2>1 DEF OpenPart
  <2>2. ASSUME NEW i \in Inodes, seen' = [seen EXCEPT ![i] = {}],
               disk' = [disk EXCEPT ![i] = {}],
               dir' = [dir EXCEPT !.part = i]
        PROVE  CacheInv'
    <3>1. seen'[i] = {} /\ dir'.part = i /\ dir'.resume = dir.resume
      BY <2>2
    <3>2. \A j \in Inodes : disk'[j] \subseteq seen'[j]
      BY <2>2
    <3>3. QED
      BY <1>1, <3>1, <3>2 DEF OpenPart
  <2>3. QED
    BY <1>1, <2>1, <2>2 DEF OpenPart
<1>2. CASE LoadState
  BY <1>2 DEF LoadState
<1>3. CASE Reconcile
  <2>1. disk'[dir.part] = disk[dir.part] \/ disk'[dir.part] = seen[dir.part]
    BY <1>3 DEF Reconcile
  <2>2. done' \subseteq done /\ disk[dir.part] \subseteq disk'[dir.part]
    BY <1>3, <2>1 DEF Reconcile
  <2>3. \A i \in Inodes : disk'[i] \subseteq seen[i]
    BY <1>3 DEF Reconcile
  <2>4. PartInv'
    BY <1>3, OpenPartInv DEF Open
  <2>5. pc' \in Trusting => done' \subseteq disk'[dir.part]
    BY <1>3, <2>2, <2>4 DEF Reconcile, TrustedAreVerified
  <2>6. pc' = "persist" => cursor' \notin Pieces
    BY <1>3 DEF Reconcile, Pieces
  <2>7. QED
    BY <1>3, <2>2, <2>3, <2>5, <2>6 DEF Reconcile
<1>4. CASE WriteTemp \/ SyncTemp
  BY <1>4 DEF WriteTemp, SyncTemp
<1>5. CASE RenameTemp
  <2>1. Matches(dir'.resume) /\ dir'.resume.done = done
    BY <1>5, RecordIsTyped DEF RenameTemp, Record
  <2>2. QED
    BY <1>5, <2>1 DEF RenameTemp
<1>6. ASSUME NEW p \in Pieces, WriteData(p) PROVE CacheInv'
  BY <1>6 DEF WriteData
<1>7. CASE SyncAndMark
  <2>1. disk'[dir.part] = seen[dir.part]
    BY <1>7 DEF SyncAndMark
  <2>2. done' \subseteq disk'[dir.part]
    BY <1>7, <2>1 DEF SyncAndMark, TrustedAreVerified
  <2>3. QED
    BY <1>7, <2>1, <2>2 DEF SyncAndMark
<1>8. CASE WriteFails
  BY <1>8 DEF WriteFails
<1>9. CASE Finalize
  BY <1>9 DEF Finalize, BeginFinalize, CheckTarget, RenamePart, Stage,
              CopyPiece, CopyFails, RenameStaging, RemovePart, RemoveState
<1>10. CASE PowerLoss
  BY <1>10 DEF PowerLoss, AfterPowerLoss
<1>11. CASE Kill \/ CommitDir \/ DamagePiece \/ DamageState \/ OtherTorrent
  BY <1>11 DEF Kill, CommitDir, DamagePiece, DamageState, OtherTorrent
<1>12. CASE Writeback
  BY <1>12 DEF Writeback
<1>13. CASE ForeignOutput
  BY <1>13 DEF ForeignOutput
<1>14. CASE RefuseOpen \/ UNCHANGED vars
  BY <1>14 DEF RefuseOpen, vars
<1>15. QED
  BY <1>1, <1>2, <1>3, <1>4, <1>5, <1>6, <1>7, <1>8, <1>9, <1>10, <1>11,
     <1>12, <1>13, <1>14 DEF Next, Open, Persist, Write, Environment

\* No step takes bytes from the disk that a directory still names.
LEMMA DiskGrows ==
  ASSUME Undisturbed, TypeInv, PartInv, CacheInv, [Next]_vars,
         NEW i \in Inodes, i \in InUse
  PROVE  disk[i] \subseteq disk'[i]
<1> USE DEF TypeInv, TypeOK, Undisturbed, CacheInv, mem, files
<1>1. CASE Open
  <2>1. CASE OpenPart
    BY <2>1 DEF OpenPart, IsFresh
  <2>2. CASE Reconcile
    BY <2>2 DEF Reconcile
  <2>3. CASE RefuseOpen \/ LoadState
    BY <2>3 DEF RefuseOpen, LoadState, vars
  <2>4. QED
    BY <1>1, <2>1, <2>2, <2>3 DEF Open
<1>2. CASE SyncAndMark
  BY <1>2 DEF SyncAndMark
<1>3. CASE Writeback
  BY <1>3 DEF Writeback
<1>4. CASE UNCHANGED disk
  BY <1>4
<1>5. QED
  BY <1>1, <1>2, <1>3, <1>4
     DEF Next, Persist, WriteTemp, SyncTemp, RenameTemp, Write, WriteData,
         WriteFails, Finalize, BeginFinalize, CheckTarget, RenamePart, Stage,
         CopyPiece, CopyFails, RenameStaging, RemovePart, RemoveState,
         Environment, Kill, CommitDir, PowerLoss, DamagePiece, DamageState,
         OtherTorrent, ForeignOutput, vars

LEMMA NextDiskInv ==
  ASSUME Undisturbed
  PROVE  TypeInv /\ PartInv /\ CacheInv /\ DiskInv /\ [Next]_vars => DiskInv'
<1> SUFFICES ASSUME TypeInv, PartInv, CacheInv, DiskInv, [Next]_vars
             PROVE  DiskInv'
  OBVIOUS
<1> DEFINE OnDiskNext(f) == IF f \in Inodes THEN disk'[f] ELSE {}
<1>1. \A f \in InUse : OnDisk(f) \subseteq OnDiskNext(f)
  BY DiskGrows DEF OnDisk
<1>2. /\ {dir.part, dir.out, durable.part, durable.out} \subseteq InUse
      /\ disk' \in [Inodes -> SUBSET Pieces]
  BY NextTypeInv DEF InUse, TypeInv, TypeOK
<1>3. /\ durable.out \in Inodes => disk'[durable.out] = Pieces
      /\ dir.out \in Inodes => disk'[dir.out] = Pieces
  BY <1>1, <1>2 DEF OnDisk, DiskInv, OutputDurable
<1>4. Matches(durable.resume) => durable.resume.done \subseteq
        OnDiskNext(durable.part) \union OnDiskNext(durable.out)
  BY <1>1, <1>2 DEF DiskInv, CheckpointDurable
<1>5. Matches(dir.resume) => dir.resume.done \subseteq
        OnDiskNext(dir.part) \union OnDiskNext(dir.out)
  BY <1>1, <1>2 DEF DiskInv
<1> USE RecordAssumption, StorageAssumption
    DEF StorageAssumption, RecordAssumption, Undisturbed, DiskInv,
        CheckpointDurable, OutputDurable, OnDisk, Matches, TypeInv, TypeOK,
        Directories, files, mem
<1>6. CASE UNCHANGED <<dir, durable>>
  BY <1>3, <1>4, <1>5, <1>6
<1>7. CASE OpenPart
  <2>1. CASE dir.part = None /\ dir' # dir
    BY <1>3, <1>4, <1>5, <1>7, <2>1 DEF OpenPart
  <2>2. QED
    BY <1>6, <1>7, <2>1 DEF OpenPart
<1>8. CASE RenameTemp
  <2>1. dir'.resume.done = done /\ dir'.part = dir.part /\ dir'.out = dir.out
    BY <1>8, RecordIsTyped DEF RenameTemp, Record
  <2>2. done \subseteq disk'[dir.part] /\ dir.part \in Inodes
    BY <1>8 DEF RenameTemp, CacheInv, PartInv, Active, Trusting
  <2>3. QED
    BY <1>3, <1>4, <1>8, <2>1, <2>2 DEF RenameTemp
<1>9. CASE RenamePart
  <2>1. disk'[dir.part] = Pieces /\ dir.part \in Inodes
    BY <1>9, <1>2 DEF RenamePart, CacheInv, PartInv, Active, Trusting
  <2>2. dir'.out = dir.part /\ dir'.resume = dir.resume /\ durable' = durable
    BY <1>9 DEF RenamePart
  <2>3. Matches(dir'.resume) => dir'.resume.done \subseteq Pieces
    BY <2>2 DEF ResumeRecords
  <2>4. QED
    BY <1>3, <1>4, <2>1, <2>2, <2>3
<1>10. CASE RemoveState
  <2>1. dir'.resume = None /\ dir'.out = dir.out /\ durable' = durable
    BY <1>10 DEF RemoveState
  <2>2. QED
    BY <1>3, <1>4, <2>1
<1>11. CASE CommitDir
  BY <1>3, <1>5, <1>11 DEF CommitDir
<1>12. CASE PowerLoss
  <2>1. /\ dir'.part = durable.part /\ dir'.out = durable.out
        /\ dir'.resume = durable.resume \/ dir'.resume = Torn
        /\ durable' = dir'
    BY <1>12 DEF PowerLoss, AfterPowerLoss
  <2>2. QED
    BY <1>3, <1>4, <2>1
<1>13. CASE ForeignOutput
  <2>1. /\ dir'.part = dir.part /\ dir'.resume = dir.resume
        /\ dir.out = None /\ dir'.out = Foreign /\ durable' = durable
    BY <1>13 DEF ForeignOutput
  <2>2. QED
    BY <1>3, <1>4, <1>5, <2>1
<1>14. QED
  BY <1>6, <1>7, <1>8, <1>9, <1>10, <1>11, <1>12, <1>13
     DEF Next, Open, RefuseOpen, LoadState, Reconcile, Persist, WriteTemp,
         SyncTemp, Write, WriteData, SyncAndMark, WriteFails, Finalize,
         BeginFinalize, CheckTarget, Stage, CopyPiece, CopyFails,
         RenameStaging, RemovePart, Environment, Kill, Writeback,
         DamagePiece, DamageState, OtherTorrent, CacheInv, vars

LEMMA DurabilityInvariant ==
  ASSUME Undisturbed
  PROVE  Spec => []DiskInv
<1>1. Init => CacheInv /\ DiskInv
  BY StorageAssumption
     DEF StorageAssumption, Undisturbed, Init, EmptyDir, CacheInv, Published,
         Trusting, DiskInv, CheckpointDurable, OutputDurable, Matches
<1>2. TypeInv /\ PartInv /\ CacheInv /\ DiskInv /\ [Next]_vars
        => (CacheInv /\ DiskInv)'
  BY NextCacheInv, NextDiskInv
<1>3. QED
  BY <1>1, <1>2, PartInvariant, PTL DEF Spec

\* A piece marked in the state file that a power failure leaves is on the
\* disk, in the part file or in the output.
THEOREM CheckpointIsDurable ==
  ASSUME Undisturbed
  PROVE  Spec => []CheckpointDurable
<1>1. DiskInv => CheckpointDurable
  BY DEF DiskInv
<1>2. QED
  BY <1>1, DurabilityInvariant, PTL

\* A finished single-file output survives every power failure, complete.
THEOREM OutputIsDurable ==
  ASSUME Undisturbed
  PROVE  Spec => []OutputDurable
<1>1. DiskInv => OutputDurable
  BY DEF DiskInv
<1>2. QED
  BY <1>1, DurabilityInvariant, PTL

-----------------------------------------------------------------------------
(* Somebody else's output.                                                 *)

\* Unless it appears between finalize's check and its rename, an output that
\* is not this download's is never replaced.
THEOREM ForeignOutputIsKept ==
  ASSUME "power" \notin Faults, "race" \notin Faults
  PROVE  Spec => ForeignKept
<1> DEFINE Checked == pc = "rename" => dir.out = None
<1>1. Init => Checked
  BY DEF Init
<1>2. TypeInv /\ Checked /\ [Next]_vars =>
        Checked' /\ (dir.out = Foreign => dir'.out = Foreign)
  <2> SUFFICES ASSUME TypeInv, Checked, [Next]_vars
               PROVE  Checked' /\ (dir.out = Foreign => dir'.out = Foreign)
    OBVIOUS
  <2> USE StorageAssumption
      DEF StorageAssumption, TypeInv, TypeOK, Directories, mem, files, End
  <2>1. CASE Open
    BY <2>1 DEF Open, RefuseOpen, OpenPart, LoadState, Reconcile, vars
  <2>2. CASE Persist
    BY <2>2 DEF Persist, WriteTemp, SyncTemp, RenameTemp
  <2>3. CASE Write
    BY <2>3 DEF Write, WriteData, SyncAndMark, WriteFails
  <2>4. CASE Finalize
    BY <2>4 DEF Finalize, BeginFinalize, CheckTarget, RenamePart, Stage,
                CopyPiece, CopyFails, RenameStaging, RemovePart, RemoveState
  <2>5. CASE Environment
    BY <2>5 DEF Environment, Kill, Writeback, CommitDir, PowerLoss,
                DamagePiece, DamageState, OtherTorrent, ForeignOutput
  <2>6. CASE UNCHANGED vars
    BY <2>6 DEF vars
  <2>7. QED
    BY <2>1, <2>2, <2>3, <2>4, <2>5, <2>6 DEF Next
<1>3. Spec => []TypeInv
  BY InitTypeInv, NextTypeInv, PTL DEF Spec
<1>4. QED
  BY <1>1, <1>2, <1>3, PTL DEF Spec, ForeignKept

-----------------------------------------------------------------------------
(* The storage implements Checkpoint.  What a restart will find is what the*)
(* state file marks and the part file holds; the argument is that the      *)
(* memory never lacks such a piece, so that publishing the memory can only *)
(* add to it, and that finalize starts from a state file with every mark.  *)

Finalizing == Preparing \union {"target", "removePart"}

Settled == \/ pc \in {"open", "sync"} \union Finalizing
           \/ pc \in {"persist", "publish"} /\ cursor \in Pieces

KeptInv ==
  /\ pc \in {"down", "load"} => done = {}
  /\ pc \in Finalizing => Matches(dir.resume) /\ dir.resume.done = Pieces
  /\ (pc \in Trusting \union {"reconcile"} /\ Matches(dir.resume)) =>
        dir.resume.done \intersect seen[dir.part] \subseteq done
  /\ Settled => Matches(dir.resume) /\ dir.resume.done \subseteq done
  /\ pc \in {"removePart", "cleanup"} => dir.out \in Inodes

\* Everything the refinement rests on.
StorageInv == TypeInv /\ PartInv /\ OutInv /\ StoredIsRecorded /\ KeptInv

LEMMA NextKeptInv ==
  ASSUME "power" \notin Faults
  PROVE  StorageInv /\ [Next]_vars => KeptInv'
<1> SUFFICES ASSUME StorageInv, [Next]_vars PROVE KeptInv'
  OBVIOUS
<1> USE StorageAssumption, RecordAssumption
    DEF StorageAssumption, RecordAssumption, StorageInv, TypeInv, TypeOK,
        CursorOK, PartInv, Active, Trusting, Distinct, KeptInv, Settled,
        Finalizing, Preparing, Matches, Directories, mem, files, End
<1>1. CASE OpenPart
  BY <1>1 DEF OpenPart
<1>2. CASE LoadState
  BY <1>2 DEF LoadState
<1>3. CASE Reconcile
  <2>1. Matches(dir.resume) =>
          dir.resume.done \intersect seen[dir.part] \subseteq done'
    BY <1>3 DEF Reconcile
  <2>2. pc' = "persist" => cursor' \notin Pieces
    BY <1>3 DEF Reconcile, Pieces
  <2>3. QED
    BY <1>3, <2>1, <2>2 DEF Reconcile
<1>4. CASE WriteTemp \/ SyncTemp
  BY <1>4 DEF WriteTemp, SyncTemp
<1>5. CASE RenameTemp
  <2>1. Matches(dir'.resume) /\ dir'.resume.done = done
    BY <1>5, RecordIsTyped DEF RenameTemp, Record
  <2>2. QED
    BY <1>5, <2>1 DEF RenameTemp
<1>6. ASSUME NEW p \in Pieces, WriteData(p) PROVE KeptInv'
  BY <1>6 DEF WriteData
<1>7. CASE SyncAndMark
  BY <1>7 DEF SyncAndMark
<1>8. CASE WriteFails
  BY <1>8 DEF WriteFails
<1>9. CASE BeginFinalize
  <2>1. pc = "open" /\ ~failed
    BY <1>9, Zenon DEF BeginFinalize
  <2>2. Matches(dir.resume) /\ dir.resume.done = done
    BY <2>1, Zenon DEF StoredIsRecorded
  <2>3. done = Pieces /\ pc' = "target" /\ dir' = dir /\ done' = done
        /\ seen' = seen
    BY <1>9 DEF BeginFinalize
  <2>4. Matches(dir'.resume) /\ dir'.resume.done = Pieces
    BY <2>2, <2>3
  <2>5. QED
    BY <2>3, <2>4
<1>10. CASE CheckTarget \/ RenamePart \/ CopyFails \/ RenameStaging
  <2>1. CASE CheckTarget
    BY <2>1 DEF CheckTarget
  <2>2. CASE RenamePart
    BY <2>2 DEF RenamePart
  <2>3. CASE CopyFails
    BY <2>3 DEF CopyFails
  <2>4. CASE RenameStaging
    <3>1. CASE End /\ UNCHANGED dir
      BY <2>4, <3>1 DEF RenameStaging
    <3>2. CASE dir' = [dir EXCEPT !.out = dir.staging, !.staging = None]
               /\ pc' = "removePart" /\ done' = done
      BY <2>4, <3>2 DEF RenameStaging, OutInv
    <3>3. QED
      BY <2>4, <3>1, <3>2 DEF RenameStaging
  <2>5. QED
    BY <1>10, <2>1, <2>2, <2>3, <2>4
<1>11. CASE Stage
  BY <1>11 DEF Stage, IsFresh, InUse
<1>12. CASE CopyPiece
  <2>1. seen'[dir.part] = seen[dir.part]
    BY <1>12 DEF CopyPiece
  <2>2. QED
    BY <1>12, <2>1 DEF CopyPiece
<1>13. CASE RemovePart
  BY <1>13 DEF RemovePart, OutInv
<1>14. CASE RemoveState
  BY <1>14 DEF RemoveState
<1>15. CASE Kill \/ DamagePiece \/ DamageState \/ OtherTorrent
  BY <1>15 DEF Kill, DamagePiece, DamageState, OtherTorrent
<1>16. CASE ForeignOutput
  BY <1>16 DEF ForeignOutput
<1>17. CASE RefuseOpen \/ UNCHANGED vars
  BY <1>17 DEF RefuseOpen, vars
<1>18. QED
  BY <1>1, <1>2, <1>3, <1>4, <1>5, <1>6, <1>7, <1>8, <1>9, <1>10, <1>11,
     <1>12, <1>13, <1>14, <1>15, <1>16, <1>17
     DEF Next, Open, Persist, Write, Finalize, Environment, Writeback,
         CommitDir, PowerLoss

LEMMA StorageInvariant ==
  ASSUME "power" \notin Faults
  PROVE  Spec => []StorageInv
<1>1. Init => KeptInv
  BY StorageAssumption, RecordAssumption
     DEF StorageAssumption, RecordAssumption, Init, EmptyDir, KeptInv,
         Settled, Finalizing, Preparing, Trusting, Matches
<1>2. OutInv /\ UNCHANGED vars => OutInv'
  BY DEF OutInv, OutputComplete, vars, mem, files
<1>3. TypeInv /\ PartInv /\ OutInv /\ [Next]_vars => OutInv'
  BY <1>2, OpenOutInv, PersistOutInv, WriteOutInv, FinalizeOutInv,
     EnvironmentOutInv DEF Next
<1>4. StorageInv /\ [Next]_vars => KeptInv'
  BY NextKeptInv
<1>5. QED
  BY <1>1, <1>3, <1>4, InitOutInv, PartInvariant, StoredPiecesAreRecorded, PTL
     DEF Spec, StorageInv

LEMMA InitRefines == Init => Promise!Init
<1> SUFFICES ASSUME Init PROVE Promise!Init
  OBVIOUS
<1>1. ~Delivered
  BY StorageAssumption DEF StorageAssumption, Init, EmptyDir, Delivered
<1>2. ~Matches(dir.resume)
  BY DEF Init, EmptyDir, Matches
<1>3. Kept = {}
  BY <1>1, <1>2 DEF Kept
<1>4. pc = "down"
  BY DEF Init
<1>5. QED
  BY <1>1, <1>3, <1>4 DEF Promise!Init

\* The three values of Kept, before and after a step.
LEMMA KeptCases ==
  /\ Delivered => Kept = Pieces
  /\ (~Delivered /\ Matches(dir.resume) /\ dir.part # None) =>
       Kept = dir.resume.done \intersect seen[dir.part]
  /\ (~Delivered /\ ~(Matches(dir.resume) /\ dir.part # None)) => Kept = {}
  BY DEF Kept

LEMMA NextKeptCases ==
  /\ Delivered' => Kept' = Pieces
  /\ (~Delivered' /\ Matches(dir'.resume) /\ dir'.part # None) =>
       Kept' = dir'.resume.done \intersect seen'[dir'.part]
  /\ (~Delivered' /\ ~(Matches(dir'.resume) /\ dir'.part # None)) => Kept' = {}
  BY DEF Kept, Matches

\* A step of the storage that the promise does not see.
LEMMA StutterStep ==
  ASSUME pc' # "down" <=> pc # "down", Delivered' <=> Delivered, Kept' = Kept
  PROVE  UNCHANGED Promise!vars
<1>1. (pc' # "down") = (pc # "down") /\ Delivered' = Delivered
  BY Zenon
<1>2. QED
  BY <1>1, Zenon DEF Promise!vars

LEMMA StartStep ==
  ASSUME pc = "down", pc' # "down", Delivered' <=> Delivered, Kept' = Kept
  PROVE  Promise!Next
<1>1. ~(pc # "down") /\ (pc' # "down") = TRUE /\ Delivered' = Delivered
  BY Zenon
<1>2. QED
  BY <1>1, Zenon DEF Promise!Next, Promise!Start

LEMMA StopStep ==
  ASSUME pc # "down", pc' = "down", Delivered' <=> Delivered, Kept' = Kept
  PROVE  Promise!Next
<1>1. (pc' # "down") = FALSE /\ Delivered' = Delivered
  BY Zenon
<1>2. QED
  BY <1>1, Zenon DEF Promise!Next, Promise!Stop

LEMMA SaveStep ==
  ASSUME pc # "down", pc' # "down", Delivered' <=> Delivered,
         NEW S \in SUBSET Pieces, Kept' = Kept \union S
  PROVE  Promise!Next
<1>1. (pc' # "down") = (pc # "down") /\ Delivered' = Delivered
  BY Zenon
<1>2. Promise!Save(S)
  BY <1>1, Zenon DEF Promise!Save
<1>3. QED
  BY <1>2, Zenon DEF Promise!Next

LEMMA DeliverStep ==
  ASSUME pc # "down", pc' # "down", Delivered', Kept = Pieces, Kept' = Kept
  PROVE  Promise!Next
<1>1. (pc' # "down") = (pc # "down") /\ Delivered' = TRUE
  BY Zenon DEF Delivered
<1>2. QED
  BY <1>1, Zenon DEF Promise!Next, Promise!Deliver

LEMMA DamageStep ==
  ASSUME pc = "down", pc' = "down", ~Delivered, ~Delivered',
         NEW S \in SUBSET Pieces, Kept' = Kept \ S
  PROVE  Promise!Next
<1>1. (pc # "down") = FALSE
  OBVIOUS
<1>2. (pc' # "down") = FALSE
  OBVIOUS
<1>3. Delivered = FALSE /\ Delivered' = FALSE
  BY DEF Delivered
<1>4. Promise!Damage(S)
  BY <1>1, <1>2, <1>3, Zenon DEF Promise!Damage
<1>5. QED
  BY <1>4, Zenon DEF Promise!Next

\* With the directory and the contents of the part file as they were, a
\* restart finds what it found.
LEMMA KeptUnchanged ==
  ASSUME dir' = dir, seen'[dir.part] = seen[dir.part]
  PROVE  Kept' = Kept /\ (Delivered' <=> Delivered)
  BY KeptCases, NextKeptCases DEF Delivered, Matches

\* A running process with the files as they were goes on or ends.
LEMMA QuietStep ==
  ASSUME pc # "down", dir' = dir, seen' = seen
  PROVE  [Promise!Next]_Promise!vars
<1>1. Kept' = Kept /\ (Delivered' <=> Delivered)
  BY KeptUnchanged
<1>2. CASE pc' = "down"
  BY <1>1, <1>2, StopStep
<1>3. CASE pc' # "down"
  BY <1>1, <1>3, StutterStep
<1>4. QED
  BY <1>2, <1>3

LEMMA OpenPartRefines ==
  StorageInv /\ OpenPart => [Promise!Next]_Promise!vars
<1> SUFFICES ASSUME StorageInv, OpenPart PROVE Promise!Next
  OBVIOUS
<1>1. pc = "down" /\ pc' # "down"
  BY DEF OpenPart
<1>2. CASE dir.part # None
  BY <1>1, <1>2, KeptUnchanged, StartStep DEF OpenPart
<1>3. CASE dir.part = None
  <2>1. PICK i \in Inodes : /\ seen' = [seen EXCEPT ![i] = {}]
                            /\ dir' = [dir EXCEPT !.part = i]
    BY <1>3 DEF OpenPart
  <2>2. dir'.part = i /\ dir'.out = dir.out /\ dir'.resume = dir.resume
        /\ seen'[i] = {}
    BY <2>1 DEF StorageInv, TypeInv, TypeOK, Directories
  <2>3. Delivered' <=> Delivered
    BY <2>2 DEF Delivered
  <2>4. ~Delivered => Kept = {} /\ Kept' = {}
    BY <1>3, <2>2, <2>3, KeptCases, NextKeptCases
  <2>5. Kept' = Kept
    BY <2>3, <2>4, KeptCases, NextKeptCases
  <2>6. QED
    BY <1>1, <2>3, <2>5, StartStep
<1>4. QED
  BY <1>2, <1>3

LEMMA RenameTempRefines ==
  StorageInv /\ RenameTemp => [Promise!Next]_Promise!vars
<1> SUFFICES ASSUME StorageInv, RenameTemp PROVE Promise!Next
  OBVIOUS
<1>1. pc = "publish" /\ pc' # "down" /\ seen' = seen /\ done \in SUBSET Pieces
  BY DEF RenameTemp, StorageInv, TypeInv, TypeOK
<1>2. /\ dir'.part = dir.part /\ dir'.out = dir.out
      /\ Matches(dir'.resume) /\ dir'.resume.done = done
  BY RecordIsTyped, RecordAssumption
     DEF RecordAssumption, RenameTemp, Record, Matches, StorageInv, TypeInv,
         TypeOK, Directories
<1>3. Delivered' <=> Delivered
  BY <1>2 DEF Delivered
<1>4. dir.part # None /\ done \subseteq seen[dir.part]
  BY <1>1, StorageAssumption
     DEF StorageAssumption, StorageInv, PartInv, Active, Trusting,
         TrustedAreVerified
<1>5. Matches(dir.resume) => dir.resume.done \intersect seen[dir.part] \subseteq done
  BY <1>1 DEF StorageInv, KeptInv, Trusting
<1>6. CASE Delivered
  <2>1. Kept' = Kept \union done
    BY <1>1, <1>3, <1>6, KeptCases, NextKeptCases
  <2>2. QED
    BY <1>1, <1>3, <2>1, SaveStep
<1>7. CASE ~Delivered
  <2>1. Kept' = done
    BY <1>1, <1>2, <1>3, <1>4, <1>7, NextKeptCases
  <2>2. Kept \subseteq done
    BY <1>4, <1>5, <1>7, KeptCases
  <2>3. Kept' = Kept \union done
    BY <2>1, <2>2
  <2>4. QED
    BY <1>1, <1>3, <2>3, SaveStep
<1>8. QED
  BY <1>6, <1>7

LEMMA WriteDataRefines ==
  ASSUME StorageInv, NEW p \in Pieces, WriteData(p)
  PROVE  [Promise!Next]_Promise!vars
<1>1. pc = "open" /\ pc' # "down" /\ dir' = dir /\ dir.part \in Inodes
  BY DEF WriteData, StorageInv, PartInv, Active, Trusting
<1>2. seen'[dir.part] = seen[dir.part] \union {p}
  BY <1>1 DEF WriteData, StorageInv, TypeInv, TypeOK
<1>3. Matches(dir.resume) /\ dir.resume.done \subseteq done
  BY <1>1 DEF StorageInv, KeptInv, Settled
<1>4. done \subseteq seen[dir.part]
  BY <1>1 DEF StorageInv, PartInv, TrustedAreVerified, Trusting
<1>5. Delivered' <=> Delivered
  BY <1>1 DEF Delivered
<1>6. Matches(dir'.resume) /\ dir.part # None
  BY <1>1, <1>3, StorageAssumption DEF StorageAssumption, Matches
<1>7. ~Delivered => Kept' = dir.resume.done /\ Kept = dir.resume.done
  BY <1>1, <1>2, <1>3, <1>4, <1>5, <1>6, KeptCases, NextKeptCases
<1>8. Kept' = Kept
  BY <1>5, <1>7, KeptCases, NextKeptCases
<1>9. QED
  BY <1>1, <1>5, <1>8, StutterStep

\* Publishing the output: the part file holds every piece and the state file
\* marks every piece, so a restart would already fetch nothing.
LEMMA PublishRefines ==
  ASSUME StorageInv, pc \in {"rename", "renameStaging"}, pc' # "down",
         dir'.out \in Inodes
  PROVE  Promise!Next
<1>1. done = Pieces /\ dir.out \notin Inodes
  BY DEF StorageInv, OutInv, Preparing
<1>2. Pieces \subseteq seen[dir.part] /\ dir.part \in Inodes
  BY <1>1 DEF StorageInv, PartInv, TrustedAreVerified, Trusting, Active
<1>3. Matches(dir.resume) /\ dir.resume.done = Pieces
  BY DEF StorageInv, KeptInv, Finalizing, Preparing
<1>4. dir.part # None /\ ~Delivered /\ Delivered'
  BY <1>1, <1>2, StorageAssumption DEF StorageAssumption, Delivered
<1>5. Kept = Pieces /\ Kept' = Pieces
  BY <1>2, <1>3, <1>4, KeptCases, NextKeptCases
<1>6. QED
  BY <1>4, <1>5, DeliverStep

\* The staging tree is not what a restart looks at.
LEMMA StagingRefines ==
  StorageInv /\ (Stage \/ CopyPiece \/ CopyFails)
     => [Promise!Next]_Promise!vars
<1> SUFFICES ASSUME StorageInv, Stage \/ CopyPiece \/ CopyFails
             PROVE  [Promise!Next]_Promise!vars
  OBVIOUS
<1> USE DEF StorageInv, TypeInv, TypeOK, Directories
<1>1. pc # "down" /\ dir.part \in Inodes
  BY DEF Stage, CopyPiece, CopyFails, PartInv, Active, Trusting
<1>2. dir'.part = dir.part /\ dir'.out = dir.out /\ dir'.resume = dir.resume
  BY DEF Stage, CopyPiece, CopyFails
<1>3. seen'[dir.part] = seen[dir.part]
  <2>1. CASE Stage
    BY <2>1, <1>1 DEF Stage, IsFresh, InUse
  <2>2. CASE CopyPiece
    BY <2>2, <1>1 DEF CopyPiece, PartInv, Distinct, OutInv
  <2>3. CASE CopyFails
    BY <2>3 DEF CopyFails
  <2>4. QED
    BY <2>1, <2>2, <2>3
<1>4. Delivered' <=> Delivered
  BY <1>2 DEF Delivered
<1>5. Matches(dir'.resume) <=> Matches(dir.resume)
  BY <1>2
<1>6. Kept' = Kept
  BY <1>2, <1>3, <1>4, <1>5, KeptCases, NextKeptCases
<1>7. CASE pc' = "down"
  BY <1>1, <1>4, <1>6, <1>7, StopStep
<1>8. CASE pc' # "down"
  BY <1>1, <1>4, <1>6, <1>8, StutterStep
<1>9. QED
  BY <1>7, <1>8

LEMMA FinalizeRefines ==
  StorageInv /\ Finalize => [Promise!Next]_Promise!vars
<1> SUFFICES ASSUME StorageInv, Finalize PROVE [Promise!Next]_Promise!vars
  OBVIOUS
<1>1. CASE BeginFinalize \/ CheckTarget
  BY <1>1, QuietStep DEF BeginFinalize, CheckTarget, files
<1>2. CASE RenamePart
  <2>1. dir'.out = dir.part /\ dir.part \in Inodes
    BY <1>2 DEF RenamePart, StorageInv, PartInv, Active, Trusting, TypeInv,
                TypeOK, Directories
  <2>2. QED
    BY <1>2, <2>1, PublishRefines DEF RenamePart
<1>3. CASE Stage \/ CopyPiece \/ CopyFails
  BY <1>3, StagingRefines
<1>4. CASE RenameStaging
  <2>1. CASE dir' = dir
    BY <1>4, <2>1, QuietStep DEF RenameStaging
  <2>2. CASE dir' = [dir EXCEPT !.out = dir.staging, !.staging = None]
             /\ pc' = "removePart"
    <3>1. dir'.out \in Inodes
      BY <1>4, <2>2 DEF RenameStaging, StorageInv, OutInv, TypeInv, TypeOK,
                        Directories
    <3>2. QED
      BY <1>4, <2>2, <3>1, PublishRefines DEF RenameStaging
  <2>3. QED
    BY <1>4, <2>1, <2>2 DEF RenameStaging
<1>5. CASE RemovePart \/ RemoveState
  <2>1. dir'.out = dir.out /\ dir.out \in Inodes /\ pc # "down"
    BY <1>5 DEF RemovePart, RemoveState, StorageInv, KeptInv, TypeInv, TypeOK,
                Directories
  <2>2. Delivered /\ Delivered'
    BY <2>1 DEF Delivered
  <2>3. Kept' = Kept
    BY <2>2, KeptCases, NextKeptCases
  <2>4. CASE pc' = "down"
    BY <2>1, <2>2, <2>3, <2>4, StopStep
  <2>5. CASE pc' # "down"
    BY <2>1, <2>2, <2>3, <2>5, StutterStep
  <2>6. QED
    BY <2>4, <2>5
<1>6. QED
  BY <1>1, <1>2, <1>3, <1>4, <1>5 DEF Finalize

\* What others do to a stopped download takes pieces away, or nothing when
\* the output is already in place.
LEMMA DamageRefines ==
  ASSUME StorageInv, pc = "down", pc' = "down", dir'.out = dir.out,
         NEW S \in SUBSET Pieces, ~Delivered => Kept' = Kept \ S
  PROVE  [Promise!Next]_Promise!vars
<1>1. Delivered' <=> Delivered
  BY DEF Delivered
<1>2. CASE Delivered
  BY <1>1, <1>2, StutterStep, KeptCases, NextKeptCases
<1>3. CASE ~Delivered
  BY <1>1, <1>3, DamageStep
<1>4. QED
  BY <1>2, <1>3

LEMMA KeptArePieces == StorageInv => Kept \subseteq Pieces
<1> SUFFICES ASSUME StorageInv PROVE Kept \subseteq Pieces
  OBVIOUS
<1>1. Matches(dir.resume) => dir.resume.done \subseteq Pieces
  BY RecordAssumption
     DEF RecordAssumption, StorageInv, TypeInv, TypeOK, Directories,
         ResumeRecords, Matches
<1>2. QED
  BY <1>1, KeptCases

LEMMA DamagePieceRefines ==
  StorageInv /\ DamagePiece => [Promise!Next]_Promise!vars
<1> SUFFICES ASSUME StorageInv, DamagePiece PROVE [Promise!Next]_Promise!vars
  OBVIOUS
<1>1. pc = "down" /\ pc' = "down" /\ dir' = dir /\ dir.part \in Inodes
  BY DEF DamagePiece, StorageInv, TypeInv, TypeOK, Directories
<1>2. PICK p \in seen[dir.part] : seen' = [seen EXCEPT ![dir.part] = @ \ {p}]
  BY DEF DamagePiece
<1>3. seen'[dir.part] = seen[dir.part] \ {p} /\ p \in Pieces
  BY <1>1, <1>2 DEF StorageInv, TypeInv, TypeOK
<1>4. Delivered' <=> Delivered
  BY <1>1 DEF Delivered
<1>5. Matches(dir'.resume) <=> Matches(dir.resume)
  BY <1>1 DEF Matches
<1>6. ~Delivered => Kept' = Kept \ {p}
  BY <1>1, <1>3, <1>4, <1>5, KeptCases, NextKeptCases
<1>7. QED
  BY <1>1, <1>3, <1>6, DamageRefines

LEMMA EnvironmentRefines ==
  ASSUME "power" \notin Faults
  PROVE  StorageInv /\ Environment => [Promise!Next]_Promise!vars
<1> SUFFICES ASSUME StorageInv, Environment PROVE [Promise!Next]_Promise!vars
  OBVIOUS
<1>1. CASE Kill
  BY <1>1, QuietStep DEF Kill, files
<1>2. CASE DamagePiece
  BY <1>2, DamagePieceRefines
<1>3. CASE DamageState \/ OtherTorrent
  <2>1. pc = "down" /\ pc' = "down" /\ dir'.out = dir.out
    BY <1>3 DEF DamageState, OtherTorrent, StorageInv, TypeInv, TypeOK,
                Directories
  <2>2. ~Matches(dir'.resume)
    BY <1>3 DEF DamageState, OtherTorrent, Matches, StorageInv, TypeInv,
                TypeOK, Directories
  <2>3. Delivered' <=> Delivered
    BY <2>1 DEF Delivered
  <2>4. ~Delivered => Kept' = Kept \ Pieces
    BY <2>2, <2>3, NextKeptCases, KeptArePieces
  <2>5. QED
    BY <2>1, <2>4, DamageRefines
<1>4. CASE ForeignOutput
  <2>1. /\ dir'.part = dir.part /\ dir'.resume = dir.resume
        /\ dir.out = None /\ dir'.out = Foreign /\ seen' = seen /\ pc' = pc
    BY <1>4 DEF ForeignOutput, StorageInv, TypeInv, TypeOK, Directories
  <2>2. ~Delivered /\ ~Delivered'
    BY <2>1, StorageAssumption DEF StorageAssumption, Delivered
  <2>3. Matches(dir'.resume) <=> Matches(dir.resume)
    BY <2>1 DEF Matches
  <2>4. Kept' = Kept
    BY <2>1, <2>2, <2>3, KeptCases, NextKeptCases
  <2>5. QED
    BY <2>1, <2>2, <2>4, StutterStep
<1>5. QED
  BY <1>1, <1>2, <1>3, <1>4 DEF Environment, Writeback, CommitDir, PowerLoss

LEMMA NextRefines ==
  ASSUME "power" \notin Faults
  PROVE  StorageInv /\ [Next]_vars => [Promise!Next]_Promise!vars
<1> SUFFICES ASSUME StorageInv, [Next]_vars PROVE [Promise!Next]_Promise!vars
  OBVIOUS
<1>1. CASE OpenPart
  BY <1>1, OpenPartRefines
<1>2. CASE LoadState \/ Reconcile
  BY <1>2, QuietStep DEF LoadState, Reconcile, files
<1>3. CASE WriteTemp \/ SyncTemp
  BY <1>3, QuietStep DEF WriteTemp, SyncTemp, files
<1>4. CASE RenameTemp
  BY <1>4, RenameTempRefines
<1>5. ASSUME NEW p \in Pieces, WriteData(p)
      PROVE  [Promise!Next]_Promise!vars
  BY <1>5, WriteDataRefines
<1>6. CASE SyncAndMark \/ WriteFails
  BY <1>6, QuietStep DEF SyncAndMark, WriteFails, files
<1>7. CASE Finalize
  BY <1>7, FinalizeRefines
<1>8. CASE Environment
  BY <1>8, EnvironmentRefines
<1>9. CASE UNCHANGED vars
  <2>1. Kept' = Kept /\ (Delivered' <=> Delivered) /\ pc' = pc
    BY <1>9, KeptUnchanged DEF vars, files
  <2>2. QED
    BY <2>1, StutterStep
<1>10. QED
  BY <1>1, <1>2, <1>3, <1>4, <1>5, <1>6, <1>7, <1>8, <1>9
     DEF Next, Open, Persist, Write, RefuseOpen

\* The storage implements the promise of Checkpoint: unless power fails, kills,
\* failed writes, restarts and damage to a stopped download leave a restart
\* with every piece ever recorded but the damaged ones, and the output is
\* delivered at most once, complete (write_verified_piece, open, finalize).
THEOREM CheckpointIsImplemented ==
  ASSUME "power" \notin Faults
  PROVE  Spec => ImplementsCheckpoint
<1>1. StorageInv /\ [Next]_vars => [Promise!Next]_Promise!vars
  BY NextRefines
<1>2. Spec => []StorageInv
  BY StorageInvariant
<1>3. QED
  BY <1>1, <1>2, InitRefines, PTL DEF Spec, ImplementsCheckpoint, Promise!Spec
=============================================================================
