-------------------------- MODULE BackupStoreProofs --------------------------
(***************************************************************************)
(* A validated backup holds what was committed when it was asked for, and  *)
(* while archives are made the directory keeps one that has been reported, *)
(* for every number of requests, kills and failures, every retention and   *)
(* every moment DuckDB chooses for its checkpoints.                        *)
(***************************************************************************)
EXTENDS BackupStore, FiniteSetTheorems, TLAPS

-----------------------------------------------------------------------------
(* Types                                                                   *)

(* What stays of the directory as the clock and the commits go on.          *)
LEMMA KeptFiles ==
  ASSUME BackupTypeOK, clock' \in Nat, committed' \in Nat,
         clock <= clock', committed <= committed', dir' \subseteq dir
  PROVE  dir' \subseteq FileType'
<1>1. clock \in Nat /\ committed \in Nat
  BY StoreAssumption DEF BackupTypeOK
<1> QED
  BY <1>1 DEF BackupTypeOK, FileType

(* A file that is written anew.                                             *)
LEMMA WrittenFiles ==
  ASSUME BackupTypeOK, clock \in Nat, clock' \in Nat, committed' \in Nat,
         clock <= clock', committed <= committed',
         NEW kind \in Kinds, NEW stamp \in 0..clock',
         NEW d \in 0..committed' \cup {Partial}, NEW m \in 0..clock'
  PROVE  Written(File(kind, stamp, d, m)) \subseteq FileType'
<1>1. committed \in Nat
  BY DEF BackupTypeOK
<1>2. dir \subseteq FileType'
  BY <1>1 DEF BackupTypeOK, FileType
<1>3. File(kind, stamp, d, m) \in FileType'
  BY DEF FileType, File
<1> QED
  BY <1>2, <1>3 DEF Written

(* A file that a request writes is one of the directory's kind. *)
LEMMA WriteType ==
  ASSUME BackupTypeOK, StepInv, NEW from \in Requested \ {"prune"}, NEW to \in Requested,
         NEW kind \in {"duckdb", "gz"},
         NEW d \in 0..committed \cup {Partial}, NEW m \in 0..clock,
         Write(from, to, File(kind, backup.stamp, d, m))
  PROVE  BackupTypeOK'
<1>1. /\ process' = "server" /\ step' = to /\ clock' = clock + 1 /\ clock < MaxClock
      /\ dir' = Written(File(kind, backup.stamp, d, m))
      /\ UNCHANGED <<database, backup, obsolete, reported>>
  BY DEF Write
<1>2. clock \in Nat /\ committed \in Nat /\ MaxClock \in Nat /\ clock > 0
      /\ backup.stamp \in 0..clock
  BY StoreAssumption DEF BackupTypeOK
<1>3. kind \in Kinds /\ d \in 0..committed' \cup {Partial} /\ m \in 0..clock'
      /\ backup.stamp \in 0..clock' /\ committed' = committed
      /\ clock <= clock' /\ clock' \in Nat
  BY <1>1, <1>2 DEF Kinds, database
<1>4. dir' \subseteq FileType'
  BY <1>1, <1>2, <1>3, WrittenFiles
<1>5. obsolete' = {}
  BY <1>1 DEF StepInv, Write, Requested
<1>6. to \in Steps
  BY DEF Requested, Steps
<1>7. /\ file' \in 0..committed' /\ touched' \in 0..clock' /\ clock' \in Nat \ {0}
      /\ backup' \in [stamp : 0..clock', compress : BOOLEAN, asked : 0..committed']
      /\ reported' \in 0..committed' \cup {-1}
  BY <1>1, <1>2 DEF BackupTypeOK, database
<1> QED
  BY <1>1, <1>3, <1>4, <1>5, <1>6, <1>7, <1>2 DEF BackupTypeOK

(* The record of no request is one of a request. *)
LEMMA NoRequestType ==
  ASSUME clock \in Nat, committed \in Nat
  PROVE  NoBackup \in [stamp : 0..clock, compress : BOOLEAN, asked : 0..committed]
BY DEF NoBackup

(* Every step keeps the types. *)
LEMMA BackupTypeStep == BackupTypeOK /\ StepInv /\ [BackupNext]_backupVars => BackupTypeOK'
<1> SUFFICES ASSUME BackupTypeOK, StepInv, [BackupNext]_backupVars
             PROVE  BackupTypeOK'
  OBVIOUS
<1>0. /\ clock \in Nat /\ committed \in Nat /\ MaxClock \in Nat
      /\ Compressions \subseteq BOOLEAN
  BY StoreAssumption DEF BackupTypeOK
<1>1. CASE StartServer \/ StartOnce
  <2>1. dir' \subseteq FileType'
    BY <1>0, <1>1, KeptFiles DEF StartServer, StartOnce, database
  <2> QED
    BY <1>0, <1>1, <2>1 DEF StartServer, StartOnce, BackupTypeOK, database, Steps
<1>2. CASE Commit
  <2>1. dir' \subseteq FileType'
    BY <1>0, <1>2, KeptFiles DEF Commit
  <2> QED
    BY <1>0, <1>2, <2>1 DEF Commit, BackupTypeOK
<1>3. CASE AutoCheckpoint
  <2>1. dir' \subseteq FileType'
    BY <1>0, <1>3, KeptFiles DEF AutoCheckpoint
  <2> QED
    BY <1>0, <1>3, <2>1 DEF AutoCheckpoint, Flush, BackupTypeOK
<1>4. CASE Exit \/ Kill
  <2>1. dir' \subseteq FileType'
    BY <1>0, <1>4, KeptFiles DEF Exit, Kill, Leave
  <2> QED
    BY <1>0, <1>4, <2>1, NoRequestType DEF Exit, Kill, Leave, Flush, BackupTypeOK, Steps
<1>5. ASSUME NEW compress \in Compressions, Checkpoint(compress)
      PROVE  BackupTypeOK'
  <2>1. dir' \subseteq FileType'
    BY <1>0, <1>5, KeptFiles DEF Checkpoint
  <2> QED
    BY <1>0, <1>5, <2>1 DEF Checkpoint, Flush, BackupTypeOK, Steps
<1>6. CASE CopyBegins
  <2>1. Write("copy", "copying", File("duckdb", backup.stamp, Partial, clock))
    BY <1>6 DEF CopyBegins
  <2>2. Partial \in 0..committed \cup {Partial} /\ clock \in 0..clock
    BY <1>0
  <2> QED
    BY <2>1, <2>2, WriteType DEF Requested
<1>7. CASE CopyEnds
  <2>1. /\ file \in 0..committed \cup {Partial} /\ touched \in 0..clock
        /\ (IF backup.compress THEN "gzip" ELSE "validate") \in Requested
    BY DEF BackupTypeOK, Requested
  <2> QED
    BY <1>7, <2>1, WriteType DEF CopyEnds, Requested
<1>8. CASE GzipBegins
  <2>1. Write("gzip", "gzipping", File("gz", backup.stamp, Partial, clock))
    BY <1>8 DEF GzipBegins
  <2>2. Partial \in 0..committed \cup {Partial} /\ clock \in 0..clock
    BY <1>0
  <2> QED
    BY <2>1, <2>2, WriteType DEF Requested
<1>9. CASE GzipEnds
  <2>1. PICK f \in Named("duckdb", backup.stamp) :
          Write("gzipping", "unlink", File("gz", backup.stamp, f.data, clock))
    BY <1>9 DEF GzipEnds
  <2>2. f.data \in 0..committed \cup {Partial} /\ clock \in 0..clock
    <3>1. f \in FileType
      BY DEF BackupTypeOK, Named
    <3> QED
      BY <1>0, <3>1 DEF FileType
  <2> QED
    BY <2>1, <2>2, WriteType DEF Requested
<1>10. CASE Unlink
  <2>1. dir' \subseteq FileType'
    BY <1>0, <1>10, KeptFiles DEF Unlink, database
  <2> QED
    BY <1>10, <2>1 DEF Unlink, BackupTypeOK, StepInv, database, Steps
<1>11. CASE Validate
  <2>1. dir' \subseteq FileType'
    BY <1>0, <1>11, KeptFiles DEF Validate, database
  <2>2. obsolete' \subseteq dir'
    BY <1>11 DEF Validate, Listed
  <2> QED
    BY <1>11, <2>1, <2>2 DEF Validate, BackupTypeOK, database, Steps
<1>12. CASE Prune
  <2>1. dir' \subseteq FileType'
    BY <1>0, <1>12, KeptFiles DEF Prune, database
  <2> QED
    BY <1>12, <2>1 DEF Prune, BackupTypeOK, database
<1>13. CASE Return \/ Raise
  <2>1. dir' \subseteq FileType'
    BY <1>0, <1>13, KeptFiles DEF Return, Raise, database
  <2> QED
    BY <1>0, <1>13, <2>1, NoRequestType DEF Return, Raise, BackupTypeOK, database, Steps
<1>14. CASE ExportBegins
  <2>1. /\ clock' = clock + 1 /\ clock < MaxClock /\ step' = "exporting"
        /\ dir' = Written(File("tmp", 0, Partial, clock)) /\ obsolete = {}
        /\ UNCHANGED <<process, database, backup, obsolete, reported>>
    BY <1>14 DEF ExportBegins, StepInv
  <2>2. dir' \subseteq FileType'
    <3>1. /\ "tmp" \in Kinds /\ 0 \in 0..clock' /\ clock \in 0..clock'
          /\ Partial \in 0..committed' \cup {Partial}
          /\ committed' \in Nat /\ committed <= committed'
          /\ clock' \in Nat /\ clock <= clock'
      BY <1>0, <2>1 DEF Kinds, database
    <3> QED
      BY <1>0, <2>1, <3>1, WrittenFiles
  <2> QED
    BY <1>0, <2>1, <2>2 DEF BackupTypeOK, database, Steps
<1>15. CASE ExportReplaces
  <2>1. /\ step' = "published" /\ obsolete = {}
        /\ dir' = Written(File("export", 0, file, touched)) \ Named("tmp", 0)
        /\ UNCHANGED <<process, database, clock, backup, obsolete, reported>>
    BY <1>15 DEF ExportReplaces, StepInv
  <2>2. Written(File("export", 0, file, touched)) \subseteq FileType'
    <3>1. /\ clock' = clock /\ committed' = committed /\ "export" \in Kinds
          /\ 0 \in 0..clock' /\ file \in 0..committed' \cup {Partial} /\ touched \in 0..clock'
      BY <1>0, <2>1 DEF BackupTypeOK, Kinds, database
    <3> QED
      BY <1>0, <3>1, WrittenFiles
  <2> QED
    BY <2>1, <2>2 DEF BackupTypeOK, database, Steps
<1>16. CASE UNCHANGED backupVars
  <2>1. dir' \subseteq FileType'
    BY <1>0, <1>16, KeptFiles DEF backupVars, database
  <2> QED
    BY <1>16, <2>1 DEF backupVars, BackupTypeOK, database
<1> QED
  BY <1>1, <1>2, <1>3, <1>4, <1>5, <1>6, <1>7, <1>8, <1>9, <1>10, <1>11, <1>12, <1>13, <1>14,
     <1>15, <1>16 DEF BackupNext

-----------------------------------------------------------------------------
(* What a request has                                                      *)

(* The numbers that the arithmetic of the proofs below speaks of. *)
LEMMA Numbers ==
  ASSUME BackupTypeOK
  PROVE  /\ clock \in Nat /\ committed \in Nat /\ file \in Nat /\ file <= committed
         /\ touched \in Nat /\ touched <= clock
         /\ backup.stamp \in Nat /\ backup.stamp <= clock
         /\ backup.asked \in Nat /\ backup.asked <= committed
         /\ \A f \in dir : f.stamp \in Nat /\ f.mtime \in Nat /\ f.data \in Int
BY StoreAssumption DEF BackupTypeOK, FileType, Partial

(* Every step keeps a request and its label together. *)
LEMMA StepStep == BackupTypeOK /\ StepInv /\ [BackupNext]_backupVars => StepInv'
<1> SUFFICES ASSUME BackupTypeOK, StepInv, [BackupNext]_backupVars
             PROVE  StepInv'
  OBVIOUS
<1> USE DEF StepInv
<1>1. CASE StartServer \/ StartOnce \/ Commit \/ AutoCheckpoint \/ Exit \/ Kill
  BY <1>1 DEF StartServer, StartOnce, Commit, AutoCheckpoint, Exit, Kill, Leave, database
<1>2. CASE \E compress \in Compressions : Checkpoint(compress)
  BY <1>2 DEF Checkpoint
<1>3. CASE CopyBegins \/ CopyEnds \/ GzipBegins \/ GzipEnds
  BY <1>3 DEF CopyBegins, CopyEnds, GzipBegins, GzipEnds, Write
<1>4. CASE Unlink \/ Validate \/ Prune \/ Return \/ Raise
  BY <1>4 DEF Unlink, Validate, Prune, Return, Raise
<1>5. CASE ExportBegins \/ ExportReplaces
  BY <1>5 DEF ExportBegins, ExportReplaces
<1>6. CASE UNCHANGED backupVars
  BY <1>6 DEF backupVars, database
<1> QED
  BY <1>1, <1>2, <1>3, <1>4, <1>5, <1>6 DEF BackupNext

(* No file of the directory is from the future. *)
LEMMA PastStep == BackupTypeOK /\ PastInv /\ [BackupNext]_backupVars => PastInv'
<1> SUFFICES ASSUME BackupTypeOK, PastInv, [BackupNext]_backupVars
             PROVE  PastInv'
  OBVIOUS
<1> USE Numbers DEF PastInv
<1>1. CASE StartServer \/ StartOnce \/ Commit \/ AutoCheckpoint \/ Exit \/ Kill
  BY <1>1 DEF StartServer, StartOnce, Commit, AutoCheckpoint, Flush, Exit, Kill, Leave, database
<1>2. CASE \E compress \in Compressions : Checkpoint(compress)
  BY <1>2 DEF Checkpoint
<1>3. CASE CopyBegins \/ CopyEnds \/ GzipBegins \/ GzipEnds
  <2>1. /\ clock' = clock + 1 /\ step' # "exporting"
        /\ \E kind \in Kinds, d \in Int, m \in 0..clock :
             dir' = Written(File(kind, backup.stamp, d, m))
    <3>1. CASE CopyBegins
      BY <3>1 DEF CopyBegins, Write, Kinds, Partial
    <3>2. CASE CopyEnds
      BY <3>2 DEF CopyEnds, Write, Kinds
    <3>3. CASE GzipBegins
      BY <3>3 DEF GzipBegins, Write, Kinds, Partial
    <3>4. CASE GzipEnds
      BY <3>4 DEF GzipEnds, Write, Kinds, Named
    <3> QED
      BY <1>3, <3>1, <3>2, <3>3, <3>4
  <2> QED
    BY <2>1 DEF Written, File
<1>4. CASE Unlink \/ Validate \/ Prune \/ Return \/ Raise
  BY <1>4 DEF Unlink, Validate, Prune, Return, Raise, database
<1>5. CASE ExportBegins
  BY <1>5 DEF ExportBegins, Written, File, database
<1>6. CASE ExportReplaces
  BY <1>6 DEF ExportReplaces, Written, File
<1>7. CASE UNCHANGED backupVars
  BY <1>7 DEF backupVars, database
<1> QED
  BY <1>1, <1>2, <1>3, <1>4, <1>5, <1>6, <1>7 DEF BackupNext

(* A request under way has the files its label says it has written. *)
LEMMA RequestStep ==
  BackupTypeOK /\ PastInv /\ RequestInv /\ [BackupNext]_backupVars => RequestInv'
<1> SUFFICES ASSUME BackupTypeOK, PastInv, RequestInv, [BackupNext]_backupVars
             PROVE  RequestInv'
  OBVIOUS
<1> USE Numbers DEF RequestInv, Requested
<1>1. CASE StartServer \/ StartOnce \/ Exit \/ Kill \/ Return \/ Raise
           \/ ExportBegins \/ ExportReplaces
  BY <1>1 DEF StartServer, StartOnce, Exit, Kill, Leave, Return, Raise, ExportBegins,
              ExportReplaces
<1>2. CASE Commit
  BY <1>2 DEF Commit, Own
<1>3. CASE AutoCheckpoint
  BY <1>3 DEF AutoCheckpoint, Flush, Own
<1>4. ASSUME NEW compress \in Compressions, Checkpoint(compress)
      PROVE  RequestInv'
  <2>1. /\ backup'.stamp = clock /\ backup'.asked = committed /\ file' = committed
        /\ dir' = dir /\ step' = "copy" /\ clock > 0
    BY <1>4 DEF Checkpoint, Flush, BackupTypeOK
  <2>2. Own' = {}
    BY <2>1 DEF Own, PastInv
  <2> QED
    BY <2>1, <2>2
<1>5. CASE CopyBegins
  <2>1. /\ step = "copy" /\ step' = "copying"
        /\ dir' = Written(File("duckdb", backup.stamp, Partial, clock))
        /\ UNCHANGED <<file, backup>>
    BY <1>5 DEF CopyBegins, Write, database
  <2> QED
    BY <2>1 DEF Written, File, Own
<1>6. CASE CopyEnds
  <2>1. /\ step = "copying" /\ step' \in {"gzip", "validate"}
        /\ dir' = Written(File("duckdb", backup.stamp, file, touched))
        /\ UNCHANGED <<file, backup>>
    BY <1>6 DEF CopyEnds, Write, database
  <2> QED
    BY <2>1 DEF Written, Named, File, Own
<1>7. CASE GzipBegins
  <2>1. /\ step = "gzip" /\ step' = "gzipping"
        /\ dir' = Written(File("gz", backup.stamp, Partial, clock))
        /\ UNCHANGED <<file, backup>>
    BY <1>7 DEF GzipBegins, Write, database
  <2> QED
    BY <2>1 DEF Written, File, Own
<1>8. CASE GzipEnds
  <2>1. PICK f \in Named("duckdb", backup.stamp) :
          /\ step = "gzipping" /\ step' = "unlink"
          /\ dir' = Written(File("gz", backup.stamp, f.data, clock))
          /\ UNCHANGED <<file, backup>>
    BY <1>8 DEF GzipEnds, Write, database
  <2>2. f.data >= backup.asked
    BY <2>1 DEF Named, Own
  <2> QED
    BY <2>1, <2>2 DEF Written, Named, File, Own
<1>9. CASE Unlink \/ Validate \/ Prune
  BY <1>9 DEF Unlink, Validate, Prune, Own, database
<1>10. CASE UNCHANGED backupVars
  BY <1>10 DEF backupVars, database, Own
<1> QED
  BY <1>1, <1>2, <1>3, <1>4, <1>5, <1>6, <1>7, <1>8, <1>9, <1>10 DEF BackupNext

(* The inductive invariant of the backups (_create_backup_sync, api.py). *)
LEMMA BackupInvariant == BackupSpec => []BackupInv
<1>1. BackupInit => BackupInv
  BY StoreAssumption DEF BackupInit, BackupInv, BackupTypeOK, PastInv, StepInv, RequestInv,
     Requested, NoBackup, Steps
<1>2. BackupInv /\ [BackupNext]_backupVars => BackupInv'
  BY BackupTypeStep, StepStep, PastStep, RequestStep DEF BackupInv
<1> QED
  BY <1>1, <1>2, PTL DEF BackupSpec

(* A backup that has passed validation holds everything that was committed  *)
(* when it was requested, compressed or not.                                *)
THEOREM BackupsHoldCommits == BackupSpec => []BackupHoldsCommits
<1>1. BackupInv => BackupHoldsCommits
  BY DEF BackupInv, RequestInv, Requested, BackupHoldsCommits, Final, Named, Own
<1> QED
  BY <1>1, BackupInvariant, PTL

-----------------------------------------------------------------------------
(* What is kept                                                            *)

(* The retention keeps a file than which no other is as new.                *)
LEMMA NewestIsKept ==
  ASSUME IsFiniteSet(dir), NEW f \in Listed, NEW r \in Nat \ {0}, NEW keep \in SUBSET Listed,
         \A g \in dir : g.mtime \in Nat,
         \A g \in Listed : g # f => g.mtime < f.mtime,
         Cardinality(keep) = IF Cardinality(Listed) < r THEN Cardinality(Listed) ELSE r,
         \A h \in keep, g \in Listed \ keep : h.mtime >= g.mtime
  PROVE  f \in keep
<1>1. IsFiniteSet(Listed)
  BY FS_Subset DEF Listed
<1>2. Cardinality(Listed) \in Nat /\ Cardinality(Listed) # 0
  BY <1>1, FS_CardinalityType, FS_EmptySet
<1>3. Cardinality(keep) # 0
  BY <1>2
<1>4. keep # {}
  BY <1>3, FS_EmptySet
<1>5. PICK h \in keep : TRUE
  BY <1>4
<1> QED
  BY <1>5 DEF Listed

(* Replacing one file keeps a finite directory finite. *)
LEMMA WrittenIsFinite ==
  ASSUME IsFiniteSet(dir), NEW f
  PROVE  IsFiniteSet(Written(f))
<1>1. IsFiniteSet(dir \ Named(f.kind, f.stamp))
  BY FS_Subset
<1> QED
  BY <1>1, FS_AddElement DEF Written

(* The directory keeps to its count between requests, when every request   *)
(* compresses.                                                             *)
LEMMA KeptStep ==
  Compressions \subseteq {TRUE} =>
    (BackupInv /\ KeptInv /\ [BackupNext]_backupVars => KeptInv')
<1> SUFFICES ASSUME Compressions \subseteq {TRUE}, BackupInv, KeptInv, [BackupNext]_backupVars
             PROVE  KeptInv'
  OBVIOUS
<1>0. /\ BackupTypeOK /\ PastInv /\ StepInv /\ RequestInv
      /\ clock \in Nat /\ committed \in Nat /\ file \in Nat
      /\ backup.asked \in Nat /\ reported \in Int
      /\ \A f \in dir : f.stamp \in Nat /\ f.mtime \in Nat /\ f.data \in Int
  BY Numbers DEF BackupInv, BackupTypeOK
<1> USE DEF Requested, Listed
<1>1. CASE StartServer \/ StartOnce \/ Commit \/ AutoCheckpoint \/ Exit \/ Kill \/ Raise
  BY <1>0, <1>1 DEF KeptInv, BackupLeft, Final, Named, StartServer, StartOnce, Commit,
     AutoCheckpoint, Exit, Kill, Leave, Raise, database
<1>2. ASSUME NEW compress \in Compressions, Checkpoint(compress)
      PROVE  KeptInv'
  <2>1. /\ backup'.compress /\ backup'.asked = committed /\ step' = "copy"
        /\ UNCHANGED <<committed, dir, reported>>
    BY <1>2 DEF Checkpoint
  <2> QED
    BY <2>1 DEF KeptInv, BackupLeft
<1>3. CASE CopyBegins
  <2>1. /\ step = "copy" /\ step' = "copying"
        /\ dir' = Written(File("duckdb", backup.stamp, Partial, clock))
        /\ UNCHANGED <<committed, backup, reported>>
    BY <1>3 DEF CopyBegins, Write, database
  <2>2. dir' = dir \cup {File("duckdb", backup.stamp, Partial, clock)}
    BY <1>0, <2>1 DEF Written, Named, RequestInv, Own, File
  <2>3. IsFiniteSet(dir')
    BY <2>2, FS_AddElement DEF KeptInv
  <2>4. BackupLeft'
    BY <2>1, <2>2 DEF KeptInv, BackupLeft, File
  <2> QED
    BY <2>1, <2>3, <2>4 DEF KeptInv
<1>4. CASE CopyEnds
  <2> DEFINE copy == File("duckdb", backup.stamp, file, touched)
  <2>1. /\ step = "copying" /\ step' = "gzip" /\ dir' = Written(copy)
        /\ UNCHANGED <<committed, backup, reported>>
    BY <1>4 DEF CopyEnds, Write, KeptInv, database
  <2>2. IsFiniteSet(dir')
    BY <2>1, WrittenIsFinite DEF KeptInv
  <2>3. BackupLeft'
    <3>1. copy \in dir' /\ copy.kind = "duckdb" /\ copy.data >= reported
      BY <1>0, <2>1 DEF Written, File, KeptInv, RequestInv
    <3> QED
      BY <2>1, <3>1 DEF BackupLeft
  <2> QED
    BY <2>1, <2>2, <2>3 DEF KeptInv
<1>5. CASE GzipBegins
  <2>1. /\ step = "gzip" /\ step' = "gzipping"
        /\ dir' = Written(File("gz", backup.stamp, Partial, clock))
        /\ UNCHANGED <<committed, backup, reported>>
    BY <1>5 DEF GzipBegins, Write, database
  <2>2. dir' = dir \cup {File("gz", backup.stamp, Partial, clock)}
    BY <1>0, <2>1 DEF Written, Named, RequestInv, Own, File
  <2>3. IsFiniteSet(dir')
    BY <2>2, FS_AddElement DEF KeptInv
  <2>4. BackupLeft'
    BY <2>1, <2>2 DEF KeptInv, BackupLeft, File
  <2> QED
    BY <2>1, <2>3, <2>4 DEF KeptInv
<1>6. CASE GzipEnds
  <2>1. PICK f \in Named("duckdb", backup.stamp) :
          Write("gzipping", "unlink", File("gz", backup.stamp, f.data, clock))
    BY <1>6 DEF GzipEnds
  <2> DEFINE archive == File("gz", backup.stamp, f.data, clock)
  <2>2. /\ step = "gzipping" /\ step' = "unlink" /\ dir' = Written(archive)
        /\ UNCHANGED <<committed, backup, reported>>
    BY <2>1 DEF Write, database
  <2>3. IsFiniteSet(dir')
    BY <2>2, WrittenIsFinite, FS_Subset DEF KeptInv
  <2>4. archive.kind = "gz" /\ archive.stamp = backup.stamp /\ archive.mtime = clock
        /\ archive.data = f.data
    BY DEF File
  <2>5. archive \in dir' /\ \A g \in dir' : g # archive => g \in dir /\ g \notin Named("gz", backup.stamp)
    BY <2>2, <2>4 DEF Written
  <2>6. Named("gz", backup.stamp)' = {archive}
    BY <2>2, <2>4, <2>5 DEF Named
  <2>7. f.data >= reported
    BY <1>0, <2>2 DEF Named, Own, RequestInv, KeptInv
  <2>8. BackupLeft'
    BY <2>2, <2>4, <2>5, <2>7 DEF BackupLeft
  <2>9. \A g \in dir' : g # archive => g.mtime < archive.mtime
    BY <1>0, <2>4, <2>5 DEF PastInv
  <2>10. backup' = backup
    BY <2>2
  <2> HIDE DEF archive
  <2> QED
    BY <2>2, <2>3, <2>6, <2>8, <2>9, <2>10 DEF KeptInv
<1>7. CASE Unlink
  <2>1. /\ step = "unlink" /\ step' = "validate"
        /\ dir' = dir \ Named("duckdb", backup.stamp)
        /\ UNCHANGED <<committed, backup, reported>>
    BY <1>7 DEF Unlink, database
  <2>2. IsFiniteSet(dir')
    BY <2>1, FS_Subset DEF KeptInv
  <2>3. BackupLeft'
    <3>1. PICK f \in Named("gz", backup.stamp) : TRUE
      BY <2>1 DEF KeptInv
    <3>2. f \in dir' /\ f.kind = "gz" /\ f.data >= reported
      BY <1>0, <2>1 DEF Named, Own, RequestInv, KeptInv
    <3> QED
      BY <2>1, <3>2 DEF BackupLeft
  <2>4. Named("gz", backup.stamp)' \subseteq Named("gz", backup.stamp) /\ dir' \subseteq dir
    BY <2>1 DEF Named
  <2> QED
    BY <2>1, <2>2, <2>3, <2>4 DEF KeptInv
<1>8. CASE Validate
  <2>1. /\ step = "validate" /\ step' = "prune" /\ Final # {} /\ backup.compress
        /\ UNCHANGED <<committed, dir, backup, reported>>
    BY <1>8 DEF Validate, KeptInv, database
  <2>2. PICK r \in Retentions, keep \in SUBSET Listed :
          /\ Cardinality(keep) = IF Cardinality(Listed) < r THEN Cardinality(Listed) ELSE r
          /\ \A f \in keep, g \in Listed \ keep : f.mtime >= g.mtime
          /\ obsolete' = Listed \ keep
    BY <1>8 DEF Validate
  <2>3. r \in Nat \ {0}
    BY StoreAssumption
  <2>4. ASSUME NEW f \in Final PROVE f \notin obsolete'
    <3>1. f \in Listed /\ f \in Named("gz", backup.stamp)
      BY <2>1 DEF Final, Named
    <3>2. \A g \in Listed : g # f => g.mtime < f.mtime
      BY <2>1, <3>1 DEF KeptInv
    <3>3. f \in keep
      BY <1>0, <2>2, <2>3, <3>1, <3>2, NewestIsKept DEF KeptInv
    <3> QED
      BY <2>2, <3>3
  <2>5. Final' = Final
    BY <2>1 DEF Final, Named
  <2> QED
    BY <2>1, <2>4, <2>5 DEF KeptInv, BackupLeft
<1>9. CASE Prune
  <2>1. PICK f \in obsolete : dir' = dir \ {f} /\ obsolete' = obsolete \ {f}
    BY <1>9 DEF Prune
  <2>2. /\ step = "prune" /\ step' = "prune"
        /\ UNCHANGED <<committed, backup, reported>>
    BY <1>9 DEF Prune, database
  <2>3. Final' = Final
    BY <2>1, <2>2 DEF KeptInv, Final, Named
  <2>4. BackupLeft'
    <3>1. PICK g \in Final : TRUE
      BY <2>2 DEF KeptInv
    <3>2. g \in dir' /\ g.kind = "gz" /\ g.data >= reported
      BY <1>0, <2>2, <2>3, <3>1 DEF Final, Named, Own, RequestInv, KeptInv
    <3> QED
      BY <2>2, <3>2 DEF BackupLeft
  <2>5. IsFiniteSet(dir')
    BY <2>1, FS_Subset DEF KeptInv
  <2> QED
    BY <2>1, <2>2, <2>3, <2>4, <2>5 DEF KeptInv
<1>10. CASE Return
  <2>1. /\ step = "prune" /\ step' = "idle" /\ reported' = backup.asked
        /\ UNCHANGED <<committed, dir>>
    BY <1>10 DEF Return, database
  <2>2. PICK g \in Final : TRUE
    BY <1>10 DEF Return
  <2>3. g \in dir /\ g.kind = "gz" /\ g.data >= backup.asked
    BY <1>0, <2>1, <2>2 DEF Final, Named, Own, RequestInv, KeptInv
  <2>4. BackupLeft'
    BY <2>1, <2>3 DEF BackupLeft
  <2>5. backup.asked <= committed
    BY <1>0, Numbers
  <2> QED
    BY <2>1, <2>4, <2>5 DEF KeptInv
<1>11. CASE ExportBegins \/ ExportReplaces
  <2>1. /\ step' \notin Requested
        /\ UNCHANGED <<committed, reported>>
    BY <1>11 DEF ExportBegins, ExportReplaces, database
  <2>2. \E f \in {File("tmp", 0, Partial, clock), File("export", 0, file, touched)} :
          /\ dir' \subseteq Written(f)
          /\ \A g \in dir : g.kind \in {"duckdb", "gz"} => g \in dir'
    <3>1. CASE ExportBegins
      BY <3>1 DEF ExportBegins, Written, Named, File
    <3>2. CASE ExportReplaces
      BY <3>2 DEF ExportReplaces, Written, Named, File
    <3> QED
      BY <1>11, <3>1, <3>2
  <2>3. IsFiniteSet(dir')
    BY <2>2, WrittenIsFinite, FS_Subset DEF KeptInv
  <2>4. BackupLeft'
    BY <2>1, <2>2 DEF KeptInv, BackupLeft
  <2> QED
    BY <2>1, <2>3, <2>4 DEF KeptInv
<1>12. CASE UNCHANGED backupVars
  BY <1>12 DEF backupVars, database, KeptInv, BackupLeft, Final, Named
<1> QED
  BY <1>1, <1>2, <1>3, <1>4, <1>5, <1>6, <1>7, <1>8, <1>9, <1>10, <1>11, <1>12 DEF BackupNext

(* While backups are archives, the directory holds one at least as new as   *)
(* the last that was reported, whatever was killed or raised since and      *)
(* however little the retention keeps.                                      *)
THEOREM BackupAlwaysLeft == Compressions \subseteq {TRUE} => (BackupSpec => []BackupLeft)
<1> SUFFICES ASSUME Compressions \subseteq {TRUE}
             PROVE  BackupSpec => []BackupLeft
  OBVIOUS
<1>1. BackupInit => KeptInv
  BY FS_EmptySet DEF BackupInit, KeptInv, BackupLeft, Requested
<1>2. BackupInv /\ KeptInv /\ [BackupNext]_backupVars => KeptInv'
  BY KeptStep
<1>3. KeptInv => BackupLeft
  BY DEF KeptInv
<1> QED
  BY <1>1, <1>2, <1>3, BackupInvariant, PTL DEF BackupSpec

(* The export is a whole copy whenever it is there.                         *)
THEOREM ExportAlwaysWhole == BackupSpec => []ExportIsWhole
<1> DEFINE Whole == \A f \in dir : f.kind = "export" => f.data # Partial
<1>1. BackupInit => Whole
  BY DEF BackupInit
<1>2. BackupInv /\ Whole /\ [BackupNext]_backupVars => Whole'
  <2> SUFFICES ASSUME BackupInv, Whole, [BackupNext]_backupVars
               PROVE  Whole'
    OBVIOUS
  <2>1. CASE StartServer \/ StartOnce \/ Commit \/ AutoCheckpoint \/ Exit \/ Kill \/ Validate
             \/ Return \/ Raise \/ \E compress \in Compressions : Checkpoint(compress)
    BY <2>1 DEF StartServer, StartOnce, Commit, AutoCheckpoint, Exit, Kill, Leave, Validate,
       Return, Raise, Checkpoint
  <2>2. CASE CopyBegins \/ CopyEnds \/ GzipBegins \/ GzipEnds
    BY <2>2 DEF CopyBegins, CopyEnds, GzipBegins, GzipEnds, Write, Written, File
  <2>3. CASE Unlink \/ Prune
    BY <2>3 DEF Unlink, Prune
  <2>4. CASE ExportBegins
    BY <2>4 DEF ExportBegins, Written, File
  <2>5. CASE ExportReplaces
    <3>1. file # Partial
      BY Numbers DEF BackupInv, Partial
    <3> QED
      BY <2>5, <3>1 DEF ExportReplaces, Written, File
  <2>6. CASE UNCHANGED backupVars
    BY <2>6 DEF backupVars
  <2> QED
    BY <2>1, <2>2, <2>3, <2>4, <2>5, <2>6 DEF BackupNext
<1>3. Whole => ExportIsWhole
  BY DEF ExportIsWhole, Named
<1> QED
  BY <1>1, <1>2, <1>3, BackupInvariant, PTL DEF BackupSpec
=============================================================================
