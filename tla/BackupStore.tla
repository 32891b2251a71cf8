----------------------------- MODULE BackupStore -----------------------------
(***************************************************************************)
(* Backups and the latest export: create_backup                            *)
(* (backend/services/backup_service.py), which the server runs at an       *)
(* administrator's request, and sync_once.py, which syncs, publishes one   *)
(* export and exits.  Both write into BACKUP_DIR.                          *)
(*                                                                         *)
(* DuckDB holds one process at a time.  A commit is durable in its log;    *)
(* the database file, which is what gets copied, follows at a checkpoint.  *)
(* The content of a file is the number of commits it holds.                *)
(***************************************************************************)
EXTENDS Integers, FiniteSets

CONSTANTS
  Retentions,   \* the retention_count of requests
  Compressions, \* the compress of requests
  MaxCommits,   \* bound: commits of a behaviour
  MaxClock      \* bound: file writes and backup requests of a behaviour

ASSUME StoreAssumption ==
  /\ Retentions \subseteq Nat \ {0} /\ Compressions \subseteq BOOLEAN
  /\ MaxCommits \in Nat /\ MaxClock \in Nat

VARIABLES
  process,    \* who has the database open: "none", "server", "once"
  step,       \* where that process is
  committed,  \* commits in file and log together
  file,       \* commits in the database file
  touched,    \* its modification time
  dir,        \* BACKUP_DIR: a set of files
  clock,      \* wall clock; it advances with every write
  backup,     \* the create_backup under way: its stamp, compress and what was
              \* committed when it was requested
  obsolete,   \* the files it has still to remove
  reported    \* history: what was committed when the last backup that
              \* returned was requested; -1: none has

database == <<committed, file, touched>>
backupVars == <<process, step, database, dir, clock, backup, obsolete, reported>>

Partial == -1

NoBackup == [stamp |-> 0, compress |-> FALSE, asked |-> 0]

Kinds == {"duckdb", "gz", "export", "tmp"}

File(kind, stamp, data, mtime) ==
  [kind |-> kind, stamp |-> stamp, data |-> data, mtime |-> mtime]

\* The file of that name, and the directory with that name written anew.
Named(kind, stamp) == {f \in dir : f.kind = kind /\ f.stamp = stamp}

Written(f) == (dir \ Named(f.kind, f.stamp)) \cup {f}

\* What list_backups and the retention see: all that ends in .duckdb or
\* .duckdb.gz, the export included.
Listed == {f \in dir : f.kind # "tmp"}

Final == Named(IF backup.compress THEN "gz" ELSE "duckdb", backup.stamp)

BackupInit ==
  /\ process = "none" /\ step = "idle"
  /\ committed = 0 /\ file = 0 /\ touched = 0
  /\ dir = {} /\ clock = 1
  /\ backup = NoBackup /\ obsolete = {} /\ reported = -1

-----------------------------------------------------------------------------
(* Processes and the database                                              *)

StartServer ==
  /\ process = "none" /\ process' = "server" /\ step' = "idle"
  /\ UNCHANGED <<database, dir, clock, backup, obsolete, reported>>

StartOnce ==
  /\ process = "none" /\ process' = "once" /\ step' = "sync"
  /\ UNCHANGED <<database, dir, clock, backup, obsolete, reported>>

\* A sync commits while the server serves, or in sync_once's only call.
Commit ==
  /\ process = "server" \/ step = "sync"
  /\ committed < MaxCommits /\ committed' = committed + 1
  /\ UNCHANGED <<process, step, file, touched, dir, clock, backup, obsolete, reported>>

Flush ==
  /\ file' = committed
  /\ touched' = IF file = committed THEN touched ELSE clock

\* DuckDB checkpoints by itself when its log has grown; not while the file
\* is being copied, which is an assumption.
AutoCheckpoint ==
  /\ process # "none" /\ file < committed /\ step \notin {"copying", "exporting"}
  /\ clock < MaxClock /\ clock' = clock + 1
  /\ Flush
  /\ UNCHANGED <<process, step, committed, dir, backup, obsolete, reported>>

\* A clean exit checkpoints, a kill does not; either ends the request.
Leave(checkpoint) ==
  /\ process # "none" /\ process' = "none" /\ step' = "idle"
  /\ IF checkpoint THEN Flush ELSE UNCHANGED <<file, touched>>
  /\ backup' = NoBackup /\ obsolete' = {}
  /\ UNCHANGED <<committed, dir, clock, reported>>

Exit == Leave(TRUE)
Kill == Leave(FALSE)

-----------------------------------------------------------------------------
(* create_backup                                                           *)

\* A step that writes the file f.
Write(from, to, f) ==
  /\ process = "server" /\ step = from /\ step' = to
  /\ clock < MaxClock /\ clock' = clock + 1
  /\ dir' = Written(f)
  /\ UNCHANGED <<process, database, backup, obsolete, reported>>

\* Mutation: the file is copied as it is.
CheckpointOmitted(compress) ==
  /\ process = "server" /\ step = "idle" /\ step' = "copy"
  /\ clock < MaxClock /\ clock' = clock + 1
  /\ backup' = [stamp |-> clock, compress |-> compress, asked |-> committed]
  /\ UNCHANGED <<process, database, dir, obsolete, reported>>

\* Mutation: the retention makes room before the new backup is there.
CheckpointMakingRoom(compress) ==
  /\ process = "server" /\ step = "idle" /\ step' = "copy"
  /\ clock < MaxClock /\ clock' = clock + 1
  /\ backup' = [stamp |-> clock, compress |-> compress, asked |-> committed]
  /\ Flush
  /\ \E r \in Retentions, keep \in SUBSET Listed :
       /\ Cardinality(keep) < r
       /\ \A f \in keep, g \in Listed \ keep : f.mtime >= g.mtime
       /\ dir' = keep \cup (dir \ Listed)
  /\ UNCHANGED <<process, committed, obsolete, reported>>

Checkpoint(compress) ==
  /\ process = "server" /\ step = "idle" /\ step' = "copy"
  /\ clock < MaxClock /\ clock' = clock + 1
  /\ backup' = [stamp |-> clock, compress |-> compress, asked |-> committed]
  /\ Flush
  /\ UNCHANGED <<process, committed, dir, obsolete, reported>>

CopyBegins ==
  Write("copy", "copying", File("duckdb", backup.stamp, Partial, clock))

\* copy2 gives the copy the times of the original.
CopyEnds ==
  Write("copying", IF backup.compress THEN "gzip" ELSE "validate",
        File("duckdb", backup.stamp, file, touched))

GzipBegins == Write("gzip", "gzipping", File("gz", backup.stamp, Partial, clock))

GzipEnds ==
  \E f \in Named("duckdb", backup.stamp) :
    Write("gzipping", "unlink", File("gz", backup.stamp, f.data, clock))

Unlink ==
  /\ process = "server" /\ step = "unlink" /\ step' = "validate"
  /\ dir' = dir \ Named("duckdb", backup.stamp)
  /\ UNCHANGED <<process, database, clock, backup, obsolete, reported>>

\* _validate_backup opens the file; the retention then keeps the newest.
Validate ==
  /\ process = "server" /\ step = "validate" /\ step' = "prune"
  /\ \E f \in Final : f.data # Partial
  /\ \E r \in Retentions, keep \in SUBSET Listed :
       /\ Cardinality(keep) = IF Cardinality(Listed) < r THEN Cardinality(Listed) ELSE r
       /\ \A f \in keep, g \in Listed \ keep : f.mtime >= g.mtime
       /\ obsolete' = Listed \ keep
  /\ UNCHANGED <<process, database, dir, clock, backup, reported>>

Prune ==
  /\ process = "server" /\ step = "prune"
  /\ \E f \in obsolete :
       /\ \A g \in obsolete : g.mtime <= f.mtime
       /\ dir' = dir \ {f}
       /\ obsolete' = obsolete \ {f}
  /\ UNCHANGED <<process, step, database, clock, backup, reported>>

\* The manifest of the new backup needs the file to be there.
Return ==
  /\ process = "server" /\ step = "prune" /\ obsolete = {}
  /\ Final # {}
  /\ step' = "idle" /\ backup' = NoBackup
  /\ reported' = backup.asked
  /\ UNCHANGED <<process, database, dir, clock, obsolete>>

\* A call of any step raises: the request fails, the files stay.
Raise ==
  /\ process = "server" /\ step # "idle" /\ step' = "idle"
  /\ backup' = NoBackup /\ obsolete' = {}
  /\ UNCHANGED <<process, database, dir, clock, reported>>

-----------------------------------------------------------------------------
(* sync_once                                                               *)

\* Mutation: the copy is made under the export's own name.
ExportBeginsInPlace ==
  /\ process = "once" /\ step = "sync" /\ step' = "exporting"
  /\ clock < MaxClock /\ clock' = clock + 1
  /\ dir' = Written(File("export", 0, Partial, clock))
  /\ UNCHANGED <<process, database, backup, obsolete, reported>>

ExportBegins ==
  /\ process = "once" /\ step = "sync" /\ step' = "exporting"
  /\ clock < MaxClock /\ clock' = clock + 1
  /\ dir' = Written(File("tmp", 0, Partial, clock))
  /\ UNCHANGED <<process, database, backup, obsolete, reported>>

\* The copy is complete and takes the export's name in one step.
ExportReplaces ==
  /\ process = "once" /\ step = "exporting" /\ step' = "published"
  /\ dir' = Written(File("export", 0, file, touched)) \ Named("tmp", 0)
  /\ UNCHANGED <<process, database, clock, backup, obsolete, reported>>

BackupNext ==
  \/ StartServer \/ StartOnce \/ Commit \/ AutoCheckpoint \/ Exit \/ Kill
  \/ \E compress \in Compressions : Checkpoint(compress)
  \/ CopyBegins \/ CopyEnds \/ GzipBegins \/ GzipEnds \/ Unlink
  \/ Validate \/ Prune \/ Return \/ Raise
  \/ ExportBegins \/ ExportReplaces

BackupSpec == BackupInit /\ [][BackupNext]_backupVars

-----------------------------------------------------------------------------
(* Properties                                                              *)

Steps == {"idle", "copy", "copying", "gzip", "gzipping", "unlink", "validate",
          "prune", "sync", "exporting", "published"}

FileType == [kind : Kinds, stamp : 0..clock, data : 0..committed \cup {Partial},
             mtime : 0..clock]

BackupTypeOK ==
  /\ process \in {"none", "server", "once"} /\ step \in Steps
  /\ committed \in Nat /\ file \in 0..committed /\ touched \in 0..clock
  /\ clock \in Nat \ {0}
  /\ dir \subseteq FileType
  /\ backup \in [stamp : 0..clock, compress : BOOLEAN, asked : 0..committed]
  /\ obsolete \subseteq dir
  /\ reported \in 0..committed \cup {-1}

\* A backup that has passed validation holds everything that was committed
\* when it was requested, whatever was still in the log then.
BackupHoldsCommits ==
  step = "prune" => \A f \in Final : f.data >= backup.asked

\* Whatever is killed or raises afterwards, and however many partial files it
\* leaves: once a backup has been reported, the directory holds a complete
\* one at least as new.
BackupLeft ==
  reported >= 0 => \E f \in dir : f.kind \in {"duckdb", "gz"} /\ f.data >= reported

\* Where there is an export it is a whole copy, whenever a process is killed.
ExportIsWhole ==
  \A f \in Named("export", 0) : f.data # Partial

-----------------------------------------------------------------------------
(* Why they hold                                                           *)

Requested == {"copy", "copying", "gzip", "gzipping", "unlink", "validate", "prune"}

\* The files a request has written.
Own == {f \in dir : f.stamp = backup.stamp}

\* Names and times are of the past, so that no request finds a file of its
\* own, and none is as new as what is written next.
PastInv ==
  /\ \A f \in dir : f.stamp < clock /\ f.mtime < clock
  /\ step = "exporting" => touched < clock

\* A process that has nothing open does nothing.
StepInv ==
  /\ process = "none" => step = "idle"
  /\ obsolete # {} => step = "prune"

\* After the checkpoint the file holds what was committed, and so does every
\* copy of it that is complete.
RequestInv ==
  step \in Requested =>
    /\ backup.stamp > 0 /\ backup.asked <= file
    /\ step = "copy" => Own = {}
    /\ step \in {"copying", "gzip"} => \A f \in Own : f.kind = "duckdb"
    /\ \A f \in Own :
         \/ f.data >= backup.asked
         \/ step = "copying"
         \/ step = "gzipping" /\ f.kind = "gz"

BackupInv == BackupTypeOK /\ PastInv /\ StepInv /\ RequestInv

\* The archive is the newest file there is when the retention looks, so that
\* what is reported is kept or gives way to what will be.
KeptInv ==
  /\ IsFiniteSet(dir)
  /\ reported <= committed
  /\ step \in Requested => backup.compress /\ reported <= backup.asked
  /\ step \in {"unlink", "validate"} =>
       \A f \in Named("gz", backup.stamp), g \in Listed : g # f => g.mtime < f.mtime
  /\ step = "unlink" => Named("gz", backup.stamp) # {}
  /\ step = "prune" => Final # {} /\ Final \cap obsolete = {}
  /\ BackupLeft
=============================================================================
