----------------------------- MODULE SyncStatus -----------------------------
(***************************************************************************)
(* The sync status tracker, backend/services/sync_status.py.  One frozen   *)
(* snapshot is replaced under a lock by four operations; each is an        *)
(* operator from the old snapshot to the new one.  Timestamps, row counts  *)
(* and wording are left out; last_error is set exactly in state "error".   *)
(***************************************************************************)
EXTENDS Integers

States == {"idle", "running", "error"}

Phases == {"waiting", "downloading", "calculating", "metadata", "writing",
           "indexing", "complete", "failed"}

\* sources: the names a status may carry.
StatusType(sources) ==
  [state : States, source : sources, phase : Phases,
   target : Nat, completed : Nat]

InitialStatus ==
  [state |-> "idle", source |-> "system", phase |-> "waiting",
   target |-> 0, completed |-> 0]

\* Mutation: the counters of the previous run are not reset.
BeginKeepingCounters(s, source, target) ==
  [s EXCEPT !.state = "running", !.source = source,
            !.phase = "downloading", !.target = target]

\* A new snapshot: nothing but last_success_at is carried over from the old.
Begin(s, source, target) ==
  [InitialStatus EXCEPT !.state = "running",
                        !.source = source,
                        !.phase = "downloading",
                        !.target = target]

\* update() without the optional counters leaves them as they were.
Update(s, phase) == [s EXCEPT !.phase = phase]

UpdateProgress(s, phase, completed) ==
  [s EXCEPT !.phase = phase, !.completed = completed]

Succeed(s) ==
  [s EXCEPT !.state = "idle",
            !.phase = "complete",
            !.completed = s.target]

Fail(s) ==
  [s EXCEPT !.state = "error", !.phase = "failed"]

=============================================================================
