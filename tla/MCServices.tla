------------------------------ MODULE MCServices ------------------------------
(***************************************************************************)
(* Small instances of the services that share no state, for TLC: the       *)
(* scheduler, the response cache, the backup directory, the indicator      *)
(* windows, the live prices and the request limiter.  As none reads what   *)
(* another writes, a behaviour moves the one in focus and leaves the       *)
(* others where they start.                                                *)
(***************************************************************************)
EXTENDS SyncScheduler, ResponseCache, BackupStore, MCIndicatorWindow, QuoteCache,
        RequestLimiter, TLC

VARIABLE focus

services == <<vars, cacheVars, backupVars, indicatorVars, quoteVars, limiterVars>>

\* Friday, a weekend and Monday.
MCWeekdays == {0, 3}

\* One bucket: a strategy is sent.
MCAsked == {[area |-> "strategies", post |-> TRUE]}

MCLimit == [b \in Buckets |-> 2]

\* Two weeks hold the window, and so do three.
ASSUME MCWindowsCovered == WarmupCovers /\ FullCovers

MCInit ==
  /\ focus \in {"scheduler", "response cache", "backups", "indicators", "quotes",
                "limits"}
  /\ Init /\ CacheInit /\ BackupInit /\ IndicatorInit /\ QuoteInit /\ LimiterInit

MCNext ==
  /\ UNCHANGED focus
  /\ \/ /\ focus = "scheduler" /\ Next
        /\ UNCHANGED <<cacheVars, backupVars, indicatorVars, quoteVars, limiterVars>>
     \/ /\ focus = "response cache" /\ CacheNext
        /\ UNCHANGED <<vars, backupVars, indicatorVars, quoteVars, limiterVars>>
     \/ /\ focus = "backups" /\ BackupNext
        /\ UNCHANGED <<vars, cacheVars, indicatorVars, quoteVars, limiterVars>>
     \/ /\ focus = "indicators" /\ IndicatorNext
        /\ UNCHANGED <<vars, cacheVars, backupVars, quoteVars, limiterVars>>
     \/ /\ focus = "quotes" /\ QuoteNext
        /\ UNCHANGED <<vars, cacheVars, backupVars, indicatorVars, limiterVars>>
     \/ /\ focus = "limits" /\ LimiterNext
        /\ UNCHANGED <<vars, cacheVars, backupVars, indicatorVars, quoteVars>>

MCSpec == MCInit /\ [][MCNext]_<<focus, services>>
=============================================================================
