---------------------------- MODULE SyncPipeline ----------------------------
(***************************************************************************)
(* sync_market_data (backend/services/data_sync_service.py) over the       *)
(* tables it keeps in DuckDB, with the provider it downloads from, the     *)
(* status tracker it reports to, and a process that may die at any step.   *)
(*                                                                         *)
(* A calendar day is a number; a table holds at most one mark per ticker   *)
(* and day:  "bar"   a row with prices,                                    *)
(*           "pad"   a row whose prices are NaN,                           *)
(*           "dup"   two rows for the same ticker and day,                 *)
(*           "none"  no row.                                               *)
(***************************************************************************)
EXTENDS Integers, FiniteSets, SyncStatus

CONSTANTS
  Tickers,      \* the default universe
  Callers,      \* who calls sync_market_data, named by the source they pass
  MaxDay,       \* bound: the last calendar day of a behaviour
  TradingDays,  \* the days the exchange is open
  FreshDays,    \* _FRESH_THRESHOLD_DAYS
  BufferDays,   \* _INCREMENTAL_DOWNLOAD_BUFFER_DAYS
  WarmupDays,   \* _INDICATOR_WARMUP_DAYS
  FullDays,     \* the window of a full download (365 * years)
  Outcomes      \* what a download may hold for one ticker

Day == 0..MaxDay

IncrementalSources == {"scheduled", "startup"}

ASSUME CallersAssumption ==
  Callers \subseteq IncrementalSources \cup {"manual", "repair"}

ASSUME OutcomesAssumption == Outcomes \subseteq {"bar", "pad", "absent"}

ASSUME TickersAssumption == IsFiniteSet(Tickers)

ASSUME DaysAssumption ==
  /\ MaxDay \in Nat
  /\ TradingDays \subseteq Day
  /\ FreshDays \in Nat /\ BufferDays \in Nat
  /\ WarmupDays \in Nat /\ FullDays \in Nat

VARIABLES
  today,        \* the wall-clock date
  published,    \* the last day the provider serves rows for
  up,           \* is the process running
  ohlcv,        \* table ohlcv_daily, per ticker
  data,         \* table ticker_data, per ticker
  cache,        \* table latest_ticker_cache: the row served per ticker
  described,    \* tickers with a row in stock_information
  indexed,      \* do the secondary indexes exist
  syncLock,     \* _SYNC_WRITE_LOCK
  pc,           \* where each caller is in sync_market_data
  job,          \* each caller's local variables
  tx,           \* the open transaction of _write_ticker_slice
  status,       \* sync_status_tracker
  faulted       \* history: has a sync raised since the process started

clock == <<today, published>>
tables == <<ohlcv, data>>
serving == <<cache, described, indexed>>
control == <<up, syncLock, pc, job>>
vars == <<clock, tables, serving, control, tx, status, faulted>>

NoOne == "nobody"
NoTx == [stage |-> "none"]

-----------------------------------------------------------------------------
(* Rows of one ticker                                                      *)

Mark == {"none", "pad", "bar", "dup"}
History == [Day -> Mark]
NoRows == [d \in Day |-> "none"]
NoRow == <<>>
ServedRow == {NoRow} \cup (Day \X Mark)

Stored(h) == {d \in Day : h[d] # "none"}

Earliest(S) == CHOOSE d \in S : \A e \in S : d <= e
LastDay(h) == CHOOSE d \in Stored(h) : \A e \in Stored(h) : e <= d

\* MAX(Date) of one ticker, as the serving query picks it (rn = 1).
LatestRow(h) ==
  IF Stored(h) = {} THEN NoRow ELSE <<LastDay(h), h[LastDay(h)]>>

DeleteFrom(h, cutoff) == [d \in Day |-> IF d < cutoff THEN h[d] ELSE "none"]

\* Neither table has a unique key: a second row for a day is a duplicate.
Insert(h, rows) ==
  [d \in Day |-> CASE rows[d] = "none" -> h[d]
                   [] rows[d] # "none" /\ h[d] = "none" -> rows[d]
                   [] OTHER -> "dup"]

From(h, first) == [d \in Day |-> IF d >= first THEN h[d] ELSE "none"]

-----------------------------------------------------------------------------
(* The local variables of a sync, and what is derived from them            *)

NoJob ==
  [universe |-> {}, spliced |-> FALSE, start |-> 0, dates |-> {},
   frame |-> [t \in Tickers |-> "absent"],
   indicators |-> [t \in Tickers |-> NoRows], todo |-> {}, info |-> {}]

\* The downloaded rows of one ticker.  The provider's wide frame has one
\* index for all tickers, so a ticker it could not serve has a NaN row on
\* every date of the frame.
Raw(j, t) ==
  [d \in Day |-> IF j.frame[t] # "absent" /\ d \in j.dates
                 THEN j.frame[t] ELSE "none"]

\* _load_warmup_ohlcv
Warmup(j, t) ==
  [d \in Day |-> IF j.start - WarmupDays <= d /\ d < j.start
                 THEN ohlcv[t][d] ELSE "none"]

\* Mutation: the warmup rows are not filtered out again.
IndicatorsWithWarmup(j, t) ==
  IF j.spliced THEN Insert(Warmup(j, t), Raw(j, t)) ELSE Raw(j, t)

\* The days _compute_indicator_frame has rows for once the warmup rows are
\* filtered out again.
Indicators(j, t) ==
  IF j.spliced /\ \E u \in j.universe : Warmup(j, u) # NoRows
  THEN From(Insert(Warmup(j, t), Raw(j, t)), j.start)
  ELSE Raw(j, t)

IsIncremental(c) == c \in IncrementalSources

IsStale(t) ==
  Stored(data[t]) = {} \/ LastDay(data[t]) < today - FreshDays

Stale == {t \in Tickers : IsStale(t)}

\* The universe a caller may ask for: the timers pass None, the HTTP routes
\* a list; an empty repair list means the default universe.
Requests(c) ==
  CASE IsIncremental(c) -> {Tickers}
    [] c = "manual" -> SUBSET Tickers
    [] OTHER -> SUBSET Tickers \ {{}}

-----------------------------------------------------------------------------
Init ==
  /\ today = 0 /\ published \in {-1, 0}
  /\ up = TRUE
  /\ ohlcv = [t \in Tickers |-> NoRows]
  /\ data = [t \in Tickers |-> NoRows]
  /\ cache = [t \in Tickers |-> NoRow]
  /\ described = {}
  /\ indexed = TRUE
  /\ syncLock = NoOne
  /\ pc = [c \in Callers |-> "idle"]
  /\ job = [c \in Callers |-> NoJob]
  /\ tx = NoTx
  /\ status = InitialStatus
  /\ faulted = FALSE

At(c, label) == up /\ pc[c] = label

Goto(c, label) == pc' = [pc EXCEPT ![c] = label]

\* Leaving the "with _SYNC_WRITE_LOCK" block, by return or by raise.
Release(c) ==
  /\ Goto(c, "idle")
  /\ job' = [job EXCEPT ![c] = NoJob]
  /\ syncLock' = NoOne
  /\ UNCHANGED up

\* tracker.fail(...) and raise
GiveUp(c) ==
  /\ status' = Fail(status)
  /\ faulted' = TRUE
  /\ Release(c)

-----------------------------------------------------------------------------
(* Planning: which tickers, from which day                                 *)

\* Incremental source and nothing stale: begin(target 0), succeed, return.
SkipFresh(c) ==
  /\ At(c, "idle") /\ syncLock = NoOne
  /\ IsIncremental(c) /\ Tickers # {} /\ Stale = {}
  /\ status' = Succeed(Begin(status, c, 0))
  /\ UNCHANGED <<clock, tables, serving, control, tx, faulted>>

\* Mutation: max() for min() over the stale dates.
PlanFromNewest(c, universe) ==
  LET days == {LastDay(data[t]) : t \in {u \in universe : Stored(data[u]) # {}}}
      spliced == IsIncremental(c) /\ days # {}
  IN [NoJob EXCEPT
        !.universe = universe,
        !.spliced = spliced,
        !.start = IF spliced
                  THEN (CHOOSE d \in days : \A e \in days : e <= d) - BufferDays
                  ELSE today - FullDays]

Plan(c, universe) ==
  LET known == {t \in universe : Stored(data[t]) # {}}
      spliced == IsIncremental(c) /\ known # {}
  IN [NoJob EXCEPT
        !.universe = universe,
        !.spliced = spliced,
        !.start = IF spliced
                  THEN Earliest({LastDay(data[t]) : t \in known}) - BufferDays
                  ELSE today - FullDays]

\* Mutation: without _SYNC_WRITE_LOCK.
StartUnlocked(c) ==
  /\ At(c, "idle")
  /\ \E asked \in Requests(c) :
       LET universe == IF IsIncremental(c) THEN Stale ELSE asked
       IN /\ IsIncremental(c) => universe # {}
          /\ job' = [job EXCEPT ![c] = Plan(c, universe)]
          /\ status' = Begin(status, c, Cardinality(universe))
  /\ syncLock' = c
  /\ Goto(c, "downloading")
  /\ UNCHANGED <<clock, tables, serving, up, tx, faulted>>

Start(c) ==
  /\ At(c, "idle") /\ syncLock = NoOne
  /\ \E asked \in Requests(c) :
       LET universe == IF IsIncremental(c) THEN Stale ELSE asked
       IN /\ IsIncremental(c) => universe # {}
          /\ job' = [job EXCEPT ![c] = Plan(c, universe)]
          /\ status' = Begin(status, c, Cardinality(universe))
  /\ syncLock' = c
  /\ Goto(c, "downloading")
  /\ UNCHANGED <<clock, tables, serving, up, tx, faulted>>

-----------------------------------------------------------------------------
(* Download, indicators, metadata                                          *)

Download(c) ==
  /\ At(c, "downloading")
  /\ LET j == job[c]
         dates == {d \in TradingDays : j.start <= d /\ d <= published}
     IN /\ dates # {}
        /\ \E out \in [j.universe -> Outcomes] :
             /\ \E t \in j.universe : out[t] = "bar"
             /\ job' = [job EXCEPT ![c] =
                  [j EXCEPT !.dates = dates,
                            !.frame = [t \in Tickers |->
                              IF t \in j.universe THEN out[t] ELSE "absent"]]]
  /\ status' = Update(status, "calculating")
  /\ Goto(c, "calculating")
  /\ UNCHANGED <<clock, tables, serving, up, syncLock, tx, faulted>>

\* raw.empty: a success with no rows.
DownloadEmpty(c) ==
  /\ At(c, "downloading")
  /\ status' = Succeed(status)
  /\ Release(c)
  /\ UNCHANGED <<clock, tables, serving, tx, faulted>>

DownloadFails(c) ==
  /\ At(c, "downloading")
  /\ GiveUp(c)
  /\ UNCHANGED <<clock, tables, serving, tx>>

\* Reads the warmup rows through a cursor of its own, without _CONN_LOCK.
Calculate(c) ==
  /\ At(c, "calculating")
  /\ job' = [job EXCEPT ![c].indicators =
                 [t \in Tickers |-> Indicators(job[c], t)]]
  /\ status' = Update(status, "metadata")
  /\ Goto(c, "metadata")
  /\ UNCHANGED <<clock, tables, serving, up, syncLock, tx, faulted>>

CalculateFails(c) ==
  /\ At(c, "calculating")
  /\ GiveUp(c)
  /\ UNCHANGED <<clock, tables, serving, tx>>

\* _metadata_tickers_for_sync and _fetch_company_metadata
FetchMetadata(c) ==
  /\ At(c, "metadata")
  /\ job' = [job EXCEPT ![c] =
        [@ EXCEPT !.info = IF IsIncremental(c) THEN job[c].universe \ described
                                               ELSE job[c].universe,
                  !.todo = job[c].universe]]
  /\ Goto(c, "writing")
  /\ UNCHANGED <<clock, tables, serving, up, syncLock, tx, status, faulted>>

\* These two calls stand outside every try: the exception leaves the lock
\* but never reaches the tracker.
MetadataRaises(c) ==
  /\ At(c, "metadata")
  /\ Release(c)
  /\ faulted' = TRUE
  /\ UNCHANGED <<clock, tables, serving, tx, status>>

-----------------------------------------------------------------------------
(* The write loop: one transaction per ticker                              *)

Cutoff(j) == Earliest(j.dates)

OpenSlice(j, t, retried) ==
  [stage |-> "ohlcv", ticker |-> t, retried |-> retried,
   ohlcv |-> Insert(DeleteFrom(ohlcv[t], Cutoff(j)), Raw(j, t)),
   data |-> data[t]]

Done(j) == Cardinality(j.universe \ j.todo)

\* Mutation: no BEGIN TRANSACTION, the first two statements autocommit.
WriteOhlcvAutocommitted(c) ==
  /\ At(c, "writing") /\ tx = NoTx
  /\ \E t \in job[c].todo :
       /\ job[c].frame[t] # "absent"
       /\ tx' = OpenSlice(job[c], t, FALSE)
       /\ ohlcv' = [ohlcv EXCEPT ![t] = tx'.ohlcv]
  /\ status' = UpdateProgress(status, "writing", Done(job[c]))
  /\ UNCHANGED <<clock, data, serving, control, faulted>>

\* Tickers are taken in the universe's order; no property tells orders apart.
WriteOhlcv(c) ==
  /\ At(c, "writing") /\ tx = NoTx
  /\ \E t \in job[c].todo :
       /\ job[c].frame[t] # "absent"
       /\ tx' = OpenSlice(job[c], t, FALSE)
  /\ status' = UpdateProgress(status, "writing", Done(job[c]))
  /\ UNCHANGED <<clock, tables, serving, control, faulted>>

\* Not in the frame: continue.
SkipAbsent(c) ==
  /\ At(c, "writing") /\ tx = NoTx
  /\ \E t \in job[c].todo :
       /\ job[c].frame[t] = "absent"
       /\ job' = [job EXCEPT ![c].todo = @ \ {t}]
  /\ UNCHANGED <<clock, tables, serving, up, syncLock, pc, tx, status, faulted>>

WriteData(c) ==
  /\ At(c, "writing") /\ tx.stage = "ohlcv"
  /\ tx' = [tx EXCEPT
        !.stage = "data",
        !.data = Insert(DeleteFrom(data[tx.ticker], Cutoff(job[c])),
                        job[c].indicators[tx.ticker])]
  /\ UNCHANGED <<clock, tables, serving, control, status, faulted>>

CommitSlice(c) ==
  /\ At(c, "writing") /\ tx.stage = "data"
  /\ ohlcv' = [ohlcv EXCEPT ![tx.ticker] = tx.ohlcv]
  /\ data' = [data EXCEPT ![tx.ticker] = tx.data]
  /\ job' = [job EXCEPT ![c].todo = @ \ {tx.ticker}]
  /\ tx' = NoTx
  /\ UNCHANGED <<clock, serving, up, syncLock, pc, status, faulted>>

\* Mutation: the retry may be retried.
RetryForever(c) ==
  /\ At(c, "writing") /\ tx # NoTx
  /\ tx' = OpenSlice(job[c], tx.ticker, FALSE)
  /\ indexed' = FALSE
  /\ UNCHANGED <<clock, tables, cache, described, control, status, faulted>>

\* "Failed to delete all rows from index": roll back, drop the secondary
\* indexes and run the same slice again, once.
RetryWithoutIndexes(c) ==
  /\ At(c, "writing") /\ tx # NoTx
  /\ ~tx.retried
  /\ tx' = OpenSlice(job[c], tx.ticker, TRUE)
  /\ indexed' = FALSE
  /\ UNCHANGED <<clock, tables, cache, described, control, status, faulted>>

SliceFails(c) ==
  /\ At(c, "writing") /\ tx # NoTx
  /\ tx' = NoTx
  /\ GiveUp(c)
  /\ UNCHANGED <<clock, tables, serving>>

-----------------------------------------------------------------------------
(* After the loop: metadata, indexes, serving table                        *)

\* With no metadata to write the step and its status update are skipped.
WriteMetadata(c) ==
  /\ At(c, "writing") /\ tx = NoTx /\ job[c].todo = {}
  /\ described' = described \cup job[c].info
  /\ status' = IF job[c].info = {} THEN status
               ELSE UpdateProgress(status, "metadata",
                                   Cardinality(job[c].universe))
  /\ Goto(c, "indexing")
  /\ UNCHANGED <<clock, tables, cache, indexed, up, syncLock, job, tx, faulted>>

\* Mutation: the refresh belongs to the metadata branch.
CreateIndexesThenMaybeRefresh(c) ==
  /\ At(c, "indexing")
  /\ status' = UpdateProgress(status, "indexing", Cardinality(job[c].universe))
  /\ indexed' = TRUE
  /\ Goto(c, IF job[c].info = {} THEN "finishing" ELSE "refreshing")
  /\ UNCHANGED <<clock, tables, cache, described, up, syncLock, job, tx, faulted>>

CreateIndexes(c) ==
  /\ At(c, "indexing")
  /\ status' = UpdateProgress(status, "indexing", Cardinality(job[c].universe))
  /\ indexed' = TRUE
  /\ Goto(c, "refreshing")
  /\ UNCHANGED <<clock, tables, cache, described, up, syncLock, job, tx, faulted>>

\* refresh_latest_ticker_cache: an autocommitted DELETE, then an INSERT.
RefreshDelete(c) ==
  /\ At(c, "refreshing")
  /\ cache' = [t \in Tickers |->
                 IF t \in job[c].universe THEN NoRow ELSE cache[t]]
  /\ Goto(c, "inserting")
  /\ UNCHANGED <<clock, tables, described, indexed, up, syncLock, job, tx,
                 status, faulted>>

\* Mutation: only the tickers with fresh metadata are served again.
RefreshInsertDescribed(c) ==
  /\ At(c, "inserting")
  /\ cache' = [t \in Tickers |->
                 IF t \in job[c].info THEN LatestRow(data[t]) ELSE cache[t]]
  /\ Goto(c, "finishing")
  /\ UNCHANGED <<clock, tables, described, indexed, up, syncLock, job, tx,
                 status, faulted>>

RefreshInsert(c) ==
  /\ At(c, "inserting")
  /\ cache' = [t \in Tickers |->
                 IF t \in job[c].universe THEN LatestRow(data[t]) ELSE cache[t]]
  /\ Goto(c, "finishing")
  /\ UNCHANGED <<clock, tables, described, indexed, up, syncLock, job, tx,
                 status, faulted>>

\* A database error between two slices, or in any step after them.
WriteFails(c) ==
  /\ \/ At(c, "writing") /\ tx = NoTx
     \/ At(c, "indexing")
     \/ At(c, "refreshing")
     \/ At(c, "inserting")
  /\ GiveUp(c)
  /\ UNCHANGED <<clock, tables, serving, tx>>

Finish(c) ==
  /\ At(c, "finishing")
  /\ status' = Succeed(status)
  /\ Release(c)
  /\ UNCHANGED <<clock, tables, serving, tx, faulted>>

-----------------------------------------------------------------------------
(* The process and the world                                               *)

\* The tables survive; locks, threads, the tracker and an uncommitted
\* transaction do not.
Crash ==
  /\ up
  /\ up' = FALSE
  /\ syncLock' = NoOne
  /\ pc' = [c \in Callers |-> "idle"]
  /\ job' = [c \in Callers |-> NoJob]
  /\ tx' = NoTx
  /\ status' = InitialStatus
  /\ UNCHANGED <<clock, tables, serving, faulted>>

\* ensure_schema before the first request: create the indexes, refresh the
\* whole serving table.
Boot ==
  /\ ~up
  /\ up' = TRUE
  /\ cache' = [t \in Tickers |-> LatestRow(data[t])]
  /\ indexed' = TRUE
  /\ faulted' = FALSE
  /\ UNCHANGED <<clock, tables, described, syncLock, pc, job, tx, status>>

DayPasses ==
  /\ today < MaxDay
  /\ today' = today + 1
  /\ UNCHANGED <<published, tables, serving, control, tx, status, faulted>>

\* The provider never withdraws a day it has served.
Publish ==
  /\ published < today
  /\ published' = today
  /\ UNCHANGED <<today, tables, serving, control, tx, status, faulted>>

Sync(c) ==
  \/ Download(c) \/ DownloadEmpty(c) \/ DownloadFails(c)
  \/ Calculate(c) \/ CalculateFails(c)
  \/ FetchMetadata(c) \/ MetadataRaises(c)
  \/ WriteOhlcv(c) \/ SkipAbsent(c) \/ WriteData(c) \/ CommitSlice(c)
  \/ RetryWithoutIndexes(c) \/ SliceFails(c)
  \/ WriteMetadata(c) \/ CreateIndexes(c)
  \/ RefreshDelete(c) \/ RefreshInsert(c) \/ WriteFails(c) \/ Finish(c)

Next ==
  \/ \E c \in Callers : SkipFresh(c) \/ Start(c) \/ Sync(c)
  \/ Crash \/ Boot \/ DayPasses \/ Publish

Spec == Init /\ [][Next]_vars

\* A sync that holds the lock keeps running: it is a thread, and every call
\* it makes returns or raises (yfinance requests carry a timeout).
FairSpec == Spec /\ \A c \in Callers : WF_vars(Sync(c))
-----------------------------------------------------------------------------
(* Properties                                                              *)

JobType ==
  [universe : SUBSET Tickers, spliced : BOOLEAN, start : Int,
   dates : SUBSET Day, frame : [Tickers -> Outcomes \cup {"absent"}],
   indicators : [Tickers -> History], todo : SUBSET Tickers,
   info : SUBSET Tickers]

TxType ==
  {NoTx} \cup [stage : {"ohlcv", "data"}, ticker : Tickers, retried : BOOLEAN,
              ohlcv : History, data : History]

Labels == {"idle", "downloading", "calculating", "metadata", "writing",
           "indexing", "refreshing", "inserting", "finishing"}

\* The values every variable of the pipeline ranges over.
TypeOK ==
  /\ today \in Day /\ published \in Day \cup {-1}
  /\ up \in BOOLEAN /\ indexed \in BOOLEAN /\ faulted \in BOOLEAN
  /\ ohlcv \in [Tickers -> History] /\ data \in [Tickers -> History]
  /\ cache \in [Tickers -> ServedRow]
  /\ described \subseteq Tickers
  /\ syncLock \in Callers \cup {NoOne}
  /\ pc \in [Callers -> Labels]
  /\ job \in [Callers -> JobType]
  /\ tx \in TxType
  /\ status \in StatusType(Callers \cup {"system"})

\* The raw and the indicator table hold the same rows for every ticker at
\* every commit point, whatever fails and whenever the process dies: the
\* slice transaction replaces both or neither.
TablesAgree == \A t \in Tickers : ohlcv[t] = data[t]

\* No ticker ever has two rows for one day, although neither table declares
\* a key: the rows inserted are exactly within the range deleted.
NoDuplicateRows ==
  \A t \in Tickers, d \in Day : ohlcv[t][d] # "dup" /\ data[t][d] # "dup"

\* Between the first and the last stored day of a ticker no trading day is
\* missing: an incremental download starts early enough for the ticker that
\* is furthest behind.
NoHoles ==
  \A t \in Tickers : \A a, b \in Stored(data[t]) : \A d \in TradingDays :
    a <= d /\ d <= b => d \in Stored(data[t])

\* While no sync has raised since the process started, a ticker's served row
\* is its latest stored row unless a sync of that ticker is under way.
CleanMeansServed ==
  up /\ ~faulted =>
    \A t \in Tickers :
      \/ cache[t] = LatestRow(data[t])
      \/ \E c \in Callers :
           /\ t \in job[c].universe
           /\ pc[c] \in {"writing", "indexing", "refreshing", "inserting"}

\* The status names the sync that holds the lock, and never counts more
\* tickers as completed than that sync has committed or skipped.
StatusDescribesHolder ==
  \A c \in Callers :
    syncLock = c =>
      /\ status.state = "running" /\ status.source = c
      /\ status.target = Cardinality(job[c].universe)
      /\ status.completed <=
           IF pc[c] \in {"downloading", "calculating", "metadata"} THEN 0
           ELSE Done(job[c])

\* A step never removes the row of a day that was stored: what is deleted
\* in a slice is inserted again, even when another source syncs in between.
CoverageOnlyGrows ==
  [][\A t \in Tickers : Stored(data[t]) \subseteq Stored(data'[t])]_vars

\* When a sync that wrote rows reports success, every ticker of its universe
\* is served from its latest stored row, has its metadata, and the indexes
\* exist.
SuccessMeansServed ==
  [][\A c \in Callers :
       pc[c] = "finishing" /\ status'.phase = "complete" /\ pc'[c] = "idle" =>
         /\ indexed'
         /\ job[c].universe \subseteq described'
         /\ \A t \in job[c].universe : cache'[t] = LatestRow(data'[t])]_vars

\* Every sync that takes the lock leaves it again, by success or by failure;
\* LockInv says that whoever is inside sync_market_data is who holds it.
SyncEnds == syncLock # NoOne ~> syncLock = NoOne

\* What is seen of one ticker's table from outside a transaction.
Visible(h) == [d \in Stored(h) |-> h[d]]

visible == [t \in Tickers |-> Visible(ohlcv[t])]

Store == INSTANCE PriceStore WITH
           Days <- TradingDays, Marks <- {"pad", "bar"}, Nothing <- NoRow,
           rows <- visible, served <- cache

\* The serving table can be taken for a view of the raw history, one row per
\* ticker and day, although it is filled from ticker_data while the next sync
\* computes its indicators from ohlcv_daily: through every failure and restart
\* the three tables implement PriceStore.
StoreSpec == Store!StoreSpec

-----------------------------------------------------------------------------
(* Why the safety properties hold: what is true between any two steps      *)

\* Whoever is inside sync_market_data holds the lock, and only they do.
LockInv == \A c \in Callers : pc[c] # "idle" <=> syncLock = c

\* Rows are only ever stored for days the provider has published.
PublishedInv ==
  \A t \in Tickers : \A d \in Stored(data[t]) : d \in TradingDays /\ d <= published

\* The frame covers every stored day from the start of its window on, and
\* the indicators, once calculated, have exactly its rows.
FrameInv ==
  \A c \in Callers : pc[c] \notin {"idle", "downloading"} =>
    /\ job[c].dates # {} /\ job[c].dates \subseteq TradingDays
    /\ \A d \in job[c].dates : job[c].start <= d /\ d <= published
    /\ \A t \in Tickers : \A d \in Stored(data[t]) :
         job[c].start <= d => d \in job[c].dates
    /\ pc[c] # "calculating" =>
         \A t \in Tickers : job[c].indicators[t] = Raw(job[c], t)

\* An open transaction belongs to the sync in its write loop, and its two
\* halves replace the same range by the same days.
SliceInv ==
  tx # NoTx =>
    \E c \in Callers :
      /\ pc[c] = "writing" /\ tx.ticker \in job[c].todo
      /\ job[c].frame[tx.ticker] # "absent"
      /\ tx.ohlcv = Insert(DeleteFrom(ohlcv[tx.ticker], Cutoff(job[c])),
                           Raw(job[c], tx.ticker))
      /\ tx.stage = "data" => tx.data = tx.ohlcv

\* How far a sync has come with what it must leave behind.
ProgressInv ==
  \A c \in Callers :
    /\ job[c].todo \subseteq job[c].universe
    /\ pc[c] = "writing" => job[c].universe \subseteq described \cup job[c].info
    /\ pc[c] \in {"indexing", "refreshing", "inserting", "finishing"} =>
         job[c].todo = {} /\ job[c].universe \subseteq described
    /\ pc[c] \in {"refreshing", "inserting", "finishing"} => indexed
    /\ pc[c] = "finishing" =>
         \A t \in job[c].universe : cache[t] = LatestRow(data[t])

\* The inductive invariant: no step of any caller, of the process or of the
\* world leads out of it.
SyncInv ==
  /\ TypeOK
  /\ LockInv
  /\ PublishedInv
  /\ FrameInv
  /\ SliceInv
  /\ ProgressInv
  /\ TablesAgree
  /\ NoDuplicateRows
  /\ StatusDescribesHolder
  /\ CleanMeansServed

\* The frame has no gap from the start of its window on, and that window
\* reaches back into the stored days of every ticker that has any.
WindowInv ==
  \A c \in Callers :
    /\ pc[c] \notin {"idle", "downloading"} =>
         \A b \in job[c].dates, d \in TradingDays :
           job[c].start <= d /\ d <= b => d \in job[c].dates
    /\ pc[c] # "idle" =>
         \A t \in job[c].universe :
           Stored(data[t]) # {} => \E b \in Stored(data[t]) : job[c].start <= b

-----------------------------------------------------------------------------
(* What the repository says of the program, and the code does not do       *)

\* "materializes the latest row for each symbol at startup/sync": when no
\* sync is under way and the status is good, every ticker is served from its
\* latest stored row.
IdleMeansServed ==
  up /\ status.state = "idle" =>
    \A t \in Tickers : cache[t] = LatestRow(data[t])
=============================================================================
