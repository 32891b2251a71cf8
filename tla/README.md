# BatesStocks: specifications

TLA+ models of the market-data backend and of the terminal in the browser, the
TLC runs that check them on small instances and the TLAPS proofs that carry the
core results to every instance. Paths below are relative to the repository root.

## 1. The system

BatesStocks is a FastAPI process around one DuckDB file. A sync downloads daily
rows from Yahoo Finance, recomputes indicators and writes two tables; the HTTP
routes read derived serving tables through several in-process caches; a React
front end keeps its own persisted workspace. `sync_once.py` runs the same sync
from a container that exits afterwards.

| part | code | state it keeps | operations |
|---|---|---|---|
| market-data sync | `backend/services/data_sync_service.py` | `_SYNC_WRITE_LOCK`; tables `ohlcv_daily`, `ticker_data`, `stock_information`; secondary indexes | `sync_market_data` (scheduled, startup, manual, repair), `_write_ticker_slice`, `rebuild_indicator_cache` |
| sync status tracker | `backend/services/sync_status.py` | one frozen snapshot behind a lock | `begin`, `update`, `succeed`, `fail`, `get` |
| database | `backend/core/duckdb.py` | shared connection, `_CONN_LOCK`, `latest_ticker_cache`, views | `duckdb_connection`, `ensure_schema`, `refresh_latest_ticker_cache` |
| sync scheduler | `backend/services/sync_scheduler.py`, `main.py` | `completed_slots`, the polling task | `_run`, `start`, `stop`, `get_due_sync_slot` |
| indicator windows | `data_sync_service.py` | none of its own | `_compute_indicator_frame`, `_load_warmup_ohlcv` |
| response cache | `backend/services/response_cache.py` | an LRU of expiring responses | `get_or_compute`, `_prune`, `clear_response_cache` |
| quote, earnings, news caches | `quote_cache.py`, `earnings_service.py`, `news_service.py` | TTL maps, table `news_cache` | lookup, fill, miss marks, stale fallback |
| backups and exports | `backup_service.py`, `sync_once.py` | files in the backup directory | create, validate, prune; copy and replace |
| request limits | `backend/core/security.py`, `main.py` | per-client request windows | `allow`, body limit |
| strategy screen and backtest | `backend/queries/strategy.py`, `backtest.py` | none between requests | match, simulate, summarise |
| serving queries | `backend/queries/*.py`, `backend/api/terminal.py` | none | reads |
| workspace store | `frontend/src/state/terminalStore.ts` | the persisted store, `localStorage` | two dozen actions, `partialize`, `merge` on load |
| error boundary | `frontend/src/components/app/AppErrorBoundary.tsx` | `sessionStorage` flag | drop and reload once, offer a reset |
| API and query layer | `frontend/src/api` | react-query's cache, intervals, `useSyncMutation` | ask, answer, retry, poll, cancel, invalidate |
| command bar and shell | `frontend/src/lib/commands.ts`, `components/command`, `components/layout` | the field, its search, a pending `g` | parse and run commands, keys, syncs |
| research pages | `frontend/src/pages/ScreenerPage.tsx`, `BacktestPage.tsx`, `components/strategy`, `lib/strategy.ts` | drafts, their `localStorage` entries, runs | edit, save, load, run, reset |
| market pages | the other `frontend/src/pages`, `lib/demoMarket.ts` | view state | ask, mark symbols, draw what is there or demo data |
| AI chat and panel | `backend/api/ai.py`, `backend/services/ai`, `frontend/src/components/ai` | none that is kept | a pass-through, disabled by default |

### How they interact

The timers (`lifespan`, the scheduler task) and the routes `/system/sync` and
`/system/rebuild/*` all call `sync_market_data`, each in a thread of its own;
`_SYNC_WRITE_LOCK` admits one. The sync writes through the shared connection
under `_CONN_LOCK`, one ticker at a time, so reads interleave with it at every
slice boundary; reads use cursors of their own. It reports to the tracker, which
the status routes read at any time. A manual sync or a rebuild clears the
response cache when it returns; a scheduled one leaves it to its TTL. A crash
loses locks, threads, tracker and caches; `ensure_schema` at the next start
recreates the indexes and the serving table.

In the browser every page asks through the hooks of `query.ts`, whose answers are
shared under the keys of `terminalKeys`; pages come and go while their requests
are under way, polled ones only while the tab is visible. A sync the user starts
ends with four invalidations, one awaited after the other. What a page asks
depends on the workspace, every change of which is written to `localStorage` at
once and read again only when a tab loads; the routes the user opens change the
workspace in turn (active and recent symbols). The draft of the backtest has an
entry of its own. When a page cannot be rendered, the error boundary drops the
workspace and reloads.

### What is hard

Several callers of one long sequence; failures at each of its steps, some
inside and some between `try` blocks; an autocommitted delete and insert of the
serving table; windows computed from the state of several tickers at once;
a process that dies between two statements; caches that may be filled with a
value read before the write that should have cleared it. In the browser: answers
that come late, twice or never, to pages that have gone on; a store whose rules
are written once in the setters and again in the merge of what an older version
or a damaged entry has left; a recovery that may itself fail; effects that run
after the route has changed. Each is listed as a hazard, with its line, in
`PROJECT.json`.

## 2. Modules

| module | models |
|---|---|
| `SyncStatus` | the tracker: snapshots and the four operations on them |
| `SyncPipeline` | `sync_market_data` step by step, the tables, the serving table, the provider, crash and restart |
| `PriceStore` | the abstract specification: one history per ticker that only grows, one row served of each |
| `SyncPipelineProofs` | lemmas about rows and windows; type correctness, the inductive invariant of `SyncPipeline` and the theorems that follow: no sync leaves a hole, and the tables implement `PriceStore` |
| `IndicatorWindow` | which rows have a long average: the reach of downloads, rows without prices, the warmup |
| `SyncScheduler` | the polling loop of `MarketSyncScheduler` |
| `Lists`, `ListLemmas` | filter, map, slice and distinct elements, by the places of the list they keep; what they return, preserve and bound |
| `ResponseCache` | `get_or_compute` under concurrent threads |
| `QuoteCache` | `_fetch_one_live_price`: the price and the miss cache under concurrent threads |
| `RequestLimiter` | the body limit and the fixed-window limiter |
| `ServiceProofs` | proofs about these five: on which calendars rows keep their indicators, whatever prices are missing; no slot is wasted; how old an answer can be, how many are kept and which goes first; when a price is hidden; how often a client is let in, and that `Retry-After` is worth following |
| `Backtest`, `BacktestProofs` | the rules of a strategy, the simulated account, the screen; the proofs about the account, that costs never help and that the screen agrees with the backtest |
| `BackupStore`, `BackupStoreProofs` | `create_backup` and `sync_once.py` over DuckDB's file and log; what a backup holds and that one is always left |
| `TerminalStore` | the actions of the front end's store, what is persisted, the merge on load |
| `Questions` | what each page asks the server, under which key the answer is kept, what the server accepts |
| `Workspace` | tabs, `localStorage`, the buttons of pages and rail, the error boundary |
| `WorkspaceProofs` | every setter, the merge and the batch field leave a sound workspace; the theorems about tabs and storage |
| `ServedView` | the abstract specification: no question goes back to an answer that was handed out earlier |
| `QueryCache` | the cache behind every hook, polling, retries, the user's sync |
| `MarketViews` | placeholders, demo data, the compare chart, over `QueryCache` and `Questions` |
| `ViewsProofs` | `QueryCache` implements `ServedView`; no demo data without their ribbon, no chart without its bars, no answer to another page's question |
| `CommandBar` | commands, keys, search and syncs of the command line and the shell |
| `Research` | drafts, rule stacks, saved drafts and runs of the screener's and the backtest's page |
| `TerminalProofs` | proofs about these two: a page shows the answer of its last run, drafts return, recents can be run and follow the routes |
| `MC...` | definitions and bounds that instantiate them for TLC |

`Lists` says what a filter keeps by a set of places (`AtPlaces`), so that the modules that
filter lists can be proved about.

`SyncPipeline` uses `SyncStatus` as operators on a snapshot variable, so the
tracker is always checked under the sync that drives it. `TerminalStore` is the
same for the front end: `Workspace` and `CommandBar` drive its operators, and
`MarketViews` composes `QueryCache` with the questions of the pages. The other
modules are models of their own: the scheduler meets the sync only through a
callback that takes any time and returns or raises, the response cache meets it
through `Clear`, the backups through `Commit`, the backtest through stored rows,
the query cache through `Publish` and `SyncDone`.

Modules that share no state are checked in one run, one of them in focus in each
behaviour while the others stay where they start: `MCServices` (scheduler,
response cache, backups, indicator windows, live prices, request limits) and
`MCTerminal` (command bar, research pages). The state space is the sum of the
parts, not their product, and nothing is lost as none reads what another writes.

### SyncPipeline

One action per step of `sync_market_data` that another thread, a failure or a
crash can separate from the next one. `pc[c]` is where caller `c` is, `job[c]`
its local variables, `tx` the open transaction of `_write_ticker_slice`.

| code | action |
|---|---|
| nothing stale, lines 628-641 | `SkipFresh` |
| planning and `begin`, 616-659 | `Start`, with `Plan` |
| `_download_ohlcv`: rows, an empty frame, an exception | `Download`, `DownloadEmpty`, `DownloadFails` |
| warmup splice and indicators, 681-710 | `Calculate`, `CalculateFails` |
| metadata outside every `try`, 712-717 | `FetchMetadata`, `MetadataRaises` |
| the write loop, 735-766 | `SkipAbsent`, `WriteOhlcv`, `WriteData`, `CommitSlice`, `RetryWithoutIndexes`, `SliceFails` |
| after the loop, 767-808 | `WriteMetadata`, `CreateIndexes`, `RefreshDelete`, `RefreshInsert`, `WriteFails` |
| `succeed`, 814-827 | `Finish` |
| process death, `ensure_schema` | `Crash`, `Boot` |
| the calendar, the provider | `DayPasses`, `Publish` |

A history of a ticker maps each day to a mark: no row, a row with prices, a row
of NaN prices (the provider's wide frame has one index for all tickers), or two
rows. Prices, the values of indicators and the wording of statuses are left
out. A caller is named by the `source` it passes, so each source has at most
one call under way; more calls of one source would queue at the same lock.
The lock hands over at `Release`: a waiting caller is simply one whose `Start`
is not yet enabled.

### PriceStore

What the readers of the tables may rely on, whoever syncs and whatever fails.
`SyncPipeline` implements it with `rows <- visible`, the rows of `ohlcv_daily`
outside a transaction as a function from days, and `served <- cache`, what
`latest_ticker_cache` holds:

| step of `SyncPipeline` | step of `PriceStore` |
|---|---|
| `CommitSlice` | `Extends(t)`: one ticker's history is written anew, no day is lost |
| `RefreshDelete` | `Hides`: a row that is served may go |
| `RefreshInsert`, `Boot` | `Serves`: the newest row comes |
| `Publish` | `Publishes` |
| everything else, `Crash` and `DayPasses` included | stutters |

The serving table is filled from `ticker_data`, the history is that of
`ohlcv_daily`: that the former serves the newest row of the latter is not local
to a step but needs the inductive invariant. `PriceStore` knows no failure, so
whatever is interrupted must look like one of its steps or like none.

### IndicatorWindow

One ticker among others, on calendar days. `Replace` is what any sync does to it: a
download has a row for every open day from its first one to the newest the provider has
(`_download_ohlcv`), a row without prices where the others traded and this one has none
(`pads`, from the bound `Patchy`); the rows of that range are replaced, and each gets its
average over the frame, which is a number only if the last `Window` rows of it all have
prices (`Averaged`: `min_periods` equals the window and does not count NaN). `FullSync`
has a limited reach (line 258) and sees no row before it. `IncrementalSync` starts a buffer before
the newest row of the stalest ticker of the sync, which may be `Behind` this one, and
sees the stored rows of `WarmupDays` further back (`_load_warmup_ohlcv`), the blank ones
among them. A ticker without rows that joins others gets their window only. `full` are the rows
whose average was a number when it was computed. As in `SyncPipeline` the provider's rows only
grow at the end; what it has lacked once it may have later, and the other way around.

### SyncScheduler

Ticks stand for the poll's granularity. `Call` is a poll that finds a due slot,
`CallReturns` and `CallRaises` end the awaited callback, `Stop` is a cancelled
task or a dead process, and `Start` a new scheduler without completed slots.
The event loop wakes the task up to `Lag` late. Market time is taken as one
clock: daylight-saving changes fall on Sunday nights, outside any slot.

### ResponseCache

A cached response is abstracted to the moment its data was read. `Ask` reads
the clock, `Hit` or `Miss` happens later under the lock, `Compute` reads the
database later still, `Store` prunes and stores under the lock again. All
callers of a key pass the same `ttl_seconds`, so one TTL stands for the TTL of
the key in question.

### BackupStore

A file's content is the number of commits it holds, or `Partial`. A commit goes
to DuckDB's log and reaches the file at a checkpoint: the one `create_backup`
issues, one DuckDB issues by itself, or the one of a clean exit. `copy2` carries
the original's modification time over, and the retention sorts by that time, so
both are modelled. Assumed: one backup request at a time (an administrator's
route), and no checkpoint while the file is being copied.

### Backtest

One behaviour is one request: `Init` takes any stored history, any range of it
and any of the strategies, and every step is one row of the loop (lines 57-113),
`Buy`, `Sell` or `Wait`; `Settle` is the sale after the loop. Indicators are
columns of a row, and one whose window is not full is `NoValue`. The list of
trades is kept as the sum of its profits and the fees, which is what the summary
is made of. Amounts are integers in a unit fine enough for every division to
come out even in the run (the capital is a power of two, and costs of a third
leave three quarters to spend), so `\div` is the division of the code; rounding
to cents is left out. `PurchaseIsEven` says so of the purchases. The screen is evaluated on every prefix of the history, as
if it had been run that evening.

### QuoteCache

A thread at a ticker: `AskPrice` reads the clock, `LookUpMiss` consults the miss
cache under its lock, `LookUpPrice` the price cache, `ProviderAnswers` has asked
Yahoo outside the locks, and `MarkMiss` or `KeepPrice` stores, with a deadline
that was reckoned before the lock was there. A price is its deadline; the stored
close that stands in for none is what a thread's return without one means. Each
read and each store waits up to `LockWait`, the provider any time.

### RequestLimiter

`Request` is the outermost middleware of `main.py`: the declared body size, then
`rate_limit_policy`, then `allow`, which grants or refuses and keeps the window
as the latest, dropping the least recently used ones beyond `max_keys`. The
middleware runs on the event loop, so requests are judged one at a time. Time is
in ticks, `Second` of them in a second: the 0.999 seconds that `retry_after` adds
before it truncates are `RoundUp` ticks, and `Shortfall` is what that falls short of
a whole second. `granted`, `told` and `forgotten` are histories.

### TerminalStore and Workspace

An action of the store is an operator from a workspace to a workspace, and
`Merge` the one that makes a workspace of whatever `localStorage` holds. A record
stands for the store, a model value (`Junk`) for data of no usable type, and text
is drawn as it is after `trim()`. Times of saving and names of saved sets are
left out.

`Workspace` puts the store into tabs. `Open`, `Load`, `Reload`, `Close` and
`Navigate` are the browser's; each button of a page or of the rail is an action
that applies the store's operators in the order of its handler. `Shows` renders:
it mounts the page (a security becomes active and recent, the shell records the
route), persists the store, and where the page cannot be rendered (`Renders`)
goes to `Fails`, the error boundary. `Damage` is what an older version, another
program or a bad disk leaves in either entry before a tab loads, and
`ChunkFails` a lazily loaded page that is not there. The actions are written for
any number of tabs, which meet only in `stored`; runs use one.

### Questions

The hooks as sets of records, one per request, with everything it sends;
`...Asks` is what a page asks from a workspace and from what the server has
answered so far. `KeyOf` is the part of a question that its key holds, `Accepted`
what the routes take without answering 422. Tickers are taken to be short and to
match the server's pattern.

### QueryCache and ServedView

react-query is not part of the repository: it is modelled by how `query.ts` and
`main.tsx` set it up, from what its options mean. Between it and the database there are more
caches: the browser's, as `client.ts` fetches in the default mode and a security is
answered with `max-age=60, stale-while-revalidate=300` (`terminal.py:120`), and the server's
response cache of 20 or 300 seconds, in which a late fill may replace a newer one
(`ResponseCache`). So an answer is abstracted to two moments, the state of the server's
data it is about and that in which it was handed out, and may be about any from `oldest`
on, older ones after newer ones included. `Expire` forgets the oldest. `Direct` are the keys no
other cache answers (`sync-status`). Each time is abstracted to the event it leads to.

| code | action |
|---|---|
| mounting a page, `staleTime`, `gcTime` | `Navigate`, `Age`, `Evict` |
| `refetchInterval` with `activeInterval`, hiding and showing the tab | `Tick`, `Render`, `Hide`, `Show` |
| a request: sent, read by the server, answered, failed, sent again | `Fetch`, `Read`, `Answer`, `Fail`, `Retry` |
| the answer to a cancelled request | `LateAnswer` |
| the other caches let go of what is old | `Expire` |
| `useSyncMutation` | `PostSync`, `SyncFails`, `SyncDone`, `SyncGoesOn`, each with `Invalidate` |

`activeInterval` looks at the tab's visibility when it is called: when something
happens to the query or its page is rendered. So an interval that was computed
while the tab was hidden stays off until then (`Rearmed`, `Render`).

`ServedView` has no requests: a question learns an answer that was not handed out
before the one it shows, or forgets it; the data of a direct key are those of the moment, so
they never go back. `ServedSpec` is the claim that `QueryCache` implements it with
`view <- data`. More cannot be said of the other keys: after an answer another may come that is about
older data, and after a sync one with data from before it. `SyncSeen` names that exception beside
the one of requests that are not cancelled, and is about the questions `useSyncMutation`
names; the dashboard, the monitor, the sectors, snapshots and freshness are not among them.

### MarketViews

What the pages make of the cache: `SecurityShown` with the placeholder that
`placeholderData` keeps for another range of the same ticker, `OrDemo` of the
monitor and the dashboard, `Charted` lines of the compare page, `RecentShown`
rows, and the ribbons (`Degraded`, `SecurityDegraded`, `CompareDegraded`). `last` is
the observer's last answer. The rows of the dashboard's watchlist (`DashboardPage.tsx:138`) and
the snapshots of the compare page (`ComparePage.tsx:70`), which may be demo rows as well, are
not in the module. `SharedAnswersFit` asks of the real questions of
all pages, under the real limits of the lists, whether two that share a key differ.

### CommandBar

`Parsed` is `parseTerminalCommand` on words and `Submit` is `executeTerminalCommand`.
`Goes` navigates; `Arrives` comes later, when the page of the route has been rendered, and
`Arrived` is what the effects of the shell and of the security page do then: pages are loaded
lazily and the router changes routes in a transition, so the page at hand stays, and its keys and
links lead on, until the next one is there. `overtaken` remembers that a page was left before. The field, its debounced copy, the highlighted line and the cached
search results are kept apart, as the code keeps them. `syncing` holds the commands whose
sync has not been answered. A command is a string of a small set; `Tokens` gives its
words. Notices are left out.

### Research

A place (screener or backtest page) has a draft, an entry of `localStorage` and
saved drafts; `observed` is the run its observer follows, `flights` the runs under
way. An answer stands for the definition it was asked with
(`BuildStrategyDefinition`), so a page that shows the answer to another run shows
it. Of a draft the ticker, the universe, the stacks and one field of each kind are kept.

## 3. Runs

| run | instance | shows |
|---|---|---|
| `callers` | 2 tickers, a scheduled and a manual caller, days 0-1, all download outcomes | both tables in step, the tracker describes the holder, no stored day is lost, success means served, the tables implement `PriceStore`, a sync that takes the lock leaves it |
| `window` | 2 tickers, the scheduled caller, days 0-5 with a closed day, threshold 1, buffer 1, warmup 2 | no duplicates, no holes, a clean process serves the latest rows |
| `stale_cache` | the smallest instance with the case | a departure (section 6) |
| `indicator_warmup` | the code's constants, window 250 | a departure (section 6) |
| `services` | six services, see below | no slot is wasted; size, age and order of eviction of cached answers; backups hold what was committed, survive what is killed, and the export is whole; no row loses its long average; a price is hidden only by an overlap; less than two limits in a window's length, and waiting helps |
| `backtest` | histories of up to 4 rows of 6 kinds, any range, 4 strategies, costs of a third, prices with a zero | never overdrawn, the books balance, costs never help, stops hold, the screen agrees, self-financing |
| `workspace` | one tab, 2 edits, 1 fault, lists of 2 | limits and uniqueness, the active list exists, a reload keeps the work, a batch adds, the recovery ends |
| `wiped_workspace`, `refused_headlines` | the same without faults | departures (section 6) |
| `views` | 1 change of the data, 2 lost requests, the pages' real limits | what is shown implements `ServedView`, a sync is seen, bars stay, demo data are announced, shared answers fit, polling catches up |
| `demo_data` | the same with 1 lost request | a departure (section 6) |
| `terminal` | 5 things typed or pressed, 2 syncs; 3 acts, 2 runs under way | recents follow the route and can be run, a result is the answer to the last run, a draft returns |

Bounds. Two tickers are needed for a window planned from the one furthest
behind and for a failure between two commits; a third repeats the second. Two
callers are needed to overlap; the lock makes a third wait like the second. Six
days hold a closed day, a stale ticker and a download that overlaps stored rows
by the buffer. In `callers` the calendar is short because the interleavings, not
the arithmetic, are in question; in `window` it is the other way around.

`services`: Friday to Monday with 9 ticks a day, a slot of 4, polls of 2 and a lag
of 1; three keys in a cache of two, so that every store chooses a victim, two
threads, so that a store meets one it does not know of, and ticks up to 4, beyond
TTL and waits together; retentions 1 and 2, one commit and 11 writes, the fewest
in which a backup counts an export and an older backup at once; for the indicators the New
York calendar from January 2024 with the durations of the code scaled down, a window of 8
rows, a warmup of 14 days that always holds it and a reach of 21 (`MCWindowsCovered`, evaluated with
the run), two days whose prices may be missing, one of which the last window of the run
still holds, and other tickers that are level or 5 days behind; one ticker and three threads, so
that a third asks while two overlap, with a price TTL of 2 under a miss TTL of 4; two clients
of one bucket against a limiter that remembers one window, so that each may make the other
forgotten, a limit of 2, so that 3 grants fit around a boundary, a window of 6 ticks, 3 of
them a second, so that `Retry-After` is rounded, and 13 ticks, two windows.
`indicator_warmup` has the constants of the code and the real calendar, with every price there;
`MCWarmupHolds200`, evaluated with it, says that the 350 days always hold 200 rows.

`workspace`: an edit and another after the reload, or before it; one fault, as a
second meets the same code; lists of two, so that the third symbol evicts; two ids, a
batch with a ticker twice, one with a listed ticker and one in another case. `views`: a
behaviour goes between two routes, as the cache compares only the page before
with the page at hand: from a security to another page under the same shell, to another
range of a ticker and back, to another ticker, between a page with data and one without, or
it stays at a comparison of two. Its status is direct, its bars come through the other caches,
but for those of the comparison, of which the properties ask only whether they are there.
Two lost requests make one query fail for good, as it is sent again once.
The lists of the questions have their real limits (40, 12, 8). `terminal`: five
inputs type a word, wait for the search, choose a line and run another command over
a pending sync; three acts are two runs and a reset or an edit between.

Deadlock checking stays on but for `backtest`, which ends with its
request: elsewhere something can always start again, or a process die.

Fairness. `FairSpec` asks weak fairness of every started sync and of nothing
else: it is a thread that keeps running while the process is up, and every call
it makes returns or raises (the provider's requests time out). Nothing is
assumed about starting a sync, about days passing or about the provider.
`FairWorkspaceSpec` asks that a browser that has begun to load the page goes on
with it; nobody need ever press a key. `QueryFairness` asks, key by key, that
intervals and retries come while they are armed and that the server reads and
answers what is sent, and that caches let go of what is old (a polled key is kept by the
server for 20 seconds, a security for 300, by the browser for 60 and while it revalidates
for 300 more); requests may still be lost up to the bound, a user need not
come back to the tab, and the client of a cancelled request need not hear of it.

## 4. Proofs

Assumptions are the named ASSUMEs of the modules. `SyncPipeline`: finitely many
tickers, callers among the sources of the code, calendar constants that are
natural numbers; nothing is assumed of thresholds, buffers or windows.
`IndicatorWindow`: days, windows and buffers are natural numbers, and a ticker is listed on an
open day (day 0 of its history); nothing is assumed of the days without prices or of how far
other tickers are behind.
`SyncScheduler`: a poll and the lag fit into a slot (300 seconds into 20
minutes). `ResponseCache`: durations are natural numbers, at least one entry.
`BackupStore`: the retention keeps at least one file. `QuoteCache`: durations
are natural numbers. `RequestLimiter`: limits and durations are positive, the rounding is less than a
second. `QueryCache`: pages ask keys there are, and a sync invalidates something.
`MarketViews`: the page of a security asks for the bars of one range (`range` is a
single state of SecurityPage), demo data and the absence of an answer are told from
answers, there are no other pages than the router's, and the scopes under which the pages ask
for headlines ("dashboard", "sector-...", "watchlist-...", "news-...") are different strings
where their beginnings differ; the run evaluates that, as strings are opaque to the prover. `TerminalStore`: upper case is idempotent, limits are positive, and the lists a
workspace starts with (terminalStore.ts:44-49, 105-171) are in upper case, within their limits and
without repetition, which is a fact about literals of the code. `CommandBar`: two securities at
least are recent (`uniqHead` keeps 12), and what can be typed, found or clicked is text that the
parser splits into words. `Workspace`: tickers come from text, and pages from the routes; texts,
ids, routes and names that are not empty are none of what the code takes for useless (`Junk`, `Null`).

`SyncInv` is the inductive invariant of the sync. None of its properties is
inductive alone:

* `TablesAgree` needs to know what the open transaction will commit (`SliceInv`),
  which needs the indicators to have exactly the frame's rows (`FrameInv`), which
  holds because filtering from the window's first day undoes the warmup splice
  (`IndicatorsAreRaw`);
* `CoverageOnlyGrows` needs the frame to cover every stored day of its window
  (`FrameInv`), which is established at the download because only published
  trading days are ever stored (`PublishedInv`), and survives because nobody
  else writes (`LockInv`);
* `NoDuplicateRows` needs the least day of the frame to be the cutoff of the
  delete (`ReplacedHasNoDuplicates`), hence that a non-empty set of days has a
  least element (`NaturalsHaveLeast`, by well-foundedness of `<`);
* `NoHoles` needs that the window is gapless from its start on and starts within
  the stored days of every ticker it is for (`WindowInv`): the plan takes the
  least of the last stored days (`PlanReaches`). Then a trading day between an
  old and a new row is in the window, and so downloaded, or before it, and so
  between two old rows (`CommitLeavesNoHoles`);
* `StatusDescribesHolder` needs that taking a ticker off the list never lowers
  the number done (`DoneGrows`);
* `CleanMeansServed` and `SuccessMeansServed` need how far the holder has come
  (`ProgressInv`).

Proved for every instance: `TypeOK`, `SyncInv`, `TablesAgree`,
`NoDuplicateRows`, `StatusDescribesHolder`, `CleanMeansServed`,
`CoverageOnlyGrows`, `SuccessMeansServed`; and `NoHoles` where
`FullDays >= MaxDay`: a full download reaches back to the first day there is, as
365 days times the configured years do for a database younger than that.

`StoreSpec`, the refinement, rests on `SyncInv`: a history is a function from days because
no row is there twice (`VisibleHistory`), its days are published ones, a commit
loses none (`CommitExtends`, from `CommittedDays`), and the newest row of `ticker_data`, which
the refresh and the restart serve, is the newest of `ohlcv_daily` because the two agree
(`RefreshServes`, `BootServes`). All other steps leave the three variables alone
(`SyncUnseen`). What is then proved of `PriceStore` holds of the tables; `ServedIsStored`, that a row
is served only of a day its ticker has a row for, follows from `Extends`, which keeps the days.
Proved: `StoreSpec`, `Store!ServedIsStored`, for every instance.

For the indicator windows: the prices of a row's last `Window` open days may be in the
table and yet not in the frame it is computed over, and only then is an average lost
(`Supported`, `Averaged`). An incremental sync sees what is stored of the `WarmupDays` before
its first day, and everything from that day on is downloaded; so a row it rewrites has in its
frame any window that the table has, on the hypothesis `WarmupCovers` that any `WarmupDays`
hold `Window` rows, wherever the sync starts, the start of a staler ticker included, and whatever
it finds or leaves without prices. A full sync sees only itself: the first `Window - 1` rows of its
reach lose their average, and the property excepts them (`BeginsReach`). `WarmupCovers` is a fact about a
calendar, and not an idle one: for the 200-row average and 350 days of the New York calendar TLC
finds it true, for the 250-row average it is false, which is the departure `indicator_warmup` shows.
That the newest row has its average when the table has its window (`NewestRowHasFullWindow`)
needs the same of the full download (`FullCovers`: the shortest is 730 days, two years). Proved where
they are true: `NoRowLosesItsWindow`, `NewestRowHasFullWindow`, for every calendar, window, buffer, warmup,
reach and first load.

`SlotInv`, for the scheduler: `WindowUsed` speaks of the tick on which a window
closes, and follows because the last poll (`PollInv`) saw no open slot, the
task has not overslept (`WakeInv`), and a poll and the lag together are no
longer than the window. The product of day and day length is hidden from the
solver behind `SlotStartInt`. Proved: `SlotInv`, `WindowUsed`.

`FreshInv`, for the response cache: an entry expires at most a TTL and a fill
after its data was read, and no thread waits longer than its bound (`AgeInv`).
The order of keys plays no part. Proved: `AnswerIsFresh`.

`OrderInv`, for the same cache, says what the order of keys is: that of their last uses, with
a key for each entry and none twice. A store drops what has expired, which leaves the rest in
their order (`FilteredOrder`), and then a prefix, so whatever stays was used later than what
goes. Proved: `OldestGoesFirst`, and `SizeBounded`, which is part of it, also in every state.

`AccountInv`, for the backtest: `BooksBalance` needs that a sale's profit and
cost are taken from the same shares, and `SelfFinancing` that the newest point
of the curve is what the account is worth. That the account is never overdrawn
(in `TypeOK`) rests on the rounding of `\div`: what is bought, with its cost, fits
into the amount meant for it (`NetPurchaseFits`), and a cost into the value it is
charged on (`CostFits`). Assumed: fees and slippage together take at most the
price. Proved: `AccountInv`, `TypeOK`, `BooksBalance`, `StopHolds`,
`SelfFinancing`, and `ScreenAgrees`: a signal reads its row and the one before
(`SignalSeesTwoRows`), which are the two the screen has; on the first row of a range the backtest
has less to go by, and what it enters there the screen enters too (`FirstRowSignalsLess`).
`CostsNeverHelp` compares two accounts that divide differently, and with floors it is false
of some amounts: a purchase that pays costs may be left with change that the other one spent.
It is proved where every purchase comes out even (`PurchaseIsEven`, a hypothesis of the
theorem), which the code's fractional shares do, up to the last digit of a number: such a purchase spends
all that was meant for it (`EvenPurchaseSpendsAll`), so with costs there are fewer shares and no more
cash. Sales, and what is kept back at a purchase, are ordered by the floors as they are
(`SaleKeepsOrder`, `LeftoverOrder`). In the run's instance every reachable state satisfies the hypothesis,
as TLC finds with `PurchaseIsEven` as an invariant of `MCBacktest`. Proved: `CostsNeverHelp`.

For the request limiter: `LimiterInv` adds to the types what has become of the window of a
client that was refused (`ToldInv`): it is gone, or it is over by the time the client was
told, or it counts nothing but what the client has been let in for since. A refusal sets the second
(`RetryCovers`: the rounding gives away less than `Shortfall`), a new window the third, the
drop of the least recently used the first; and a client that comes back meets an empty
window in the first two cases and less than a limit in the last. Proved:
`WaitingHelps`, for every number of clients, limit, window and rounding.
`UnderTwoLimits` needs to know where the grants of the last window's length fall (`GrantedInv`):
they can be cut so that those before the cut are no more than a limit and not after the start
of the present window, and those after it are counted in the window besides the request that opened
it (`SpentIn`). That request is why two limits are never reached: it is as old as the window, so by
the time a later window starts it no longer counts. When time passes the old ones leave
from the front, and when a window starts less than a limit is left. Proved: `UnderTwoLimits`, which
is tight: the run reaches one grant less than two limits.

For the live prices: a thread that finds an expired price or miss drops it, and as long as
it is alone nobody else stores one, so of the two maps one is empty for a ticker that two
threads were never at together (`Alone`, `QuoteInv`). Proved: `HiddenOnlyByOverlap`, for
any number of tickers and threads and any two TTLs.

For the backups: no request finds a file of its own and none is as new as what is written
next (`PastInv`); after the checkpoint the file holds what was committed when the request came,
and so does every copy of it that is complete (`RequestInv`). When the retention looks,
an archive has just been written and is the newest file there is, so what was reported
before either stays or gives way to something newer (`KeptInv`). Proved:
`BackupHoldsCommits` and `ExportIsWhole` as they stand, `BackupLeft` where every
request is for a compressed backup: an uncompressed one takes over the age of the
database file (`copy2`), and the retention of the same call may delete it.

For the query cache: that it implements `ServedView` rests on `ReadInOrder`, by which what a
request holds was handed out no earlier than what its key shows, is not about a later moment
than that, and is about that very moment where the key is direct (`Given`). It survives an invalidation because a cancelled request is heard of only by
`LateHeard`, which changes nothing. `SyncSeen` needs `RenewedInv`, which says for each
invalidation that has begun what holds of its keys: nothing, an answer from after the
sync, one marked stale, one whose request went on (`joined`), or one that another cache
handed out after the sync. Proved: `QueryTypeOK`,
`ServedSpec`, `SyncSeen`, for any keys, pages and links and any order of invalidations.

For the market pages: `LastInv` says that the answer a chart had last is that of the range at
hand if there is one, so that the placeholder of another range is of the same ticker, and is
bars. The rest of `DemoIsAnnounced` is a case distinction on what has been answered and what has
failed; of the comparison, that the lines drawn are those of a filtered list (`Ready`).
Proved: `DemoIsAnnounced`, `BarsStay`. `SharedAnswersFit` reads the keys from the other end: in
every question of every page the key is built from all fields of the question
(`Keyed`, page by page), but for the number of headlines. That one is settled by the scope
(`ScopeSaysHowMany`), because pages that want different numbers name different scopes
(`ScopeAssumption`). So two questions with one key are the same (`KeySaysAll`). Proved:
`SharedAnswersFit`, for any workspaces, sectors and recents.

For the research pages: `RunsInv` numbers the runs. What is heard of a run is heard by the
observer that follows its number, and that number is the one of what the page wanted last,
because a run, a reset and a return to the page all take a new number or none. `DraftsInv` says
that `localStorage` has the form of the page at hand and of any other page the one it was left
with. Proved: `AnswerOfLastRun`, `DraftReturns`.

For the command bar: `CommandsInv` says that every remembered command, and every one that a
sync under way will have remembered, can be run, and that what is on offer was typed, remembered
or found; `RecentsInv` that the securities shown last are the first recents, and that the active
ticker is the last of them or, while its page is on its way, the one a command has named. The
first holds however routes overtake each other; the second needs that no page was left before it
was shown, as a command makes its security active before it navigates (`CommandBar.tsx:104`). Both have to
survive `uniqHead` and `uniqCommands`: what goes to the front of a list without repetition is
at its front, the rest keeps its order, and the last falls off (`ListLemmas`). Proved:
`RecentsRun`, `RecentsFollowRoutes`.

For the workspace: `WorkspaceInv` says that every tab, and what a tab has written, holds a sound
workspace (`StoreInv`), and that whatever is stored has lists where the merge expects lists
or else nothing the merge would take for one (`StoredInv`). Each setter keeps `StoreInv`
(`TickerKeeps` to `RenameKeeps`), and the merge makes it out of `StoredInv`, so a reload, a damaged
entry and the recovery of the error boundary come back to it. `ADD SYMBOLS` toggles one symbol
after the other against the list as it was rendered: by induction along the batch, what has
been added so far is what was listed and the first symbols of the batch, as long as both fit
the limit. Proved: `WorkspaceTypeOK`, `ActiveListExists`, `BatchAddKeeps`, for any number of tabs,
edits and faults.

`ReloadKeepsWork` needs more. `Merge` leaves a sound workspace as it is, but for lists without
symbols, if it is also `Tidy`: ids and names are of use, saved sets compare something, and the
fields that no action here sets (commands are `CommandBar`'s) are empty (`MergeSame`). Every setter keeps that, on two conditions that are
facts about the pages: the rename field never holds anything but text, and the compare
page, the only one with SAVE, is not open while there is nothing to compare, because it cannot be
rendered then. The merge makes a tidy workspace out of whatever damage has left (`MergeTidy`).
`ReloadInv` says so of all tabs, and that what is stored is what the tab that wrote last shows. TLC
checks it, like the other invariants, before it is proved: a first form failed where a page breaks
a second time after its set has already been stored by the tab, which is therefore the `owner`.
Proved: `ReloadKeepsWork`, where `Junk` and `Null` are neither lists nor records and the numbered
names ("Watchlist 3") are text (`UselessApart`, a hypothesis of the theorem because
TLC cannot evaluate it).

The lemmas about lists rest on an induction over a set of natural numbers (`Inductive`, from
the well-foundedness of `<`), which takes a set where the library's theorems take an operator. A filter is
its run along the places of the list, and the run comes with a map from the places of the
result to those of the list that grows (`Selects`): order, distinctness, length and elements
of the result are read off that map.

Model-checked only: `SyncEnds`, `RecoveryEnds` and `PollingCatchesUp`. Liveness under fairness is
beyond the prover, and so is ENABLED. Every other property of the runs that pass is
stated by a theorem.

## 5. Plan, and what is not modelled

In order:

1. `NewsCache`: rows that expire, partial fills, replacement by id.
2. A reader in `SyncPipeline`, between the delete and the insert of the serving
   table, composed with `ResponseCache`.
3. Two tabs in `Workspace`: the actions are written for them, the state space of the
   present instance is not.

Left out for good:

* the arithmetic of indicators, of summary statistics and of demo data; formatting,
  charts, layout and the shapes of answers (`api/types.ts`);
* the SQL of read-only routes, which keep nothing between requests, and the market universe,
  which is constants;
* the earnings cache, a dictionary with a TTL of the same shape as the price cache without its
  miss marks, and `get_or_compute` of the intraday and fundamentals caches;
* AI chat and its panel, a pass-through disabled by default;
* host and origin checks, which the framework makes of one request;
* text that is no ticker for the server although it is one for the command line;
* in `IndicatorWindow`, a day for which this ticker alone has no row at all: the provider's frame
  has one index for all tickers (`_download_ohlcv`), so a missing price is a row without one.

The DuckDB engine, yfinance, asyncio, the clock, react-query, the browser and React are
modelled from how the code uses them and marked external. Functions without a
production caller (`rebuild_indicator_cache`, `ensure_market_data`,
`ensure_default_universe_data`) are left out.

## 6. Where the code departs from what the repository says

* `stale_cache`, `IdleMeansServed`: the plan document says the serving table is
  materialised at every sync. A write loop that fails after a commit skips the
  refresh, and the next scheduled sync finds the committed ticker fresh, reports
  success and returns without refreshing it.
* `indicator_warmup`, `NewestRowHasFullWindow`: the comment on the warmup says
  350 days cover the long windows. They are calendar days, about 241 rows, and
  the 250-row average needs 250: an incremental sync of a ticker with enough
  history writes NaN.
* `wiped_workspace`, `DroppedOnlyByReset`: the status strip says the workspace is
  persisted. Taking the last ticker off the compare page makes that page fail, and the error
  boundary drops the stored workspace; a page chunk that cannot be fetched does the same.
* `demo_data`, `DemoOnlyWhenUnavailable`: the README says demo data stand in where the API's
  are unavailable. The dashboard's recents put the demo row of a ticker over the server's.
* `refused_headlines`, `HeadlinesAppear`: the page promises headlines of the active list. The
  scope it asks with holds the UUID of a created list and is longer than the server takes.

The models also show behaviour that nothing in the repository speaks of. It is no run's
violation, but a reader of the code will want to know of it:

* the metadata lookup stands between the two `try` blocks of the sync: when it raises, the
  lock is released and the tracker says "running" until the next sync begins;
* a reader between the autocommitted DELETE and INSERT of the serving table finds it empty,
  and the response cache may keep that for its TTL;
* `sync_once.py` copies the database file without a checkpoint, so the export may lack
  the update just committed; the retention of backups counts the export and may remove it; an
  uncompressed backup gets the age of the database file, and the retention of the same call
  may remove it;
* after the user's sync the refetch of a security may be answered by the browser with what it
  has kept for up to 60 seconds, and while it revalidates for 300 more, and these data count as
  fresh for another five minutes; a late fill of the response cache may put an older answer in
  the place of a newer one; bootstrap, monitor, sectors, snapshots and freshness are not invalidated at all;
* a price that a download lacks blanks the averages of the rows after it until the window has passed
  or a later download has it; a full sync takes the first rows of its reach the averages they had, and
  a new ticker synced together with stale ones gets their short window of history only;
* a live price may be hidden by the miss mark of a thread that asked at the same time, also of
  a batch that names a ticker twice;
* fees and slippage are accepted up to 100 % each; above 100 % together a sale costs more than
  it brings, and a stored row without prices makes that day's equity NaN;
* the news cache renews the time of the rows it has just read from itself
  (`news_service.py:259`), and the earnings cache counts six hours from before the fetch, for
  failures as well;
* `WL ADD` and `WL RM` both toggle; adding a listed ticker takes it off; a ticker that is typed
  twice into the batch field is put on and taken off again;
* Enter takes the highlighted line of a list that belongs to what was typed 120 ms ago; the answer to
  `SYNC` empties the field whatever has been typed meanwhile; a command makes its security active even
  if its page is left before it is shown;
* the compare chart pairs the i-th ticker with the i-th answer that is there;
* the watchlists page asks for up to 40 symbols where the server takes 25, and shows a longer
  list empty;
* a second tab overwrites what the first has stored since, as each holds the whole workspace;
  the rename field keeps its text when the active list changes elsewhere;
* `REFRESH MATCHES` on the backtest page has no effect while a backtest is shown; a number that
  cannot be read is sent as null;
* the sync invalidates "workspace", a question no page asks.
