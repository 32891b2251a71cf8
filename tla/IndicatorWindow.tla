--------------------------- MODULE IndicatorWindow ---------------------------
(***************************************************************************)
(* Which rows of a ticker have their long moving average: what a download  *)
(* holds (_download_ohlcv), the warmup rows that are spliced in front of   *)
(* it (_load_warmup_ohlcv and sync_market_data), the window and            *)
(* min_periods of _compute_indicator_frame, and the range that             *)
(* _write_ticker_slice replaces.                                           *)
(*                                                                         *)
(* One ticker, listed on day 0, among others.  A download has a row for    *)
(* every open day of its range; where the others traded and the provider   *)
(* has no price for this one, the row has none, and no average that counts *)
(* such a row is a number.                                                 *)
(***************************************************************************)
EXTENDS Integers, FiniteSets

CONSTANTS
  MaxDay,       \* bound: the last calendar day of a behaviour
  OpenDays,     \* the days the exchange is open
  FirstLoad,    \* the day before which the ticker is not loaded
  Patchy,       \* bound: the days whose prices a download may lack
  Behind,       \* bound: how many days the stalest ticker of a sync may be
                \* behind this one
  FreshDays,    \* _FRESH_THRESHOLD_DAYS
  BufferDays,   \* _INCREMENTAL_DOWNLOAD_BUFFER_DAYS
  WarmupDays,   \* _INDICATOR_WARMUP_DAYS
  FullDays,     \* the reach of a full download (365 * years)
  Window        \* rows a rolling indicator needs (min_periods = window)

Day == 0..MaxDay

ASSUME CalendarAssumption ==
  /\ MaxDay \in Nat /\ FirstLoad \in Day
  /\ OpenDays \subseteq Day
  /\ 0 \in OpenDays

ASSUME WindowAssumption ==
  /\ FreshDays \in Nat /\ BufferDays \in Nat /\ WarmupDays \in Nat
  /\ FullDays \in Nat /\ Behind \subseteq Nat
  /\ Window \in Nat \ {0}

VARIABLES
  today,   \* the wall-clock date
  stored,  \* the days that have a row, in ohlcv_daily and in ticker_data
  pads,    \* those whose row has no prices
  full     \* those whose long average was a number when it was computed

indicatorVars == <<today, stored, pads, full>>

Rows(first, d) == {e \in OpenDays : first <= e /\ e <= d}

\* The last of some days, if there is any.
LastOf(days) == {d \in days : \A e \in days : e <= d}

\* The newest row the provider has on a day: that day's close, or the last one
\* before it.
Newest(day) == LastOf(Rows(0, day))

\* The average of day d over a frame is a number: the last Window of its rows
\* up to d all have prices, none is among the blank ones.
Averaged(frame, blank, d) ==
  Cardinality({e \in frame : e <= d /\ \A p \in blank : ~(e <= p /\ p <= d)}) >= Window

IndicatorInit ==
  /\ today = FirstLoad
  /\ stored = {} /\ pads = {} /\ full = {}

\* A download of the rows from day first on replaces them, each with what its
\* indicators are over the rows from day lo on; what the provider has served
\* it serves again, if not always with its prices.
Replace(first, lo) ==
  \E newest \in Newest(today - 1) \cup Newest(today), missing \in SUBSET Patchy :
    LET download == Rows(first, newest)
        kept     == {e \in stored : e < first}
        frame    == {e \in kept : lo <= e} \cup download
        blank    == (pads \cap kept) \cup (download \cap missing)
    IN /\ \A e \in stored : e <= newest
       /\ stored' = kept \cup download
       /\ pads' = blank
       /\ full' = (full \cap kept) \cup {d \in download : Averaged(frame, blank, d)}
       /\ UNCHANGED today

\* A full download sees no more than itself.
FullSync == Replace(today - FullDays, today - FullDays)

\* The newest row of the ticker; one that has none yet comes with others that
\* are stale.
Latest ==
  IF stored = {}
  THEN {today - FreshDays - 1}
  ELSE LastOf(stored)

\* Mutation: the warmup is loaded but not spliced in front of the download.
IncrementalSyncWithoutWarmup ==
  \E last \in Latest, behind \in Behind :
    LET start == last - behind - BufferDays
    IN /\ last < today - FreshDays
       /\ Replace(start, start)

\* The download starts some days before the newest row of the stalest ticker,
\* and is computed over the warmup rows and itself.
IncrementalSync ==
  \E last \in Latest, behind \in Behind :
    LET start == last - behind - BufferDays
    IN /\ last < today - FreshDays
       /\ Replace(start, start - WarmupDays)

DayPasses ==
  /\ today < MaxDay
  /\ today' = today + 1
  /\ UNCHANGED <<stored, pads, full>>

IndicatorNext == FullSync \/ IncrementalSync \/ DayPasses

IndicatorSpec == IndicatorInit /\ [][IndicatorNext]_indicatorVars

-----------------------------------------------------------------------------
(* Properties                                                              *)

IndicatorTypeOK ==
  /\ today \in Day
  /\ stored \subseteq OpenDays /\ pads \subseteq stored /\ full \subseteq stored

\* The window of day d is complete in the table: the last Window open days up
\* to d are stored with their prices.
Supported(d) ==
  Cardinality({e \in OpenDays : e <= d /\ Rows(e, d) \subseteq stored \ pads}) >= Window

\* The newest row, the one the screens and dashboards read, has its long
\* average as soon as its window is complete: the warmup gives the indicators
\* "a full window of prior closes".
NewestRowHasFullWindow ==
  \A d \in LastOf(stored) : Supported(d) => d \in full

\* Day d is one of the first within the reach of a full download, too few to
\* fill its window.
BeginsReach(d) ==
  today - FullDays <= d /\ Cardinality(Rows(today - FullDays, d)) < Window

\* A sync that rewrites a row whose window stays complete never turns its
\* average into NaN: an incremental one wherever it starts, however far behind
\* the other tickers are; a full one but for the first rows of its reach.
NoRowLosesItsWindow ==
  [][\A d \in full :
       Supported(d)' => d \in full' \/ (FullSync /\ BeginsReach(d))]_indicatorVars

-----------------------------------------------------------------------------
(* When they hold                                                          *)

\* So many days before any row hold as many rows as the window needs.
Cover(days) == \A d \in days..MaxDay : Cardinality(Rows(d - days, d - 1)) >= Window

WarmupCovers == Cover(WarmupDays)

FullCovers == Cover(FullDays)
=============================================================================
