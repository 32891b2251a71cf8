------------------------------ MODULE Questions ------------------------------
(***************************************************************************)
(* The questions the pages put to the server (frontend/src/pages, the      *)
(* hooks of api/query.ts and the calls of api/client.ts), each page's from *)
(* the workspace and from what the server has answered so far; the key     *)
(* under which an answer is kept; and what the server takes for a question *)
(* (backend/api/terminal.py, main.py).                                     *)
(*                                                                         *)
(* A question is a record of its hook and of everything the request sends. *)
(* Tickers are taken to be short (25 of ten letters fill the 256           *)
(* characters of a parameter) and to be of the server's TICKER_PATTERN.    *)
(***************************************************************************)
EXTENDS TerminalStore

PublicTickerLimit == 25

StripTickers == <<"SPY", "QQQ", "IWM", "^VIX">>

NewsProxies == <<"SPY", "QQQ", "IWM", "TLT", "GLD">>

-----------------------------------------------------------------------------
(* The hooks                                                               *)

\* useCleanTickers.  Tickers of a workspace are in upper case already.
Clean(tickers) == Distinct(Where(tickers, LAMBDA x : x # ""), AsTyped)

Plain(hook) == [hook |-> hook]

\* Hooks that ask of some tickers ask nothing of none.
OfTickers(hook, tickers) ==
  {q \in {[hook |-> hook, tickers |-> Clean(tickers)]} : q.tickers # <<>>}

UseBootstrapQuery(ticker, tickers) ==
  {[hook |-> "bootstrap", ticker |-> ticker, tickers |-> Clean(tickers)]}

UseSectorQuery(sector) ==
  IF sector = "" THEN {} ELSE {[hook |-> "sector", sector |-> sector]}

UseSecurityQuery(ticker, limit) ==
  {[hook |-> "security", ticker |-> ticker, limit |-> limit]}

UseIntradayQuery(ticker, interval, period) ==
  {[hook |-> "intraday", ticker |-> ticker, interval |-> interval, period |-> period]}

UseFundamentalsQuery(ticker) == {[hook |-> "fundamentals", ticker |-> ticker]}

UseSnapshotsQuery(tickers) == OfTickers("snapshots", tickers)

UseNewsQuery(tickers, scope, limit) ==
  {[hook |-> "news", tickers |-> q.tickers, scope |-> scope, limit |-> limit] :
     q \in OfTickers("news", tickers)}

UseEarningsQuery(tickers) == OfTickers("earnings", tickers)

UseLivePricesQuery(tickers) == OfTickers("live-prices", tickers)

UseHealthQuery == {Plain("health-live"), Plain("health-ready")}

\* Hooks with a refetchInterval, and hooks that leave refetchOnWindowFocus on.
PolledHooks ==
  {"workspace", "bootstrap", "monitor", "sector", "intraday", "snapshots", "news",
   "earnings", "live-prices", "sync-status", "freshness", "health-live", "health-ready"}

FocusedHooks == {"workspace", "monitor", "sector", "search"}

\* What useSyncMutation invalidates, in this order.
SyncRenews == <<"sync-status", "workspace", "security", "live-prices">>

\* terminalKeys: the fields of a question that are in its key.
TerminalKeys(hook) ==
  CASE hook = "bootstrap" -> {"ticker", "tickers"}
    [] hook \in {"snapshots", "earnings", "live-prices"} -> {"tickers"}
    [] hook = "news" -> {"scope", "tickers"}
    [] hook = "security" -> {"ticker", "limit"}
    [] hook = "intraday" -> {"ticker", "interval", "period"}
    [] hook \in {"workspace", "fundamentals"} -> {"ticker"}
    [] hook = "sector" -> {"sector"}
    [] OTHER -> {}

\* Mutation: the scope is not part of a key.
KeyWithoutScope(q) == [f \in {"hook"} \cup (TerminalKeys(q.hook) \ {"scope"}) |-> q[f]]

KeyOf(q) == [f \in {"hook"} \cup TerminalKeys(q.hook) |-> q[f]]

-----------------------------------------------------------------------------
(* The pages                                                               *)

\* TerminalShell, under every page.
ShellAsks ==
  UseHealthQuery \cup {Plain("sync-status"), Plain("freshness")}
  \cup UseLivePricesQuery(StripTickers)

Listed(w) == GetActiveWatchlist(w).symbols

BoardUniverse(w) == Take(Listed(w), 14) \o Take(w.recentTickers, 10)

\* movers: momentum leaders and breakouts, three of each.
DashboardAsks(w, movers) ==
  UseBootstrapQuery(w.activeTicker, BoardUniverse(w))
  \cup UseNewsQuery(Take(Clean(<<w.activeTicker>> \o Take(Listed(w), 5)
                               \o Take(w.recentTickers, 4)), 6), "dashboard", 10)
  \cup UseLivePricesQuery(Take(Listed(w), 6) \o Take(w.recentTickers, 6)
                          \o <<w.activeTicker>> \o Take(movers, 6))

MonitorAsks == {Plain("monitor")} \cup UseNewsQuery(NewsProxies, "monitor", 12)

SectorAsks(sector, members) ==
  UseSectorQuery(sector) \cup UseNewsQuery(Take(members, 8), "sector-" \o sector, 14)

Timeframes ==
  {[interval |-> "5m", period |-> "1d"], [interval |-> "15m", period |-> "5d"]}
  \cup {[days |-> d] : d \in {22, 66, 132, 252, 504}}

RequestedDailyBars(frame) ==
  IF "interval" \in DOMAIN frame THEN 132 ELSE Min({504, Max({132, frame.days})})

RelatedTickers(compared, ticker) == Take(Minus(compared, ticker), 3)

SecurityAsks(w, ticker, frame) ==
  UseSecurityQuery(ticker, RequestedDailyBars(frame))
  \cup UseEarningsQuery(<<ticker>>)
  \cup UseNewsQuery(<<ticker>> \o RelatedTickers(w.compareTickers, ticker), "security", 10)
  \cup UseLivePricesQuery(Take(Clean(<<ticker>> \o w.compareTickers), 6))
  \cup UseFundamentalsQuery(ticker)
  \cup (IF "interval" \notin DOMAIN frame THEN {}
        ELSE UseIntradayQuery(ticker, frame.interval, frame.period))

CompareAsks(w) ==
  UseSnapshotsQuery(w.compareTickers) \cup UseNewsQuery(w.compareTickers, "compare", 10)
  \cup UNION {UseSecurityQuery(ticker, 260) : ticker \in ToSet(w.compareTickers)}

WatchlistsAsks(w) ==
  UseSnapshotsQuery(Listed(w))
  \cup UseNewsQuery(Take(Listed(w), 10), "watchlist-" \o w.activeWatchlistId, 10)

NewsScopes(w) ==
  [ focus |-> <<w.activeTicker>>, watchlist |-> Take(Listed(w), 10),
    recent |-> Take(w.recentTickers, 10), market |-> NewsProxies \o <<"XLF">> ]

NewsMonitorAsks(w) ==
  UNION {UseNewsQuery(NewsScopes(w)[s], "news-" \o s, 24)
         \cup UseSnapshotsQuery(NewsScopes(w)[s]) : s \in DOMAIN NewsScopes(w)}

\* matches: what the last screen has found; Null before it.
ScreenerAsks(matches) ==
  UseNewsQuery(IF matches = Null THEN <<"SPY">> ELSE Take(matches, 5), "screener", 8)

BacktestAsks(ticker, matches) ==
  UseNewsQuery(<<ticker>> \o (IF matches = Null THEN <<>> ELSE Take(matches, 4)),
               "backtest", 8)

-----------------------------------------------------------------------------
(* The server                                                              *)

TickerLimit(hook) == IF hook \in {"news", "earnings"} THEN 12 ELSE PublicTickerLimit

\* What is not answered with 422.
Accepted(q) ==
  /\ "tickers" \in DOMAIN q => Len(q.tickers) <= TickerLimit(q.hook)
  /\ q.hook = "news" => Len(q.scope) \in 1..32 /\ q.limit \in 1..40
  /\ q.hook = "security" => q.limit \in 20..504
  /\ q.hook = "sector" => Len(q.sector) <= 64
  /\ q.hook = "intraday" =>
       q.interval \in {"1m", "5m", "15m", "30m", "1h"} /\ q.period \in {"1d", "5d", "1mo"}
=============================================================================
