----------------------------- MODULE MarketViews -----------------------------
(***************************************************************************)
(* What the pages make of the answers: the security page, which keeps its  *)
(* last answer while another range of bars is on its way, the compare      *)
(* page, which draws whatever bars are there, and the dashboard, which     *)
(* fills gaps with demo data (frontend/src/pages,                          *)
(* frontend/src/lib/demoMarket.ts); and what the pages' questions are to   *)
(* the cache and to the server.                                            *)
(***************************************************************************)
EXTENDS QueryCache, Questions

CONSTANTS
  Bars,      \* the keys of a security's bars, and
  TickerOf,  \* whose they are
  Bootstrap, \* the key of the dashboard's answer
  Known,     \* tickers the server has snapshots of
  Recents,   \* recentTickers
  DemoItems, \* the tickers of demoItems
  Monitor,   \* the key of the monitor's answer
  Compared,  \* the keys of the compare page's bars, in the order of its tickers
  Demo,      \* demo values
  Stores,    \* workspaces a user may have
  Rows,      \* tickers of the server's tables
  Sectors,
  PathOf     \* the path of a route

ASSUME ViewsAssumption ==
  /\ Demo \notin Nat \cup {None}
  \* None is not an answer.
  /\ None \notin [of : {TickerOf[k] : k \in Bars}, world : Nat]
  /\ Compared \in Seq(Keys)
  \* SecurityPage asks for the bars of one range.
  /\ \A p \in Pages : \A j, k \in Asks[p] \cap Bars : j = k

ASSUME PathAssumption ==
  {PathOf[p] : p \in DOMAIN PathOf} \subseteq
    {"/", "/monitor", "/sector", "/security", "/compare", "/watchlists", "/news",
     "/screener", "/backtest"}

\* The scopes under which the pages ask for headlines. Strings with different
\* beginnings are different.
PageScopes == {"dashboard", "monitor", "security", "compare", "screener", "backtest"}
SectorScopes == {"sector-" \o sector : sector \in Sectors}
ListScopes == {"watchlist-" \o w.activeWatchlistId : w \in Stores}
NewsPageScopes == {"news-" \o s : s \in {"focus", "watchlist", "recent", "market"}}

ASSUME ScopeAssumption ==
  /\ PageScopes \cap (SectorScopes \cup ListScopes \cup NewsPageScopes) = {}
  /\ SectorScopes \cap (ListScopes \cup NewsPageScopes) = {}
  /\ ListScopes \cap NewsPageScopes = {}

VARIABLE last  \* the last answer the security page has had, or None

viewsVars == <<queryVars, last>>

BarsOf(p) == Asks[p] \cap Bars

Answered(k) == [of |-> TickerOf[k], world |-> data[k].about]

\* The query's observer, which lives as long as the page.
Observes ==
  last' = IF BarsOf(page') = {} THEN None
          ELSE LET k == CHOOSE x \in BarsOf(page') : TRUE
               IN IF data'[k] # None
                  THEN [of |-> TickerOf[k], world |-> data'[k].about]
                  ELSE last

ViewsInit == QueryInit /\ last = None

ViewsNext == QueryNext /\ Observes

ViewsSpec == ViewsInit /\ [][ViewsNext]_viewsVars

FairViewsSpec == ViewsSpec /\ QueryFairness

-----------------------------------------------------------------------------
\* Mutation: the placeholder of any ticker will do.
AnyPlaceholder(k) == last # None /\ ~failed[k]

\* placeholderData, while the query is pending.
Placeholder(k) == last # None /\ ~failed[k] /\ last.of = TickerOf[k]

\* SecurityPage's securityData.
SecurityShown(k) ==
  IF data[k] # None THEN Answered(k)
  ELSE IF Placeholder(k) THEN last
  ELSE [of |-> TickerOf[k], world |-> Demo]

Shown == {SecurityShown(k) : k \in BarsOf(page)}

\* SecurityPage's degraded: the ribbon over the page.
SecurityDegraded(k) == (data[k] = None /\ ~Placeholder(k)) \/ failed[k]

\* Mutation: only a page that waits for its first answer says so.
Waiting(k) == data[k] = None /\ ~failed[k]

\* degraded of MonitorPage and of DashboardPage.
Degraded(k) == data[k] = None \/ failed[k]

\* The answer, or demoMonitor and demoOverview.
OrDemo(k) == IF data[k] # None THEN data[k].about ELSE Demo

Ready == Where(Compared, LAMBDA k : data[k] # None)

\* The compare page's line for the i-th ticker: what the i-th of the answers
\* that are there holds, drawn under that ticker's name.
Charted(i) ==
  IF Ready = <<>> THEN [of |-> TickerOf[Compared[i]], world |-> Demo]
  ELSE IF i \in DOMAIN Ready THEN Answered(Ready[i])
  ELSE [of |-> TickerOf[Compared[i]], world |-> None]

\* ComparePage's degraded.
CompareDegraded(ks) == \A k \in ks : failed[k] \/ data[k] = None

\* The dashboard's recents: a row per ticker, from a map over the server's
\* snapshots and then demoItems, the last of which counts.
RecentShown(ticker) ==
  IF ticker \in DemoItems THEN Demo
  ELSE IF data[Bootstrap] # None /\ ticker \in Known THEN data[Bootstrap].about
  ELSE None

\* The page of a security shows that security, never the one before it, and
\* once it has its bars it goes on showing bars, not demo data, while other
\* ranges are asked for and answers are late, until an answer fails.
BarsStay ==
  [][/\ \A next \in Shown' : next.of \in {TickerOf[k] : k \in BarsOf(page')}
     /\ \A shown \in Shown, next \in Shown' :
          /\ shown.of = next.of /\ shown.world # Demo
          /\ ~\E k \in BarsOf(page') : failed'[k]
          => next.world # Demo]_viewsVars

\* Where a page shows demo data as the market's, its ribbon is there to say
\* so, and it goes when the server's data are there.  Of the dashboard this is
\* true of its overview only: the next property shows it of the recents, and
\* the rows of its watchlist (DashboardPage.tsx:138), like the snapshots of the
\* comparison (ComparePage.tsx:70), are outside it.
DemoIsAnnounced ==
  /\ \A k \in BarsOf(page) :
       /\ SecurityShown(k).world = Demo => SecurityDegraded(k)
       /\ SecurityDegraded(k) => SecurityShown(k).world = Demo \/ failed[k]
  /\ \A k \in {Monitor, Bootstrap} \cap Mounted :
       /\ OrDemo(k) = Demo => Degraded(k)
       /\ Degraded(k) => OrDemo(k) = Demo \/ failed[k]
  /\ ToSet(Compared) \subseteq Mounted =>
       \A i \in DOMAIN Compared :
         Charted(i).world = Demo => CompareDegraded(ToSet(Compared))

\* The questions of a page, from a workspace w; before or after an answer it
\* goes by.
PageAsks(path, w) ==
  ShellAsks \cup
  CASE path = "/" -> DashboardAsks(w, Rows)
    [] path = "/monitor" -> MonitorAsks
    [] path = "/sector" -> UNION {SectorAsks(sector, Rows) : sector \in Sectors}
    [] path = "/security" -> UNION {SecurityAsks(w, w.activeTicker, f) : f \in Timeframes}
    [] path = "/compare" -> CompareAsks(w)
    [] path = "/watchlists" -> WatchlistsAsks(w)
    [] path = "/news" -> NewsMonitorAsks(w)
    [] path = "/screener" -> UNION {ScreenerAsks(m) : m \in {Null, Rows}}
    [] path = "/backtest" -> UNION {BacktestAsks(w.activeTicker, m) : m \in {Null, Rows}}

Paths == Range(PathOf)

Clashing ==
  LET asks == [path \in Paths |-> UNION {PageAsks(path, w) : w \in Stores}]
  IN {path \in Paths : \E q \in asks[path], r \in UNION Range(asks) :
        KeyOf(q) = KeyOf(r) /\ q # r}

\* A page shares an answer with another one, or with itself after a change of
\* the workspace, only if they asked the same: the keys leave out how many
\* headlines are wanted, which differs from page to page.
SharedAnswersFit == PathOf[page] \notin Clashing

\* README.md:74: "The Vite frontend uses deterministic demo market data when
\* the corresponding API state is unavailable", and otherwise what it has.
DemoOnlyWhenUnavailable ==
  Bootstrap \in Mounted /\ data[Bootstrap] # None =>
    \A ticker \in Recents \cap Known : RecentShown(ticker) # Demo

-----------------------------------------------------------------------------
\* Why they hold: what the security page has had last is of some world, and
\* it is the answer of the range at hand if that is there.
LastInv ==
  /\ last = None \/ last.world \in Nat
  /\ \A k \in BarsOf(page) : data[k] # None => last = Answered(k)
=============================================================================
