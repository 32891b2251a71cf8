------------------------------ MODULE MCViews ------------------------------
(***************************************************************************)
(* A small instance of MarketViews for TLC.  A behaviour goes between a    *)
(* few routes: from a security to another page under the same shell, to    *)
(* another range of one security and back, to another security, between a  *)
(* page with no data and the monitor or the dashboard; or it stays at the  *)
(* comparison of two tickers.                                              *)
(***************************************************************************)
EXTENDS MarketViews

MCCompared == <<"A 260", "B 260">>

MCPages == {"security", "news", "A 6M", "A 2Y", "A 6M again", "B", "C", "monitor", "screener", "dash",
            "compare", "sector", "watchlists", "backtest"}

MCAsks == [p \in MCPages |->
  CASE p = "security" -> {"status", "bars"}
    [] p = "news" -> {"status"}
    [] p \in {"A 6M", "A 6M again"} -> {"A 132"}
    [] p = "A 2Y" -> {"A 504"}
    [] p = "B" -> {"B 132"}
    [] p = "C" -> {"C 132"}
    [] p = "monitor" -> {"monitor"}
    [] p = "dash" -> {"bootstrap"}
    [] p = "compare" -> ToSet(MCCompared)
    [] OTHER -> {}]

MCPathOf == [p \in MCPages |->
  CASE p \in {"security", "A 6M", "A 2Y", "A 6M again", "B", "C"} -> "/security"
    [] p = "dash" -> "/"
    [] OTHER -> "/" \o p]

MCKeys == UNION {MCAsks[p] : p \in MCPages}

Linked(p, q) == {<<p, q>>, <<q, p>>}

MCLinks ==
  {<<"security", "news">>, <<"B", "C">>, <<"A 6M", "A 2Y">>, <<"A 2Y", "A 6M again">>}
  \cup Linked("monitor", "screener") \cup Linked("dash", "backtest")

MCBars == {"bars", "A 132", "A 504", "B 132", "C 132"}

MCTickerOf == [k \in MCBars \cup ToSet(MCCompared) |->
  CASE k \in {"B 132", "B 260"} -> "B" [] k = "C 132" -> "C" [] OTHER -> "A"]

MCHook == [k \in MCKeys |->
  CASE k = "status" -> "sync-status"
    [] k \in DOMAIN MCTickerOf -> "security"
    [] OTHER -> k]

MCPolled == {k \in MCKeys : MCHook[k] \in PolledHooks}

\* ComparePage does not ask through the hook and leaves the default.
MCFocused == {k \in MCKeys : MCHook[k] \in FocusedHooks} \cup ToSet(MCCompared)

MCRenewed ==
  SelectSeq([i \in DOMAIN SyncRenews |-> {k \in MCKeys : MCHook[k] = SyncRenews[i]}],
            LAMBDA ks : ks # {})

\* /terminal/sync-status; and, a bound, the compare page's bars, of which the
\* properties ask only whether they are there.
MCDirect == {k \in MCKeys : MCHook[k] = "sync-status"} \cup ToSet(MCCompared)

-----------------------------------------------------------------------------
(* Workspaces: the first one, one with one symbol everywhere, and one whose *)
(* lists are full and have nothing in common.                              *)

Numbers(word, n) == [i \in 1..n |-> word \o ToString(i)]

MCCore == <<"SPY", "QQQ", "NVDA">>
MCRecents == <<"SPY", "QQQ">>

Full ==
  [InitialStore EXCEPT
     !.watchlists = <<[id |-> "core", name |-> "Core", symbols |-> Numbers("L", ListLimit)]>>,
     !.recentTickers = Numbers("R", RecentLimit),
     !.compareTickers = Numbers("C", CompareLimit),
     !.activeTicker = "A"]

One ==
  [InitialStore EXCEPT
     !.watchlists[1].symbols = <<"SPY">>, !.recentTickers = <<"SPY">>,
     !.compareTickers = <<"SPY">>]

MCStores ==
  {InitialStore, One, Full, [Full EXCEPT !.watchlists[1].symbols = Take(@, PublicTickerLimit)]}

MCRows == Numbers("M", 10)

MCText == {"SPY", "QQQ", "NVDA"}
MCUpper == [x \in MCText |-> x]
=============================================================================
