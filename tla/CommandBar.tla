------------------------------ MODULE CommandBar ------------------------------
(***************************************************************************)
(* The command line of the terminal (frontend/src/lib/commands.ts and      *)
(* components/command/CommandBar.tsx) and the keys of the shell around it  *)
(* (components/layout/TerminalShell.tsx): what a command does to the       *)
(* workspace and to the route, the search behind the field, the syncs      *)
(* commands have started, and the arrival at a page.  The router changes   *)
(* routes in a transition: until the page, which may have to be loaded,    *)
(* has been rendered the one before it stays, with its keys and links, and *)
(* may lead elsewhere; the effects of a page run when it has been.         *)
(*                                                                         *)
(* A command is a member of Text; Tokens gives the words of it that        *)
(* parseTerminalCommand sees.  Notices are left out.                       *)
(***************************************************************************)
EXTENDS TerminalStore

CONSTANTS
  Tokens,        \* [Text -> sequences of words], trimmed and in upper case
  TickerTokens,  \* the words isTickerToken accepts
  Typed,         \* what a user puts into the field
  Hints,         \* COMMAND_HINTS
  Links,         \* tickers the pages link to
  Hits,          \* what the server's search knows: first word -> tickers
  Gone,          \* a field of an answer that is not there: undefined
  MaxKeys,       \* bound: things the user does in a behaviour
  MaxSyncs       \* bound: syncs under way

\* A g and LAST lead back: at least two symbols are recent.
ASSUME RecentAssumption == RecentLimit > 1

ASSUME VocabularyAssumption ==
  /\ Tokens \in [Text -> Seq(STRING)]
  /\ {""} \cup Typed \cup Hints \cup Links \cup TickerTokens \subseteq Text
  /\ \A x \in DOMAIN Hits :
       Hits[x] \in Seq(Text) /\ \A i \in DOMAIN Hits[x] : Hits[x][i] \o " DES" \in Text

VARIABLES
  work,          \* the store
  route,         \* where the last navigation leads: <<path, ticker>>
  rendered,      \* the route of the page that is shown
  commandValue, debounced, activeIndex,
  found,         \* cache of the search: word -> tickers or Gone
  syncing,       \* commands whose sync the server has not answered, oldest first
  typing,        \* the field has the focus
  gPending,      \* the shell has seen a g
  trail,         \* history: the securities shown, latest first, at most two
  overtaken,     \* history: since the last of them a page was left before it
                 \* was shown
  keys

place == <<route, rendered, trail, overtaken>>

barVars == <<work, place, commandValue, debounced, activeIndex, found, syncing,
             typing, gPending, keys>>

field == <<commandValue, debounced, activeIndex>>

At(path) == <<path, Gone>>

Security(ticker) == <<"/security", ticker>>

-----------------------------------------------------------------------------
(* parseTerminalCommand                                                    *)

WordRoutes ==
  [ MON |-> "/monitor", MONITOR |-> "/monitor",
    WATCHLIST |-> "/watchlists", WATCHLISTS |-> "/watchlists",
    EQS |-> "/screener", SCREEN |-> "/screener",
    PORT |-> "/backtest", BT |-> "/backtest", BKT |-> "/backtest",
    HOME |-> "/", DASH |-> "/" ]

\* These words are a route when nothing follows them.
LoneRoutes == [ WL |-> "/watchlists", NEWS |-> "/news" ]

Invalid == [kind |-> "invalid"]

Parsed(t) ==
  LET n == Len(t)
      Word(i, words) == n >= i /\ t[i] \in words
      IsTicker(i) == Word(i, TickerTokens)
      tickers == Where(Tail(t), LAMBDA x : x \in TickerTokens)
      Watch(action) == [kind |-> "watchlist", action |-> action, ticker |-> t[3]]
      Shown(i) == [kind |-> "security", ticker |-> t[i]]
  IN IF n = 0 THEN Invalid
     ELSE IF Word(1, DOMAIN WordRoutes) THEN [kind |-> "route", path |-> WordRoutes[t[1]]]
     ELSE IF n = 1 /\ Word(1, DOMAIN LoneRoutes)
          THEN [kind |-> "route", path |-> LoneRoutes[t[1]]]
     ELSE IF t[1] = "LAST" THEN [kind |-> "history"]
     ELSE IF t[1] \in {"HELP", "?"} THEN [kind |-> "help"]
     ELSE IF t[1] = "SYNC" THEN [kind |-> "sync", tickers |-> tickers]
     ELSE IF t = <<"WATCH">> THEN [kind |-> "watchlist", action |-> "show", ticker |-> Gone]
     ELSE IF Word(1, {"WL", "WATCH"}) /\ Word(2, {"ADD", "+"}) /\ IsTicker(3)
          THEN Watch("add")
     ELSE IF Word(1, {"WL", "WATCH"}) /\ Word(2, {"RM", "DEL", "-"}) /\ IsTicker(3)
          THEN Watch("remove")
     ELSE IF t[1] \in {"COMP", "COMPARE"}
          THEN IF tickers = <<>> THEN [kind |-> "route", path |-> "/compare"]
               ELSE [kind |-> "compare", tickers |-> tickers]
     ELSE IF t[1] = "AI" THEN Invalid
     ELSE IF t[1] = "NEWS" /\ IsTicker(2) THEN Shown(2)
     ELSE IF IsTicker(1) /\ (n = 1 \/ (n = 2 /\ t[2] = "DES")) THEN Shown(1)
     ELSE IF n = 2 /\ t[1] = "DES" /\ IsTicker(2) THEN Shown(2)
     ELSE Invalid

Parse(command) == Parsed(Tokens[command])

-----------------------------------------------------------------------------
(* Routes                                                                  *)

\* Mutation: the page leaves the recent symbols to those who navigate to it.
ArrivedUnnoticed(w, r) ==
  IF r[1] # "/security" THEN SetLastRoute(w, r[1])
  ELSE SetLastRoute(SetActiveTicker(w, r[2]), r[1])

\* What the effects of the shell and of SecurityPage do.
Arrived(w, r) ==
  IF r[1] # "/security" THEN SetLastRoute(w, r[1])
  ELSE SetLastRoute(AddRecentTicker(SetActiveTicker(w, r[2]), r[2]), r[1])

\* navigate: the store is w by then.
Goes(w, r) ==
  /\ route' = r /\ work' = w
  /\ overtaken' = (overtaken \/ (r # route /\ rendered # route))
  /\ UNCHANGED <<rendered, trail>>

\* The shell's key handler is made anew, without its pending g, when the
\* active ticker or the recent ones change.
KeepsHandler ==
  /\ work'.activeTicker = work.activeTicker
  /\ work'.recentTickers = work.recentTickers

\* recentTickers.find((ticker) => ticker !== recentTickers[0])
Previous(recents) ==
  LET others == Minus(recents, recents[1])
  IN IF recents = <<>> \/ others = <<>> THEN Gone ELSE others[1]

Uses == keys < MaxKeys /\ keys' = keys + 1

BarInit ==
  /\ work = InitialStore /\ route = At("/") /\ rendered = route /\ overtaken = FALSE
  /\ commandValue = "" /\ debounced = "" /\ activeIndex = 1
  /\ found = [x \in DOMAIN Hits |-> Gone]
  /\ syncing = <<>> /\ typing = FALSE /\ gPending = FALSE /\ trail = <<>> /\ keys = 0

-----------------------------------------------------------------------------
(* executeTerminalCommand                                                  *)

\* Mutation: what was typed is remembered whether or not it could be run.
RanAlways(c, ok, w, r) ==
  /\ Goes(AddRecentCommand(w, c), r)
  /\ commandValue' = IF ok THEN "" ELSE commandValue
  /\ UNCHANGED syncing

\* ok: the command becomes a recent one and the field is emptied.
Ran(c, ok, w, r) ==
  /\ Goes(IF ok THEN AddRecentCommand(w, c) ELSE w, r)
  /\ commandValue' = IF ok THEN "" ELSE commandValue
  /\ UNCHANGED syncing

Submit(c) ==
  LET command == Parse(c)
      previous == Previous(work.recentTickers)
  IN /\ \/ command.kind = "invalid" /\ Ran(c, FALSE, work, route)
        \/ command.kind = "help" /\ Ran(c, TRUE, work, route)
        \/ /\ command.kind = "history"
           /\ IF previous = Gone THEN Ran(c, FALSE, work, route)
              ELSE Ran(c, TRUE, work, Security(previous))
        \/ /\ command.kind = "watchlist"
           /\ Ran(c, TRUE, IF command.action = "show" THEN work
                           ELSE ToggleWatchlist(work, command.ticker, work.activeWatchlistId),
                  route)
        \/ /\ command.kind = "compare"
           /\ Ran(c, TRUE, SetCompareTickers(work, command.tickers \o work.compareTickers),
                  Security(command.tickers[1]))
        \/ command.kind = "route" /\ Ran(c, TRUE, work, At(command.path))
        \/ /\ command.kind = "security"
           /\ Ran(c, TRUE, SetActiveTicker(work, command.ticker), Security(command.ticker))
        \/ /\ command.kind = "sync" /\ Len(syncing) < MaxSyncs
           /\ syncing' = Append(syncing, c)
           /\ UNCHANGED <<work, place, commandValue>>
     /\ gPending' = (gPending /\ KeepsHandler)
     /\ Uses

\* The answer to any of them: the command that asked is now a recent one,
\* and the field is emptied of what it holds by now.
SyncAnswered ==
  \E i \in DOMAIN syncing :
    /\ work' = AddRecentCommand(work, syncing[i])
    /\ commandValue' = ""
    /\ syncing' = RemoveAt(syncing, i)
    /\ UNCHANGED <<place, debounced, activeIndex, found, typing, gPending, keys>>

SyncFailed ==
  \E i \in DOMAIN syncing :
    /\ syncing' = RemoveAt(syncing, i)
    /\ UNCHANGED <<work, place, field, found, typing, gPending, keys>>

-----------------------------------------------------------------------------
(* The field                                                               *)

FirstToken == IF Tokens[debounced] = <<>> THEN "" ELSE Tokens[debounced][1]

SearchEnabled == FirstToken # "" /\ Parse(commandValue).kind = "invalid"

\* searchQuery.data: what is cached is shown whether or not the search is
\* enabled.
SearchResults ==
  IF FirstToken \notin DOMAIN found \/ found[FirstToken] = Gone THEN <<>>
  ELSE found[FirstToken]

Des(ticker) == ticker \o " DES"

CommandResults ==
  IF Tokens[commandValue] = <<>> THEN work.recentCommands
  ELSE Mapped(SearchResults, Des)

Types ==
  /\ typing /\ Uses
  /\ commandValue' \in Typed \ {commandValue}
  /\ UNCHANGED <<work, place, debounced, activeIndex, found, syncing, typing, gPending>>

Debounce ==
  /\ debounced # commandValue
  /\ debounced' = commandValue /\ activeIndex' = 1
  /\ UNCHANGED <<work, place, commandValue, found, syncing, typing, gPending, keys>>

SearchAnswered ==
  /\ SearchEnabled /\ FirstToken \in DOMAIN found /\ found[FirstToken] = Gone
  /\ found' = [found EXCEPT ![FirstToken] = Hits[FirstToken]]
  /\ UNCHANGED <<work, place, field, syncing, typing, gPending, keys>>

\* Five minutes after the field has left the word.
SearchForgotten ==
  /\ \E x \in DOMAIN found :
       /\ x # FirstToken /\ found[x] # Gone
       /\ found' = [found EXCEPT ![x] = Gone]
  /\ UNCHANGED <<work, place, field, syncing, typing, gPending, keys>>

\* The highlighted result goes before what the field says.
Enter ==
  /\ typing
  /\ Submit(IF activeIndex \in DOMAIN CommandResults THEN CommandResults[activeIndex]
            ELSE commandValue)
  /\ UNCHANGED <<debounced, activeIndex, found, typing>>

Arrow ==
  /\ typing /\ CommandResults # <<>> /\ Uses
  /\ \/ activeIndex' = Min({activeIndex + 1, Len(CommandResults)})
     \/ activeIndex' = Max({activeIndex - 1, 1})
  /\ UNCHANGED <<work, place, commandValue, debounced, found, syncing, typing, gPending>>

Escape ==
  /\ typing /\ commandValue # "" /\ commandValue' = ""
  /\ UNCHANGED <<work, place, debounced, activeIndex, found, syncing, typing, gPending, keys>>

\* A hint, or a result under the mouse; the field loses the focus.
Clicked ==
  /\ \/ \E hint \in Hints : Submit(hint)
     \/ \E i \in DOMAIN CommandResults : Submit(CommandResults[i])
  /\ typing' = FALSE
  /\ UNCHANGED <<debounced, activeIndex, found>>

Blur ==
  /\ typing /\ typing' = FALSE
  /\ UNCHANGED <<work, place, field, found, syncing, gPending, keys>>

-----------------------------------------------------------------------------
(* The shell                                                               *)

\* "/" or control-L; a pending g stays pending.
FocusCommandBar ==
  /\ ~typing /\ typing' = TRUE
  /\ UNCHANGED <<work, place, field, found, syncing, gPending, keys>>

PressG ==
  /\ ~typing /\ gPending' = TRUE /\ Uses
  /\ UNCHANGED <<work, place, field, found, syncing, typing>>

\* 1.5 seconds.
GForgotten ==
  /\ gPending /\ gPending' = FALSE
  /\ UNCHANGED <<work, place, field, found, syncing, typing, keys>>

NavPaths == {"/", "/monitor", "/watchlists", "/compare", "/news", "/screener", "/backtest"}

\* The key after a g, of which one that leads nowhere is used up as well.
PressDest ==
  /\ ~typing /\ gPending /\ gPending' = FALSE /\ Uses
  /\ \/ \E path \in NavPaths : Goes(work, At(path))
     \/ Goes(work, Security(work.activeTicker))
     \/ UNCHANGED <<work, place>>
  /\ UNCHANGED <<field, found, syncing, typing>>

\* Alt and a digit, or "[".
Jump ==
  /\ ~typing /\ ~gPending /\ Uses
  /\ \/ \E path \in NavPaths : Goes(work, At(path))
     \/ /\ Previous(work.recentTickers) # Gone
        /\ Goes(work, Security(Previous(work.recentTickers)))
  /\ UNCHANGED <<field, found, syncing, typing, gPending>>

\* The navigation strip and the links of the pages.
FollowLink ==
  /\ Uses
  /\ \/ \E path \in NavPaths : Goes(work, At(path))
     \/ \E ticker \in Links : Goes(work, Security(ticker))
  /\ typing' = FALSE /\ gPending' = (gPending /\ KeepsHandler)
  /\ UNCHANGED <<field, found, syncing>>

\* The page of the route has been rendered, and its effects run. Where the
\* navigation led back to the page that is shown there is nothing to run.
Arrives ==
  /\ rendered # route /\ rendered' = route
  /\ work' = Arrived(work, route)
  /\ trail' = IF route[1] = "/security" /\ (trail = <<>> \/ trail[1] # Upper[route[2]])
              THEN Take(<<Upper[route[2]]>> \o trail, 2) ELSE trail
  /\ overtaken' = (overtaken /\ route[1] # "/security")
  /\ gPending' = (gPending /\ KeepsHandler)
  /\ UNCHANGED <<route, field, found, syncing, typing, keys>>

BarNext ==
  \/ Types \/ Debounce \/ SearchAnswered \/ SearchForgotten
  \/ Enter \/ Arrow \/ Escape \/ Clicked \/ Blur
  \/ SyncAnswered \/ SyncFailed
  \/ FocusCommandBar \/ PressG \/ GForgotten \/ PressDest \/ Jump \/ FollowLink
  \/ Arrives

BarSpec == BarInit /\ [][BarNext]_barVars

-----------------------------------------------------------------------------
(* Properties                                                              *)

\* The command bar keeps to its limits, and what it highlights is a line of
\* the list or none.
BarTypeOK ==
  /\ commandValue \in Typed \cup {""} /\ debounced \in Typed \cup {""}
  /\ activeIndex \in Nat \ {0} /\ Len(syncing) <= MaxSyncs
  /\ typing \in BOOLEAN /\ gPending \in BOOLEAN /\ keys \in 0..MaxKeys
  /\ Len(work.recentCommands) <= RecentLimit
  /\ Len(work.recentTickers) <= RecentLimit /\ IsInjective(work.recentTickers)
  /\ Len(work.compareTickers) <= CompareLimit

\* "[", LAST and g s have no history of their own: they read the recent and
\* the active symbols.  The first two lead to the security shown before
\* whatever way the pages were reached: a command, a search result, a key, a
\* link, with routes between them and others that were left before their page
\* was there.  So does g s lead to the one shown last, once the page at hand is
\* there; but a command makes its security the active one at once, and that it
\* stays if its page is left before it is shown (CommandBar.tsx:104).
RecentsFollowRoutes ==
  /\ trail # <<>> => work.recentTickers[1] = trail[1]
  /\ Len(trail) = 2 => Previous(work.recentTickers) = trail[2]
  /\ trail # <<>> /\ rendered = route /\ ~overtaken => work.activeTicker = trail[1]

\* A command becomes a recent one, which Enter on the empty field runs again,
\* only if it can be run: a sync joins them when it is answered, by when the
\* field may hold something else, and a search result by its own command.
RecentsRun ==
  \A i \in DOMAIN work.recentCommands : Parse(work.recentCommands[i]).kind # "invalid"

-----------------------------------------------------------------------------
(* Why they hold                                                           *)

Runnable == {c \in Text : Parse(c).kind # "invalid"}

\* What is remembered, and what a sync that is under way will have remembered,
\* can be run; what is on offer was typed, remembered or found.
CommandsInv ==
  /\ DOMAIN work = DOMAIN InitialStore
  /\ commandValue \in Text
  /\ work.recentCommands \in Seq(Runnable) /\ syncing \in Seq(Runnable)
  /\ DOMAIN found = DOMAIN Hits
  /\ \A x \in DOMAIN found : found[x] \in {Gone, Hits[x]}

\* The two securities shown last are the two recent ones; the one at hand is
\* the active one, or that of the page on its way is.
RecentsInv ==
  /\ DOMAIN work = DOMAIN InitialStore
  /\ work.activeTicker \in Symbol /\ IsSymbols(work.recentTickers, RecentLimit)
  /\ trail \in Seq(Symbol) /\ Len(trail) <= 2
  /\ route[1] = "/security" => route[2] \in Text
  /\ rendered[1] = "/security" => trail # <<>> /\ trail[1] = Upper[rendered[2]]
  /\ trail # <<>> => work.recentTickers # <<>> /\ work.recentTickers[1] = trail[1]
  /\ trail # <<>> /\ ~overtaken =>
       \/ work.activeTicker = trail[1]
       \/ /\ rendered # route /\ route[1] = "/security"
          /\ work.activeTicker = Upper[route[2]]
  /\ Len(trail) = 2 =>
       /\ Len(work.recentTickers) > 1 /\ work.recentTickers[2] = trail[2]
       /\ trail[1] # trail[2]
=============================================================================
