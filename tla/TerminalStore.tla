---------------------------- MODULE TerminalStore ----------------------------
(***************************************************************************)
(* The front end's workspace (frontend/src/state/terminalStore.ts): the    *)
(* actions of the store as operators on a workspace w, what partialize     *)
(* keeps of it in localStorage, and the merge that makes a workspace of    *)
(* whatever localStorage holds.                                            *)
(*                                                                         *)
(* The times of saving and the names of saved sets and drafts are left     *)
(* out; the fields of the command bar are in CommandBar.  Text is drawn as *)
(* it is after trim().                                                     *)
(***************************************************************************)
EXTENDS Integers, Lists, FiniteSets, SequencesExt, TLC

CONSTANTS
  Text,          \* tickers and commands as they are typed or stored
  Upper,         \* toUpperCase
  CoreSymbols, MacroSymbols, FirstCompare, FirstRecents,  \* the defaults
  ListLimit, RecentLimit, CompareLimit, SavedLimit,       \* 40, 12, 8, 12
  Junk,          \* stored data of no usable type
  Null           \* null or undefined

ASSUME TextAssumption ==
  /\ Upper \in [Text -> Text]
  /\ \A x \in Text : Upper[Upper[x]] = Upper[x]

ASSUME LimitAssumption ==
  {ListLimit, RecentLimit, CompareLimit, SavedLimit} \subseteq Nat \ {0}

\* Tickers as the store keeps them, and a list of some of them.
Symbol == {x \in Text : Upper[x] = x}

IsSymbols(s, limit) == s \in Seq(Symbol) /\ Len(s) <= limit /\ IsInjective(s)

ASSUME DefaultsAssumption ==
  /\ "SPY" \in Symbol
  /\ IsSymbols(CoreSymbols, ListLimit) /\ IsSymbols(MacroSymbols, ListLimit)
  /\ IsSymbols(FirstCompare, CompareLimit) /\ IsSymbols(FirstRecents, RecentLimit)

AsTyped(x) == x

InUpper(x) == Upper[x]

\* Mutation: one more than the limit.
UniqHeadOver(items, limit) ==
  Take(Distinct(Mapped(items, InUpper), AsTyped), limit + 1)

UniqHead(items, limit) == Take(Distinct(Mapped(items, InUpper), AsTyped), limit)

\* Commands are compared in upper case and kept as they were typed.
UniqCommands(items, limit) ==
  Take(Distinct(Where(items, LAMBDA x : x # ""), InUpper), limit)

DefaultWatchlists ==
  << [id |-> "core", name |-> "Core", symbols |-> CoreSymbols],
     [id |-> "macro", name |-> "Macro", symbols |-> MacroSymbols] >>

InitialStore ==
  [ activeTicker |-> "SPY", watchlists |-> DefaultWatchlists,
    activeWatchlistId |-> "core", recentTickers |-> FirstRecents,
    compareTickers |-> FirstCompare, savedCompareSets |-> <<>>,
    recentCommands |-> <<>>, savedScreens |-> <<>>, savedBacktests |-> <<>>,
    watchlistAnnotations |-> <<>>, lastRoute |-> "/" ]

-----------------------------------------------------------------------------
(* Actions                                                                 *)

SetActiveTicker(w, ticker) == [w EXCEPT !.activeTicker = Upper[ticker]]

AddRecentTicker(w, ticker) ==
  [w EXCEPT !.recentTickers = UniqHead(<<ticker>> \o @, RecentLimit)]

AddRecentCommand(w, command) ==
  [w EXCEPT !.recentCommands = UniqCommands(<<command>> \o @, RecentLimit)]

SetLastRoute(w, route) == [w EXCEPT !.lastRoute = route]

SetActiveWatchlist(w, id) == [w EXCEPT !.activeWatchlistId = id]

Numbered(name, word, n) == IF name = "" THEN word \o ToString(n) ELSE name

CreateWatchlist(w, id, name) ==
  [w EXCEPT
     !.watchlists = Append(@, [id |-> id, symbols |-> <<>>,
                               name |-> Numbered(name, "Watchlist ", Len(@) + 1)]),
     !.activeWatchlistId = id]

\* The lists with id changed; ids of a damaged workspace may repeat.
WithList(lists, id, Change(_)) ==
  Mapped(lists, LAMBDA list : IF list.id = id THEN Change(list) ELSE list)

RenameWatchlist(w, id, name) ==
  [w EXCEPT !.watchlists = WithList(@, id, LAMBDA list :
     [list EXCEPT !.name = IF name = "" THEN @ ELSE name])]

HasList(lists, id) == \E i \in DOMAIN lists : lists[i].id = id

\* Mutation: the active list may be the one that goes.
DeleteWatchlistOnly(w, id) ==
  [w EXCEPT !.watchlists = Where(@, LAMBDA list : list.id # id)]

DeleteWatchlist(w, id) ==
  LET remaining == Where(w.watchlists, LAMBDA list : list.id # id)
      next == IF remaining = <<>> THEN Take(DefaultWatchlists, 1) ELSE remaining
  IN [w EXCEPT !.watchlists = next,
               !.activeWatchlistId = IF HasList(next, @) THEN @ ELSE next[1].id]

Toggled(symbols, symbol, limit) ==
  IF Contains(symbols, symbol) THEN Minus(symbols, symbol)
  ELSE UniqHead(<<symbol>> \o symbols, limit)

ToggleWatchlist(w, ticker, id) ==
  [w EXCEPT !.watchlists = WithList(@, id, LAMBDA list :
     [list EXCEPT !.symbols = Toggled(@, Upper[ticker], ListLimit)])]

SetCompareTickers(w, tickers) ==
  [w EXCEPT !.compareTickers = UniqHead(tickers, CompareLimit)]

ToggleCompareTicker(w, ticker) ==
  [w EXCEPT !.compareTickers = Toggled(@, Upper[ticker], CompareLimit)]

\* saveCompareSet, saveScreenDraft and saveBacktestDraft put the new one first.
Saved(items, item) == Take(<<item>> \o items, SavedLimit)

Without(items, id) == Where(items, LAMBDA item : item.id # id)

SaveCompareSet(w, id, tickers) ==
  [w EXCEPT !.savedCompareSets =
     Saved(@, [id |-> id, tickers |-> UniqHead(tickers, CompareLimit)])]

DeleteCompareSet(w, id) == [w EXCEPT !.savedCompareSets = Without(@, id)]

SaveScreenDraft(w, id, draft) ==
  [w EXCEPT !.savedScreens = Saved(@, [id |-> id, draft |-> draft])]

DeleteScreenDraft(w, id) == [w EXCEPT !.savedScreens = Without(@, id)]

SaveBacktestDraft(w, id, draft) ==
  [w EXCEPT !.savedBacktests = Saved(@, [id |-> id, draft |-> draft])]

DeleteBacktestDraft(w, id) == [w EXCEPT !.savedBacktests = Without(@, id)]

SetAnnotation(w, key, ann) ==
  [w EXCEPT !.watchlistAnnotations = (key :> ann) @@ @]

ClearAnnotation(w, key) ==
  [w EXCEPT !.watchlistAnnotations = [k \in DOMAIN @ \ {key} |-> @[k]]]

GetActiveWatchlist(w) ==
  LET named == Where(w.watchlists, LAMBDA list : list.id = w.activeWatchlistId)
  IN IF named = <<>> THEN w.watchlists[1] ELSE named[1]

-----------------------------------------------------------------------------
(* Persistence                                                             *)

IsText(x) == x \notin {Junk, Null, ""}

\* partialize: every field of w is one it keeps.
Partialize(w) == w

SanitizeStrings(value, limit, fallback) ==
  IF value \in {Junk, Null} THEN fallback
  ELSE UniqHead(Where(value, IsText), limit)

\* isRecord and the defaults of an item, by its place among the records.
Items(value, Sanitized(_, _)) ==
  IF value \in {Junk, Null} THEN <<>>
  ELSE LET records == Where(value, LAMBDA x : x \notin {Junk, Null})
       IN [i \in DOMAIN records |-> Sanitized(records[i], i)]

SanitizeId(id, word, i) == IF IsText(id) THEN id ELSE word \o ToString(i)

SanitizeWatchlists(value) ==
  LET lists == Where(
        Items(value, LAMBDA x, i :
          [ id |-> SanitizeId(x.id, "watchlist-", i),
            name |-> SanitizeId(x.name, "Watchlist ", i),
            symbols |-> SanitizeStrings(x.symbols, ListLimit, <<>>) ]),
        LAMBDA list : list.symbols # <<>>)
  IN IF lists = <<>> THEN DefaultWatchlists ELSE lists

SanitizeSavedCompareSets(value) ==
  Take(Where(
         Items(value, LAMBDA x, i :
           [ id |-> SanitizeId(x.id, "compare-", i),
             tickers |-> SanitizeStrings(x.tickers, CompareLimit, <<>>) ]),
         LAMBDA set : set.tickers # <<>>),
       SavedLimit)

\* What a draft holds is not looked at.
SanitizeSavedDrafts(value) ==
  Take(Where(
         Items(value, LAMBDA x, i :
           [id |-> SanitizeId(x.id, "draft-", i), draft |-> x.draft]),
         LAMBDA saved : saved.draft # Null),
       SavedLimit)

\* Mutation: the active list is taken as it was stored.
MergeTrusting(source) ==
  LET lists == SanitizeWatchlists(source.watchlists)
  IN [InitialStore EXCEPT !.watchlists = lists,
        !.activeWatchlistId = IF IsText(source.activeWatchlistId)
                              THEN source.activeWatchlistId ELSE lists[1].id]

Merge(source) ==
  LET lists == SanitizeWatchlists(source.watchlists)
  IN [ activeTicker |-> IF IsText(source.activeTicker) THEN Upper[source.activeTicker]
                        ELSE InitialStore.activeTicker,
       watchlists |-> lists,
       activeWatchlistId |-> IF HasList(lists, source.activeWatchlistId)
                             THEN source.activeWatchlistId ELSE lists[1].id,
       recentTickers |->
         SanitizeStrings(source.recentTickers, RecentLimit, InitialStore.recentTickers),
       compareTickers |->
         SanitizeStrings(source.compareTickers, CompareLimit, InitialStore.compareTickers),
       savedCompareSets |-> SanitizeSavedCompareSets(source.savedCompareSets),
       recentCommands |->
         IF source.recentCommands \in {Junk, Null} THEN InitialStore.recentCommands
         ELSE UniqCommands(Where(source.recentCommands, IsText), RecentLimit),
       savedScreens |-> SanitizeSavedDrafts(source.savedScreens),
       savedBacktests |-> SanitizeSavedDrafts(source.savedBacktests),
       watchlistAnnotations |->
         IF source.watchlistAnnotations \in {Junk, Null} THEN <<>>
         ELSE source.watchlistAnnotations,
       lastRoute |-> IF IsText(source.lastRoute) THEN source.lastRoute
                     ELSE InitialStore.lastRoute ]

\* An entry that does not parse, or of another version, hydrates nothing.
Hydrated(stored) == IF stored = Null THEN InitialStore ELSE Merge(stored)
=============================================================================
