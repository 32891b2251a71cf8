------------------------------ MODULE Workspace ------------------------------
(***************************************************************************)
(* The workspace in use: browser tabs that each hold a TerminalStore,      *)
(* localStorage between them, the buttons of the pages and of the rail,    *)
(* and the error boundary that takes over when a page cannot be rendered.  *)
(*                                                                         *)
(* Every set of the store writes the whole workspace to localStorage;      *)
(* a tab reads it only when it loads.                                      *)
(***************************************************************************)
EXTENDS Questions

CONSTANTS
  Tabs,          \* browser tabs
  Ids,           \* what crypto.randomUUID returns
  Names, Notes,  \* what a user types into the name and the note fields
  Batches,       \* what a user types into the batch field, as tickers
  Visits,        \* tickers of the routes a user opens
  Quoted,        \* tickers of the market's tables
  Pages,         \* routes
  MaxEdits,      \* bound: edits of a behaviour
  MaxFaults,     \* bound: damaged entries and chunks that do not load
  DefaultDraft, OtherDraft   \* strategies, by what a property can tell

ASSUME WorkspaceAssumption ==
  /\ Visits \subseteq Text /\ Quoted \subseteq Text /\ Batches \subseteq Seq(Text)
  /\ "QQQ" \in Text                   \* CompareReset
  /\ "/compare" \in Pages
  /\ MaxEdits \in Nat /\ MaxFaults \in Nat

VARIABLES
  stored,    \* localStorage "batesstocks-terminal"; Null: nothing usable
  bench,     \* localStorage of the backtest page's draft
  mode,      \* tab: "closed", "loading", "open", "failed"
  page,      \* tab: the route
  symbol,    \* tab: the ticker of a security's route
  store,     \* tab: the zustand store
  draft,     \* tab: the backtest page's draft
  form,      \* tab: the fields of the watchlists page
  retried,   \* tab: sessionStorage RECOVERY_FLAG
  spare,     \* ids not given out yet
  owner,     \* history: the tab that wrote last, or Null
  edits, faults

tabState == <<mode, page, symbol, store, draft, form, retried>>
workspaceVars == <<stored, bench, tabState, spare, owner, edits, faults>>

Drafts == {DefaultDraft, OtherDraft, Junk}

\* What is of no use is none of what the code stores.
ASSUME UsableAssumption ==
  /\ Null \notin Drafts /\ "" \notin {Junk, Null}
  /\ {Junk, Null, ""} \cap
       (Text \cup Ids \cup (Names \ {""}) \cup Pages
          \cup {"/", "core", "macro", "Core", "Macro"}) = {}

NoForm == [rename |-> "", key |-> Null, note |-> ""]

\* annKey.
Key(listId, ticker) == <<listId, ticker>>

WorkspaceInit ==
  /\ stored = Null /\ bench = DefaultDraft
  /\ mode = [t \in Tabs |-> "closed"] /\ page = [t \in Tabs |-> "/"]
  /\ symbol = [t \in Tabs |-> "SPY"]
  /\ store = [t \in Tabs |-> InitialStore]
  /\ draft = [t \in Tabs |-> DefaultDraft]
  /\ form = [t \in Tabs |-> NoForm]
  /\ retried = [t \in Tabs |-> FALSE]
  /\ spare = Ids /\ owner = Null /\ edits = 0 /\ faults = 0

-----------------------------------------------------------------------------
(* Rendering                                                               *)

\* ComparePage selects a new fallback list at every render while there is
\* nothing to compare, which React does not survive; the workbench maps over
\* the rules of whatever was stored.
Renders(w, p, d) ==
  /\ p = "/compare" => w.compareTickers # <<>>
  /\ p = "/backtest" => d # Junk

Goes(t, m, p, w, d, f) ==
  /\ mode' = [mode EXCEPT ![t] = m]
  /\ page' = [page EXCEPT ![t] = p]
  /\ store' = [store EXCEPT ![t] = w]
  /\ draft' = [draft EXCEPT ![t] = d]
  /\ form' = [form EXCEPT ![t] = f]

\* The page is gone, and with it all the tab had in memory.
Leaves(t, m, p) == Goes(t, m, p, InitialStore, DefaultDraft, NoForm)

Drops == stored' = Null /\ owner' = Null

\* Mutation: the recovery takes its flag away again.
FailsAgain(t, p, kept) ==
  /\ Leaves(t, "loading", p) /\ Drops
  /\ retried' = [retried EXCEPT ![t] = ~@]
  /\ UNCHANGED bench

\* componentDidCatch: the workspace is dropped and the page loaded again,
\* once in a session; then the reset is offered.  The set of the store that
\* made the page fail has written before.
Fails(t, p, kept) ==
  /\ IF retried[t] THEN /\ Leaves(t, "failed", p) /\ stored' = kept
                        /\ owner' = IF kept = stored THEN owner ELSE t
     ELSE Leaves(t, "loading", p) /\ Drops
  /\ retried' = [retried EXCEPT ![t] = TRUE]
  /\ UNCHANGED bench

\* What mounting a page does to the store: a security becomes active and
\* recent, and the shell records the route.
Mounted(w, p, ticker) ==
  SetLastRoute(IF p = "/security"
               THEN AddRecentTicker(SetActiveTicker(w, ticker), ticker) ELSE w, p)

\* Tab t renders page p with workspace w; kept is what is stored when that
\* fails.
Shows(t, w, p, d, f, kept) ==
  LET shown == Mounted(w, p, symbol'[t])
  IN IF Renders(w, p, d)
     THEN /\ Goes(t, "open", p, shown, d, f)
          /\ stored' = Partialize(shown) /\ owner' = t
          /\ bench' = IF p = "/backtest" THEN d ELSE bench
          /\ UNCHANGED retried
     ELSE Fails(t, p, kept)

\* A set of the store on the page at hand.
Sets(t, w, f) ==
  /\ mode[t] = "open"
  /\ edits < MaxEdits /\ edits' = edits + 1
  /\ UNCHANGED <<symbol, spare, faults>>
  /\ Shows(t, w, page[t], draft[t], f, Partialize(w))

\* The same where the set has asked for an id.
SetsWithId(t, id, w, f) ==
  /\ mode[t] = "open" /\ id \in spare
  /\ edits < MaxEdits /\ edits' = edits + 1
  /\ spare' = spare \ {id}
  /\ UNCHANGED <<symbol, faults>>
  /\ Shows(t, w, page[t], draft[t], f, Partialize(w))

NextId == CHOOSE id \in Ids : id \in spare

-----------------------------------------------------------------------------
(* Tabs                                                                    *)

Open(t) ==
  /\ mode[t] = "closed"
  /\ \E p \in Pages : Leaves(t, "loading", p)
  /\ UNCHANGED <<stored, bench, symbol, retried, spare, owner, edits, faults>>

Load(t) ==
  /\ mode[t] = "loading"
  /\ UNCHANGED <<symbol, spare, edits, faults>>
  /\ Shows(t, Hydrated(stored), page[t], bench, NoForm, stored)

Reload(t) ==
  /\ mode[t] \in {"open", "failed"}
  /\ Leaves(t, "loading", page[t])
  /\ UNCHANGED <<stored, bench, symbol, retried, spare, owner, edits, faults>>

\* The session ends with the tab.
Close(t) ==
  /\ mode[t] # "closed"
  /\ Leaves(t, "closed", "/")
  /\ retried' = [retried EXCEPT ![t] = FALSE]
  /\ UNCHANGED <<stored, bench, symbol, spare, owner, edits, faults>>

\* The navigation strip, and the links to a security.
Navigate(t) ==
  /\ mode[t] = "open"
  /\ \E p \in Pages :
       /\ p # page[t] \/ p = "/security"
       /\ IF p = "/security" THEN \E ticker \in Visits : symbol' = [symbol EXCEPT ![t] = ticker]
          ELSE UNCHANGED symbol
       /\ Shows(t, store[t], p, IF p = "/backtest" THEN bench ELSE draft[t], NoForm, stored)
  /\ UNCHANGED <<spare, edits, faults>>

\* The chunk of a lazily loaded page is not there.
ChunkFails(t) ==
  /\ mode[t] = "open" /\ faults < MaxFaults /\ faults' = faults + 1
  /\ \E p \in Pages \ {page[t]} : Fails(t, p, stored)
  /\ UNCHANGED <<symbol, spare, edits>>

\* "Reset local workspace".
HandleReset(t) ==
  /\ mode[t] = "failed"
  /\ retried' = [retried EXCEPT ![t] = FALSE]
  /\ Leaves(t, "loading", "/") /\ Drops
  /\ UNCHANGED <<bench, symbol, spare, edits, faults>>

\* What an older version, another program or a bad disk has left.
Damages ==
  {Null}
  \cup {[stored EXCEPT ![f] = Junk] : f \in DOMAIN stored}
  \cup {[stored EXCEPT !.watchlists = <<Null>> \o @],
        [stored EXCEPT !.watchlists[1].id = ""],
        [stored EXCEPT !.activeWatchlistId = "missing"]}
  \cup {[stored EXCEPT !.watchlists[1].symbols = <<Junk, ticker>>] : ticker \in Visits}

\* Nobody sees it before a tab loads; what is damaged is what a tab wrote.
Damage ==
  /\ \E t \in Tabs : mode[t] = "loading"
  /\ faults < MaxFaults /\ faults' = faults + 1
  /\ owner' = Null
  /\ \/ owner # Null /\ stored' \in Damages /\ UNCHANGED bench
     \/ bench' = Junk /\ UNCHANGED stored
  /\ UNCHANGED <<tabState, spare, edits>>

-----------------------------------------------------------------------------
(* WatchlistsPage                                                          *)

On(t, p) == mode[t] = "open" /\ page[t] = p

Active(t) == GetActiveWatchlist(store[t])

Lists(t) == {store[t].watchlists[i] : i \in DOMAIN store[t].watchlists}

TabChosen(t) ==
  /\ On(t, "/watchlists")
  /\ \E list \in Lists(t) :
       Sets(t, SetActiveWatchlist(store[t], list.id),
            [form[t] EXCEPT !.rename = list.name])

\* The field keeps its text when the active list changes elsewhere.
Rename(t) ==
  /\ On(t, "/watchlists")
  /\ \E name \in Names \cup {form[t].rename} :
       Sets(t, RenameWatchlist(store[t], Active(t).id, name),
            [form[t] EXCEPT !.rename = name])

Create(t) ==
  /\ On(t, "/watchlists") /\ spare # {}
  /\ \E name \in Names :
       SetsWithId(t, NextId, CreateWatchlist(store[t], NextId, name), form[t])

Delete(t) ==
  /\ On(t, "/watchlists") /\ Len(store[t].watchlists) > 1
  /\ Sets(t, DeleteWatchlist(store[t], Active(t).id), form[t])

\* Mutation: whether a symbol is listed already is not asked.
AddedBlindly(w, batch, symbols) ==
  LET after[i \in 0..Len(batch)] ==
        IF i = 0 THEN w ELSE ToggleWatchlist(after[i - 1], batch[i], w.activeWatchlistId)
  IN after[Len(batch)]

\* handleBatchAdd looks each ticker up in the list as it was rendered.
Added(w, batch, symbols) ==
  LET after[i \in 0..Len(batch)] ==
        IF i = 0 THEN w
        ELSE IF Contains(symbols, Upper[batch[i]]) THEN after[i - 1]
        ELSE ToggleWatchlist(after[i - 1], batch[i], w.activeWatchlistId)
  IN after[Len(batch)]

BatchAdd(t, batch) ==
  /\ On(t, "/watchlists")
  /\ Sets(t, Added(store[t], batch, Active(t).symbols), form[t])

RecentToggled(t) ==
  /\ On(t, "/watchlists")
  /\ \E ticker \in ToSet(store[t].recentTickers) :
       Sets(t, ToggleWatchlist(store[t], ticker, store[t].activeWatchlistId), form[t])

\* The buttons of a row of the monitor table; its rows are the symbols of
\* the active list that the server knows.
RowRemoved(t) ==
  /\ On(t, "/watchlists")
  /\ \E ticker \in ToSet(Active(t).symbols) :
       Sets(t, ToggleWatchlist(store[t], ticker, store[t].activeWatchlistId), form[t])

\* The set is compared, on the compare page.
Compares(t, tickers) ==
  /\ edits < MaxEdits /\ edits' = edits + 1
  /\ UNCHANGED <<symbol, spare, faults>>
  /\ Shows(t, SetCompareTickers(store[t], tickers), "/compare", draft[t], NoForm, stored)

RowCompared(t) ==
  /\ On(t, "/watchlists")
  /\ \E ticker \in ToSet(Active(t).symbols) :
       LET others == Minus(Active(t).symbols, ticker)
       IN Compares(t, <<ticker>> \o Take(others, 3) \o <<"SPY">>)

EditorOpen(t) == On(t, "/watchlists") /\ form[t].key # Null

\* The editor shows on the row its key names.
EditorShown(t) ==
  /\ EditorOpen(t)
  /\ \E ticker \in ToSet(Active(t).symbols) :
       form[t].key = Key(store[t].activeWatchlistId, ticker)

AnnToggled(t) ==
  /\ On(t, "/watchlists")
  /\ \E ticker \in ToSet(Active(t).symbols) :
       LET key == Key(store[t].activeWatchlistId, ticker)
           notes == store[t].watchlistAnnotations
       IN form' = [form EXCEPT ![t] =
            IF form[t].key = key THEN [@ EXCEPT !.key = Null]
            ELSE [@ EXCEPT !.key = key,
                           !.note = IF key \in DOMAIN notes THEN notes[key] ELSE ""]]
  /\ UNCHANGED <<stored, bench, mode, page, symbol, store, draft, retried, spare, owner,
                 edits, faults>>

\* saveAnn, with what the user has made of the draft.
AnnSaved(t) ==
  /\ EditorShown(t)
  /\ \E note \in Notes \cup {form[t].note} :
       Sets(t, IF note = "" THEN ClearAnnotation(store[t], form[t].key)
               ELSE SetAnnotation(store[t], form[t].key, note),
            [form[t] EXCEPT !.key = Null, !.note = note])

AnnCleared(t) ==
  /\ EditorShown(t) /\ form[t].key \in DOMAIN store[t].watchlistAnnotations
  /\ Sets(t, ClearAnnotation(store[t], form[t].key), [form[t] EXCEPT !.key = Null])

-----------------------------------------------------------------------------
(* WorkspaceRail, on every page                                            *)

RailListChosen(t) ==
  /\ mode[t] = "open"
  /\ \E list \in Lists(t) : Sets(t, SetActiveWatchlist(store[t], list.id), form[t])

RailSymbolRemoved(t) ==
  /\ mode[t] = "open"
  /\ \E ticker \in ToSet(Active(t).symbols) :
       Sets(t, ToggleWatchlist(store[t], ticker, store[t].activeWatchlistId), form[t])

RailCompareSet(t) ==
  /\ On(t, "/compare")
  /\ \E set \in ToSet(store[t].savedCompareSets) :
       \/ Sets(t, SetCompareTickers(store[t], set.tickers), form[t])
       \/ Sets(t, DeleteCompareSet(store[t], set.id), form[t])

RailBacktest(t) ==
  /\ On(t, "/backtest")
  /\ \E saved \in ToSet(store[t].savedBacktests) :
       Sets(t, DeleteBacktestDraft(store[t], saved.id), form[t])

-----------------------------------------------------------------------------
(* ComparePage, BacktestPage and SecurityPage                              *)

CompareRemoved(t) ==
  /\ On(t, "/compare")
  /\ \E ticker \in ToSet(store[t].compareTickers) :
       Sets(t, SetCompareTickers(store[t],
                 Minus(store[t].compareTickers, ticker)), form[t])

CompareSaved(t) ==
  /\ On(t, "/compare") /\ spare # {}
  /\ SetsWithId(t, NextId, SaveCompareSet(store[t], NextId, store[t].compareTickers),
                form[t])

CompareReset(t) ==
  /\ On(t, "/compare")
  /\ Sets(t, SetCompareTickers(store[t], <<"SPY", "QQQ">>), form[t])

\* The draft as it is edited; the page keeps it in its own entry.
DraftEdited(t) ==
  /\ On(t, "/backtest") /\ edits < MaxEdits /\ edits' = edits + 1
  /\ \E d \in Drafts \ {Junk} : draft' = [draft EXCEPT ![t] = d] /\ bench' = d
  /\ UNCHANGED <<stored, mode, page, symbol, store, form, retried, spare, owner, faults>>

BacktestSaved(t) ==
  /\ On(t, "/backtest") /\ spare # {}
  /\ SetsWithId(t, NextId, SaveBacktestDraft(store[t], NextId, draft[t]), form[t])

\* A saved draft is put on the bench as it was stored.
BacktestLoaded(t) ==
  /\ On(t, "/backtest")
  /\ UNCHANGED <<symbol, spare, edits, faults>>
  /\ \E saved \in ToSet(Take(store[t].savedBacktests, 4)) :
       Shows(t, store[t], "/backtest", saved.draft, form[t], stored)

\* WATCH and COMPARE of the security at hand.
SecurityMarked(t) ==
  /\ On(t, "/security")
  /\ \/ Sets(t, ToggleWatchlist(store[t], symbol[t], store[t].activeWatchlistId), form[t])
     \/ Sets(t, ToggleCompareTicker(store[t], symbol[t]), form[t])

-----------------------------------------------------------------------------
(* The tables of MonitorPage, SectorPage, ScreenerPage and BacktestPage    *)

Watched(t, p) ==
  /\ On(t, p)
  /\ \E ticker \in Quoted :
       Sets(t, ToggleWatchlist(store[t], ticker, store[t].activeWatchlistId), form[t])

MonitorRow(t) ==
  \/ Watched(t, "/monitor")
  \/ On(t, "/monitor") /\ \E ticker \in Quoted : Compares(t, <<ticker, "SPY">>)

SectorRow(t) ==
  \/ Watched(t, "/sector")
  \/ /\ On(t, "/sector")
     /\ \E ticker \in Quoted, leader \in Quoted :
          Compares(t, <<ticker, "SPY">> \o (IF leader = ticker THEN <<>> ELSE <<leader>>))

ScreenerRow(t) == Watched(t, "/screener")

\* LOAD COMPARE is there while the screen has matches.
MatchesCompared(t) ==
  /\ On(t, "/screener")
  /\ \E first, second \in Quoted : Compares(t, <<first, second>>)

BacktestMatch(t) == Watched(t, "/backtest")

WorkspaceNext ==
  \/ Damage
  \/ \E t \in Tabs :
       \/ Open(t) \/ Load(t) \/ Reload(t) \/ Close(t) \/ Navigate(t) \/ ChunkFails(t)
       \/ HandleReset(t)
       \/ TabChosen(t) \/ Rename(t) \/ Create(t) \/ Delete(t)
       \/ \E batch \in Batches : BatchAdd(t, batch)
       \/ RecentToggled(t) \/ RowRemoved(t) \/ RowCompared(t)
       \/ AnnToggled(t) \/ AnnSaved(t) \/ AnnCleared(t)
       \/ RailListChosen(t) \/ RailSymbolRemoved(t) \/ RailCompareSet(t) \/ RailBacktest(t)
       \/ CompareRemoved(t) \/ CompareSaved(t) \/ CompareReset(t)
       \/ DraftEdited(t) \/ BacktestSaved(t) \/ BacktestLoaded(t)
       \/ SecurityMarked(t) \/ MonitorRow(t) \/ SectorRow(t) \/ ScreenerRow(t)
       \/ MatchesCompared(t) \/ BacktestMatch(t)

WorkspaceSpec == WorkspaceInit /\ [][WorkspaceNext]_workspaceVars

\* A browser that has begun to load the page goes on with it: weak fairness
\* of Load, which is enabled exactly while the tab is loading.
FairWorkspaceSpec ==
  /\ WorkspaceSpec
  /\ \A t \in Tabs : []<>(mode[t] # "loading") \/ []<><<Load(t)>>_workspaceVars

-----------------------------------------------------------------------------
(* Properties                                                              *)

IsStore(w) ==
  /\ w.activeTicker \in Range(Upper)
  /\ \A i \in DOMAIN w.watchlists :
       /\ Len(w.watchlists[i].symbols) <= ListLimit
       /\ IsInjective(w.watchlists[i].symbols)
       /\ ToSet(w.watchlists[i].symbols) \subseteq Range(Upper)
  /\ Len(w.recentTickers) <= RecentLimit /\ IsInjective(w.recentTickers)
  /\ Len(w.compareTickers) <= CompareLimit /\ IsInjective(w.compareTickers)
  /\ Len(w.savedCompareSets) <= SavedLimit /\ Len(w.savedBacktests) <= SavedLimit

\* Lists keep to their limits and hold nothing twice, whatever was typed,
\* stored or damaged.
WorkspaceTypeOK ==
  /\ owner # Null => IsStore(stored)
  /\ bench \in Drafts /\ draft \in [Tabs -> Drafts]
  /\ mode \in [Tabs -> {"closed", "loading", "open", "failed"}]
  /\ page \in [Tabs -> Pages \cup {"/"}] /\ symbol \in [Tabs -> Text]
  /\ retried \in [Tabs -> BOOLEAN] /\ spare \subseteq Ids
  /\ owner \in Tabs \cup {Null}
  /\ edits \in 0..MaxEdits /\ faults \in 0..MaxFaults
  /\ \A t \in Tabs : IsStore(store[t])

\* The active list of an open tab exists, after any deletion in it and
\* whatever another tab, an older version or a damaged entry has left to
\* load: the buttons of the pages and of the rail act on it unasked.
ActiveListExists ==
  \A t \in Tabs : HasList(store[t].watchlists, store[t].activeWatchlistId)

\* What a reload would bring back is what the tab that wrote last shows, but
\* for lists without symbols and for the choice of such a list: no limit,
\* order or case is treated one way by the setters and another by the merge.
ReloadKeepsWork ==
  owner # Null /\ mode[owner] = "open" =>
    LET shown == store[owner]
        again == Hydrated(stored)
        kept == Where(shown.watchlists, LAMBDA list : list.symbols # <<>>)
    IN /\ \A f \in DOMAIN shown \ {"watchlists", "activeWatchlistId"} :
            again[f] = shown[f]
       /\ kept # <<>> => again.watchlists = kept
       /\ HasList(kept, shown.activeWatchlistId) =>
            again.activeWatchlistId = shown.activeWatchlistId

\* A batch may contain what is listed already and the same ticker twice; it
\* takes a symbol off the list only where the list has no room for both.
BatchAddKeeps ==
  [][\A t \in Tabs, batch \in Batches : BatchAdd(t, batch) =>
       LET before == ToSet(Active(t).symbols)
           batched == {Upper[batch[i]] : i \in DOMAIN batch}
       IN \/ before \subseteq ToSet(Active(t)'.symbols)
          \/ Cardinality(before \cup batched) > ListLimit
     ]_workspaceVars

\* WatchlistsPage.tsx:493: "Watchlist headlines will appear here once the
\* active list tracks symbols", and so do its rows: the server takes what the
\* page asks it for the list.
HeadlinesAppear ==
  \A t \in Tabs : On(t, "/watchlists") =>
    \A q \in WatchlistsAsks(store[t]) : Accepted(q)

\* However often the page fails, the automatic recovery comes to an end, at
\* the page or at the offer to reset.
RecoveryEnds ==
  \A t \in Tabs : mode[t] = "loading" ~> mode[t] # "loading"

\* TerminalShell.tsx:237: "WATCHLIST, RECENTS, AND SAVED WORKSPACES ARE
\* PERSISTED LOCALLY", until damage or the user's own reset.
DroppedOnlyByReset ==
  [][stored # Null /\ stored' = Null =>
       Damage \/ \E t \in Tabs : HandleReset(t)]_workspaceVars

-----------------------------------------------------------------------------
(* Why they hold                                                           *)

\* A list of the workspace.
IsList(list) ==
  /\ list = [id |-> list.id, name |-> list.name, symbols |-> list.symbols]
  /\ IsSymbols(list.symbols, ListLimit)

\* The lists, one of which is the active one.
ListsInv(lists, active) ==
  /\ lists \in Seq(ToSet(lists)) /\ \A list \in ToSet(lists) : IsList(list)
  /\ HasList(lists, active)

SetsInv(sets) ==
  /\ sets \in Seq(ToSet(sets)) /\ Len(sets) <= SavedLimit
  /\ \A set \in ToSet(sets) : IsSymbols(set.tickers, CompareLimit)

DraftsInv(drafts) ==
  /\ drafts \in Seq(ToSet(drafts)) /\ Len(drafts) <= SavedLimit
  /\ \A saved \in ToSet(drafts) : saved.draft \in Drafts

\* A workspace in use.
StoreInv(w) ==
  /\ w = [f \in DOMAIN InitialStore |-> w[f]]
  /\ w.activeTicker \in Symbol
  /\ ListsInv(w.watchlists, w.activeWatchlistId)
  /\ IsSymbols(w.recentTickers, RecentLimit) /\ IsSymbols(w.compareTickers, CompareLimit)
  /\ SetsInv(w.savedCompareSets) /\ DraftsInv(w.savedBacktests)

\* What may be stored: where the merge expects a list there is one of
\* anything, or none; tickers are text or of no use.
StoredTexts == Seq(Text \cup {Junk, Null, ""}) \cup {Junk, Null}

IsItems(value) == value \in {Junk, Null} \/ value \in Seq(ToSet(value))

Usable(value) == IF value \in {Junk, Null} THEN {} ELSE ToSet(value) \ {Junk, Null}

StoredInv(source) ==
  /\ source.activeTicker \in Text \cup {Junk, Null, ""}
  /\ {source.recentTickers, source.compareTickers} \subseteq StoredTexts
  /\ IsItems(source.watchlists) /\ IsItems(source.savedCompareSets)
  /\ IsItems(source.savedBacktests)
  /\ \A list \in Usable(source.watchlists) : list.symbols \in StoredTexts
  /\ \A set \in Usable(source.savedCompareSets) : set.tickers \in StoredTexts
  /\ \A saved \in Usable(source.savedBacktests) : saved.draft \in Drafts

\* The inductive invariant.
WorkspaceInv ==
  /\ WorkspaceTypeOK
  /\ DOMAIN store = Tabs /\ \A t \in Tabs : StoreInv(store[t])
  /\ owner # Null => StoreInv(stored)
  /\ stored # Null => StoredInv(stored)

IsFunction(f) == f = [x \in DOMAIN f |-> f[x]]

\* What the merge leaves as it is, of each kind of item.
TidyLists(lists) == \A list \in ToSet(lists) : IsText(list.id) /\ IsText(list.name)

TidySets(sets) ==
  \A set \in ToSet(sets) :
    /\ set = [id |-> set.id, tickers |-> set.tickers]
    /\ IsText(set.id) /\ set.tickers # <<>>

TidyDrafts(drafts) ==
  \A saved \in ToSet(drafts) :
    saved = [id |-> saved.id, draft |-> saved.draft] /\ IsText(saved.id)

Tidy(w) ==
  /\ TidyLists(w.watchlists) /\ TidySets(w.savedCompareSets)
  /\ TidyDrafts(w.savedBacktests)
  /\ w.recentCommands = <<>> /\ w.savedScreens = <<>>
  /\ IsFunction(w.watchlistAnnotations) /\ w.lastRoute \in Pages \cup {"/"}

\* The fields of what is stored that the merge takes as they are.
StoredTidy(source) ==
  /\ source.recentCommands \in {<<>>, Junk} /\ source.savedScreens \in {<<>>, Junk}
  /\ source.watchlistAnnotations = Junk \/ IsFunction(source.watchlistAnnotations)
  /\ source.lastRoute \in Pages \cup {"/", Junk}

TidyForm(f) ==
  f = [rename |-> f.rename, key |-> f.key, note |-> f.note] /\ f.rename \notin {Junk, Null}

\* The invariant for ReloadKeepsWork, inductive together with WorkspaceInv.
ReloadInv ==
  /\ DOMAIN form = Tabs /\ \A t \in Tabs : TidyForm(form[t]) /\ Tidy(store[t])
  /\ \A t \in Tabs : On(t, "/compare") => store[t].compareTickers # <<>>
  /\ owner # Null => Tidy(stored)
  /\ stored # Null => StoredTidy(stored)
  /\ owner # Null /\ mode[owner] = "open" => stored = store[owner]
=============================================================================
