--------------------------- MODULE WorkspaceProofs ---------------------------
(***************************************************************************)
(* The workspace, for any number of tabs, lists, edits and damaged         *)
(* entries: lists keep to their limits, the active list exists, a batch    *)
(* takes nothing off the list while the list has room, and a reload brings *)
(* back what was shown.                                                    *)
(***************************************************************************)
EXTENDS Workspace, ListLemmas

-----------------------------------------------------------------------------
(* Lists of symbols.                                                       *)

(* toUpperCase makes a symbol of every text. *)
LEMMA SymbolsInUpper == Symbol \subseteq Text /\ \A x \in Text : Upper[x] \in Symbol
BY TextAssumption DEF Symbol

(* The limits, each a number of its own. *)
LEMMA Limits ==
  /\ ListLimit \in Nat \ {0} /\ RecentLimit \in Nat \ {0}
  /\ CompareLimit \in Nat \ {0} /\ SavedLimit \in Nat \ {0}
BY LimitAssumption

(* A sequence is one of what stands in it. *)
LEMMA SeqOfOwn ==
  ASSUME NEW X, NEW s \in Seq(X)
  PROVE  /\ s \in Seq(ToSet(s)) /\ ToSet(s) \subseteq X
         /\ DOMAIN s = 1..Len(s) /\ Len(s) \in Nat
<1>1. DOMAIN s = 1..Len(s) /\ Len(s) \in Nat /\ \A i \in 1..Len(s) : s[i] \in X
  OBVIOUS
<1>2. \A i \in 1..Len(s) : s[i] \in ToSet(s)
  BY <1>1 DEF ToSet
<1>3. s \in Seq(ToSet(s))
  BY <1>1, <1>2
<1> QED
  BY <1>1, <1>3 DEF ToSet

(* What holds only elements of X is a sequence of them. *)
LEMMA SeqOfElements ==
  ASSUME NEW X, NEW Y, NEW s \in Seq(X), ToSet(s) \subseteq Y
  PROVE  s \in Seq(Y)
<1>1. DOMAIN s = 1..Len(s) /\ Len(s) \in Nat
  OBVIOUS
<1>2. \A i \in 1..Len(s) : s[i] \in Y
  BY <1>1 DEF ToSet
<1> QED
  BY <1>1, <1>2

(* uniqHead makes a list of symbols of any texts. *)
LEMMA UniqHeadFacts ==
  ASSUME NEW items \in Seq(Text), NEW n \in Nat \ {0}
  PROVE  LET t == Mapped(items, InUpper)
             r == UniqHead(items, n)
         IN /\ IsSymbols(r, n) /\ ToSet(r) \subseteq ToSet(t)
            /\ items # <<>> => r # <<>>
            /\ Cardinality(ToSet(t)) <= n => ToSet(r) = ToSet(t)
            /\ ToSet(t) = {Upper[x] : x \in ToSet(items)}
<1> DEFINE t == Mapped(items, InUpper)
           r == UniqHead(items, n)
<1>1. DOMAIN items = 1..Len(items) /\ Len(items) \in Nat /\ \A i \in 1..Len(items) : items[i] \in Text
  OBVIOUS
<1>2. DOMAIN t = 1..Len(items) /\ \A i \in 1..Len(items) : t[i] = Upper[items[i]]
  BY <1>1 DEF Mapped, InUpper
<1>3. t \in Seq(Symbol) /\ Len(t) = Len(items)
  <2>1. t = [i \in 1..Len(items) |-> Upper[items[i]]]
    BY <1>1 DEF Mapped, InUpper
  <2> HIDE DEF t
  <2> QED
    BY <1>1, <2>1, SymbolsInUpper
<1>4. ToSet(t) = {Upper[x] : x \in ToSet(items)}
  BY <1>1, <1>2 DEF ToSet
<1>5. r = Take(AtPlaces(t, Firsts(t)), n)
  <2>1. Mapped(t, AsTyped) = t
    <3>1. t = [i \in DOMAIN t |-> t[i]]
      BY <1>3
    <3> HIDE DEF t
    <3> QED
      BY <3>1 DEF Mapped, AsTyped
  <2>2. r = Take(Distinct(t, AsTyped), n)
    BY DEF UniqHead
  <2>3. Distinct(t, AsTyped) = AtPlaces(t, Firsts(Mapped(t, AsTyped)))
    BY DEF Distinct
  <2> HIDE DEF t, r
  <2> QED
    BY <2>1, <2>2, <2>3
<1> HIDE DEF t, r
<1>6. /\ r \in Seq(Symbol) /\ Len(r) <= n /\ IsInjective(r)
      /\ ToSet(r) \subseteq ToSet(t)
      /\ t # <<>> => Len(r) > 0
      /\ Cardinality(ToSet(t)) <= n => ToSet(r) = ToSet(t)
  BY <1>3, <1>5, HeadFacts
<1>7. items # <<>> => r # <<>>
  <2>1. items # <<>> => Len(items) > 0
    BY <1>1
  <2>2. Len(t) > 0 => t # <<>>
    BY <1>3
  <2>3. Len(r) > 0 => r # <<>>
    BY <1>6
  <2> QED
    BY <1>3, <1>6, <2>1, <2>2, <2>3
<1> QED
  BY <1>4, <1>6, <1>7 DEF IsSymbols, t, r

(* A list of symbols holds texts, and finitely many of them. *)
LEMMA SymbolsFacts ==
  ASSUME NEW s, NEW n, IsSymbols(s, n)
  PROVE  /\ s \in Seq(Symbol) /\ s \in Seq(Text) /\ ToSet(s) \subseteq Symbol
         /\ IsFiniteSet(ToSet(s)) /\ Cardinality(ToSet(s)) = Len(s)
<1>1. s \in Seq(Symbol) /\ IsInjective(s)
  BY DEF IsSymbols
<1>2. ToSet(s) \subseteq Symbol
  BY <1>1, SeqOfOwn
<1>3. ToSet(s) \subseteq Text
  BY <1>2, SymbolsInUpper
<1>4. s \in Seq(Text)
  BY <1>1, <1>3, SeqOfElements
<1> QED
  BY <1>1, <1>2, <1>4, CountDistinct

(* A toggle leaves a list of symbols one, and has taken nothing else off it *)
(* where it has room.                                                       *)
LEMMA ToggledFacts ==
  ASSUME NEW n \in Nat \ {0}, NEW s, IsSymbols(s, n), NEW x \in Symbol
  PROVE  LET r == Toggled(s, x, n)
         IN /\ IsSymbols(r, n)
            /\ ToSet(s) \ {x} \subseteq ToSet(r) \/ Cardinality(ToSet(s) \cup {x}) > n
            /\ ToSet(r) \subseteq ToSet(s) \cup {x}
<1> DEFINE r == Toggled(s, x, n)
<1>1. /\ s \in Seq(Symbol) /\ s \in Seq(Text) /\ ToSet(s) \subseteq Symbol
      /\ IsFiniteSet(ToSet(s)) /\ Cardinality(ToSet(s)) = Len(s)
  BY SymbolsFacts
<1>2. Len(s) <= n /\ IsInjective(s)
  BY DEF IsSymbols
<1>3. CASE Contains(s, x)
  <2>1. r = Minus(s, x)
    BY <1>3 DEF Toggled
  <2>2. /\ r \in Seq(Symbol) /\ ToSet(r) = ToSet(s) \ {x} /\ IsInjective(r)
    BY <1>1, <1>2, <2>1, MinusFacts
  <2> HIDE DEF r
  <2>3. IsFiniteSet(ToSet(r)) /\ Cardinality(ToSet(r)) = Len(r)
    BY <2>2, CountDistinct
  <2>4. Cardinality(ToSet(r)) <= Cardinality(ToSet(s))
    BY <1>1, <2>2, FS_Subset
  <2>5. Len(r) <= n
    BY <1>1, <1>2, <2>2, <2>3, <2>4
  <2> QED
    BY <2>2, <2>5 DEF IsSymbols, r
<1>4. CASE ~Contains(s, x)
  <2> DEFINE items == <<x>> \o s
             t == Mapped(items, InUpper)
  <2>1. r = UniqHead(items, n)
    BY <1>4 DEF Toggled
  <2>2. x \in Text
    BY SymbolsInUpper
  <2>3. items \in Seq(Text) /\ ToSet(items) = {x} \cup ToSet(s)
    BY <1>1, <2>2, PrependedFacts
  <2> HIDE DEF items
  <2>4. /\ IsSymbols(r, n) /\ ToSet(r) \subseteq ToSet(t)
        /\ Cardinality(ToSet(t)) <= n => ToSet(r) = ToSet(t)
        /\ ToSet(t) = {Upper[y] : y \in ToSet(items)}
    BY <2>1, <2>3, UniqHeadFacts
  <2> HIDE DEF r, t
  <2>5. ToSet(t) = ToSet(s) \cup {x}
    <3>1. \A y \in ToSet(items) : Upper[y] = y
      BY <1>1, <2>3 DEF Symbol
    <3> QED
      BY <2>3, <2>4, <3>1
  <2>6. IsFiniteSet(ToSet(s) \cup {x}) /\ Cardinality(ToSet(s) \cup {x}) \in Nat
    BY <1>1, FS_AddElement, FS_CardinalityType
  <2>7. Cardinality(ToSet(t)) <= n \/ Cardinality(ToSet(t)) > n
    BY <2>5, <2>6
  <2> QED
    BY <2>4, <2>5, <2>7 DEF r
<1> QED
  BY <1>3, <1>4

-----------------------------------------------------------------------------
(* The fields of a workspace.                                              *)

(* What a workspace consists of. *)
LEMMA StoreFields ==
  DOMAIN InitialStore =
    {"activeTicker", "watchlists", "activeWatchlistId", "recentTickers", "compareTickers",
     "savedCompareSets", "recentCommands", "savedScreens", "savedBacktests",
     "watchlistAnnotations", "lastRoute"}
BY DEF InitialStore

IsWorkspace(w) == w = [f \in DOMAIN InitialStore |-> w[f]]

(* Setting one field leaves the others as they are. *)
LEMMA FieldSet ==
  ASSUME NEW w, IsWorkspace(w), NEW f \in DOMAIN InitialStore, NEW v, NEW u,
         u = [w EXCEPT ![f] = v]
  PROVE  /\ IsWorkspace(u) /\ u[f] = v
         /\ \A g \in DOMAIN InitialStore \ {f} : u[g] = w[g]
<1>1. DOMAIN w = DOMAIN InitialStore
  BY DEF IsWorkspace
<1> QED
  BY <1>1 DEF IsWorkspace

(* A sequence of records with one field of some of them changed. *)
LEMMA MappedFacts ==
  ASSUME NEW X, NEW Y, NEW s \in Seq(X), NEW t,
         DOMAIN t = DOMAIN s, t = [i \in DOMAIN s |-> t[i]], \A i \in DOMAIN s : t[i] \in Y
  PROVE  t \in Seq(Y) /\ Len(t) = Len(s) /\ t \in Seq(ToSet(t))
<1>1. DOMAIN s = 1..Len(s) /\ Len(s) \in Nat
  OBVIOUS
<1>2. t \in Seq(Y) /\ Len(t) = Len(s)
  BY <1>1
<1> QED
  BY <1>2, SeqOfOwn

(* Lists, one of which is the active one, are not none. *)
LEMMA ListsFacts ==
  ASSUME NEW lists, NEW active, ListsInv(lists, active)
  PROVE  /\ lists \in Seq(ToSet(lists)) /\ DOMAIN lists = 1..Len(lists)
         /\ Len(lists) \in Nat /\ Len(lists) > 0 /\ 1 \in DOMAIN lists
         /\ \A i \in DOMAIN lists : lists[i] \in ToSet(lists) /\ IsList(lists[i])
<1>1. lists \in Seq(ToSet(lists)) /\ DOMAIN lists = 1..Len(lists) /\ Len(lists) \in Nat
  BY SeqOfOwn DEF ListsInv
<1>2. \A i \in DOMAIN lists : lists[i] \in ToSet(lists)
  BY DEF ToSet
<1>3. DOMAIN lists # {}
  BY DEF ListsInv, HasList
<1> QED
  BY <1>1, <1>2, <1>3 DEF ListsInv

(* To say that lists are well-formed, it is enough to say it place by place. *)
LEMMA ListsByPlace ==
  ASSUME NEW X, NEW lists \in Seq(X), NEW active,
         \A i \in DOMAIN lists : IsList(lists[i]), HasList(lists, active)
  PROVE  ListsInv(lists, active)
<1>1. lists \in Seq(ToSet(lists))
  BY SeqOfOwn
<1>2. \A list \in ToSet(lists) : IsList(list)
  BY DEF ToSet
<1> QED
  BY <1>1, <1>2 DEF ListsInv

(* The list that is worked on is the first of those with the active id. *)
ActivePlace(lists, active, k) ==
  /\ k \in DOMAIN lists /\ lists[k].id = active
  /\ \A i \in DOMAIN lists : i < k => lists[i].id # active

(* There is such a place. *)
LEMMA ActivePlaceExists ==
  ASSUME NEW lists, NEW active, ListsInv(lists, active)
  PROVE  \E k \in DOMAIN lists : ActivePlace(lists, active, k)
<1> DEFINE ids == [i \in DOMAIN lists |-> lists[i].id]
           X == {lists[i].id : i \in DOMAIN lists}
<1>1. DOMAIN lists = 1..Len(lists) /\ Len(lists) \in Nat
  BY ListsFacts
<1>2. /\ ids \in Seq(X) /\ Len(ids) = Len(lists) /\ DOMAIN ids = 1..Len(lists)
      /\ \A i \in 1..Len(lists) : ids[i] = lists[i].id
  <2>1. ids = [i \in 1..Len(lists) |-> ids[i]] /\ \A i \in 1..Len(lists) : ids[i] \in X /\ ids[i] = lists[i].id
    BY <1>1
  <2> HIDE DEF ids, X
  <2> QED
    BY <1>1, <2>1
<1> HIDE DEF ids, X
<1>3. PICK i \in 1..Len(lists) : lists[i].id = active
  BY <1>1 DEF ListsInv, HasList
<1>4. PICK k \in Firsts(ids) : k <= i /\ ids[k] = ids[i]
  BY <1>2, <1>3, FirstBefore
<1>5. k \in 1..Len(lists) /\ \A j \in 1..(k - 1) : ids[j] # ids[k]
  BY <1>2, <1>4 DEF Firsts
<1>6. \A j \in 1..Len(lists) : j < k => j \in 1..(k - 1)
  BY <1>1, <1>5
<1>7. lists[k].id = active /\ \A j \in 1..Len(lists) : j < k => lists[j].id # active
  <2>1. lists[k].id = active
    BY <1>2, <1>3, <1>4, <1>5
  <2>2. ASSUME NEW j \in 1..Len(lists), j < k PROVE lists[j].id # active
    BY <1>2, <1>5, <1>6, <2>1, <2>2
  <2> QED
    BY <2>1, <2>2
<1> QED
  BY <1>1, <1>5, <1>7 DEF ActivePlace

(* getActiveWatchlist finds it. *)
LEMMA ActiveFound ==
  ASSUME NEW w, ListsInv(w.watchlists, w.activeWatchlistId), NEW k,
         ActivePlace(w.watchlists, w.activeWatchlistId, k)
  PROVE  GetActiveWatchlist(w) = w.watchlists[k]
<1> DEFINE lists == w.watchlists
           active == w.activeWatchlistId
           I == {i \in DOMAIN lists : lists[i].id = active}
           named == AtPlaces(lists, I)
<1>1. lists \in Seq(ToSet(lists)) /\ DOMAIN lists = 1..Len(lists) /\ Len(lists) \in Nat
  BY ListsFacts
<1>2. k \in I \cap (1..Len(lists)) /\ \A j \in I \cap (1..Len(lists)) : k <= j
  BY <1>1 DEF ActivePlace
<1>3. Where(lists, LAMBDA list : list.id = active) = named
  BY DEF Where
<1>4. GetActiveWatchlist(w) = IF named = <<>> THEN lists[1] ELSE named[1]
  BY <1>3 DEF GetActiveWatchlist
<1> HIDE DEF lists, I, active
<1>5. Len(named) > 0 /\ named[1] = lists[k]
  BY <1>1, <1>2, FilteredFirst
<1> HIDE DEF named
<1>6. named # <<>>
  BY <1>5
<1> QED
  BY <1>4, <1>5, <1>6 DEF lists

(* What the pages show of the active list are symbols. *)
LEMMA ActiveFacts ==
  ASSUME NEW w, StoreInv(w)
  PROVE  /\ IsList(GetActiveWatchlist(w))
         /\ GetActiveWatchlist(w).symbols \in Seq(Text)
         /\ ToSet(GetActiveWatchlist(w).symbols) \subseteq Text
<1>1. ListsInv(w.watchlists, w.activeWatchlistId)
  BY DEF StoreInv
<1>2. PICK k \in DOMAIN w.watchlists : ActivePlace(w.watchlists, w.activeWatchlistId, k)
  BY <1>1, ActivePlaceExists
<1>3. GetActiveWatchlist(w) = w.watchlists[k]
  BY <1>1, <1>2, ActiveFound
<1>4. IsList(w.watchlists[k])
  BY <1>1, ListsFacts
<1>5. w.watchlists[k].symbols \in Seq(Text) /\ ToSet(w.watchlists[k].symbols) \subseteq Symbol
  BY <1>4, SymbolsFacts DEF IsList
<1> QED
  BY <1>3, <1>4, <1>5, SymbolsInUpper

-----------------------------------------------------------------------------
(* The actions of the store.                                               *)

(* Setting a field to what it may be keeps the workspace in order. *)
LEMMA FieldKeeps ==
  ASSUME NEW w, StoreInv(w),
         NEW f \in DOMAIN InitialStore \ {"watchlists", "activeWatchlistId"},
         NEW v, NEW u, u = [w EXCEPT ![f] = v],
         f = "activeTicker" => v \in Symbol,
         f = "recentTickers" => IsSymbols(v, RecentLimit),
         f = "compareTickers" => IsSymbols(v, CompareLimit),
         f = "savedCompareSets" => SetsInv(v),
         f = "savedBacktests" => DraftsInv(v)
  PROVE  StoreInv(u)
<1>1. /\ IsWorkspace(u) /\ u[f] = v
      /\ \A g \in DOMAIN InitialStore \ {f} : u[g] = w[g]
  BY FieldSet DEF StoreInv, IsWorkspace
<1>2. u["watchlists"] = w["watchlists"] /\ u["activeWatchlistId"] = w["activeWatchlistId"]
  BY <1>1, StoreFields
<1>3. u["activeTicker"] \in Symbol
  BY <1>1, StoreFields DEF StoreInv
<1>4. IsSymbols(u["recentTickers"], RecentLimit)
  BY <1>1, StoreFields DEF StoreInv
<1>5. IsSymbols(u["compareTickers"], CompareLimit)
  BY <1>1, StoreFields DEF StoreInv
<1>6. SetsInv(u["savedCompareSets"])
  BY <1>1, StoreFields DEF StoreInv
<1>7. DraftsInv(u["savedBacktests"])
  BY <1>1, StoreFields DEF StoreInv
<1> QED
  BY <1>1, <1>2, <1>3, <1>4, <1>5, <1>6, <1>7 DEF StoreInv, IsWorkspace

(* So does changing the lists and the choice among them to what they may be. *)
LEMMA ListsKeep ==
  ASSUME NEW w, StoreInv(w), NEW lists, NEW active, ListsInv(lists, active), NEW u,
         \/ u = [w EXCEPT !.watchlists = lists, !.activeWatchlistId = active]
         \/ u = [w EXCEPT !.watchlists = lists] /\ active = w.activeWatchlistId
         \/ u = [w EXCEPT !.activeWatchlistId = active] /\ lists = w.watchlists
  PROVE  StoreInv(u)
<1>1. DOMAIN w = DOMAIN InitialStore
  BY DEF StoreInv
<1>2. u["watchlists"] = lists /\ u["activeWatchlistId"] = active
  BY <1>1, StoreFields
<1>3. /\ u["activeTicker"] = w["activeTicker"] /\ u["recentTickers"] = w["recentTickers"]
      /\ u["compareTickers"] = w["compareTickers"]
      /\ u["savedCompareSets"] = w["savedCompareSets"]
      /\ u["savedBacktests"] = w["savedBacktests"]
  BY <1>1, StoreFields
<1>4. u = [f \in DOMAIN InitialStore |-> u[f]]
  BY <1>1, StoreFields
<1> QED
  BY <1>2, <1>3, <1>4 DEF StoreInv

(* The defaults are a store (initialState). *)
LEMMA InitialKeeps == StoreInv(InitialStore)
<1>1. InitialStore = [f \in DOMAIN InitialStore |-> InitialStore[f]]
  BY DEF InitialStore
<1>2. ListsInv(DefaultWatchlists, "core")
  <2> DEFINE core == [id |-> "core", name |-> "Core", symbols |-> CoreSymbols]
             macro == [id |-> "macro", name |-> "Macro", symbols |-> MacroSymbols]
             lists == <<core, macro>>
  <2>1. IsList(core) /\ core.id = "core"
    BY DefaultsAssumption DEF IsList
  <2>2. IsList(macro)
    BY DefaultsAssumption DEF IsList
  <2> HIDE DEF core, macro
  <2>3. lists \in Seq({core, macro}) /\ DOMAIN lists = {1, 2} /\ lists[1] = core /\ lists[2] = macro
    OBVIOUS
  <2>4. DefaultWatchlists = lists
    BY DEF DefaultWatchlists, core, macro
  <2> HIDE DEF lists
  <2>5. \A i \in DOMAIN lists : IsList(lists[i])
    BY <2>1, <2>2, <2>3
  <2>6. HasList(lists, "core")
    BY <2>1, <2>3 DEF HasList
  <2> QED
    BY <2>3, <2>4, <2>5, <2>6, ListsByPlace
<1>3. SetsInv(<<>>) /\ DraftsInv(<<>>)
  <2>1. <<>> \in Seq({}) /\ Len(<<>>) = 0 /\ ToSet(<<>>) = {}
    BY DEF ToSet
  <2> QED
    BY <2>1, Limits DEF SetsInv, DraftsInv
<1>4. /\ InitialStore.activeTicker = "SPY" /\ InitialStore.watchlists = DefaultWatchlists
      /\ InitialStore.activeWatchlistId = "core" /\ InitialStore.recentTickers = FirstRecents
      /\ InitialStore.compareTickers = FirstCompare /\ InitialStore.savedCompareSets = <<>>
      /\ InitialStore.savedBacktests = <<>>
  BY DEF InitialStore
<1> QED
  BY <1>1, <1>2, <1>3, <1>4, DefaultsAssumption DEF StoreInv

(* Opening a ticker leaves a store (setActiveTicker, addRecentTicker). *)
LEMMA TickerKeeps ==
  ASSUME NEW w, StoreInv(w), NEW x \in Text
  PROVE  /\ StoreInv(SetActiveTicker(w, x)) /\ StoreInv(AddRecentTicker(w, x))
<1>1. Upper[x] \in Symbol
  BY SymbolsInUpper
<1>2. StoreInv(SetActiveTicker(w, x))
  <2> DEFINE u == SetActiveTicker(w, x)
  <2>1. u = [w EXCEPT !["activeTicker"] = Upper[x]]
    BY DEF SetActiveTicker
  <2> HIDE DEF u
  <2>2. "activeTicker" \in DOMAIN InitialStore \ {"watchlists", "activeWatchlistId"}
    BY StoreFields
  <2> QED
    BY <1>1, <2>1, <2>2, FieldKeeps DEF u
<1>3. StoreInv(AddRecentTicker(w, x))
  <2> DEFINE v == UniqHead(<<x>> \o w.recentTickers, RecentLimit)
             u == AddRecentTicker(w, x)
  <2>1. u = [w EXCEPT !["recentTickers"] = v]
    BY DEF AddRecentTicker
  <2>2. w.recentTickers \in Seq(Text)
    BY SymbolsFacts DEF StoreInv
  <2>3. <<x>> \o w.recentTickers \in Seq(Text)
    BY <2>2, PrependedFacts
  <2>4. IsSymbols(v, RecentLimit)
    BY <2>3, UniqHeadFacts, Limits
  <2> HIDE DEF u, v
  <2>5. "recentTickers" \in DOMAIN InitialStore \ {"watchlists", "activeWatchlistId"}
    BY StoreFields
  <2> QED
    BY <2>1, <2>4, <2>5, FieldKeeps DEF u
<1> QED
  BY <1>2, <1>3

(* Remembering the route leaves a store and its lists (setLastRoute). *)
LEMMA RouteKeeps ==
  ASSUME NEW w, StoreInv(w), NEW p
  PROVE  /\ StoreInv(SetLastRoute(w, p))
         /\ SetLastRoute(w, p).watchlists = w.watchlists
         /\ SetLastRoute(w, p).activeWatchlistId = w.activeWatchlistId
<1> DEFINE u == SetLastRoute(w, p)
<1>1. u = [w EXCEPT !["lastRoute"] = p]
  BY DEF SetLastRoute
<1> HIDE DEF u
<1>2. "lastRoute" \in DOMAIN InitialStore \ {"watchlists", "activeWatchlistId"}
  BY StoreFields
<1>3. StoreInv(u)
  BY <1>1, <1>2, FieldKeeps
<1>4. u["watchlists"] = w["watchlists"] /\ u["activeWatchlistId"] = w["activeWatchlistId"]
  <2>1. DOMAIN w = DOMAIN InitialStore
    BY DEF StoreInv
  <2> QED
    BY <1>1, <2>1, StoreFields
<1> QED
  BY <1>3, <1>4 DEF u

(* Mounting a page. *)
LEMMA MountedKeeps ==
  ASSUME NEW w, StoreInv(w), NEW p, NEW x \in Text
  PROVE  StoreInv(Mounted(w, p, x))
<1>1. StoreInv(SetActiveTicker(w, x))
  BY TickerKeeps
<1>2. StoreInv(AddRecentTicker(SetActiveTicker(w, x), x))
  BY <1>1, TickerKeeps
<1> QED
  BY <1>2, RouteKeeps DEF Mounted

(* Setting and toggling what is compared leaves a store                    *)
(* (setCompareTickers, toggleCompareTicker).                               *)
LEMMA CompareKeeps ==
  ASSUME NEW w, StoreInv(w)
  PROVE  /\ \A tickers \in Seq(Text) : StoreInv(SetCompareTickers(w, tickers))
         /\ \A x \in Text : StoreInv(ToggleCompareTicker(w, x))
<1>1. "compareTickers" \in DOMAIN InitialStore \ {"watchlists", "activeWatchlistId"}
  BY StoreFields
<1>2. ASSUME NEW tickers \in Seq(Text) PROVE StoreInv(SetCompareTickers(w, tickers))
  <2> DEFINE v == UniqHead(tickers, CompareLimit)
             u == SetCompareTickers(w, tickers)
  <2>1. u = [w EXCEPT !["compareTickers"] = v]
    BY DEF SetCompareTickers
  <2>2. IsSymbols(v, CompareLimit)
    BY UniqHeadFacts, Limits
  <2> HIDE DEF u, v
  <2> QED
    BY <1>1, <2>1, <2>2, FieldKeeps DEF u
<1>3. ASSUME NEW x \in Text PROVE StoreInv(ToggleCompareTicker(w, x))
  <2> DEFINE v == Toggled(w.compareTickers, Upper[x], CompareLimit)
             u == ToggleCompareTicker(w, x)
  <2>1. u = [w EXCEPT !["compareTickers"] = v]
    BY DEF ToggleCompareTicker
  <2>2. IsSymbols(w.compareTickers, CompareLimit) /\ Upper[x] \in Symbol
    BY SymbolsInUpper DEF StoreInv
  <2>3. IsSymbols(v, CompareLimit)
    BY <2>2, ToggledFacts, Limits
  <2> HIDE DEF u, v
  <2> QED
    BY <1>1, <2>1, <2>3, FieldKeeps DEF u
<1> QED
  BY <1>2, <1>3

(* Putting an item first and cutting the rest off at the limit, or taking *)
(* one away, leaves items that were there.                                *)
LEMMA SavedFacts ==
  ASSUME NEW X, NEW items \in Seq(X), Len(items) <= SavedLimit
  PROVE  /\ \A item : /\ Saved(items, item) \in Seq(ToSet(Saved(items, item)))
                      /\ Len(Saved(items, item)) <= SavedLimit
                      /\ ToSet(Saved(items, item)) \subseteq ToSet(items) \cup {item}
         /\ \A id : /\ Without(items, id) \in Seq(ToSet(Without(items, id)))
                    /\ Len(Without(items, id)) <= SavedLimit
                    /\ ToSet(Without(items, id)) \subseteq ToSet(items)
<1>1. ASSUME NEW item
      PROVE  /\ Saved(items, item) \in Seq(ToSet(Saved(items, item)))
             /\ Len(Saved(items, item)) <= SavedLimit
             /\ ToSet(Saved(items, item)) \subseteq ToSet(items) \cup {item}
  <2> DEFINE Y == X \cup {item}
             more == <<item>> \o items
  <2>1. items \in Seq(Y) /\ item \in Y
    OBVIOUS
  <2> HIDE DEF Y
  <2>2. more \in Seq(Y) /\ ToSet(more) = {item} \cup ToSet(items)
    BY <2>1, PrependedFacts
  <2> HIDE DEF more
  <2>3. /\ Take(more, SavedLimit) \in Seq(Y) /\ Len(Take(more, SavedLimit)) <= SavedLimit
        /\ ToSet(Take(more, SavedLimit)) \subseteq ToSet(more)
    BY <2>2, TakeFacts, Limits
  <2>4. Take(more, SavedLimit) \in Seq(ToSet(Take(more, SavedLimit)))
    BY <2>3, SeqOfOwn
  <2> QED
    BY <2>2, <2>3, <2>4 DEF Saved, more
<1>2. ASSUME NEW id
      PROVE  /\ Without(items, id) \in Seq(ToSet(Without(items, id)))
             /\ Len(Without(items, id)) <= SavedLimit
             /\ ToSet(Without(items, id)) \subseteq ToSet(items)
  <2> DEFINE I == {i \in DOMAIN items : items[i].id # id}
  <2>1. Without(items, id) = AtPlaces(items, I)
    BY DEF Without, Where
  <2> HIDE DEF I
  <2>2. /\ AtPlaces(items, I) \in Seq(X)
        /\ ToSet(AtPlaces(items, I)) \subseteq ToSet(items)
        /\ Len(AtPlaces(items, I)) <= Len(items)
    BY AtPlacesSelects, FilteredElements
  <2>3. AtPlaces(items, I) \in Seq(ToSet(AtPlaces(items, I)))
    BY <2>2, SeqOfOwn
  <2>4. Len(items) \in Nat /\ Len(AtPlaces(items, I)) \in Nat
    BY <2>2
  <2>5. Len(AtPlaces(items, I)) <= SavedLimit
    BY <2>2, <2>4, Limits
  <2> QED
    BY <2>1, <2>2, <2>3, <2>5
<1> QED
  BY <1>1, <1>2

(* Saving and deleting a set of tickers leaves a store (saveCompareSet,    *)
(* deleteCompareSet).                                                      *)
LEMMA SetsKeep ==
  ASSUME NEW w, StoreInv(w), NEW id
  PROVE  /\ \A tickers \in Seq(Text) : StoreInv(SaveCompareSet(w, id, tickers))
         /\ StoreInv(DeleteCompareSet(w, id))
<1> DEFINE old == w.savedCompareSets
<1>1. "savedCompareSets" \in DOMAIN InitialStore \ {"watchlists", "activeWatchlistId"}
  BY StoreFields
<1>2. SetsInv(old)
  BY DEF StoreInv
<1>3. /\ old \in Seq(ToSet(old)) /\ Len(old) <= SavedLimit
      /\ \A set \in ToSet(old) : IsSymbols(set.tickers, CompareLimit)
  BY <1>2 DEF SetsInv
<1>4. ASSUME NEW tickers \in Seq(Text) PROVE StoreInv(SaveCompareSet(w, id, tickers))
  <2> DEFINE item == [id |-> id, tickers |-> UniqHead(tickers, CompareLimit)]
             v == Saved(old, item)
             u == SaveCompareSet(w, id, tickers)
  <2>1. u = [w EXCEPT !["savedCompareSets"] = v]
    BY DEF SaveCompareSet
  <2>2. IsSymbols(item.tickers, CompareLimit)
    BY UniqHeadFacts, Limits
  <2> HIDE DEF item, u, old
  <2>3. v \in Seq(ToSet(v)) /\ Len(v) <= SavedLimit /\ ToSet(v) \subseteq ToSet(old) \cup {item}
    BY <1>3, SavedFacts
  <2> HIDE DEF v
  <2>4. SetsInv(v)
    BY <1>3, <2>2, <2>3 DEF SetsInv
  <2> QED
    BY <1>1, <2>1, <2>4, FieldKeeps DEF u
<1>5. StoreInv(DeleteCompareSet(w, id))
  <2> DEFINE v == Without(old, id)
             u == DeleteCompareSet(w, id)
  <2>1. u = [w EXCEPT !["savedCompareSets"] = v]
    BY DEF DeleteCompareSet
  <2> HIDE DEF u, old
  <2>2. v \in Seq(ToSet(v)) /\ Len(v) <= SavedLimit /\ ToSet(v) \subseteq ToSet(old)
    BY <1>3, SavedFacts
  <2> HIDE DEF v
  <2>3. SetsInv(v)
    BY <1>3, <2>2 DEF SetsInv
  <2> QED
    BY <1>1, <2>1, <2>3, FieldKeeps DEF u
<1> QED
  BY <1>4, <1>5

(* Saving and deleting a draft leaves a store (saveBacktestDraft,          *)
(* deleteBacktestDraft).                                                   *)
LEMMA DraftsKeep ==
  ASSUME NEW w, StoreInv(w), NEW id
  PROVE  /\ \A d \in Drafts : StoreInv(SaveBacktestDraft(w, id, d))
         /\ StoreInv(DeleteBacktestDraft(w, id))
<1> DEFINE old == w.savedBacktests
<1>1. "savedBacktests" \in DOMAIN InitialStore \ {"watchlists", "activeWatchlistId"}
  BY StoreFields
<1>2. DraftsInv(old)
  BY DEF StoreInv
<1>3. /\ old \in Seq(ToSet(old)) /\ Len(old) <= SavedLimit
      /\ \A saved \in ToSet(old) : saved.draft \in Drafts
  BY <1>2 DEF DraftsInv
<1>4. ASSUME NEW d \in Drafts PROVE StoreInv(SaveBacktestDraft(w, id, d))
  <2> DEFINE item == [id |-> id, draft |-> d]
             v == Saved(old, item)
             u == SaveBacktestDraft(w, id, d)
  <2>1. u = [w EXCEPT !["savedBacktests"] = v]
    BY DEF SaveBacktestDraft
  <2>2. item.draft \in Drafts
    OBVIOUS
  <2> HIDE DEF item, u, old
  <2>3. v \in Seq(ToSet(v)) /\ Len(v) <= SavedLimit /\ ToSet(v) \subseteq ToSet(old) \cup {item}
    BY <1>3, SavedFacts
  <2> HIDE DEF v
  <2>4. DraftsInv(v)
    BY <1>3, <2>2, <2>3 DEF DraftsInv
  <2> QED
    BY <1>1, <2>1, <2>4, FieldKeeps DEF u
<1>5. StoreInv(DeleteBacktestDraft(w, id))
  <2> DEFINE v == Without(old, id)
             u == DeleteBacktestDraft(w, id)
  <2>1. u = [w EXCEPT !["savedBacktests"] = v]
    BY DEF DeleteBacktestDraft
  <2> HIDE DEF u, old
  <2>2. v \in Seq(ToSet(v)) /\ Len(v) <= SavedLimit /\ ToSet(v) \subseteq ToSet(old)
    BY <1>3, SavedFacts
  <2> HIDE DEF v
  <2>3. DraftsInv(v)
    BY <1>3, <2>2 DEF DraftsInv
  <2> QED
    BY <1>1, <2>1, <2>3, FieldKeeps DEF u
<1> QED
  BY <1>4, <1>5

(* Writing and clearing a note leaves a store (setWatchlistAnnotation,     *)
(* clearWatchlistAnnotation).                                              *)
LEMMA AnnotationsKeep ==
  ASSUME NEW w, StoreInv(w), NEW key
  PROVE  /\ \A note : StoreInv(SetAnnotation(w, key, note))
         /\ StoreInv(ClearAnnotation(w, key))
<1>1. "watchlistAnnotations" \in DOMAIN InitialStore \ {"watchlists", "activeWatchlistId"}
  BY StoreFields
<1>2. ASSUME NEW note PROVE StoreInv(SetAnnotation(w, key, note))
  <2> DEFINE v == (key :> note) @@ w.watchlistAnnotations
             u == SetAnnotation(w, key, note)
  <2>1. u = [w EXCEPT !["watchlistAnnotations"] = v]
    BY DEF SetAnnotation
  <2> HIDE DEF u, v
  <2> QED
    BY <1>1, <2>1, FieldKeeps DEF u
<1>3. StoreInv(ClearAnnotation(w, key))
  <2> DEFINE v == [k \in DOMAIN w.watchlistAnnotations \ {key} |-> w.watchlistAnnotations[k]]
             u == ClearAnnotation(w, key)
  <2>1. u = [w EXCEPT !["watchlistAnnotations"] = v]
    BY DEF ClearAnnotation
  <2> HIDE DEF u, v
  <2> QED
    BY <1>1, <2>1, FieldKeeps DEF u
<1> QED
  BY <1>2, <1>3

(* Lists changed place by place, each keeping its id, are lists again. *)
LEMMA ListsChanged ==
  ASSUME NEW lists, NEW active, ListsInv(lists, active), NEW more,
         more = [i \in DOMAIN lists |-> more[i]],
         \A i \in DOMAIN lists : IsList(more[i]) /\ more[i].id = lists[i].id
  PROVE  /\ ListsInv(more, active) /\ DOMAIN more = DOMAIN lists
<1>1. DOMAIN lists = 1..Len(lists) /\ Len(lists) \in Nat
  BY ListsFacts
<1>2. DOMAIN more = DOMAIN lists
  OBVIOUS
<1> DEFINE X == {more[i] : i \in DOMAIN lists}
<1>3. more \in Seq(X)
  <2>1. \A i \in 1..Len(lists) : more[i] \in X
    BY <1>1
  <2> HIDE DEF X
  <2> QED
    BY <1>1, <2>1
<1> HIDE DEF X
<1>4. HasList(more, active)
  BY <1>2 DEF ListsInv, HasList
<1> QED
  BY <1>2, <1>3, <1>4, ListsByPlace

(* Toggling a symbol of a list leaves a list of the same id. *)
LEMMA ListToggled ==
  ASSUME NEW list, IsList(list), NEW x \in Symbol, NEW u,
         u = [list EXCEPT !.symbols = Toggled(list.symbols, x, ListLimit)]
  PROVE  IsList(u) /\ u.id = list.id /\ u.symbols = Toggled(list.symbols, x, ListLimit)
<1> DEFINE v == Toggled(list.symbols, x, ListLimit)
<1>1. IsSymbols(v, ListLimit)
  BY ToggledFacts, Limits DEF IsList
<1> HIDE DEF v
<1>2. u = [list EXCEPT !.symbols = v]
  BY DEF v
<1>3. list = [id |-> list.id, name |-> list.name, symbols |-> list.symbols]
  BY DEF IsList
<1>4. u = [id |-> list.id, name |-> list.name, symbols |-> v]
  BY <1>2, <1>3
<1>5. u.id = list.id /\ u.name = list.name /\ u.symbols = v
  BY <1>4
<1>6. IsList(u)
  BY <1>1, <1>4, <1>5 DEF IsList
<1> QED
  BY <1>5, <1>6 DEF v

(* A toggle changes the symbols of the lists with the id and nothing else of *)
(* the lists.                                                                *)
LEMMA ToggleKeeps ==
  ASSUME NEW w, StoreInv(w), NEW x \in Text, NEW id
  PROVE  LET u == ToggleWatchlist(w, x, id)
         IN /\ StoreInv(u) /\ u.activeWatchlistId = w.activeWatchlistId
            /\ DOMAIN u.watchlists = DOMAIN w.watchlists
            /\ \A i \in DOMAIN w.watchlists :
                 /\ u.watchlists[i].id = w.watchlists[i].id
                 /\ w.watchlists[i].id = id =>
                      u.watchlists[i].symbols =
                        Toggled(w.watchlists[i].symbols, Upper[x], ListLimit)
<1> DEFINE lists == w.watchlists
           Changed(list) == [list EXCEPT !.symbols = Toggled(list.symbols, Upper[x], ListLimit)]
           more == [i \in DOMAIN lists |-> IF lists[i].id = id THEN Changed(lists[i]) ELSE lists[i]]
           u == ToggleWatchlist(w, x, id)
<1>1. ListsInv(lists, w.activeWatchlistId)
  BY DEF StoreInv
<1>2. u = [w EXCEPT !.watchlists = more]
  BY DEF ToggleWatchlist, WithList, Mapped
<1>3. Upper[x] \in Symbol
  BY SymbolsInUpper
<1>4. ASSUME NEW i \in DOMAIN lists
      PROVE  /\ IsList(more[i]) /\ more[i].id = lists[i].id
             /\ lists[i].id = id =>
                  more[i].symbols = Toggled(lists[i].symbols, Upper[x], ListLimit)
  <2>1. IsList(lists[i])
    BY <1>1, ListsFacts
  <2>2. CASE lists[i].id = id
    <3>1. more[i] = Changed(lists[i])
      BY <2>2
    <3> HIDE DEF more, lists
    <3>2. more[i] = [lists[i] EXCEPT !.symbols = Toggled(lists[i].symbols, Upper[x], ListLimit)]
      BY <3>1
    <3> HIDE DEF Changed
    <3> QED
      BY <1>3, <2>1, <3>2, ListToggled
  <2>3. CASE lists[i].id # id
    <3>1. more[i] = lists[i]
      BY <2>3
    <3> QED
      BY <2>1, <2>3, <3>1
  <2> QED
    BY <2>2, <2>3
<1>5. more = [i \in DOMAIN lists |-> more[i]]
  OBVIOUS
<1> HIDE DEF more, Changed, u
<1>6. ListsInv(more, w.activeWatchlistId) /\ DOMAIN more = DOMAIN lists
  BY <1>1, <1>4, <1>5, ListsChanged
<1> HIDE DEF lists
<1> DEFINE active == w.activeWatchlistId
<1>7. active = w.activeWatchlistId
  OBVIOUS
<1> HIDE DEF active
<1>8. ListsInv(more, active)
  BY <1>6, <1>7
<1>9. \/ u = [w EXCEPT !.watchlists = more, !.activeWatchlistId = active]
      \/ u = [w EXCEPT !.watchlists = more] /\ active = w.activeWatchlistId
      \/ u = [w EXCEPT !.activeWatchlistId = active] /\ more = w.watchlists
  BY <1>2, <1>7
<1>10. StoreInv(u)
  BY <1>8, <1>9, ListsKeep
<1>11. u.watchlists = more /\ u.activeWatchlistId = active
  <2>1. DOMAIN w = DOMAIN InitialStore
    BY DEF StoreInv
  <2> QED
    BY <1>2, <1>7, <2>1, StoreFields
<1> QED
  BY <1>4, <1>6, <1>7, <1>10, <1>11 DEF u, lists

(* A new name leaves a store (renameWatchlist). *)
LEMMA RenameKeeps ==
  ASSUME NEW w, StoreInv(w), NEW id, NEW name
  PROVE  StoreInv(RenameWatchlist(w, id, name))
<1> DEFINE lists == w.watchlists
           Changed(list) == [list EXCEPT !.name = IF name = "" THEN list.name ELSE name]
           more == [i \in DOMAIN lists |-> IF lists[i].id = id THEN Changed(lists[i]) ELSE lists[i]]
           u == RenameWatchlist(w, id, name)
<1>1. ListsInv(lists, w.activeWatchlistId)
  BY DEF StoreInv
<1>2. u = [w EXCEPT !.watchlists = more]
  BY DEF RenameWatchlist, WithList, Mapped
<1>3. ASSUME NEW list, IsList(list)
      PROVE  IsList(Changed(list)) /\ Changed(list).id = list.id
  <2> DEFINE n == IF name = "" THEN list.name ELSE name
             c == Changed(list)
  <2>1. c = [list EXCEPT !.name = n]
    OBVIOUS
  <2> HIDE DEF n, c
  <2>2. c = [id |-> list.id, name |-> n, symbols |-> list.symbols]
    BY <1>3, <2>1 DEF IsList
  <2>3. c.id = list.id /\ c.name = n /\ c.symbols = list.symbols
    BY <2>2
  <2>4. IsList(c)
    BY <1>3, <2>2, <2>3 DEF IsList
  <2> QED
    BY <2>3, <2>4 DEF c
<1> HIDE DEF Changed
<1>4. ASSUME NEW i \in DOMAIN lists
      PROVE  IsList(more[i]) /\ more[i].id = lists[i].id
  <2>1. IsList(lists[i])
    BY <1>1, ListsFacts
  <2>2. more[i] = IF lists[i].id = id THEN Changed(lists[i]) ELSE lists[i]
    OBVIOUS
  <2> QED
    BY <1>3, <2>1, <2>2
<1>5. more = [i \in DOMAIN lists |-> more[i]]
  OBVIOUS
<1> HIDE DEF more, u
<1>6. ListsInv(more, w.activeWatchlistId)
  BY <1>1, <1>4, <1>5, ListsChanged
<1> HIDE DEF lists
<1>7. StoreInv(u)
  BY <1>2, <1>6, ListsKeep
<1> QED
  BY <1>7 DEF u

(* The list that is chosen is one of the lists. *)
LEMMA ChoiceKeeps ==
  ASSUME NEW w, StoreInv(w), NEW id, HasList(w.watchlists, id)
  PROVE  StoreInv(SetActiveWatchlist(w, id))
<1>1. ListsInv(w.watchlists, id)
  BY DEF StoreInv, ListsInv
<1>2. SetActiveWatchlist(w, id) = [w EXCEPT !.activeWatchlistId = id]
  BY DEF SetActiveWatchlist
<1> QED
  BY <1>1, <1>2, ListsKeep

(* A new list is the active one. *)
LEMMA CreateKeeps ==
  ASSUME NEW w, StoreInv(w), NEW id, NEW name
  PROVE  StoreInv(CreateWatchlist(w, id, name))
<1> DEFINE lists == w.watchlists
           n == Numbered(name, "Watchlist ", Len(lists) + 1)
           list == [id |-> id, symbols |-> <<>>, name |-> n]
           more == Append(lists, list)
           X == ToSet(lists) \cup {list}
           u == CreateWatchlist(w, id, name)
<1>1. ListsInv(lists, w.activeWatchlistId)
  BY DEF StoreInv
<1>2. u = [w EXCEPT !.watchlists = more, !.activeWatchlistId = id]
  BY DEF CreateWatchlist
<1> HIDE DEF n, u
<1>3. IsList(list) /\ list.id = id
  <2>1. IsSymbols(<<>>, ListLimit)
    <3>1. <<>> \in Seq(Symbol)
      OBVIOUS
    <3>2. Len(<<>>) = 0 /\ IsInjective(<<>>)
      BY DEF IsInjective
    <3> QED
      BY <3>1, <3>2, Limits DEF IsSymbols
  <2> QED
    BY <2>1 DEF IsList
<1>4. /\ lists \in Seq(ToSet(lists)) /\ DOMAIN lists = 1..Len(lists) /\ Len(lists) \in Nat
      /\ \A i \in DOMAIN lists : IsList(lists[i])
  BY <1>1, ListsFacts
<1> HIDE DEF lists, list
<1>5. lists \in Seq(X) /\ list \in X
  BY <1>4
<1> HIDE DEF X
<1>6. /\ more \in Seq(X) /\ DOMAIN more = 1..(Len(lists) + 1)
      /\ \A i \in 1..Len(lists) : more[i] = lists[i]
      /\ more[Len(lists) + 1] = list
  BY <1>4, <1>5
<1> HIDE DEF more
<1>7. ASSUME NEW i \in DOMAIN more PROVE IsList(more[i])
  <2>1. CASE i \in 1..Len(lists)
    BY <1>4, <1>6, <2>1
  <2>2. CASE i = Len(lists) + 1
    BY <1>3, <1>6, <2>2
  <2> QED
    BY <1>4, <1>6, <2>1, <2>2
<1>8. HasList(more, id)
  BY <1>3, <1>4, <1>6 DEF HasList
<1>9. ListsInv(more, id)
  BY <1>6, <1>7, <1>8, ListsByPlace
<1>10. StoreInv(u)
  BY <1>2, <1>9, ListsKeep
<1> QED
  BY <1>10 DEF u

(* When a list goes, the active one is one of those that remain. *)
LEMMA DeleteKeeps ==
  ASSUME NEW w, StoreInv(w), NEW id
  PROVE  StoreInv(DeleteWatchlist(w, id))
<1> DEFINE lists == w.watchlists
           remaining == Where(lists, LAMBDA list : list.id # id)
           next == IF remaining = <<>> THEN Take(DefaultWatchlists, 1) ELSE remaining
           active == IF HasList(next, w.activeWatchlistId) THEN w.activeWatchlistId ELSE next[1].id
           u == DeleteWatchlist(w, id)
<1>1. ListsInv(lists, w.activeWatchlistId)
  BY DEF StoreInv
<1>2. u = [w EXCEPT !.watchlists = next, !.activeWatchlistId = active]
  BY DEF DeleteWatchlist
<1>3. /\ remaining \in Seq(ToSet(lists)) /\ ToSet(remaining) \subseteq ToSet(lists)
  <2> DEFINE I == {i \in DOMAIN lists : lists[i].id # id}
  <2>1. remaining = AtPlaces(lists, I)
    BY DEF Where
  <2>2. lists \in Seq(ToSet(lists))
    BY <1>1, ListsFacts
  <2> HIDE DEF I, lists, remaining
  <2> QED
    BY <2>1, <2>2, AtPlacesSelects, FilteredElements
<1> HIDE DEF remaining
<1>4. /\ Take(DefaultWatchlists, 1) \in Seq(ToSet(DefaultWatchlists))
      /\ Len(Take(DefaultWatchlists, 1)) > 0
      /\ ToSet(Take(DefaultWatchlists, 1)) \subseteq ToSet(DefaultWatchlists)
      /\ \A list \in ToSet(DefaultWatchlists) : IsList(list)
  <2>1. ListsInv(DefaultWatchlists, "core")
    BY InitialKeeps DEF StoreInv, InitialStore
  <2>2. DefaultWatchlists \in Seq(ToSet(DefaultWatchlists)) /\ Len(DefaultWatchlists) > 0
        /\ Len(DefaultWatchlists) \in Nat
    BY <2>1, ListsFacts
  <2> DEFINE D == ToSet(DefaultWatchlists)
             first == Take(DefaultWatchlists, 1)
             n == Len(DefaultWatchlists)
  <2> HIDE DEF first, D, n
  <2>3. /\ first \in Seq(D)
        /\ Len(first) = n \/ Len(first) = 1
        /\ Len(first) <= 1 /\ ToSet(first) \subseteq D
    BY <2>2, TakeFacts DEF first, D, n
  <2>4. Len(first) > 0
    <3>1. n \in Nat /\ n > 0
      BY <2>2 DEF n
    <3>2. Len(first) \in Nat
      BY <2>3
    <3> QED
      BY ONLY <2>3, <3>1, <3>2
  <2>5. \A list \in ToSet(DefaultWatchlists) : IsList(list)
    BY <2>1 DEF ListsInv
  <2> QED
    BY <2>3, <2>4, <2>5 DEF first, D
<1> DEFINE X == ToSet(lists) \cup ToSet(DefaultWatchlists)
<1>5. \A list \in X : IsList(list)
  BY <1>1, <1>4 DEF ListsInv
<1>6. next \in Seq(X) /\ next # <<>>
  <2>1. CASE remaining = <<>>
    <3>1. next = Take(DefaultWatchlists, 1)
      BY <2>1
    <3> HIDE DEF next
    <3> QED
      BY <1>4, <3>1
  <2>2. CASE remaining # <<>>
    BY <1>3, <2>2
  <2> QED
    BY <2>1, <2>2
<1> HIDE DEF next, X, u
<1>7. /\ \A i \in DOMAIN next : IsList(next[i])
      /\ 1 \in DOMAIN next
  <2>1. DOMAIN next = 1..Len(next) /\ Len(next) \in Nat /\ Len(next) > 0
        /\ \A i \in 1..Len(next) : next[i] \in X
    BY <1>6
  <2> QED
    BY <1>5, <2>1
<1>8. HasList(next, active)
  BY <1>7 DEF HasList
<1>9. ListsInv(next, active)
  BY <1>6, <1>7, <1>8, ListsByPlace
<1> HIDE DEF active, lists
<1>10. StoreInv(u)
  BY <1>2, <1>9, ListsKeep
<1> QED
  BY <1>10 DEF u

-----------------------------------------------------------------------------
(* Persistence.                                                            *)

(* Whatever is stored for a list of symbols, the merge makes one of it. *)
LEMMA SanitizedStrings ==
  ASSUME NEW value \in StoredTexts, NEW n \in Nat \ {0}, NEW fallback, IsSymbols(fallback, n)
  PROVE  IsSymbols(SanitizeStrings(value, n, fallback), n)
<1>1. CASE value \in {Junk, Null}
  BY <1>1 DEF SanitizeStrings
<1>2. CASE value \notin {Junk, Null}
  <2> DEFINE X == Text \cup {Junk, Null, ""}
             I == {i \in DOMAIN value : IsText(value[i])}
             texts == AtPlaces(value, I)
  <2>1. value \in Seq(X)
    BY <1>2 DEF StoredTexts
  <2> HIDE DEF X
  <2>2. DOMAIN value = 1..Len(value) /\ \A i \in 1..Len(value) : value[i] \in X
    BY <2>1
  <2>3. \A i \in I \cap (1..Len(value)) : value[i] \in Text
    BY <2>2 DEF IsText, X
  <2>4. Where(value, IsText) = texts
    BY DEF Where
  <2> HIDE DEF I
  <2>5. texts \in Seq(X) /\ ToSet(texts) = {value[i] : i \in I \cap (1..Len(value))}
    BY <2>1, AtPlacesSelects, FilteredElements
  <2> HIDE DEF texts
  <2>6. ToSet(texts) \subseteq Text
    BY <2>3, <2>5
  <2>7. texts \in Seq(Text)
    BY <2>5, <2>6, SeqOfElements
  <2>8. SanitizeStrings(value, n, fallback) = UniqHead(texts, n)
    BY <1>2, <2>4 DEF SanitizeStrings
  <2> QED
    BY <2>7, <2>8, UniqHeadFacts
<1> QED
  BY <1>1, <1>2

(* No symbols are a list of symbols. *)
LEMMA NoSymbols == \A n \in Nat : IsSymbols(<<>>, n)
<1>1. <<>> \in Seq(Symbol)
  OBVIOUS
<1>2. Len(<<>>) = 0 /\ IsInjective(<<>>)
  BY DEF IsInjective
<1> QED
  BY <1>1, <1>2 DEF IsSymbols

(* The records among what is stored. *)
LEMMA RecordsFacts ==
  ASSUME NEW value, IsItems(value), value \notin {Junk, Null}
  PROVE  LET records == Where(value, LAMBDA x : x \notin {Junk, Null})
         IN /\ records \in Seq(Usable(value)) /\ DOMAIN records = 1..Len(records)
            /\ Len(records) \in Nat
            /\ \A i \in 1..Len(records) : records[i] \in Usable(value)
<1> DEFINE I == {i \in DOMAIN value : value[i] \notin {Junk, Null}}
           records == AtPlaces(value, I)
<1>1. Where(value, LAMBDA x : x \notin {Junk, Null}) = records
  BY DEF Where
<1>2. value \in Seq(ToSet(value))
  BY DEF IsItems
<1>3. \A i \in I \cap (1..Len(value)) : value[i] \in Usable(value)
  <2>1. \A i \in DOMAIN value : value[i] \in ToSet(value)
    BY DEF ToSet
  <2> QED
    BY <2>1 DEF Usable
<1> HIDE DEF I
<1>4. /\ records \in Seq(ToSet(value))
      /\ ToSet(records) = {value[i] : i \in I \cap (1..Len(value))}
  BY <1>2, AtPlacesSelects, FilteredElements
<1> HIDE DEF records
<1>5. ToSet(records) \subseteq Usable(value)
  BY <1>3, <1>4
<1>6. records \in Seq(Usable(value))
  BY <1>4, <1>5, SeqOfElements
<1>7. DOMAIN records = 1..Len(records) /\ Len(records) \in Nat
      /\ \A i \in 1..Len(records) : records[i] \in Usable(value)
  BY <1>6
<1> QED
  BY <1>1, <1>6, <1>7

(* Some of the elements of a list that was made place by place. *)
LEMMA MadeAndFiltered ==
  ASSUME NEW n \in Nat, NEW made, made = [i \in 1..n |-> made[i]], NEW I
  PROVE  LET r == AtPlaces(made, I)
             X == {made[i] : i \in 1..n}
         IN r \in Seq(X) /\ r \in Seq(ToSet(r)) /\ ToSet(r) \subseteq X
<1> DEFINE X == {made[i] : i \in 1..n}
<1>1. \A i \in 1..n : made[i] \in X
  OBVIOUS
<1> HIDE DEF X
<1>2. made \in Seq(X)
  BY <1>1
<1>3. AtPlaces(made, I) \in Seq(X)
  BY <1>2, AtPlacesSelects
<1>4. AtPlaces(made, I) \in Seq(ToSet(AtPlaces(made, I))) /\ ToSet(AtPlaces(made, I)) \subseteq X
  BY <1>3, SeqOfOwn
<1> QED
  BY <1>3, <1>4 DEF X

(* Whatever is stored for the lists, the merge makes lists of it. *)
LEMMA SanitizedWatchlists ==
  ASSUME NEW value, IsItems(value),
         \A list \in Usable(value) : list.symbols \in StoredTexts
  PROVE  LET lists == SanitizeWatchlists(value)
         IN /\ lists \in Seq(ToSet(lists)) /\ lists # <<>>
            /\ \A list \in ToSet(lists) : IsList(list)
<1> DEFINE lists == SanitizeWatchlists(value)
<1>1. /\ DefaultWatchlists \in Seq(ToSet(DefaultWatchlists)) /\ DefaultWatchlists # <<>>
      /\ \A list \in ToSet(DefaultWatchlists) : IsList(list)
  <2>1. ListsInv(DefaultWatchlists, "core")
    BY InitialKeeps DEF StoreInv, InitialStore
  <2>2. DefaultWatchlists \in Seq(ToSet(DefaultWatchlists)) /\ Len(DefaultWatchlists) > 0
    BY <2>1, ListsFacts
  <2>3. DefaultWatchlists # <<>>
    BY DEF DefaultWatchlists
  <2> QED
    BY <2>1, <2>2, <2>3 DEF ListsInv
<1>2. CASE value \in {Junk, Null}
  <2>1. Where(<<>>, LAMBDA list : list.symbols # <<>>) = <<>>
    <3> DEFINE I == {i \in DOMAIN <<>> : <<>>[i].symbols # <<>>}
    <3>1. Where(<<>>, LAMBDA list : list.symbols # <<>>) = AtPlaces(<<>>, I)
      BY DEF Where
    <3> HIDE DEF I
    <3>2. <<>> \in Seq({}) /\ Len(<<>>) = 0
      OBVIOUS
    <3>3. I \cap (1..Len(<<>>)) = {}
      BY <3>2
    <3>4. AtPlaces(<<>>, I) = <<>>
      BY <3>2, <3>3, FilteredNone
    <3> QED
      BY <3>1, <3>4
  <2>2. lists = DefaultWatchlists
    BY <1>2, <2>1 DEF SanitizeWatchlists, Items
  <2> HIDE DEF lists
  <2> QED
    BY <1>1, <2>2 DEF lists
<1>3. CASE value \notin {Junk, Null}
  <2> DEFINE records == Where(value, LAMBDA x : x \notin {Junk, Null})
             made == [i \in DOMAIN records |->
                        [ id |-> SanitizeId(records[i].id, "watchlist-", i),
                          name |-> SanitizeId(records[i].name, "Watchlist ", i),
                          symbols |-> SanitizeStrings(records[i].symbols, ListLimit, <<>>) ]]
             I == {i \in DOMAIN made : made[i].symbols # <<>>}
             kept == AtPlaces(made, I)
             n == Len(records)
  <2>1. lists = IF kept = <<>> THEN DefaultWatchlists ELSE kept
    BY <1>3 DEF SanitizeWatchlists, Items, Where
  <2>2. DOMAIN records = 1..n /\ n \in Nat /\ \A i \in 1..n : records[i] \in Usable(value)
    BY <1>3, RecordsFacts
  <2> HIDE DEF records, n
  <2>3. ASSUME NEW i \in 1..n PROVE IsList(made[i])
    <3> DEFINE a == SanitizeId(records[i].id, "watchlist-", i)
               b == SanitizeId(records[i].name, "Watchlist ", i)
               c == SanitizeStrings(records[i].symbols, ListLimit, <<>>)
               l == made[i]
    <3>1. l = [id |-> a, name |-> b, symbols |-> c]
      BY <2>2
    <3>2. IsSymbols(c, ListLimit)
      BY <2>2, SanitizedStrings, NoSymbols, Limits
    <3> HIDE DEF a, b, c, l, made
    <3>3. l.id = a /\ l.name = b /\ l.symbols = c
      BY <3>1
    <3>4. IsList(l)
      BY <3>1, <3>2, <3>3 DEF IsList
    <3> QED
      BY <3>4 DEF l
  <2>4. made = [i \in 1..n |-> made[i]]
    BY <2>2
  <2> HIDE DEF made, I
  <2>5. kept \in Seq(ToSet(kept)) /\ ToSet(kept) \subseteq {made[i] : i \in 1..n}
    BY <2>2, <2>4, MadeAndFiltered
  <2>6. \A list \in ToSet(kept) : IsList(list)
    BY <2>3, <2>5
  <2> HIDE DEF lists, kept
  <2>7. CASE kept = <<>>
    <3>1. lists = DefaultWatchlists
      BY <2>1, <2>7
    <3> QED
      BY <1>1, <3>1 DEF lists
  <2>8. CASE kept # <<>>
    <3>1. lists = kept
      BY <2>1, <2>8
    <3> QED
      BY <2>5, <2>6, <2>8, <3>1 DEF lists
  <2> QED
    BY <2>7, <2>8
<1> QED
  BY <1>2, <1>3

(* Nothing is kept of nothing. *)
LEMMA NothingKept == \A I : Take(AtPlaces(<<>>, I), SavedLimit) = <<>>
<1> SUFFICES ASSUME NEW I PROVE Take(AtPlaces(<<>>, I), SavedLimit) = <<>>
  OBVIOUS
<1> DEFINE s == AtPlaces(<<>>, I)
           r == Take(s, SavedLimit)
<1>1. <<>> \in Seq({}) /\ Len(<<>>) = 0
  OBVIOUS
<1>2. I \cap (1..Len(<<>>)) = {}
  BY <1>1
<1>3. s \in Seq({}) /\ s = <<>>
  BY <1>1, <1>2, FilteredNone, AtPlacesSelects
<1> HIDE DEF s
<1>4. r \in Seq({})
  BY <1>3, TakeFacts, Limits
<1> HIDE DEF r
<1>5. r = <<>>
  BY <1>4
<1> QED
  BY <1>5 DEF r, s

(* The merge keeps what fits of what it has made. *)
LEMMA KeptFacts ==
  ASSUME NEW n \in Nat, NEW made, made = [i \in 1..n |-> made[i]], NEW I
  PROVE  LET r == Take(AtPlaces(made, I), SavedLimit)
         IN /\ r \in Seq(ToSet(r)) /\ Len(r) <= SavedLimit
            /\ \A x \in ToSet(r) : \E i \in 1..n : x = made[i]
<1> DEFINE X == {made[i] : i \in 1..n}
           q == AtPlaces(made, I)
           r == Take(q, SavedLimit)
<1>1. q \in Seq(X)
  BY MadeAndFiltered
<1> HIDE DEF q, X
<1>2. r \in Seq(X) /\ Len(r) <= SavedLimit
  BY <1>1, TakeFacts, Limits
<1> HIDE DEF r
<1>3. r \in Seq(ToSet(r)) /\ ToSet(r) \subseteq X
  BY <1>2, SeqOfOwn
<1> QED
  BY <1>2, <1>3 DEF X, r, q

(* Whatever is stored for the saved sets, the merge makes sets of it. *)
LEMMA SanitizedSets ==
  ASSUME NEW value, IsItems(value),
         \A set \in Usable(value) : set.tickers \in StoredTexts
  PROVE  SetsInv(SanitizeSavedCompareSets(value))
<1> DEFINE sets == SanitizeSavedCompareSets(value)
<1>1. CASE value \in {Junk, Null}
  <2> DEFINE I == {i \in DOMAIN <<>> : <<>>[i].tickers # <<>>}
  <2>1. sets = Take(AtPlaces(<<>>, I), SavedLimit)
    BY <1>1 DEF SanitizeSavedCompareSets, Items, Where
  <2> HIDE DEF I, sets
  <2>2. <<>> \in Seq({}) /\ Len(<<>>) = 0 /\ ToSet(<<>>) = {}
    BY DEF ToSet
  <2>4. sets = <<>>
    BY <2>1, NothingKept
  <2>5. SetsInv(<<>>)
    BY <2>2, Limits DEF SetsInv
  <2> QED
    BY <2>4, <2>5 DEF sets
<1>2. CASE value \notin {Junk, Null}
  <2> DEFINE records == Where(value, LAMBDA x : x \notin {Junk, Null})
             made == [i \in DOMAIN records |->
                        [ id |-> SanitizeId(records[i].id, "compare-", i),
                          tickers |-> SanitizeStrings(records[i].tickers, CompareLimit, <<>>) ]]
             I == {i \in DOMAIN made : made[i].tickers # <<>>}
             n == Len(records)
  <2>1. sets = Take(AtPlaces(made, I), SavedLimit)
    BY <1>2 DEF SanitizeSavedCompareSets, Items, Where
  <2>2. DOMAIN records = 1..n /\ n \in Nat /\ \A i \in 1..n : records[i] \in Usable(value)
    BY <1>2, RecordsFacts
  <2> HIDE DEF records, n
  <2>3. ASSUME NEW i \in 1..n PROVE IsSymbols(made[i].tickers, CompareLimit)
    <3> DEFINE a == SanitizeId(records[i].id, "compare-", i)
               c == SanitizeStrings(records[i].tickers, CompareLimit, <<>>)
    <3>1. made[i] = [id |-> a, tickers |-> c]
      BY <2>2
    <3>2. IsSymbols(c, CompareLimit)
      BY <2>2, SanitizedStrings, NoSymbols, Limits
    <3> HIDE DEF a, c, made
    <3>3. made[i].tickers = c
      BY <3>1
    <3> QED
      BY <3>2, <3>3
  <2>4. made = [i \in 1..n |-> made[i]]
    BY <2>2
  <2> HIDE DEF made, I, sets
  <2>5. /\ sets \in Seq(ToSet(sets)) /\ Len(sets) <= SavedLimit
        /\ \A x \in ToSet(sets) : \E i \in 1..n : x = made[i]
    BY <2>1, <2>2, <2>4, KeptFacts
  <2> QED
    BY <2>3, <2>5 DEF SetsInv, sets
<1> QED
  BY <1>1, <1>2

(* So for the saved drafts. *)
LEMMA SanitizedDrafts ==
  ASSUME NEW value, IsItems(value),
         \A saved \in Usable(value) : saved.draft \in Drafts
  PROVE  DraftsInv(SanitizeSavedDrafts(value))
<1> DEFINE drafts == SanitizeSavedDrafts(value)
<1>1. CASE value \in {Junk, Null}
  <2> DEFINE I == {i \in DOMAIN <<>> : <<>>[i].draft # Null}
  <2>1. drafts = Take(AtPlaces(<<>>, I), SavedLimit)
    BY <1>1 DEF SanitizeSavedDrafts, Items, Where
  <2> HIDE DEF I, drafts
  <2>2. <<>> \in Seq({}) /\ Len(<<>>) = 0 /\ ToSet(<<>>) = {}
    BY DEF ToSet
  <2>4. drafts = <<>>
    BY <2>1, NothingKept
  <2>5. DraftsInv(<<>>)
    BY <2>2, Limits DEF DraftsInv
  <2> QED
    BY <2>4, <2>5 DEF drafts
<1>2. CASE value \notin {Junk, Null}
  <2> DEFINE records == Where(value, LAMBDA x : x \notin {Junk, Null})
             made == [i \in DOMAIN records |->
                        [ id |-> SanitizeId(records[i].id, "draft-", i),
                          draft |-> records[i].draft ]]
             I == {i \in DOMAIN made : made[i].draft # Null}
             n == Len(records)
  <2>1. drafts = Take(AtPlaces(made, I), SavedLimit)
    BY <1>2 DEF SanitizeSavedDrafts, Items, Where
  <2>2. DOMAIN records = 1..n /\ n \in Nat /\ \A i \in 1..n : records[i] \in Usable(value)
    BY <1>2, RecordsFacts
  <2> HIDE DEF records, n
  <2>3. ASSUME NEW i \in 1..n PROVE made[i].draft \in Drafts
    <3> DEFINE a == SanitizeId(records[i].id, "draft-", i)
               c == records[i].draft
    <3>1. made[i] = [id |-> a, draft |-> c]
      BY <2>2
    <3>2. c \in Drafts
      BY <2>2
    <3> HIDE DEF a, c, made
    <3>3. made[i].draft = c
      BY <3>1
    <3> QED
      BY <3>2, <3>3
  <2>4. made = [i \in 1..n |-> made[i]]
    BY <2>2
  <2> HIDE DEF made, I, drafts
  <2>5. /\ drafts \in Seq(ToSet(drafts)) /\ Len(drafts) <= SavedLimit
        /\ \A x \in ToSet(drafts) : \E i \in 1..n : x = made[i]
    BY <2>1, <2>2, <2>4, KeptFacts
  <2> QED
    BY <2>3, <2>5 DEF DraftsInv, drafts
<1> QED
  BY <1>1, <1>2

(* Of whatever is stored, the merge makes a workspace, whose active list *)
(* exists.                                                               *)
LEMMA MergeKeeps ==
  ASSUME NEW v, StoredInv(v)
  PROVE  StoreInv(Merge(v))
<1> DEFINE u == Merge(v)
           lists == SanitizeWatchlists(v.watchlists)
           active == IF HasList(lists, v.activeWatchlistId) THEN v.activeWatchlistId
                     ELSE lists[1].id
<1>1. /\ lists \in Seq(ToSet(lists)) /\ lists # <<>>
      /\ \A list \in ToSet(lists) : IsList(list)
  BY SanitizedWatchlists DEF StoredInv
<1>2. /\ u.activeTicker = IF IsText(v.activeTicker) THEN Upper[v.activeTicker]
                          ELSE InitialStore.activeTicker
      /\ u.watchlists = lists /\ u.activeWatchlistId = active
      /\ u.recentTickers =
           SanitizeStrings(v.recentTickers, RecentLimit, InitialStore.recentTickers)
      /\ u.compareTickers =
           SanitizeStrings(v.compareTickers, CompareLimit, InitialStore.compareTickers)
      /\ u.savedCompareSets = SanitizeSavedCompareSets(v.savedCompareSets)
      /\ u.savedBacktests = SanitizeSavedDrafts(v.savedBacktests)
  BY DEF Merge
<1>3. u = [f \in DOMAIN InitialStore |-> u[f]]
  <2>1. DOMAIN u = DOMAIN InitialStore /\ u = [f \in DOMAIN u |-> u[f]]
    BY DEF Merge, InitialStore
  <2> HIDE DEF u
  <2> QED
    BY <2>1
<1> HIDE DEF u, lists
<1>4. StoreInv(InitialStore)
  BY InitialKeeps
<1>5. u.activeTicker \in Symbol
  <2>1. v.activeTicker \in Text \cup {Junk, Null, ""}
    BY DEF StoredInv
  <2>2. IsText(v.activeTicker) => v.activeTicker \in Text
    BY <2>1 DEF IsText
  <2> QED
    BY <1>2, <1>4, <2>2, SymbolsInUpper DEF StoreInv
<1>6. ListsInv(lists, active)
  <2>1. 1 \in DOMAIN lists
    BY <1>1
  <2>2. HasList(lists, active)
    BY <2>1 DEF HasList
  <2> QED
    BY <1>1, <2>2 DEF ListsInv
<1>7. IsSymbols(u.recentTickers, RecentLimit) /\ IsSymbols(u.compareTickers, CompareLimit)
  <2>1. v.recentTickers \in StoredTexts /\ v.compareTickers \in StoredTexts
    BY DEF StoredInv
  <2>2. /\ IsSymbols(InitialStore.recentTickers, RecentLimit)
        /\ IsSymbols(InitialStore.compareTickers, CompareLimit)
    BY <1>4 DEF StoreInv
  <2> QED
    BY <1>2, <2>1, <2>2, SanitizedStrings, Limits
<1>8. SetsInv(u.savedCompareSets) /\ DraftsInv(u.savedBacktests)
  BY <1>2, SanitizedSets, SanitizedDrafts DEF StoredInv
<1> HIDE DEF active
<1>9. StoreInv(u)
  BY <1>2, <1>3, <1>5, <1>6, <1>7, <1>8 DEF StoreInv
<1> QED
  BY <1>9 DEF u

(* A list of symbols is what may be stored for one. *)
LEMMA SymbolsAreStored ==
  ASSUME NEW s, NEW n, IsSymbols(s, n)
  PROVE  s \in StoredTexts
<1>1. s \in Seq(Text)
  BY SymbolsFacts
<1> DEFINE X == Text \cup {Junk, Null, ""}
<1>2. Text \subseteq X
  OBVIOUS
<1> HIDE DEF X
<1>3. s \in Seq(X)
  BY <1>1, <1>2
<1> QED
  BY <1>3 DEF StoredTexts, X

(* A workspace in use may be stored. *)
LEMMA StoreIsStored ==
  ASSUME NEW w, StoreInv(w)
  PROVE  StoredInv(w)
<1>1. w.activeTicker \in Text
  BY SymbolsInUpper DEF StoreInv
<1>2. w.recentTickers \in StoredTexts /\ w.compareTickers \in StoredTexts
  BY SymbolsAreStored DEF StoreInv
<1>3. /\ IsItems(w.watchlists)
      /\ \A list \in Usable(w.watchlists) : list.symbols \in StoredTexts
  <2>1. /\ w.watchlists \in Seq(ToSet(w.watchlists))
        /\ \A list \in ToSet(w.watchlists) : IsSymbols(list.symbols, ListLimit)
    BY DEF StoreInv, ListsInv, IsList
  <2>2. Usable(w.watchlists) \subseteq ToSet(w.watchlists)
    BY DEF Usable
  <2> QED
    BY <2>1, <2>2, SymbolsAreStored DEF IsItems
<1>4. /\ IsItems(w.savedCompareSets)
      /\ \A set \in Usable(w.savedCompareSets) : set.tickers \in StoredTexts
  <2>1. /\ w.savedCompareSets \in Seq(ToSet(w.savedCompareSets))
        /\ \A set \in ToSet(w.savedCompareSets) : IsSymbols(set.tickers, CompareLimit)
    BY DEF StoreInv, SetsInv
  <2>2. Usable(w.savedCompareSets) \subseteq ToSet(w.savedCompareSets)
    BY DEF Usable
  <2> QED
    BY <2>1, <2>2, SymbolsAreStored DEF IsItems
<1>5. /\ IsItems(w.savedBacktests)
      /\ \A saved \in Usable(w.savedBacktests) : saved.draft \in Drafts
  <2>1. /\ w.savedBacktests \in Seq(ToSet(w.savedBacktests))
        /\ \A saved \in ToSet(w.savedBacktests) : saved.draft \in Drafts
    BY DEF StoreInv, DraftsInv
  <2>2. Usable(w.savedBacktests) \subseteq ToSet(w.savedBacktests)
    BY DEF Usable
  <2> QED
    BY <2>1, <2>2 DEF IsItems
<1> QED
  BY <1>1, <1>2, <1>3, <1>4, <1>5 DEF StoredInv

(* A workspace in use keeps to its limits. *)
LEMMA StoreIsStore ==
  ASSUME NEW w, StoreInv(w)
  PROVE  IsStore(w)
<1>1. Symbol \subseteq Range(Upper)
  BY TextAssumption DEF Symbol, Range
<1>2. ASSUME NEW i \in DOMAIN w.watchlists
      PROVE  /\ Len(w.watchlists[i].symbols) <= ListLimit
             /\ IsInjective(w.watchlists[i].symbols)
             /\ ToSet(w.watchlists[i].symbols) \subseteq Range(Upper)
  <2>1. IsSymbols(w.watchlists[i].symbols, ListLimit)
    BY ListsFacts DEF StoreInv, IsList
  <2>2. ToSet(w.watchlists[i].symbols) \subseteq Symbol
    BY <2>1, SymbolsFacts
  <2> QED
    BY <1>1, <2>1, <2>2 DEF IsSymbols
<1>3. /\ w.activeTicker \in Range(Upper)
      /\ Len(w.recentTickers) <= RecentLimit /\ IsInjective(w.recentTickers)
      /\ Len(w.compareTickers) <= CompareLimit /\ IsInjective(w.compareTickers)
  BY <1>1 DEF StoreInv, IsSymbols
<1>4. Len(w.savedCompareSets) <= SavedLimit /\ Len(w.savedBacktests) <= SavedLimit
  BY DEF StoreInv, SetsInv, DraftsInv
<1> QED
  BY <1>2, <1>3, <1>4 DEF IsStore

(* One field of what is stored may be anything that may be stored for it. *)
LEMMA StoredField ==
  ASSUME NEW w, StoreInv(w), NEW f \in DOMAIN InitialStore, NEW v, NEW u,
         u = [w EXCEPT ![f] = v],
         f = "activeTicker" => v \in Text \cup {Junk, Null, ""},
         f \in {"recentTickers", "compareTickers"} => v \in StoredTexts,
         f \in {"watchlists", "savedCompareSets", "savedBacktests"} => IsItems(v),
         f = "watchlists" => \A list \in Usable(v) : list.symbols \in StoredTexts,
         f = "savedCompareSets" => \A set \in Usable(v) : set.tickers \in StoredTexts,
         f = "savedBacktests" => \A saved \in Usable(v) : saved.draft \in Drafts
  PROVE  StoredInv(u)
<1>1. StoredInv(w)
  BY StoreIsStored
<1>2. u[f] = v /\ \A g \in DOMAIN InitialStore \ {f} : u[g] = w[g]
  BY FieldSet DEF StoreInv, IsWorkspace
<1>3. u["activeTicker"] \in Text \cup {Junk, Null, ""}
  BY <1>1, <1>2, StoreFields DEF StoredInv
<1>4. u["recentTickers"] \in StoredTexts
  BY <1>1, <1>2, StoreFields DEF StoredInv
<1>5. u["compareTickers"] \in StoredTexts
  BY <1>1, <1>2, StoreFields DEF StoredInv
<1>6. IsItems(u["watchlists"]) /\ \A list \in Usable(u["watchlists"]) : list.symbols \in StoredTexts
  BY <1>1, <1>2, StoreFields DEF StoredInv
<1>7. /\ IsItems(u["savedCompareSets"])
      /\ \A set \in Usable(u["savedCompareSets"]) : set.tickers \in StoredTexts
  BY <1>1, <1>2, StoreFields DEF StoredInv
<1>8. /\ IsItems(u["savedBacktests"])
      /\ \A saved \in Usable(u["savedBacktests"]) : saved.draft \in Drafts
  BY <1>1, <1>2, StoreFields DEF StoredInv
<1> QED
  BY <1>3, <1>4, <1>5, <1>6, <1>7, <1>8 DEF StoredInv

(* The damaged lists are lists of records or of nothing, whose symbols are *)
(* texts or of no use.                                                     *)
LEMMA DamagedList ==
  ASSUME NEW w, StoreInv(w), NEW list, list.symbols \in StoredTexts, NEW u,
         u = [w EXCEPT !.watchlists = [w.watchlists EXCEPT ![1] = list]]
  PROVE  StoredInv(u)
<1> DEFINE lists == w.watchlists
           v == [lists EXCEPT ![1] = list]
           X == ToSet(lists) \cup {list}
<1>1. lists \in Seq(ToSet(lists)) /\ \A l \in ToSet(lists) : l.symbols \in StoredTexts
  BY SymbolsAreStored DEF StoreInv, ListsInv, IsList
<1>2. u = [w EXCEPT !["watchlists"] = v]
  OBVIOUS
<1> HIDE DEF lists
<1>3. lists \in Seq(X) /\ list \in X /\ \A l \in X : l.symbols \in StoredTexts
  BY <1>1
<1> HIDE DEF X
<1>4. v \in Seq(X)
  <2>1. DOMAIN lists = 1..Len(lists) /\ Len(lists) \in Nat /\ \A i \in 1..Len(lists) : lists[i] \in X
    BY <1>3
  <2>2. v = [i \in 1..Len(lists) |-> v[i]] /\ \A i \in 1..Len(lists) : v[i] \in X
    BY <1>3, <2>1
  <2> HIDE DEF v
  <2> QED
    BY <2>1, <2>2
<1> HIDE DEF v
<1>5. v \in Seq(ToSet(v)) /\ ToSet(v) \subseteq X
  BY <1>4, SeqOfOwn
<1>6. IsItems(v) /\ Usable(v) \subseteq X
  BY <1>5 DEF IsItems, Usable
<1>7. \A l \in Usable(v) : l.symbols \in StoredTexts
  BY <1>3, <1>6
<1>8. "watchlists" \in DOMAIN InitialStore
  BY StoreFields
<1> QED
  BY <1>2, <1>6, <1>7, <1>8, StoredField

(* What an older version, another program or a bad disk leaves of a *)
(* workspace is nothing or may be stored.                           *)
LEMMA DamagedIsStored ==
  ASSUME StoreInv(stored), NEW v \in Damages, v # Null
  PROVE  StoredInv(v)
<1>1. DOMAIN stored = DOMAIN InitialStore
  BY DEF StoreInv
<1>2. ASSUME NEW f \in DOMAIN InitialStore, v = [stored EXCEPT ![f] = Junk]
      PROVE  StoredInv(v)
  <2>1. IsItems(Junk) /\ Usable(Junk) = {} /\ Junk \in StoredTexts
    BY DEF IsItems, Usable, StoredTexts
  <2> QED
    BY <1>2, <2>1, StoredField
<1> DEFINE lists == stored.watchlists
<1>3. ListsInv(lists, stored.activeWatchlistId)
  BY DEF StoreInv
<1>4. lists \in Seq(ToSet(lists)) /\ 1 \in DOMAIN lists /\ IsList(lists[1])
      /\ \A list \in ToSet(lists) : list.symbols \in StoredTexts
  <2>1. \A list \in ToSet(lists) : IsSymbols(list.symbols, ListLimit)
    BY <1>3 DEF ListsInv, IsList
  <2> QED
    BY <1>3, <2>1, ListsFacts, SymbolsAreStored
<1>5. CASE v = [stored EXCEPT !.watchlists = <<Null>> \o lists]
  <2> DEFINE more == <<Null>> \o lists
             X == ToSet(lists) \cup {Null}
  <2>1. v = [stored EXCEPT !["watchlists"] = more]
    BY <1>5
  <2> HIDE DEF lists
  <2>2. lists \in Seq(X) /\ Null \in X
    BY <1>4
  <2> HIDE DEF X
  <2>3. more \in Seq(X)
    BY <2>2, PrependedFacts
  <2> HIDE DEF more
  <2>4. more \in Seq(ToSet(more)) /\ ToSet(more) \subseteq X
    BY <2>3, SeqOfOwn
  <2>5. IsItems(more) /\ Usable(more) \subseteq ToSet(lists)
    BY <2>4 DEF IsItems, Usable, X
  <2>6. \A list \in Usable(more) : list.symbols \in StoredTexts
    BY <1>4, <2>5
  <2>7. "watchlists" \in DOMAIN InitialStore
    BY StoreFields
  <2> QED
    BY <2>1, <2>5, <2>6, <2>7, StoredField
<1>6. CASE v = [stored EXCEPT !.watchlists[1].id = ""]
  <2> DEFINE list == [lists[1] EXCEPT !.id = ""]
  <2>1. v = [stored EXCEPT !.watchlists = [stored.watchlists EXCEPT ![1] = list]]
    BY <1>6
  <2>2. list.symbols = lists[1].symbols
    BY <1>4 DEF IsList
  <2>3. list.symbols \in StoredTexts
    BY <1>4, <2>2, SymbolsAreStored DEF IsList
  <2> HIDE DEF list
  <2> QED
    BY <2>1, <2>3, DamagedList
<1>7. ASSUME NEW ticker \in Visits, v = [stored EXCEPT !.watchlists[1].symbols = <<Junk, ticker>>]
      PROVE  StoredInv(v)
  <2> DEFINE damaged == <<Junk, ticker>>
             list == [lists[1] EXCEPT !.symbols = damaged]
  <2>1. v = [stored EXCEPT !.watchlists = [stored.watchlists EXCEPT ![1] = list]]
    BY <1>7
  <2>2. damaged \in StoredTexts
    <3> DEFINE X == Text \cup {Junk, Null, ""}
    <3>1. Junk \in X /\ ticker \in X
      BY WorkspaceAssumption
    <3> HIDE DEF X
    <3>2. damaged \in Seq(X)
      BY <3>1
    <3> QED
      BY <3>2 DEF StoredTexts, X
  <2> HIDE DEF damaged
  <2>3. list.symbols = damaged
    BY <1>4 DEF IsList
  <2> HIDE DEF list
  <2> QED
    BY <2>1, <2>2, <2>3, DamagedList
<1>8. CASE v = [stored EXCEPT !.activeWatchlistId = "missing"]
  <2>1. v = [stored EXCEPT !["activeWatchlistId"] = "missing"]
    BY <1>8
  <2>2. "activeWatchlistId" \in DOMAIN InitialStore
    BY StoreFields
  <2> QED
    BY <2>1, <2>2, StoredField
<1>9. \/ \E f \in DOMAIN stored : v = [stored EXCEPT ![f] = Junk]
      \/ v = [stored EXCEPT !.watchlists = <<Null>> \o lists]
      \/ v = [stored EXCEPT !.watchlists[1].id = ""]
      \/ v = [stored EXCEPT !.activeWatchlistId = "missing"]
      \/ \E ticker \in Visits : v = [stored EXCEPT !.watchlists[1].symbols = <<Junk, ticker>>]
  BY DEF Damages
<1> QED
  BY <1>1, <1>2, <1>5, <1>6, <1>7, <1>8, <1>9

-----------------------------------------------------------------------------
(* A batch.                                                                *)

\* A run of handleBatchAdd over the first n tickers.
IsAdding(after, w, batch, symbols, n) ==
  after = [i \in 0..n |->
             IF i = 0 THEN w
             ELSE IF Contains(symbols, Upper[batch[i]]) THEN after[i - 1]
             ELSE ToggleWatchlist(after[i - 1], batch[i], w.activeWatchlistId)]

(* There is such a run. *)
LEMMA AddingExists ==
  ASSUME NEW w, NEW batch, NEW symbols
  PROVE  \A n \in Nat : \E after : IsAdding(after, w, batch, symbols, n)
<1> DEFINE S == {n \in Nat : \E after : IsAdding(after, w, batch, symbols, n)}
<1>1. 0 \in S
  <2> DEFINE first == [i \in 0..0 |-> w]
  <2>1. first = [i \in 0..0 |-> first[i]] /\ \A i \in 0..0 : i = 0 /\ first[i] = w
    OBVIOUS
  <2> HIDE DEF first
  <2>2. IsAdding(first, w, batch, symbols, 0)
    BY <2>1 DEF IsAdding
  <2> QED
    BY <2>2
<1>2. ASSUME NEW n \in Nat, n \in S PROVE n + 1 \in S
  <2>1. PICK after : IsAdding(after, w, batch, symbols, n)
    BY <1>2
  <2> DEFINE Next(i, before) ==
               IF Contains(symbols, Upper[batch[i]]) THEN before
               ELSE ToggleWatchlist(before, batch[i], w.activeWatchlistId)
             more == [i \in 0..(n + 1) |-> IF i <= n THEN after[i] ELSE Next(n + 1, after[n])]
  <2>2. \A i \in 0..n : after[i] = IF i = 0 THEN w ELSE Next(i, after[i - 1])
    BY <2>1 DEF IsAdding
  <2> HIDE DEF Next
  <2>3. more = [i \in 0..(n + 1) |-> more[i]]
    OBVIOUS
  <2>4. (\A i \in 0..n : more[i] = after[i]) /\ more[n + 1] = Next(n + 1, after[n])
    OBVIOUS
  <2> HIDE DEF more
  <2>5. \A i \in 0..(n + 1) : more[i] = IF i = 0 THEN w ELSE Next(i, more[i - 1])
    <3> TAKE i \in 0..(n + 1)
    <3>1. CASE i = 0
      BY <2>2, <2>4, <3>1
    <3>2. CASE i # 0 /\ i <= n
      <4>1. i \in 0..n /\ i - 1 \in 0..n
        BY <3>2
      <4> QED
        BY <2>2, <2>4, <3>2, <4>1
    <3>3. CASE i = n + 1
      <4>1. i # 0 /\ i - 1 = n /\ n \in 0..n
        BY <3>3
      <4> QED
        BY <2>4, <3>3, <4>1
    <3> QED
      BY <3>1, <3>2, <3>3
  <2>6. IsAdding(more, w, batch, symbols, n + 1)
    BY <2>3, <2>5 DEF IsAdding, Next
  <2> QED
    BY <2>6
<1>3. Nat \subseteq S
  <2> HIDE DEF S
  <2> QED
    BY <1>1, <1>2, Inductive
<1> QED
  BY <1>3

(* handleBatchAdd is one. *)
LEMMA AddingChosen ==
  ASSUME NEW w, NEW batch, NEW symbols, Len(batch) \in Nat
  PROVE  \E after : /\ IsAdding(after, w, batch, symbols, Len(batch))
                    /\ Added(w, batch, symbols) = after[Len(batch)]
<1> DEFINE run == CHOOSE after : IsAdding(after, w, batch, symbols, Len(batch))
<1>1. IsAdding(run, w, batch, symbols, Len(batch))
  <2>1. \E after : IsAdding(after, w, batch, symbols, Len(batch))
    BY AddingExists
  <2> QED
    BY <2>1
<1>2. Added(w, batch, symbols) = run[Len(batch)]
  BY DEF Added, IsAdding
<1> QED
  BY <1>1, <1>2

(* What a batch has made of the active list w0 after some of its tickers:   *)
(* the list stands where it stood, with every symbol it had, and with those *)
(* of the batch that are on it now.                                         *)
HasAdded(w0, w, k, batched) ==
  /\ StoreInv(w) /\ w.activeWatchlistId = w0.activeWatchlistId
  /\ ActivePlace(w.watchlists, w.activeWatchlistId, k)
  /\ LET before == ToSet(w0.watchlists[k].symbols)
         now == ToSet(w.watchlists[k].symbols)
     IN Cardinality(before \cup batched) <= ListLimit =>
          before \subseteq now /\ now \subseteq before \cup batched

(* A toggle of a ticker that was not listed keeps it so. *)
LEMMA ToggleAdds ==
  ASSUME NEW w0, NEW w, NEW k, NEW batched, IsFiniteSet(batched),
         StoreInv(w0), ActivePlace(w0.watchlists, w0.activeWatchlistId, k),
         HasAdded(w0, w, k, batched), NEW x \in Text, Upper[x] \in batched,
         Upper[x] \notin ToSet(w0.watchlists[k].symbols)
  PROVE  HasAdded(w0, ToggleWatchlist(w, x, w0.activeWatchlistId), k, batched)
<1> DEFINE id == w0.activeWatchlistId
           u == ToggleWatchlist(w, x, id)
           before == ToSet(w0.watchlists[k].symbols)
           old == w.watchlists[k].symbols
           new == u.watchlists[k].symbols
<1>1. /\ StoreInv(w) /\ w.activeWatchlistId = id /\ ActivePlace(w.watchlists, id, k)
      /\ Cardinality(before \cup batched) <= ListLimit =>
           before \subseteq ToSet(old) /\ ToSet(old) \subseteq before \cup batched
  BY DEF HasAdded
<1>2. /\ StoreInv(u) /\ u.activeWatchlistId = id
      /\ DOMAIN u.watchlists = DOMAIN w.watchlists
      /\ \A i \in DOMAIN w.watchlists :
           /\ u.watchlists[i].id = w.watchlists[i].id
           /\ w.watchlists[i].id = id =>
                u.watchlists[i].symbols =
                  Toggled(w.watchlists[i].symbols, Upper[x], ListLimit)
  BY <1>1, ToggleKeeps
<1>3. k \in DOMAIN w.watchlists /\ w.watchlists[k].id = id
  BY <1>1 DEF ActivePlace
<1>4. new = Toggled(old, Upper[x], ListLimit)
  BY <1>2, <1>3
<1>5. ActivePlace(u.watchlists, id, k)
  BY <1>1, <1>2 DEF ActivePlace
<1>6. IsSymbols(old, ListLimit) /\ IsSymbols(w0.watchlists[k].symbols, ListLimit)
  <2>1. k \in DOMAIN w0.watchlists
    BY DEF ActivePlace
  <2>2. /\ ListsInv(w.watchlists, w.activeWatchlistId)
        /\ ListsInv(w0.watchlists, w0.activeWatchlistId)
    BY <1>1 DEF StoreInv
  <2>3. IsList(w.watchlists[k]) /\ IsList(w0.watchlists[k])
    BY <1>3, <2>1, <2>2, ListsFacts
  <2> QED
    BY <2>3 DEF IsList
<1>7. Upper[x] \in Symbol
  BY SymbolsInUpper
<1>8. IsFiniteSet(before) /\ IsFiniteSet(ToSet(old))
  BY <1>6, SymbolsFacts
<1> HIDE DEF u, old, new, before
<1>9. /\ ToSet(old) \ {Upper[x]} \subseteq ToSet(new)
           \/ Cardinality(ToSet(old) \cup {Upper[x]}) > ListLimit
      /\ ToSet(new) \subseteq ToSet(old) \cup {Upper[x]}
  BY <1>4, <1>6, <1>7, ToggledFacts, Limits
<1>10. ASSUME Cardinality(before \cup batched) <= ListLimit
       PROVE  before \subseteq ToSet(new) /\ ToSet(new) \subseteq before \cup batched
  <2> DEFINE more == ToSet(old) \cup {Upper[x]}
             all == before \cup batched
  <2>1. before \subseteq ToSet(old) /\ ToSet(old) \subseteq all
    BY <1>1, <1>10
  <2>2. more \subseteq all
    BY <2>1
  <2>3. IsFiniteSet(all)
    BY <1>8, FS_Union
  <2> HIDE DEF more, all
  <2>4. IsFiniteSet(more) /\ Cardinality(more) <= Cardinality(all)
    BY <2>2, <2>3, FS_Subset
  <2>5. Cardinality(more) \in Nat /\ Cardinality(all) \in Nat
    BY <2>3, <2>4, FS_CardinalityType
  <2>6. ~(Cardinality(more) > ListLimit)
    BY <1>10, <2>4, <2>5, Limits DEF all
  <2>7. ToSet(old) \ {Upper[x]} \subseteq ToSet(new)
    BY <1>9, <2>6 DEF more
  <2>8. Upper[x] \notin before
    BY DEF before
  <2> QED
    BY <1>9, <2>1, <2>2, <2>7, <2>8 DEF more, all
<1> QED
  BY <1>2, <1>5, <1>10 DEF HasAdded, u, new, before

(* A batch has finitely many tickers. *)
LEMMA BatchFinite ==
  ASSUME NEW batch \in Seq(Text)
  PROVE  IsFiniteSet({Upper[batch[i]] : i \in DOMAIN batch})
<1> DEFINE batched == {Upper[batch[i]] : i \in DOMAIN batch}
           n == Len(batch)
           f == [i \in 1..n |-> Upper[batch[i]]]
<1>1. DOMAIN batch = 1..n /\ n \in Nat
  OBVIOUS
<1>2. f \in Surjection(1..n, batched)
  BY <1>1 DEF Surjection
<1> HIDE DEF f, batched, n
<1>3. 1 \in Int /\ n \in Int
  BY <1>1
<1>4. IsFiniteSet(1..n)
  BY <1>3, FS_Interval
<1>5. IsFiniteSet(batched)
  BY <1>2, <1>4, FS_Surjection
<1> QED
  BY <1>5 DEF batched

(* So a batch keeps the workspace in order, and what was listed before. *)
LEMMA AddedFacts ==
  ASSUME NEW w, StoreInv(w), NEW batch \in Seq(Text), NEW k,
         ActivePlace(w.watchlists, w.activeWatchlistId, k)
  PROVE  HasAdded(w, Added(w, batch, w.watchlists[k].symbols), k,
                  {Upper[batch[i]] : i \in DOMAIN batch})
<1> DEFINE batched == {Upper[batch[i]] : i \in DOMAIN batch}
           symbols == w.watchlists[k].symbols
           n == Len(batch)
<1>1. DOMAIN batch = 1..n /\ n \in Nat /\ \A i \in 1..n : batch[i] \in Text
  OBVIOUS
<1>2. IsFiniteSet(batched)
  BY BatchFinite
<1>3. PICK after : /\ IsAdding(after, w, batch, symbols, n)
                   /\ Added(w, batch, symbols) = after[n]
  BY <1>1, AddingChosen
<1>4. \A i \in 1..n : Upper[batch[i]] \in batched
  BY <1>1
<1>5. \A i \in 0..n : after[i] =
        IF i = 0 THEN w
        ELSE IF Contains(symbols, Upper[batch[i]]) THEN after[i - 1]
        ELSE ToggleWatchlist(after[i - 1], batch[i], w.activeWatchlistId)
  BY <1>3 DEF IsAdding
<1> HIDE DEF batched, n
<1> DEFINE S == {i \in Nat : i <= n => HasAdded(w, after[i], k, batched)}
<1>6. 0 \in S
  <2>1. after[0] = w
    BY <1>1, <1>5
  <2>2. HasAdded(w, w, k, batched)
    BY DEF HasAdded
  <2> QED
    BY <2>1, <2>2
<1>7. DOMAIN symbols = 1..Len(symbols)
  <2>1. IsSymbols(symbols, ListLimit)
    BY ListsFacts DEF StoreInv, ActivePlace, IsList
  <2> HIDE DEF symbols
  <2> QED
    BY <2>1 DEF IsSymbols
<1>8. ASSUME NEW i \in Nat, i \in S PROVE i + 1 \in S
  <2> SUFFICES ASSUME i + 1 <= n PROVE HasAdded(w, after[i + 1], k, batched)
    OBVIOUS
  <2>1. HasAdded(w, after[i], k, batched)
    BY <1>1, <1>8
  <2>2. i + 1 \in 1..n /\ i + 1 \in 0..n /\ i + 1 # 0 /\ (i + 1) - 1 = i
    BY <1>1
  <2>3. after[i + 1] =
          IF Contains(symbols, Upper[batch[i + 1]]) THEN after[i]
          ELSE ToggleWatchlist(after[i], batch[i + 1], w.activeWatchlistId)
    BY <1>5, <2>2
  <2>4. CASE Contains(symbols, Upper[batch[i + 1]])
    BY <2>1, <2>3, <2>4
  <2>5. CASE ~Contains(symbols, Upper[batch[i + 1]])
    <3>1. Upper[batch[i + 1]] \notin ToSet(symbols)
      BY <1>7, <2>5 DEF Contains, ToSet
    <3>2. batch[i + 1] \in Text /\ Upper[batch[i + 1]] \in batched
      BY <1>1, <1>4, <2>2
    <3> DEFINE x == batch[i + 1]
               v == after[i]
    <3> HIDE DEF x, v
    <3>3. HasAdded(w, ToggleWatchlist(v, x, w.activeWatchlistId), k, batched)
      BY <1>2, <2>1, <3>1, <3>2, ToggleAdds DEF x, v
    <3>4. after[i + 1] = ToggleWatchlist(v, x, w.activeWatchlistId)
      BY <2>3, <2>5 DEF x, v
    <3> QED
      BY <3>3, <3>4
  <2> QED
    BY <2>4, <2>5
<1>9. Nat \subseteq S
  <2> HIDE DEF S
  <2> QED
    BY <1>6, <1>8, Inductive
<1>10. HasAdded(w, after[n], k, batched)
  BY <1>1, <1>9
<1> QED
  BY <1>3, <1>10 DEF batched

-----------------------------------------------------------------------------
(* The inductive invariant, part by part.                                  *)

TabsOK ==
  /\ mode \in [Tabs -> {"closed", "loading", "open", "failed"}]
  /\ page \in [Tabs -> Pages \cup {"/"}] /\ draft \in [Tabs -> Drafts]
  /\ DOMAIN store = Tabs /\ \A t \in Tabs : StoreInv(store[t])

StorageOK ==
  /\ owner \in Tabs \cup {Null} /\ bench \in Drafts
  /\ owner # Null => StoreInv(stored)
  /\ stored # Null => StoredInv(stored)

FrameOK ==
  /\ symbol \in [Tabs -> Text] /\ spare \subseteq Ids
  /\ edits \in 0..MaxEdits /\ faults \in 0..MaxFaults

RetriedOK == retried \in [Tabs -> BOOLEAN]

(* These are its parts. *)
LEMMA InvParts == WorkspaceInv <=> TabsOK /\ StorageOK /\ FrameOK /\ RetriedOK
<1>1. TabsOK => \A t \in Tabs : IsStore(store[t])
  BY StoreIsStore DEF TabsOK
<1>2. StorageOK => (owner # Null => IsStore(stored))
  BY StoreIsStore DEF StorageOK
<1> QED
  BY <1>1, <1>2 DEF WorkspaceInv, WorkspaceTypeOK, TabsOK, StorageOK, FrameOK, RetriedOK

(* And so after a step. *)
LEMMA InvPartsNext == WorkspaceInv' <=> TabsOK' /\ StorageOK' /\ FrameOK' /\ RetriedOK'
BY InvParts, PTL

(* The inductive invariant where the tabs are closed and nothing is        *)
(* stored.                                                                 *)
LEMMA InitInvariant == WorkspaceInit => WorkspaceInv
<1> SUFFICES ASSUME WorkspaceInit PROVE TabsOK /\ StorageOK /\ FrameOK /\ RetriedOK
  BY InvParts
<1>1. TabsOK
  BY InitialKeeps DEF WorkspaceInit, TabsOK, Drafts
<1>2. StorageOK
  BY DEF WorkspaceInit, StorageOK, Drafts
<1>3. FrameOK /\ RetriedOK
  BY WorkspaceAssumption, DefaultsAssumption, SymbolsInUpper DEF WorkspaceInit, FrameOK, RetriedOK
<1> QED
  BY <1>1, <1>2, <1>3

(* A tab goes to a page with a workspace that is in order. *)
LEMMA GoesKeeps ==
  ASSUME TabsOK, NEW t \in Tabs, NEW m \in {"closed", "loading", "open", "failed"},
         NEW p \in Pages \cup {"/"}, NEW w, StoreInv(w), NEW d \in Drafts, NEW f,
         Goes(t, m, p, w, d, f)
  PROVE  TabsOK'
<1>1. mode' \in [Tabs -> {"closed", "loading", "open", "failed"}]
  BY DEF TabsOK, Goes
<1>2. page' \in [Tabs -> Pages \cup {"/"}] /\ draft' \in [Tabs -> Drafts]
  BY DEF TabsOK, Goes
<1>3. DOMAIN store' = Tabs /\ store'[t] = w /\ \A s \in Tabs \ {t} : store'[s] = store[s]
  BY DEF TabsOK, Goes
<1>4. \A s \in Tabs : StoreInv(store'[s])
  BY <1>3 DEF TabsOK
<1> QED
  BY <1>1, <1>2, <1>3, <1>4 DEF TabsOK

(* A tab that moves on leaves the other tabs alone. *)
LEMMA LeavesKeeps ==
  ASSUME TabsOK, NEW t \in Tabs, NEW m \in {"closed", "loading", "open", "failed"},
         NEW p \in Pages \cup {"/"}, Leaves(t, m, p)
  PROVE  TabsOK'
<1>1. DefaultDraft \in Drafts
  BY DEF Drafts
<1> QED
  BY <1>1, GoesKeeps, InitialKeeps DEF Leaves

(* Where a page cannot be rendered, what is stored is dropped, or is what it *)
(* was or a workspace in use.                                                *)
LEMMA FailsKeeps ==
  ASSUME WorkspaceInv, FrameOK', NEW t \in Tabs, NEW p \in Pages \cup {"/"}, NEW kept,
         kept = stored \/ StoreInv(kept), Fails(t, p, kept)
  PROVE  WorkspaceInv'
<1>1. TabsOK /\ StorageOK /\ RetriedOK
  BY InvParts
<1>2. TabsOK'
  BY <1>1, LeavesKeeps DEF Fails
<1>3. RetriedOK'
  BY <1>1 DEF RetriedOK, Fails
<1>4. StorageOK'
  <2>1. bench' = bench
    BY DEF Fails
  <2>2. CASE stored' = kept /\ owner' = IF kept = stored THEN owner ELSE t
    <3>1. CASE kept = stored
      BY <1>1, <2>1, <2>2, <3>1 DEF StorageOK
    <3>2. CASE StoreInv(kept)
      <4>1. StoredInv(kept)
        BY <3>2, StoreIsStored
      <4>2. StoreInv(stored') /\ StoredInv(stored')
        BY <2>2, <3>2, <4>1
      <4> QED
        BY <1>1, <2>1, <2>2, <4>2 DEF StorageOK
    <3> QED
      BY <3>1, <3>2
  <2>3. CASE stored' = Null /\ owner' = Null
    BY <1>1, <2>1, <2>3 DEF StorageOK
  <2> QED
    BY <2>2, <2>3 DEF Fails, Drops
<1> QED
  BY <1>2, <1>3, <1>4, InvPartsNext

(* What a tab shows it stores. *)
LEMMA ShowsKeeps ==
  ASSUME WorkspaceInv, FrameOK', NEW t \in Tabs, NEW w, StoreInv(w),
         NEW p \in Pages \cup {"/"}, NEW d \in Drafts, NEW f, NEW kept,
         kept = stored \/ StoreInv(kept), Shows(t, w, p, d, f, kept)
  PROVE  WorkspaceInv'
<1>1. CASE ~Renders(w, p, d)
  <2>1. Fails(t, p, kept)
    BY <1>1 DEF Shows
  <2> QED
    BY <2>1, FailsKeeps
<1>2. CASE Renders(w, p, d)
  <2> DEFINE shown == Mounted(w, p, symbol'[t])
  <2>1. /\ Goes(t, "open", p, shown, d, f)
        /\ stored' = shown /\ owner' = t
        /\ bench' \in {d, bench} /\ retried' = retried
    BY <1>2 DEF Shows, Partialize
  <2>2. symbol'[t] \in Text
    BY DEF FrameOK
  <2>3. StoreInv(shown)
    BY <2>2, MountedKeeps
  <2> HIDE DEF shown
  <2>4. TabsOK /\ StorageOK /\ RetriedOK
    BY InvParts
  <2>5. TabsOK'
    BY <2>1, <2>3, <2>4, GoesKeeps
  <2>6. StoreInv(stored') /\ StoredInv(stored')
    <3>1. StoredInv(shown)
      BY <2>3, StoreIsStored
    <3> QED
      BY <2>1, <2>3, <3>1
  <2>7. StorageOK' /\ RetriedOK'
    BY <2>1, <2>4, <2>6 DEF StorageOK, RetriedOK
  <2> QED
    BY <2>5, <2>7, InvPartsNext
<1> QED
  BY <1>1, <1>2

(* What a set of the store shows and stores. *)
LEMMA SetsKeeps ==
  ASSUME WorkspaceInv, NEW t \in Tabs, NEW w, StoreInv(w), NEW f,
         Sets(t, w, f) \/ \E id : SetsWithId(t, id, w, f)
  PROVE  WorkspaceInv'
<1>1. TabsOK /\ StorageOK /\ FrameOK
  BY InvParts
<1>2. /\ edits < MaxEdits /\ edits' = edits + 1 /\ symbol' = symbol /\ faults' = faults
      /\ spare' \subseteq spare
      /\ Shows(t, w, page[t], draft[t], f, w)
  BY DEF Sets, SetsWithId, Partialize
<1>3. FrameOK'
  BY <1>1, <1>2, WorkspaceAssumption DEF FrameOK
<1>4. page[t] \in Pages \cup {"/"} /\ draft[t] \in Drafts
  BY <1>1 DEF TabsOK
<1> QED
  BY <1>2, <1>3, <1>4, ShowsKeeps

(* What is compared is shown on a page of its own. *)
LEMMA ComparesKeeps ==
  ASSUME WorkspaceInv, NEW t \in Tabs, NEW tickers \in Seq(Text), Compares(t, tickers)
  PROVE  WorkspaceInv'
<1>1. TabsOK /\ FrameOK
  BY InvParts
<1>2. FrameOK'
  BY <1>1, WorkspaceAssumption DEF Compares, FrameOK
<1>3. StoreInv(SetCompareTickers(store[t], tickers)) /\ draft[t] \in Drafts
  BY <1>1, CompareKeeps DEF TabsOK
<1>4. "/compare" \in Pages \cup {"/"}
  BY WorkspaceAssumption
<1> QED
  BY <1>2, <1>3, <1>4, ShowsKeeps DEF Compares

(* What an open tab can act on. *)
LEMMA TabFacts ==
  ASSUME WorkspaceInv, NEW t \in Tabs
  PROVE  /\ StoreInv(store[t]) /\ ListsInv(store[t].watchlists, store[t].activeWatchlistId)
         /\ symbol[t] \in Text /\ draft[t] \in Drafts /\ bench \in Drafts
         /\ page[t] \in Pages \cup {"/"}
         /\ \A x \in ToSet(Active(t).symbols) : x \in Text
         /\ Active(t).symbols \in Seq(Text)
         /\ store[t].recentTickers \in Seq(Text) /\ store[t].compareTickers \in Seq(Text)
         /\ \A x \in ToSet(store[t].recentTickers) : x \in Text
<1>1. TabsOK /\ StorageOK /\ FrameOK
  BY InvParts
<1>2. /\ StoreInv(store[t]) /\ symbol[t] \in Text /\ draft[t] \in Drafts /\ bench \in Drafts
      /\ page[t] \in Pages \cup {"/"}
  BY <1>1 DEF TabsOK, StorageOK, FrameOK
<1>3. ToSet(Active(t).symbols) \subseteq Text /\ Active(t).symbols \in Seq(Text)
  BY <1>2, ActiveFacts DEF Active
<1>4. /\ IsSymbols(store[t].recentTickers, RecentLimit)
      /\ IsSymbols(store[t].compareTickers, CompareLimit)
      /\ ListsInv(store[t].watchlists, store[t].activeWatchlistId)
  BY <1>2 DEF StoreInv
<1>5. /\ store[t].recentTickers \in Seq(Text) /\ store[t].compareTickers \in Seq(Text)
      /\ ToSet(store[t].recentTickers) \subseteq Text
  BY <1>4, SymbolsFacts, SymbolsInUpper
<1> QED
  BY <1>2, <1>3, <1>4, <1>5

(* Opening, reloading, closing and resetting a tab take what it has in *)
(* memory with them.                                                   *)
LEMMA LeavingSteps ==
  ASSUME WorkspaceInv, NEW t \in Tabs, Open(t) \/ Reload(t) \/ Close(t) \/ HandleReset(t)
  PROVE  WorkspaceInv'
<1>1. TabsOK /\ StorageOK /\ FrameOK /\ RetriedOK
  BY InvParts
<1>2. PICK m \in {"closed", "loading"}, p \in Pages \cup {"/"} : Leaves(t, m, p)
  BY TabFacts DEF Open, Reload, Close, HandleReset
<1>3. TabsOK'
  BY <1>1, <1>2, LeavesKeeps
<1>4. FrameOK' /\ RetriedOK'
  BY <1>1 DEF Open, Reload, Close, HandleReset, FrameOK, RetriedOK
<1>5. \/ UNCHANGED <<stored, owner, bench>>
      \/ stored' = Null /\ owner' = Null /\ bench' = bench
  BY DEF Open, Reload, Close, HandleReset, Drops
<1>6. StorageOK'
  BY <1>1, <1>5 DEF StorageOK
<1> QED
  BY <1>3, <1>4, <1>6, InvPartsNext

(* Whatever is in localStorage, a tab that loads it has a workspace. *)
LEMMA LoadStep ==
  ASSUME WorkspaceInv, NEW t \in Tabs, Load(t)
  PROVE  WorkspaceInv'
<1>1. StorageOK /\ FrameOK
  BY InvParts
<1>2. FrameOK'
  BY <1>1 DEF Load, FrameOK
<1>3. StoreInv(Hydrated(stored))
  BY <1>1, InitialKeeps, MergeKeeps DEF Hydrated, StorageOK
<1>4. bench \in Drafts /\ page[t] \in Pages \cup {"/"}
  BY TabFacts
<1> QED
  BY <1>2, <1>3, <1>4, ShowsKeeps DEF Load

(* Opening another page. *)
LEMMA NavigateStep ==
  ASSUME WorkspaceInv, NEW t \in Tabs, Navigate(t)
  PROVE  WorkspaceInv'
<1>1. FrameOK
  BY InvParts
<1>2. PICK p \in Pages :
        /\ \/ \E ticker \in Visits : symbol' = [symbol EXCEPT ![t] = ticker]
           \/ symbol' = symbol
        /\ Shows(t, store[t], p, IF p = "/backtest" THEN bench ELSE draft[t], NoForm, stored)
  BY DEF Navigate
<1>3. FrameOK'
  BY <1>1, <1>2, WorkspaceAssumption DEF Navigate, FrameOK
<1>4. /\ (IF p = "/backtest" THEN bench ELSE draft[t]) \in Drafts
      /\ StoreInv(store[t]) /\ p \in Pages \cup {"/"}
  BY TabFacts
<1> QED
  BY <1>2, <1>3, <1>4, ShowsKeeps

(* A page whose code does not load. *)
LEMMA ChunkStep ==
  ASSUME WorkspaceInv, NEW t \in Tabs, ChunkFails(t)
  PROVE  WorkspaceInv'
<1>1. FrameOK
  BY InvParts
<1>2. FrameOK'
  BY <1>1, WorkspaceAssumption DEF ChunkFails, FrameOK
<1>3. PICK p \in Pages : Fails(t, p, stored)
  BY DEF ChunkFails
<1> QED
  BY <1>2, <1>3, FailsKeeps

(* What is damaged may still be stored. *)
LEMMA DamageStep ==
  ASSUME WorkspaceInv, Damage
  PROVE  WorkspaceInv'
<1>1. TabsOK /\ StorageOK /\ FrameOK /\ RetriedOK
  BY InvParts
<1>2. TabsOK' /\ RetriedOK'
  BY <1>1 DEF Damage, tabState, TabsOK, RetriedOK
<1>3. FrameOK'
  BY <1>1, WorkspaceAssumption DEF Damage, tabState, FrameOK
<1>4. CASE owner # Null /\ stored' \in Damages /\ bench' = bench
  <2>1. StoreInv(stored)
    BY <1>1, <1>4 DEF StorageOK
  <2>2. stored' # Null => StoredInv(stored')
    BY <1>4, <2>1, DamagedIsStored
  <2>3. owner' = Null
    BY DEF Damage
  <2>4. StorageOK'
    BY <1>1, <1>4, <2>2, <2>3 DEF StorageOK
  <2> QED
    BY <1>2, <1>3, <2>4, InvPartsNext
<1>5. CASE bench' = Junk /\ stored' = stored
  <2>1. StorageOK'
    BY <1>1, <1>5 DEF Damage, StorageOK, Drafts
  <2> QED
    BY <1>2, <1>3, <2>1, InvPartsNext
<1> QED
  BY <1>4, <1>5 DEF Damage

(* The buttons that toggle a ticker of the active list. *)
LEMMA ToggleSteps ==
  ASSUME WorkspaceInv, NEW t \in Tabs,
         \/ RecentToggled(t) \/ RowRemoved(t) \/ RailSymbolRemoved(t)
         \/ \E p : Watched(t, p)
  PROVE  WorkspaceInv'
<1>1. PICK x \in Text :
        Sets(t, ToggleWatchlist(store[t], x, store[t].activeWatchlistId), form[t])
  BY TabFacts, WorkspaceAssumption DEF RecentToggled, RowRemoved, RailSymbolRemoved, Watched
<1>2. StoreInv(ToggleWatchlist(store[t], x, store[t].activeWatchlistId))
  BY TabFacts, ToggleKeeps
<1> QED
  BY <1>1, <1>2, SetsKeeps

(* The other buttons of the watchlists page and of the rail. *)
LEMMA ListSteps ==
  ASSUME WorkspaceInv, NEW t \in Tabs,
         TabChosen(t) \/ RailListChosen(t) \/ Rename(t) \/ Create(t) \/ Delete(t)
  PROVE  WorkspaceInv'
<1>1. StoreInv(store[t])
  BY TabFacts
<1>2. CASE TabChosen(t) \/ RailListChosen(t)
  <2>0. PICK list \in Lists(t) : \E f : Sets(t, SetActiveWatchlist(store[t], list.id), f)
    BY <1>2 DEF TabChosen, RailListChosen
  <2>1. PICK f : Sets(t, SetActiveWatchlist(store[t], list.id), f)
    BY <2>0
  <2>2. HasList(store[t].watchlists, list.id)
    BY DEF Lists, HasList
  <2>3. StoreInv(SetActiveWatchlist(store[t], list.id))
    BY <1>1, <2>2, ChoiceKeeps
  <2> QED
    BY <2>1, <2>3, SetsKeeps
<1>3. CASE Rename(t)
  <2>1. PICK name, f : Sets(t, RenameWatchlist(store[t], Active(t).id, name), f)
    BY <1>3 DEF Rename
  <2>2. StoreInv(RenameWatchlist(store[t], Active(t).id, name))
    BY <1>1, RenameKeeps
  <2> QED
    BY <2>1, <2>2, SetsKeeps
<1>4. CASE Create(t)
  <2>1. PICK name : SetsWithId(t, NextId, CreateWatchlist(store[t], NextId, name), form[t])
    BY <1>4 DEF Create
  <2>2. StoreInv(CreateWatchlist(store[t], NextId, name))
    BY <1>1, CreateKeeps
  <2> QED
    BY <2>1, <2>2, SetsKeeps
<1>5. CASE Delete(t)
  <2>1. StoreInv(DeleteWatchlist(store[t], Active(t).id))
    BY <1>1, DeleteKeeps
  <2> QED
    BY <1>5, <2>1, SetsKeeps DEF Delete
<1> QED
  BY <1>2, <1>3, <1>4, <1>5

(* A batch. *)
LEMMA BatchStep ==
  ASSUME WorkspaceInv, NEW t \in Tabs, NEW batch \in Batches, BatchAdd(t, batch)
  PROVE  WorkspaceInv'
<1>1. StoreInv(store[t]) /\ ListsInv(store[t].watchlists, store[t].activeWatchlistId)
  BY TabFacts
<1>2. PICK k \in DOMAIN store[t].watchlists :
        ActivePlace(store[t].watchlists, store[t].activeWatchlistId, k)
  BY <1>1, ActivePlaceExists
<1>3. Active(t) = store[t].watchlists[k]
  BY <1>1, <1>2, ActiveFound DEF Active
<1>4. batch \in Seq(Text)
  BY WorkspaceAssumption
<1>5. StoreInv(Added(store[t], batch, Active(t).symbols))
  BY <1>1, <1>2, <1>3, <1>4, AddedFacts DEF HasAdded
<1> QED
  BY <1>5, SetsKeeps DEF BatchAdd

(* What the buttons of a row compare are texts. *)
LEMMA ComparedTexts ==
  ASSUME WorkspaceInv, NEW t \in Tabs,
         \/ RowCompared(t) \/ MatchesCompared(t)
         \/ \E ticker \in Quoted : Compares(t, <<ticker, "SPY">>)
         \/ \E ticker, leader \in Quoted :
              Compares(t, <<ticker, "SPY">> \o (IF leader = ticker THEN <<>> ELSE <<leader>>))
  PROVE  \E tickers \in Seq(Text) : Compares(t, tickers)
<1>1. "SPY" \in Text /\ Quoted \subseteq Text
  BY WorkspaceAssumption, DefaultsAssumption, SymbolsInUpper
<1>2. \A x, y \in Text : <<x, y>> \in Seq(Text)
  OBVIOUS
<1>3. CASE RowCompared(t)
  <2>1. PICK ticker \in ToSet(Active(t).symbols) :
          Compares(t, <<ticker>> \o Take(Minus(Active(t).symbols, ticker), 3) \o <<"SPY">>)
    BY <1>3 DEF RowCompared
  <2> DEFINE others == Take(Minus(Active(t).symbols, ticker), 3)
             tickers == <<ticker>> \o others \o <<"SPY">>
  <2>2. Minus(Active(t).symbols, ticker) \in Seq(Text)
    BY TabFacts, MinusFacts
  <2>3. others \in Seq(Text)
    BY <2>2, TakeFacts
  <2>4. ticker \in Text
    BY TabFacts
  <2> HIDE DEF others
  <2>5. <<ticker>> \in Seq(Text) /\ <<"SPY">> \in Seq(Text)
    BY <1>1, <2>4
  <2>6. tickers \in Seq(Text)
    BY <2>3, <2>5
  <2>7. Compares(t, tickers)
    BY <2>1 DEF others
  <2> HIDE DEF tickers
  <2> QED
    BY <2>6, <2>7
<1>4. CASE MatchesCompared(t)
  BY <1>1, <1>2, <1>4 DEF MatchesCompared
<1>5. CASE \E ticker \in Quoted : Compares(t, <<ticker, "SPY">>)
  BY <1>1, <1>2, <1>5
<1>6. CASE \E ticker, leader \in Quoted :
             Compares(t, <<ticker, "SPY">> \o (IF leader = ticker THEN <<>> ELSE <<leader>>))
  <2>1. PICK ticker \in Quoted, leader \in Quoted :
          Compares(t, <<ticker, "SPY">> \o (IF leader = ticker THEN <<>> ELSE <<leader>>))
    BY <1>6
  <2> DEFINE a == <<ticker, "SPY">>
             b == IF leader = ticker THEN <<>> ELSE <<leader>>
  <2>2. a \in Seq(Text)
    BY <1>1, <1>2
  <2>3. b \in Seq(Text)
    <3>1. <<>> \in Seq(Text)
      OBVIOUS
    <3>2. <<leader>> \in Seq(Text)
      BY <1>1
    <3> QED
      BY <3>1, <3>2
  <2> HIDE DEF a, b
  <2>4. a \o b \in Seq(Text)
    BY <2>2, <2>3
  <2>5. Compares(t, a \o b)
    BY <2>1 DEF a, b
  <2> QED
    BY <2>4, <2>5
<1> QED
  BY <1>3, <1>4, <1>5, <1>6

(* The buttons that compare. *)
LEMMA CompareSteps ==
  ASSUME WorkspaceInv, NEW t \in Tabs,
         \/ \E tickers \in Seq(Text) : Compares(t, tickers)
         \/ CompareRemoved(t) \/ CompareSaved(t) \/ CompareReset(t) \/ RailCompareSet(t)
  PROVE  WorkspaceInv'
<1>1. StoreInv(store[t]) /\ SetsInv(store[t].savedCompareSets)
  BY TabFacts DEF StoreInv
<1>2. <<"SPY", "QQQ">> \in Seq(Text)
  <2>1. "SPY" \in Text /\ "QQQ" \in Text
    BY WorkspaceAssumption, DefaultsAssumption, SymbolsInUpper
  <2> QED
    BY <2>1
<1>3. CASE \E tickers \in Seq(Text) : Compares(t, tickers)
  BY <1>3, ComparesKeeps
<1>4. CASE CompareRemoved(t)
  <2>1. PICK ticker : Sets(t, SetCompareTickers(store[t], Minus(store[t].compareTickers, ticker)), form[t])
    BY <1>4 DEF CompareRemoved
  <2>2. Minus(store[t].compareTickers, ticker) \in Seq(Text)
    BY TabFacts, MinusFacts
  <2>3. StoreInv(SetCompareTickers(store[t], Minus(store[t].compareTickers, ticker)))
    BY <1>1, <2>2, CompareKeeps
  <2> QED
    BY <2>1, <2>3, SetsKeeps
<1>5. CASE CompareSaved(t)
  <2>1. StoreInv(SaveCompareSet(store[t], NextId, store[t].compareTickers))
    BY <1>1, TabFacts, SetsKeep
  <2> QED
    BY <1>5, <2>1, SetsKeeps DEF CompareSaved
<1>6. CASE CompareReset(t)
  <2>1. StoreInv(SetCompareTickers(store[t], <<"SPY", "QQQ">>))
    BY <1>1, <1>2, CompareKeeps
  <2> QED
    BY <1>6, <2>1, SetsKeeps DEF CompareReset
<1>7. CASE RailCompareSet(t)
  <2>1. PICK set \in ToSet(store[t].savedCompareSets) :
          \/ Sets(t, SetCompareTickers(store[t], set.tickers), form[t])
          \/ Sets(t, DeleteCompareSet(store[t], set.id), form[t])
    BY <1>7 DEF RailCompareSet
  <2>2. set.tickers \in Seq(Text)
    BY <1>1, SymbolsFacts DEF SetsInv
  <2>3. /\ StoreInv(SetCompareTickers(store[t], set.tickers))
        /\ StoreInv(DeleteCompareSet(store[t], set.id))
    BY <1>1, <2>2, CompareKeeps, SetsKeep
  <2> QED
    BY <2>1, <2>3, SetsKeeps
<1> QED
  BY <1>3, <1>4, <1>5, <1>6, <1>7

(* The notes. *)
LEMMA AnnotationSteps ==
  ASSUME WorkspaceInv, NEW t \in Tabs, AnnToggled(t) \/ AnnSaved(t) \/ AnnCleared(t)
  PROVE  WorkspaceInv'
<1>1. StoreInv(store[t])
  BY TabFacts
<1>2. CASE AnnToggled(t)
  <2>1. UNCHANGED <<stored, bench, mode, page, symbol, store, draft, retried, spare, owner,
                    edits, faults>>
    BY <1>2 DEF AnnToggled
  <2>2. TabsOK /\ StorageOK /\ FrameOK /\ RetriedOK
    BY InvParts
  <2>3. TabsOK' /\ StorageOK' /\ FrameOK' /\ RetriedOK'
    BY <2>1, <2>2 DEF TabsOK, StorageOK, FrameOK, RetriedOK
  <2> QED
    BY <2>3, InvPartsNext
<1>3. CASE AnnSaved(t)
  <2>1. PICK note, f : Sets(t, IF note = "" THEN ClearAnnotation(store[t], form[t].key)
                               ELSE SetAnnotation(store[t], form[t].key, note), f)
    BY <1>3 DEF AnnSaved
  <2>2. StoreInv(IF note = "" THEN ClearAnnotation(store[t], form[t].key)
                 ELSE SetAnnotation(store[t], form[t].key, note))
    BY <1>1, AnnotationsKeep
  <2> QED
    BY <2>1, <2>2, SetsKeeps
<1>4. CASE AnnCleared(t)
  <2>1. StoreInv(ClearAnnotation(store[t], form[t].key))
    BY <1>1, AnnotationsKeep
  <2> QED
    BY <1>4, <2>1, SetsKeeps DEF AnnCleared
<1> QED
  BY <1>2, <1>3, <1>4

(* The backtest page and its saved drafts. *)
LEMMA BacktestSteps ==
  ASSUME WorkspaceInv, NEW t \in Tabs,
         RailBacktest(t) \/ DraftEdited(t) \/ BacktestSaved(t) \/ BacktestLoaded(t)
  PROVE  WorkspaceInv'
<1>1. StoreInv(store[t]) /\ DraftsInv(store[t].savedBacktests) /\ draft[t] \in Drafts
  BY TabFacts DEF StoreInv
<1>2. TabsOK /\ StorageOK /\ FrameOK /\ RetriedOK
  BY InvParts
<1>3. CASE RailBacktest(t)
  <2>1. PICK id : Sets(t, DeleteBacktestDraft(store[t], id), form[t])
    BY <1>3 DEF RailBacktest
  <2>2. StoreInv(DeleteBacktestDraft(store[t], id))
    BY <1>1, DraftsKeep
  <2> QED
    BY <2>1, <2>2, SetsKeeps
<1>4. CASE DraftEdited(t)
  <2>1. /\ \E d \in Drafts : draft' = [draft EXCEPT ![t] = d] /\ bench' = d
        /\ edits < MaxEdits /\ edits' = edits + 1
        /\ UNCHANGED <<stored, mode, page, symbol, store, form, retried, spare, owner, faults>>
    BY <1>4 DEF DraftEdited
  <2>2. TabsOK' /\ StorageOK' /\ RetriedOK'
    BY <1>2, <2>1 DEF TabsOK, StorageOK, RetriedOK
  <2>3. FrameOK'
    BY <1>2, <2>1, WorkspaceAssumption DEF FrameOK
  <2> QED
    BY <2>2, <2>3, InvPartsNext
<1>5. CASE BacktestSaved(t)
  <2>1. StoreInv(SaveBacktestDraft(store[t], NextId, draft[t]))
    BY <1>1, DraftsKeep
  <2> QED
    BY <1>5, <2>1, SetsKeeps DEF BacktestSaved
<1>6. CASE BacktestLoaded(t)
  <2> DEFINE saves == store[t].savedBacktests
  <2>1. PICK saved \in ToSet(Take(saves, 4)) :
          Shows(t, store[t], "/backtest", saved.draft, form[t], stored)
    BY <1>6 DEF BacktestLoaded
  <2>2. saves \in Seq(ToSet(saves)) /\ \A s \in ToSet(saves) : s.draft \in Drafts
    BY <1>1 DEF DraftsInv
  <2> HIDE DEF saves
  <2>3. ToSet(Take(saves, 4)) \subseteq ToSet(saves)
    BY <2>2, TakeFacts
  <2>4. saved.draft \in Drafts
    BY <2>1, <2>2, <2>3
  <2>5. "/backtest" \in Pages \cup {"/"}
    BY <1>6, TabFacts DEF BacktestLoaded, On
  <2>6. FrameOK'
    BY <1>2, <1>6 DEF BacktestLoaded, FrameOK
  <2> QED
    BY <1>1, <2>1, <2>4, <2>5, <2>6, ShowsKeeps
<1> QED
  BY <1>3, <1>4, <1>5, <1>6

(* WATCH and COMPARE of a security. *)
LEMMA SecurityStep ==
  ASSUME WorkspaceInv, NEW t \in Tabs, SecurityMarked(t)
  PROVE  WorkspaceInv'
<1>1. StoreInv(store[t]) /\ symbol[t] \in Text
  BY TabFacts
<1>2. /\ StoreInv(ToggleWatchlist(store[t], symbol[t], store[t].activeWatchlistId))
      /\ StoreInv(ToggleCompareTicker(store[t], symbol[t]))
  BY <1>1, ToggleKeeps, CompareKeeps
<1> QED
  BY <1>2, SetsKeeps DEF SecurityMarked

(* The inductive invariant after every step of every tab. *)
LEMMA InvariantStep ==
  ASSUME WorkspaceInv, [WorkspaceNext]_workspaceVars
  PROVE  WorkspaceInv'
<1>1. CASE UNCHANGED workspaceVars
  <2>1. TabsOK /\ StorageOK /\ FrameOK /\ RetriedOK
    BY InvParts
  <2>2. TabsOK' /\ StorageOK' /\ FrameOK' /\ RetriedOK'
    BY <1>1, <2>1 DEF workspaceVars, tabState, TabsOK, StorageOK, FrameOK, RetriedOK
  <2> QED
    BY <2>2, InvPartsNext
<1>2. CASE Damage
  BY <1>2, DamageStep
<1>3. ASSUME NEW t \in Tabs,
             Open(t) \/ Load(t) \/ Reload(t) \/ Close(t) \/ Navigate(t) \/ ChunkFails(t)
               \/ HandleReset(t)
      PROVE  WorkspaceInv'
  BY <1>3, LeavingSteps, LoadStep, NavigateStep, ChunkStep
<1>4. ASSUME NEW t \in Tabs,
             \/ TabChosen(t) \/ Rename(t) \/ Create(t) \/ Delete(t) \/ RailListChosen(t)
             \/ \E batch \in Batches : BatchAdd(t, batch)
             \/ RecentToggled(t) \/ RowRemoved(t) \/ RailSymbolRemoved(t)
             \/ \E p : Watched(t, p)
      PROVE  WorkspaceInv'
  BY <1>4, ListSteps, BatchStep, ToggleSteps
<1>5. ASSUME NEW t \in Tabs,
             \/ RowCompared(t) \/ MatchesCompared(t) \/ CompareRemoved(t)
             \/ CompareSaved(t) \/ CompareReset(t) \/ RailCompareSet(t)
             \/ MonitorRow(t) \/ SectorRow(t)
      PROVE  WorkspaceInv'
  BY <1>5, ComparedTexts, CompareSteps, ToggleSteps DEF MonitorRow, SectorRow
<1>6. ASSUME NEW t \in Tabs,
             \/ AnnToggled(t) \/ AnnSaved(t) \/ AnnCleared(t)
             \/ RailBacktest(t) \/ DraftEdited(t) \/ BacktestSaved(t) \/ BacktestLoaded(t)
             \/ SecurityMarked(t) \/ ScreenerRow(t) \/ BacktestMatch(t)
      PROVE  WorkspaceInv'
  <2>1. CASE ScreenerRow(t) \/ BacktestMatch(t)
    BY <2>1, ToggleSteps DEF ScreenerRow, BacktestMatch
  <2> QED
    BY <1>6, <2>1, AnnotationSteps, BacktestSteps, SecurityStep
<1> QED
  BY <1>1, <1>2, <1>3, <1>4, <1>5, <1>6 DEF WorkspaceNext

(* In every behaviour the workspace of every tab is in order, and what is   *)
(* stored is nothing, a workspace in use or one that was damaged.           *)
THEOREM WorkspaceInvariant == WorkspaceSpec => []WorkspaceInv
<1>1. WorkspaceInv /\ [WorkspaceNext]_workspaceVars => WorkspaceInv'
  BY InvariantStep
<1> QED
  BY <1>1, InitInvariant, PTL DEF WorkspaceSpec

(* Lists keep to their limits and hold nothing twice, whatever was typed, *)
(* stored or damaged.                                                     *)
THEOREM WorkspaceTypeCorrect == WorkspaceSpec => []WorkspaceTypeOK
<1>1. WorkspaceInv => WorkspaceTypeOK
  BY DEF WorkspaceInv
<1> QED
  BY <1>1, WorkspaceInvariant, PTL

(* The active list of a tab exists: the buttons of the pages and of the rail *)
(* (WorkspaceRail.tsx, WatchlistsPage.tsx) act on it without asking.         *)
THEOREM ActiveListAlwaysExists == WorkspaceSpec => []ActiveListExists
<1>1. WorkspaceInv => ActiveListExists
  BY DEF WorkspaceInv, StoreInv, ListsInv, ActiveListExists
<1> QED
  BY <1>1, WorkspaceInvariant, PTL

(* A batch (handleBatchAdd) takes nothing off the active list while the list *)
(* has room for both, whatever the batch repeats of it or of itself.         *)
THEOREM BatchAddAlwaysKeeps == WorkspaceSpec => BatchAddKeeps
<1>1. ASSUME WorkspaceInv, NEW t \in Tabs, NEW batch \in Batches, BatchAdd(t, batch)
      PROVE  \/ ToSet(Active(t).symbols) \subseteq ToSet(Active(t)'.symbols)
             \/ Cardinality(ToSet(Active(t).symbols)
                            \cup {Upper[batch[i]] : i \in DOMAIN batch}) > ListLimit
  <2> DEFINE w == store[t]
             batched == {Upper[batch[i]] : i \in DOMAIN batch}
             added == Added(w, batch, Active(t).symbols)
  <2>1. StoreInv(w) /\ ListsInv(w.watchlists, w.activeWatchlistId)
    BY <1>1, TabFacts
  <2>2. PICK k \in DOMAIN w.watchlists : ActivePlace(w.watchlists, w.activeWatchlistId, k)
    BY <2>1, ActivePlaceExists
  <2>3. Active(t) = w.watchlists[k]
    BY <2>1, <2>2, ActiveFound DEF Active
  <2>4. batch \in Seq(Text)
    BY WorkspaceAssumption
  <2>5. HasAdded(w, added, k, batched)
    BY <2>1, <2>2, <2>3, <2>4, AddedFacts
  <2>6. store'[t] = SetLastRoute(added, "/watchlists")
    <3>1. page[t] = "/watchlists" /\ Shows(t, added, page[t], draft[t], form[t], Partialize(added))
      BY <1>1 DEF BatchAdd, Sets, On
    <3>2. Renders(added, page[t], draft[t])
      BY <3>1 DEF Renders
    <3>3. Goes(t, "open", page[t], Mounted(added, page[t], symbol'[t]), draft[t], form[t])
      BY <3>1, <3>2 DEF Shows
    <3>4. Mounted(added, page[t], symbol'[t]) = SetLastRoute(added, "/watchlists")
      BY <3>1 DEF Mounted
    <3>5. DOMAIN store = Tabs
      BY <1>1 DEF WorkspaceInv
    <3> QED
      BY <3>3, <3>4, <3>5 DEF Goes
  <2> DEFINE v == store'[t]
  <2>7. v.watchlists = added.watchlists /\ v.activeWatchlistId = added.activeWatchlistId
    BY <2>5, <2>6, RouteKeeps DEF HasAdded
  <2>8. Active(t)' = added.watchlists[k]
    <3>1. ListsInv(v.watchlists, v.activeWatchlistId) /\ ActivePlace(v.watchlists, v.activeWatchlistId, k)
      BY <2>5, <2>7 DEF HasAdded, StoreInv
    <3>2. GetActiveWatchlist(v) = v.watchlists[k]
      BY <3>1, ActiveFound
    <3> QED
      BY <2>7, <3>2 DEF Active
  <2>9. Cardinality(ToSet(w.watchlists[k].symbols) \cup batched) \in Nat
    <3>1. IsFiniteSet(batched)
      BY <2>4, BatchFinite
    <3>2. IsSymbols(w.watchlists[k].symbols, ListLimit)
      BY <2>1, ListsFacts DEF IsList
    <3>3. IsFiniteSet(ToSet(w.watchlists[k].symbols))
      BY <3>2, SymbolsFacts
    <3> HIDE DEF batched
    <3> QED
      BY <3>1, <3>3, FS_Union, FS_CardinalityType
  <2> HIDE DEF batched, added, w
  <2>10. \/ Cardinality(ToSet(w.watchlists[k].symbols) \cup batched) <= ListLimit
         \/ Cardinality(ToSet(w.watchlists[k].symbols) \cup batched) > ListLimit
    BY <2>9, Limits
  <2>11. Cardinality(ToSet(w.watchlists[k].symbols) \cup batched) <= ListLimit =>
           ToSet(w.watchlists[k].symbols) \subseteq ToSet(added.watchlists[k].symbols)
    BY <2>5 DEF HasAdded
  <2> QED
    BY <2>3, <2>8, <2>10, <2>11 DEF batched
<1>2. WorkspaceInv /\ [WorkspaceNext]_workspaceVars =>
        [\A t \in Tabs, batch \in Batches : BatchAdd(t, batch) =>
           LET before == ToSet(Active(t).symbols)
               batched == {Upper[batch[i]] : i \in DOMAIN batch}
           IN \/ before \subseteq ToSet(Active(t)'.symbols)
              \/ Cardinality(before \cup batched) > ListLimit]_workspaceVars
  BY <1>1
<1> QED
  BY <1>2, WorkspaceInvariant, PTL DEF WorkspaceSpec, BatchAddKeeps

-----------------------------------------------------------------------------
(* What a reload brings back.                                              *)

(* What is of no use is neither a list nor a record, and no text that the  *)
(* code numbers: so Junk and Null are understood.                          *)
UselessApart ==
  /\ ~IsFunction(Junk) /\ ~IsFunction(Null)
  /\ \A n \in Nat : /\ IsText("watchlist-" \o ToString(n))
                    /\ IsText("Watchlist " \o ToString(n))
                    /\ IsText("compare-" \o ToString(n)) /\ IsText("draft-" \o ToString(n))

(* Texts, ids, names and routes are of use. *)
LEMMA TextsAreUsed ==
  /\ \A x \in Text \cup Ids \cup Pages \cup {"/", "core", "macro", "Core", "Macro"} : IsText(x)
  /\ \A x \in Names : x # "" => IsText(x)
  /\ Null \notin Drafts /\ Junk # Null
BY UsableAssumption DEF IsText, Drafts

(* A sequence is of use, however short. *)
LEMMA SequencesAreUsed ==
  ASSUME UselessApart, NEW X, NEW s \in Seq(X)
  PROVE  s \notin {Junk, Null}
<1>1. IsFunction(s)
  <2>1. s = [i \in 1..Len(s) |-> s[i]] /\ DOMAIN s = 1..Len(s)
    OBVIOUS
  <2> QED
    BY <2>1 DEF IsFunction
<1> QED
  BY <1>1 DEF UselessApart

(* uniqHead leaves a list of symbols as it is. *)
LEMMA UniqHeadSame ==
  ASSUME NEW s, NEW n \in Nat \ {0}, IsSymbols(s, n)
  PROVE  UniqHead(s, n) = s
<1>1. s \in Seq(Symbol) /\ IsInjective(s) /\ Len(s) <= n
  BY DEF IsSymbols
<1>2. s = [i \in DOMAIN s |-> s[i]] /\ \A i \in DOMAIN s : Upper[s[i]] = s[i]
  BY <1>1 DEF Symbol
<1>3. Mapped(s, InUpper) = s /\ Mapped(s, AsTyped) = s
  BY <1>2 DEF Mapped, InUpper, AsTyped
<1>4. UniqHead(s, n) = Take(AtPlaces(s, Firsts(s)), n)
  BY <1>3 DEF UniqHead, Distinct
<1> QED
  BY <1>1, <1>4, HeadFacts

(* The merge leaves a list of symbols as it is. *)
LEMMA StringsSame ==
  ASSUME UselessApart, NEW s, NEW n \in Nat \ {0}, IsSymbols(s, n), NEW fallback
  PROVE  SanitizeStrings(s, n, fallback) = s
<1> DEFINE I == {i \in DOMAIN s : IsText(s[i])}
<1>1. s \in Seq(Symbol) /\ DOMAIN s = 1..Len(s) /\ \A i \in 1..Len(s) : s[i] \in Symbol
  BY DEF IsSymbols
<1>2. s \notin {Junk, Null}
  BY <1>1, SequencesAreUsed
<1>3. 1..Len(s) \subseteq I
  BY <1>1, TextsAreUsed, SymbolsInUpper
<1>4. Where(s, IsText) = AtPlaces(s, I)
  BY DEF Where
<1> HIDE DEF I
<1>5. Where(s, IsText) = s
  BY <1>1, <1>3, <1>4, FilteredAll
<1> QED
  BY <1>2, <1>5, UniqHeadSame DEF SanitizeStrings

(* Records are all of use. *)
LEMMA RecordsSame ==
  ASSUME UselessApart, NEW X, NEW s \in Seq(X), \A x \in ToSet(s) : IsFunction(x)
  PROVE  Where(s, LAMBDA x : x \notin {Junk, Null}) = s
<1> DEFINE I == {i \in DOMAIN s : s[i] \notin {Junk, Null}}
<1>1. DOMAIN s = 1..Len(s) /\ \A i \in 1..Len(s) : s[i] \in ToSet(s)
  BY SeqOfOwn DEF ToSet
<1>2. 1..Len(s) \subseteq I
  BY <1>1 DEF UselessApart
<1>3. Where(s, LAMBDA x : x \notin {Junk, Null}) = AtPlaces(s, I)
  BY DEF Where
<1> HIDE DEF I
<1> QED
  BY <1>2, <1>3, FilteredAll

(* An id is a text after the merge, and the same if it was one. *)
LEMMA IdFacts ==
  ASSUME UselessApart
  PROVE  \A word \in {"watchlist-", "Watchlist ", "compare-", "draft-"} : \A i \in Nat : \A id :
           /\ IsText(SanitizeId(id, word, i))
           /\ IsText(id) => SanitizeId(id, word, i) = id
<1> SUFFICES ASSUME NEW word \in {"watchlist-", "Watchlist ", "compare-", "draft-"},
                    NEW i \in Nat, NEW id
             PROVE  /\ IsText(SanitizeId(id, word, i))
                    /\ IsText(id) => SanitizeId(id, word, i) = id
  OBVIOUS
<1>1. IsText(word \o ToString(i))
  BY Zenon DEF UselessApart
<1> DEFINE numbered == word \o ToString(i)
<1>2. IsText(numbered)
  BY <1>1
<1>3. SanitizeId(id, word, i) = IF IsText(id) THEN id ELSE numbered
  BY DEF SanitizeId
<1> HIDE DEF numbered
<1> QED
  BY <1>2, <1>3

(* Of tidy lists the merge keeps those with symbols, as they are. *)
LEMMA WatchlistsSame ==
  ASSUME UselessApart, NEW lists, lists \in Seq(ToSet(lists)),
         \A list \in ToSet(lists) : IsList(list), TidyLists(lists)
  PROVE  LET kept == Where(lists, LAMBDA list : list.symbols # <<>>)
         IN SanitizeWatchlists(lists) = IF kept = <<>> THEN DefaultWatchlists ELSE kept
<1> DEFINE Made(x, i) ==
             [ id |-> SanitizeId(x.id, "watchlist-", i),
               name |-> SanitizeId(x.name, "Watchlist ", i),
               symbols |-> SanitizeStrings(x.symbols, ListLimit, <<>>) ]
           records == Where(lists, LAMBDA x : x \notin {Junk, Null})
           made == [i \in DOMAIN records |-> Made(records[i], i)]
<1>1. lists \notin {Junk, Null} /\ DOMAIN lists = 1..Len(lists) /\ Len(lists) \in Nat
  BY SequencesAreUsed, SeqOfOwn
<1>2. \A i \in 1..Len(lists) : lists[i] \in ToSet(lists)
  BY <1>1 DEF ToSet
<1>3. records = lists
  <2>1. \A list \in ToSet(lists) : IsFunction(list)
    <3> SUFFICES ASSUME NEW list \in ToSet(lists) PROVE IsFunction(list)
      OBVIOUS
    <3>1. list = [id |-> list.id, name |-> list.name, symbols |-> list.symbols]
      BY DEF IsList
    <3> QED
      BY <3>1 DEF IsFunction
  <2> QED
    BY <2>1, RecordsSame
<1>4. ASSUME NEW i \in 1..Len(lists) PROVE Made(lists[i], i) = lists[i]
  <2> DEFINE list == lists[i]
  <2>1. IsList(list) /\ IsText(list.id) /\ IsText(list.name)
    BY <1>2 DEF TidyLists
  <2> HIDE DEF list
  <2>0. i \in Nat
    BY <1>1
  <2>2. SanitizeId(list.id, "watchlist-", i) = list.id
    BY <2>0, <2>1, IdFacts, Zenon
  <2>3. SanitizeId(list.name, "Watchlist ", i) = list.name
    BY <2>0, <2>1, IdFacts, Zenon
  <2>4. SanitizeStrings(list.symbols, ListLimit, <<>>) = list.symbols
    BY <2>1, StringsSame, Limits DEF IsList
  <2>5. list = [id |-> list.id, name |-> list.name, symbols |-> list.symbols]
    BY <2>1 DEF IsList
  <2> QED
    BY <2>2, <2>3, <2>4, <2>5 DEF list
<1>5. Items(lists, Made) = made
  BY <1>1 DEF Items
<1> DEFINE kept == Where(made, LAMBDA list : list.symbols # <<>>)
<1>6. SanitizeWatchlists(lists) = IF kept = <<>> THEN DefaultWatchlists ELSE kept
  BY <1>1 DEF SanitizeWatchlists, Items
<1> HIDE DEF records, Made
<1>7. made = [i \in DOMAIN lists |-> lists[i]]
  BY <1>1, <1>3, <1>4
<1>8. lists = [i \in DOMAIN lists |-> lists[i]]
  BY <1>1
<1>9. made = lists
  BY <1>7, <1>8
<1> QED
  BY <1>6, <1>9

(* Tidy sets stay as they are. *)
LEMMA SetsSame ==
  ASSUME UselessApart, NEW sets, SetsInv(sets), TidySets(sets)
  PROVE  SanitizeSavedCompareSets(sets) = sets
<1> DEFINE Made(x, i) ==
             [ id |-> SanitizeId(x.id, "compare-", i),
               tickers |-> SanitizeStrings(x.tickers, CompareLimit, <<>>) ]
           records == Where(sets, LAMBDA x : x \notin {Junk, Null})
           made == [i \in DOMAIN records |-> Made(records[i], i)]
<1>1. /\ sets \in Seq(ToSet(sets)) /\ Len(sets) <= SavedLimit
      /\ \A set \in ToSet(sets) : IsSymbols(set.tickers, CompareLimit)
  BY DEF SetsInv
<1>2. sets \notin {Junk, Null} /\ DOMAIN sets = 1..Len(sets) /\ Len(sets) \in Nat
  BY <1>1, SequencesAreUsed, SeqOfOwn
<1>3. \A i \in 1..Len(sets) : sets[i] \in ToSet(sets)
  BY <1>2 DEF ToSet
<1>4. records = sets
  <2>1. \A set \in ToSet(sets) : IsFunction(set)
    <3> SUFFICES ASSUME NEW set \in ToSet(sets) PROVE IsFunction(set)
      OBVIOUS
    <3>1. set = [id |-> set.id, tickers |-> set.tickers]
      BY DEF TidySets
    <3> QED
      BY <3>1 DEF IsFunction
  <2> QED
    BY <1>1, <2>1, RecordsSame
<1>5. ASSUME NEW i \in 1..Len(sets) PROVE Made(sets[i], i) = sets[i] /\ sets[i].tickers # <<>>
  <2> DEFINE set == sets[i]
  <2>0. i \in Nat
    BY <1>2
  <2>1. /\ set = [id |-> set.id, tickers |-> set.tickers]
        /\ IsText(set.id) /\ set.tickers # <<>> /\ IsSymbols(set.tickers, CompareLimit)
    BY <1>1, <1>3 DEF TidySets
  <2> HIDE DEF set
  <2>2. SanitizeId(set.id, "compare-", i) = set.id
    BY <2>0, <2>1, IdFacts, Zenon
  <2>3. SanitizeStrings(set.tickers, CompareLimit, <<>>) = set.tickers
    BY <2>1, StringsSame, Limits
  <2> QED
    BY <2>1, <2>2, <2>3 DEF set
<1> DEFINE I == {i \in DOMAIN made : made[i].tickers # <<>>}
<1>6. SanitizeSavedCompareSets(sets) = Take(AtPlaces(made, I), SavedLimit)
  BY <1>2 DEF SanitizeSavedCompareSets, Items, Where
<1> HIDE DEF records, Made
<1>7. made = [i \in DOMAIN sets |-> sets[i]]
  BY <1>2, <1>4, <1>5
<1>8. sets = [i \in DOMAIN sets |-> sets[i]]
  BY <1>1
<1>9. made = sets
  BY <1>7, <1>8
<1> HIDE DEF made
<1>10. 1..Len(sets) \subseteq I
  BY <1>2, <1>5, <1>9
<1> HIDE DEF I
<1>11. AtPlaces(sets, I) = sets
  BY <1>1, <1>10, FilteredAll
<1>12. Take(sets, SavedLimit) = sets
  BY <1>1, TakeFacts, Limits
<1> QED
  BY <1>6, <1>9, <1>11, <1>12

(* Tidy drafts too. *)
LEMMA DraftsSame ==
  ASSUME UselessApart, NEW drafts, DraftsInv(drafts), TidyDrafts(drafts)
  PROVE  SanitizeSavedDrafts(drafts) = drafts
<1> DEFINE Made(x, i) == [id |-> SanitizeId(x.id, "draft-", i), draft |-> x.draft]
           records == Where(drafts, LAMBDA x : x \notin {Junk, Null})
           made == [i \in DOMAIN records |-> Made(records[i], i)]
<1>1. /\ drafts \in Seq(ToSet(drafts)) /\ Len(drafts) <= SavedLimit
      /\ \A saved \in ToSet(drafts) : saved.draft \in Drafts
  BY DEF DraftsInv
<1>2. drafts \notin {Junk, Null} /\ DOMAIN drafts = 1..Len(drafts) /\ Len(drafts) \in Nat
  BY <1>1, SequencesAreUsed, SeqOfOwn
<1>3. \A i \in 1..Len(drafts) : drafts[i] \in ToSet(drafts)
  BY <1>2 DEF ToSet
<1>4. records = drafts
  <2>1. \A saved \in ToSet(drafts) : IsFunction(saved)
    <3> SUFFICES ASSUME NEW saved \in ToSet(drafts) PROVE IsFunction(saved)
      OBVIOUS
    <3>1. saved = [id |-> saved.id, draft |-> saved.draft]
      BY DEF TidyDrafts
    <3> QED
      BY <3>1 DEF IsFunction
  <2> QED
    BY <1>1, <2>1, RecordsSame
<1>5. ASSUME NEW i \in 1..Len(drafts)
      PROVE  Made(drafts[i], i) = drafts[i] /\ drafts[i].draft # Null
  <2> DEFINE saved == drafts[i]
  <2>0. i \in Nat
    BY <1>2
  <2>1. /\ saved = [id |-> saved.id, draft |-> saved.draft]
        /\ IsText(saved.id) /\ saved.draft \in Drafts
    BY <1>1, <1>3 DEF TidyDrafts
  <2> HIDE DEF saved
  <2>2. SanitizeId(saved.id, "draft-", i) = saved.id
    BY <2>0, <2>1, IdFacts, Zenon
  <2>3. saved.draft # Null
    BY <2>1, TextsAreUsed
  <2> QED
    BY <2>1, <2>2, <2>3 DEF saved
<1> DEFINE I == {i \in DOMAIN made : made[i].draft # Null}
<1>6. SanitizeSavedDrafts(drafts) = Take(AtPlaces(made, I), SavedLimit)
  BY <1>2 DEF SanitizeSavedDrafts, Items, Where
<1> HIDE DEF records, Made
<1>7. made = [i \in DOMAIN drafts |-> drafts[i]]
  BY <1>2, <1>4, <1>5
<1>8. drafts = [i \in DOMAIN drafts |-> drafts[i]]
  BY <1>1
<1>9. made = drafts
  BY <1>7, <1>8
<1> HIDE DEF made
<1>10. 1..Len(drafts) \subseteq I
  BY <1>2, <1>5, <1>9
<1> HIDE DEF I
<1>11. AtPlaces(drafts, I) = drafts
  BY <1>1, <1>10, FilteredAll
<1>12. Take(drafts, SavedLimit) = drafts
  BY <1>1, TakeFacts, Limits
<1> QED
  BY <1>6, <1>9, <1>11, <1>12

(* The lists the merge makes are tidy, whatever was stored. *)
LEMMA WatchlistsMade ==
  ASSUME UselessApart, NEW value, IsItems(value)
  PROVE  TidyLists(SanitizeWatchlists(value))
<1>1. TidyLists(DefaultWatchlists)
  <2>1. DOMAIN DefaultWatchlists = {1, 2}
    BY DEF DefaultWatchlists
  <2>2. /\ DefaultWatchlists[1].id = "core" /\ DefaultWatchlists[1].name = "Core"
        /\ DefaultWatchlists[2].id = "macro" /\ DefaultWatchlists[2].name = "Macro"
    BY DEF DefaultWatchlists
  <2> QED
    BY <2>1, <2>2, TextsAreUsed DEF TidyLists, ToSet
<1>2. CASE value \in {Junk, Null}
  <2> DEFINE I == {i \in DOMAIN <<>> : <<>>[i].symbols # <<>>}
             none == AtPlaces(<<>>, I)
  <2>1. SanitizeWatchlists(value) = IF none = <<>> THEN DefaultWatchlists ELSE none
    BY <1>2 DEF SanitizeWatchlists, Items, Where
  <2> HIDE DEF I
  <2>2. <<>> \in Seq({}) /\ Len(<<>>) = 0
    OBVIOUS
  <2>3. I \cap (1..Len(<<>>)) = {}
    BY <2>2
  <2>4. none = <<>>
    BY <2>2, <2>3, FilteredNone
  <2> QED
    BY <1>1, <2>1, <2>4
<1>3. CASE value \notin {Junk, Null}
  <2> DEFINE records == Where(value, LAMBDA x : x \notin {Junk, Null})
             made == [i \in DOMAIN records |->
                        [ id |-> SanitizeId(records[i].id, "watchlist-", i),
                          name |-> SanitizeId(records[i].name, "Watchlist ", i),
                          symbols |-> SanitizeStrings(records[i].symbols, ListLimit, <<>>) ]]
             I == {i \in DOMAIN made : made[i].symbols # <<>>}
             kept == AtPlaces(made, I)
             n == Len(records)
  <2>1. SanitizeWatchlists(value) = IF kept = <<>> THEN DefaultWatchlists ELSE kept
    BY <1>3 DEF SanitizeWatchlists, Items, Where
  <2>2. DOMAIN records = 1..n /\ n \in Nat
    BY <1>3, RecordsFacts
  <2> HIDE DEF records, n
  <2>3. ASSUME NEW i \in 1..n PROVE IsText(made[i].id) /\ IsText(made[i].name)
    <3>0. i \in Nat
      BY <2>2
    <3> DEFINE a == SanitizeId(records[i].id, "watchlist-", i)
               b == SanitizeId(records[i].name, "Watchlist ", i)
               c == SanitizeStrings(records[i].symbols, ListLimit, <<>>)
    <3>1. IsText(a) /\ IsText(b)
      BY <3>0, IdFacts, Zenon
    <3>2. made[i] = [id |-> a, name |-> b, symbols |-> c]
      BY <2>2
    <3> HIDE DEF a, b, c, made
    <3>3. made[i].id = a /\ made[i].name = b
      BY <3>2
    <3> QED
      BY <3>1, <3>3
  <2>4. made = [i \in 1..n |-> made[i]]
    BY <2>2
  <2> HIDE DEF made, I
  <2>5. ToSet(kept) \subseteq {made[i] : i \in 1..n}
    BY <2>2, <2>4, MadeAndFiltered
  <2> HIDE DEF kept
  <2>6. TidyLists(kept)
    BY <2>3, <2>5 DEF TidyLists
  <2> QED
    BY <1>1, <2>1, <2>6
<1> QED
  BY <1>2, <1>3

(* What the merge keeps stood at one of the places that were to be kept. *)
LEMMA KeptPlaces ==
  ASSUME NEW n \in Nat, NEW made, made = [i \in 1..n |-> made[i]], NEW I
  PROVE  \A x \in ToSet(Take(AtPlaces(made, I), SavedLimit)) :
           \E i \in I \cap (1..n) : x = made[i]
<1> DEFINE X == {made[i] : i \in 1..n}
           q == AtPlaces(made, I)
<1>1. made \in Seq(X) /\ Len(made) = n
  <2>1. \A i \in 1..n : made[i] \in X
    OBVIOUS
  <2> HIDE DEF X
  <2> QED
    BY <2>1
<1> HIDE DEF X
<1>2. q \in Seq(X) /\ ToSet(q) = {made[i] : i \in I \cap (1..n)}
  BY <1>1, AtPlacesSelects, FilteredElements
<1> HIDE DEF q
<1>3. ToSet(Take(q, SavedLimit)) \subseteq ToSet(q)
  BY <1>2, TakeFacts, Limits
<1> QED
  BY <1>2, <1>3 DEF q

(* So are the sets, *)
LEMMA SetsMade ==
  ASSUME UselessApart, NEW value, IsItems(value)
  PROVE  TidySets(SanitizeSavedCompareSets(value))
<1> DEFINE sets == SanitizeSavedCompareSets(value)
<1>1. CASE value \in {Junk, Null}
  <2> DEFINE I == {i \in DOMAIN <<>> : <<>>[i].tickers # <<>>}
  <2>1. sets = Take(AtPlaces(<<>>, I), SavedLimit)
    BY <1>1 DEF SanitizeSavedCompareSets, Items, Where
  <2> HIDE DEF I, sets
  <2>2. sets = <<>>
    BY <2>1, NothingKept
  <2> QED
    BY <2>2 DEF TidySets, ToSet, sets
<1>2. CASE value \notin {Junk, Null}
  <2> DEFINE records == Where(value, LAMBDA x : x \notin {Junk, Null})
             made == [i \in DOMAIN records |->
                        [ id |-> SanitizeId(records[i].id, "compare-", i),
                          tickers |-> SanitizeStrings(records[i].tickers, CompareLimit, <<>>) ]]
             I == {i \in DOMAIN made : made[i].tickers # <<>>}
             n == Len(records)
  <2>1. sets = Take(AtPlaces(made, I), SavedLimit)
    BY <1>2 DEF SanitizeSavedCompareSets, Items, Where
  <2>2. DOMAIN records = 1..n /\ n \in Nat
    BY <1>2, RecordsFacts
  <2> HIDE DEF records, n
  <2>3. ASSUME NEW i \in I \cap (1..n)
        PROVE  /\ made[i] = [id |-> made[i].id, tickers |-> made[i].tickers]
               /\ IsText(made[i].id) /\ made[i].tickers # <<>>
    <3>0. i \in Nat /\ i \in 1..n
      BY <2>2
    <3> DEFINE a == SanitizeId(records[i].id, "compare-", i)
               c == SanitizeStrings(records[i].tickers, CompareLimit, <<>>)
    <3>1. IsText(a)
      BY <3>0, IdFacts, Zenon
    <3>2. made[i] = [id |-> a, tickers |-> c]
      BY <2>2
    <3>3. made[i].tickers # <<>>
      OBVIOUS
    <3> HIDE DEF a, c, made, I
    <3>4. made[i].id = a /\ made[i].tickers = c
      BY <3>2
    <3> QED
      BY <3>1, <3>2, <3>3, <3>4
  <2>4. made = [i \in 1..n |-> made[i]]
    BY <2>2
  <2> HIDE DEF made, I, sets
  <2>5. \A x \in ToSet(sets) : \E i \in I \cap (1..n) : x = made[i]
    BY <2>1, <2>2, <2>4, KeptPlaces
  <2> QED
    BY <2>3, <2>5 DEF TidySets, sets
<1> QED
  BY <1>1, <1>2

(* and the drafts. *)
LEMMA DraftsMade ==
  ASSUME UselessApart, NEW value, IsItems(value)
  PROVE  TidyDrafts(SanitizeSavedDrafts(value))
<1> DEFINE drafts == SanitizeSavedDrafts(value)
<1>1. CASE value \in {Junk, Null}
  <2> DEFINE I == {i \in DOMAIN <<>> : <<>>[i].draft # Null}
  <2>1. drafts = Take(AtPlaces(<<>>, I), SavedLimit)
    BY <1>1 DEF SanitizeSavedDrafts, Items, Where
  <2> HIDE DEF I, drafts
  <2>2. drafts = <<>>
    BY <2>1, NothingKept
  <2> QED
    BY <2>2 DEF TidyDrafts, ToSet, drafts
<1>2. CASE value \notin {Junk, Null}
  <2> DEFINE records == Where(value, LAMBDA x : x \notin {Junk, Null})
             made == [i \in DOMAIN records |->
                        [ id |-> SanitizeId(records[i].id, "draft-", i),
                          draft |-> records[i].draft ]]
             I == {i \in DOMAIN made : made[i].draft # Null}
             n == Len(records)
  <2>1. drafts = Take(AtPlaces(made, I), SavedLimit)
    BY <1>2 DEF SanitizeSavedDrafts, Items, Where
  <2>2. DOMAIN records = 1..n /\ n \in Nat
    BY <1>2, RecordsFacts
  <2> HIDE DEF records, n
  <2>3. ASSUME NEW i \in 1..n
        PROVE  made[i] = [id |-> made[i].id, draft |-> made[i].draft] /\ IsText(made[i].id)
    <3>0. i \in Nat
      BY <2>2
    <3> DEFINE a == SanitizeId(records[i].id, "draft-", i)
               c == records[i].draft
    <3>1. IsText(a)
      BY <3>0, IdFacts, Zenon
    <3>2. made[i] = [id |-> a, draft |-> c]
      BY <2>2
    <3> HIDE DEF a, c, made
    <3>4. made[i].id = a /\ made[i].draft = c
      BY <3>2
    <3> QED
      BY <3>1, <3>2, <3>4
  <2>4. made = [i \in 1..n |-> made[i]]
    BY <2>2
  <2> HIDE DEF made, I, drafts
  <2>5. \A x \in ToSet(drafts) : \E i \in I \cap (1..n) : x = made[i]
    BY <2>1, <2>2, <2>4, KeptPlaces
  <2> QED
    BY <2>3, <2>5 DEF TidyDrafts, drafts
<1> QED
  BY <1>1, <1>2

(* Of no items the merge makes none, however they are filtered. *)
LEMMA NothingWhere ==
  /\ \A I : AtPlaces(<<>>, I) = <<>>
  /\ UniqCommands(Where(<<>>, IsText), RecentLimit) = <<>>
  /\ \A value \in {<<>>, Junk, Null} : SanitizeSavedDrafts(value) = <<>>
<1>1. <<>> \in Seq({}) /\ Len(<<>>) = 0 /\ DOMAIN <<>> = {}
  OBVIOUS
<1>2. \A I : AtPlaces(<<>>, I) = <<>>
  <2> TAKE I
  <2>1. I \cap (1..Len(<<>>)) = {}
    BY <1>1
  <2> QED
    BY <1>1, <2>1, FilteredNone
<1>3. Take(<<>>, RecentLimit) = <<>>
  <2> DEFINE r == Take(<<>>, RecentLimit)
  <2>1. r \in Seq({})
    BY <1>1, TakeFacts, Limits
  <2> HIDE DEF r
  <2>2. r = <<>>
    BY <2>1
  <2> QED
    BY <2>2 DEF r
<1>4. UniqCommands(Where(<<>>, IsText), RecentLimit) = <<>>
  <2>1. Where(<<>>, IsText) = <<>>
    BY <1>2 DEF Where
  <2>2. Where(<<>>, LAMBDA x : x # "") = <<>>
    BY <1>2 DEF Where
  <2>3. Distinct(<<>>, InUpper) = <<>>
    BY <1>2 DEF Distinct
  <2>4. Where(Where(<<>>, IsText), LAMBDA x : x # "") = <<>>
    BY <2>1, <2>2
  <2>5. UniqCommands(Where(<<>>, IsText), RecentLimit)
          = Take(Distinct(Where(Where(<<>>, IsText), LAMBDA x : x # ""), InUpper), RecentLimit)
    BY DEF UniqCommands
  <2> QED
    BY <1>3, <2>3, <2>4, <2>5
<1>5. ASSUME NEW value \in {<<>>, Junk, Null} PROVE SanitizeSavedDrafts(value) = <<>>
  <2> DEFINE Made(x, i) == [id |-> SanitizeId(x.id, "draft-", i), draft |-> x.draft]
             records == Where(value, LAMBDA x : x \notin {Junk, Null})
             items == IF value \in {Junk, Null} THEN <<>>
                      ELSE [i \in DOMAIN records |-> Made(records[i], i)]
             I == {i \in DOMAIN items : items[i].draft # Null}
  <2>1. SanitizeSavedDrafts(value) = Take(AtPlaces(items, I), SavedLimit)
    BY DEF SanitizeSavedDrafts, Items, Where
  <2>2. value = <<>> => records = <<>>
    BY <1>2 DEF Where
  <2> HIDE DEF records, Made
  <2>3. DOMAIN items = {} /\ items = <<>>
    BY <1>1, <2>2
  <2> HIDE DEF items, I
  <2> QED
    BY <2>1, <2>3, NothingKept
<1> QED
  BY <1>2, <1>4, <1>5

(* A tidy workspace in use comes back from the merge as it was, but for the *)
(* lists without symbols.                                                   *)
LEMMA MergeSame ==
  ASSUME UselessApart, NEW w, StoreInv(w), Tidy(w)
  PROVE  LET again == Merge(w)
             kept == Where(w.watchlists, LAMBDA list : list.symbols # <<>>)
         IN /\ \A f \in DOMAIN InitialStore \ {"watchlists", "activeWatchlistId"} :
                 again[f] = w[f]
            /\ kept # <<>> => again.watchlists = kept
            /\ HasList(kept, w.activeWatchlistId) =>
                 again.activeWatchlistId = w.activeWatchlistId
<1> DEFINE again == Merge(w)
           kept == Where(w.watchlists, LAMBDA list : list.symbols # <<>>)
           lists == SanitizeWatchlists(w.watchlists)
<1>1. /\ again.activeTicker = IF IsText(w.activeTicker) THEN Upper[w.activeTicker]
                              ELSE InitialStore.activeTicker
      /\ again.watchlists = lists
      /\ again.activeWatchlistId =
           IF HasList(lists, w.activeWatchlistId) THEN w.activeWatchlistId ELSE lists[1].id
      /\ again.recentTickers =
           SanitizeStrings(w.recentTickers, RecentLimit, InitialStore.recentTickers)
      /\ again.compareTickers =
           SanitizeStrings(w.compareTickers, CompareLimit, InitialStore.compareTickers)
      /\ again.savedCompareSets = SanitizeSavedCompareSets(w.savedCompareSets)
      /\ again.recentCommands =
           IF w.recentCommands \in {Junk, Null} THEN InitialStore.recentCommands
           ELSE UniqCommands(Where(w.recentCommands, IsText), RecentLimit)
      /\ again.savedScreens = SanitizeSavedDrafts(w.savedScreens)
      /\ again.savedBacktests = SanitizeSavedDrafts(w.savedBacktests)
      /\ again.watchlistAnnotations =
           IF w.watchlistAnnotations \in {Junk, Null} THEN <<>> ELSE w.watchlistAnnotations
      /\ again.lastRoute = IF IsText(w.lastRoute) THEN w.lastRoute ELSE InitialStore.lastRoute
  BY DEF Merge
<1> HIDE DEF again
<1>2. lists = IF kept = <<>> THEN DefaultWatchlists ELSE kept
  BY WatchlistsSame DEF StoreInv, ListsInv, Tidy
<1>3. kept # <<>> => again.watchlists = kept
  BY <1>1, <1>2
<1>4. HasList(kept, w.activeWatchlistId) => again.activeWatchlistId = w.activeWatchlistId
  <2>1. kept = <<>> => ~HasList(kept, w.activeWatchlistId)
    <3> HIDE DEF kept
    <3> QED
      BY DEF HasList
  <2> HIDE DEF kept, lists
  <2> QED
    BY <1>1, <1>2, <2>1
<1> HIDE DEF kept, lists
<1>5. again.activeTicker = w.activeTicker
  <2>1. w.activeTicker \in Text /\ Upper[w.activeTicker] = w.activeTicker
    BY DEF StoreInv, Symbol
  <2> QED
    BY <1>1, <2>1, TextsAreUsed
<1>6. again.recentTickers = w.recentTickers /\ again.compareTickers = w.compareTickers
  BY <1>1, StringsSame, Limits DEF StoreInv
<1>7. again.savedCompareSets = w.savedCompareSets
  BY <1>1, SetsSame DEF StoreInv, Tidy
<1>8. again.savedBacktests = w.savedBacktests
  BY <1>1, DraftsSame DEF StoreInv, Tidy
<1>9. again.recentCommands = w.recentCommands /\ again.savedScreens = w.savedScreens
  <2>1. w.recentCommands = <<>> /\ w.savedScreens = <<>> /\ InitialStore.recentCommands = <<>>
    BY DEF Tidy, InitialStore
  <2> QED
    BY <1>1, <2>1, NothingWhere
<1>10. again.watchlistAnnotations = w.watchlistAnnotations
  BY <1>1 DEF Tidy, UselessApart
<1>11. again.lastRoute = w.lastRoute
  BY <1>1, TextsAreUsed DEF Tidy
<1>12. ASSUME NEW f \in DOMAIN InitialStore \ {"watchlists", "activeWatchlistId"}
       PROVE  again[f] = w[f]
  BY <1>5, <1>6, <1>7, <1>8, <1>9, <1>10, <1>11, StoreFields
<1> QED
  BY <1>3, <1>4, <1>12 DEF again, kept

(* Of what is stored, damaged or not, the merge makes a tidy workspace. *)
LEMMA MergeTidy ==
  ASSUME UselessApart, NEW v, StoredInv(v), StoredTidy(v)
  PROVE  Tidy(Merge(v))
<1> DEFINE u == Merge(v)
<1>1. /\ u.watchlists = SanitizeWatchlists(v.watchlists)
      /\ u.savedCompareSets = SanitizeSavedCompareSets(v.savedCompareSets)
      /\ u.recentCommands =
           IF v.recentCommands \in {Junk, Null} THEN InitialStore.recentCommands
           ELSE UniqCommands(Where(v.recentCommands, IsText), RecentLimit)
      /\ u.savedScreens = SanitizeSavedDrafts(v.savedScreens)
      /\ u.savedBacktests = SanitizeSavedDrafts(v.savedBacktests)
      /\ u.watchlistAnnotations =
           IF v.watchlistAnnotations \in {Junk, Null} THEN <<>> ELSE v.watchlistAnnotations
      /\ u.lastRoute = IF IsText(v.lastRoute) THEN v.lastRoute ELSE InitialStore.lastRoute
  BY DEF Merge
<1> HIDE DEF u
<1>2. TidyLists(u.watchlists)
  BY <1>1, WatchlistsMade DEF StoredInv
<1>3. TidySets(u.savedCompareSets)
  BY <1>1, SetsMade DEF StoredInv
<1>4. TidyDrafts(u.savedBacktests)
  BY <1>1, DraftsMade DEF StoredInv
<1>5. u.recentCommands = <<>> /\ u.savedScreens = <<>>
  <2>1. v.recentCommands \in {<<>>, Junk} /\ v.savedScreens \in {<<>>, Junk}
    BY DEF StoredTidy
  <2>2. InitialStore.recentCommands = <<>>
    BY DEF InitialStore
  <2>3. u.recentCommands = <<>>
    BY <1>1, <2>1, <2>2, NothingWhere
  <2>4. u.savedScreens = <<>>
    BY <1>1, <2>1, NothingWhere
  <2> QED
    BY <2>3, <2>4
<1>6. IsFunction(u.watchlistAnnotations)
  <2>1. IsFunction(<<>>)
    BY DEF IsFunction
  <2> QED
    BY <1>1, <2>1 DEF StoredTidy
<1>7. u.lastRoute \in Pages \cup {"/"}
  BY <1>1, TextsAreUsed DEF StoredTidy, InitialStore, IsText
<1> QED
  BY <1>2, <1>3, <1>4, <1>5, <1>6, <1>7 DEF Tidy, u

-----------------------------------------------------------------------------
(* What the actions of the store leave tidy.                               *)

(* Setting one field to what it may be leaves a tidy workspace. *)
LEMMA FieldTidy ==
  ASSUME NEW w, StoreInv(w), Tidy(w),
         NEW f \in DOMAIN InitialStore \ {"recentCommands", "savedScreens"},
         NEW v, NEW u, u = [w EXCEPT ![f] = v],
         f = "watchlists" => TidyLists(v), f = "savedCompareSets" => TidySets(v),
         f = "savedBacktests" => TidyDrafts(v), f = "watchlistAnnotations" => IsFunction(v),
         f = "lastRoute" => v \in Pages \cup {"/"}
  PROVE  Tidy(u)
<1>1. u[f] = v /\ \A g \in DOMAIN InitialStore \ {f} : u[g] = w[g]
  BY FieldSet DEF StoreInv, IsWorkspace
<1>2. TidyLists(u["watchlists"])
  BY <1>1, StoreFields DEF Tidy
<1>3. TidySets(u["savedCompareSets"])
  BY <1>1, StoreFields DEF Tidy
<1>4. TidyDrafts(u["savedBacktests"])
  BY <1>1, StoreFields DEF Tidy
<1>5. u["recentCommands"] = <<>> /\ u["savedScreens"] = <<>>
  BY <1>1, StoreFields DEF Tidy
<1>6. IsFunction(u["watchlistAnnotations"])
  BY <1>1, StoreFields DEF Tidy
<1>7. u["lastRoute"] \in Pages \cup {"/"}
  BY <1>1, StoreFields DEF Tidy
<1> QED
  BY <1>2, <1>3, <1>4, <1>5, <1>6, <1>7 DEF Tidy

(* So does setting the lists and the choice among them. *)
LEMMA ListsTidy ==
  ASSUME NEW w, StoreInv(w), Tidy(w), NEW lists, NEW active, TidyLists(lists), NEW u,
         \/ u = [w EXCEPT !.watchlists = lists, !.activeWatchlistId = active]
         \/ u = [w EXCEPT !.watchlists = lists]
         \/ u = [w EXCEPT !.activeWatchlistId = active]
  PROVE  Tidy(u)
<1>1. DOMAIN w = DOMAIN InitialStore
  BY DEF StoreInv
<1>2. u["watchlists"] \in {lists, w["watchlists"]}
  BY <1>1, StoreFields
<1>3. /\ u["savedCompareSets"] = w["savedCompareSets"]
      /\ u["savedBacktests"] = w["savedBacktests"]
      /\ u["recentCommands"] = w["recentCommands"] /\ u["savedScreens"] = w["savedScreens"]
      /\ u["watchlistAnnotations"] = w["watchlistAnnotations"]
      /\ u["lastRoute"] = w["lastRoute"]
  BY <1>1, StoreFields
<1> QED
  BY <1>2, <1>3 DEF Tidy

(* The defaults are tidy. *)
LEMMA InitialTidy ==
  Tidy(InitialStore) /\ TidyLists(DefaultWatchlists) /\ TidyLists(Take(DefaultWatchlists, 1))
<1>1. TidyLists(DefaultWatchlists)
  <2>1. DOMAIN DefaultWatchlists = {1, 2}
    BY DEF DefaultWatchlists
  <2>2. /\ DefaultWatchlists[1].id = "core" /\ DefaultWatchlists[1].name = "Core"
        /\ DefaultWatchlists[2].id = "macro" /\ DefaultWatchlists[2].name = "Macro"
    BY DEF DefaultWatchlists
  <2> QED
    BY <2>1, <2>2, TextsAreUsed DEF TidyLists, ToSet
<1>2. TidyLists(Take(DefaultWatchlists, 1))
  <2>1. ListsInv(DefaultWatchlists, "core")
    BY InitialKeeps DEF StoreInv, InitialStore
  <2>2. DefaultWatchlists \in Seq(ToSet(DefaultWatchlists))
    BY <2>1, ListsFacts
  <2>3. ToSet(Take(DefaultWatchlists, 1)) \subseteq ToSet(DefaultWatchlists)
    BY <2>2, TakeFacts
  <2> QED
    BY <1>1, <2>3 DEF TidyLists
<1>3. /\ InitialStore.watchlists = DefaultWatchlists
      /\ InitialStore.savedCompareSets = <<>> /\ InitialStore.savedBacktests = <<>>
      /\ InitialStore.recentCommands = <<>> /\ InitialStore.savedScreens = <<>>
      /\ InitialStore.watchlistAnnotations = <<>> /\ InitialStore.lastRoute = "/"
  BY DEF InitialStore
<1>4. TidySets(<<>>) /\ TidyDrafts(<<>>) /\ IsFunction(<<>>)
  BY DEF TidySets, TidyDrafts, ToSet, IsFunction
<1>5. Tidy(InitialStore)
  BY <1>1, <1>3, <1>4 DEF Tidy
<1> QED
  BY <1>1, <1>2, <1>5

(* A tidy workspace may be stored. *)
LEMMA TidyIsStored ==
  ASSUME NEW w, Tidy(w)
  PROVE  StoredTidy(w)
BY DEF Tidy, StoredTidy

(* Opening a ticker and mounting a page leave a tidy workspace, which      *)
(* compares what it compared.                                              *)
LEMMA MountedTidy ==
  ASSUME NEW w, StoreInv(w), Tidy(w), NEW p \in Pages \cup {"/"}, NEW x \in Text
  PROVE  Tidy(Mounted(w, p, x)) /\ Mounted(w, p, x).compareTickers = w.compareTickers
<1> DEFINE a == SetActiveTicker(w, x)
           r == AddRecentTicker(a, x)
           shown == IF p = "/security" THEN r ELSE w
           u == SetLastRoute(shown, p)
<1>1. StoreInv(a) /\ a = [w EXCEPT !["activeTicker"] = Upper[x]]
  BY TickerKeeps DEF SetActiveTicker
<1> HIDE DEF a
<1>2. Tidy(a)
  BY <1>1, StoreFields, FieldTidy
<1>3. /\ StoreInv(r)
      /\ r = [a EXCEPT !["recentTickers"] = UniqHead(<<x>> \o a.recentTickers, RecentLimit)]
  BY <1>1, TickerKeeps DEF AddRecentTicker
<1> HIDE DEF r
<1>4. Tidy(r)
  BY <1>1, <1>2, <1>3, StoreFields, FieldTidy
<1>5. r["compareTickers"] = w["compareTickers"]
  <2>1. a["compareTickers"] = w["compareTickers"]
    BY <1>1, StoreFields DEF StoreInv
  <2>2. r["compareTickers"] = a["compareTickers"]
    BY <1>1, <1>3, StoreFields DEF StoreInv
  <2> QED
    BY <2>1, <2>2
<1>6. StoreInv(shown) /\ Tidy(shown) /\ shown["compareTickers"] = w["compareTickers"]
  BY <1>3, <1>4, <1>5
<1>7. Mounted(w, p, x) = u /\ u = [shown EXCEPT !["lastRoute"] = p]
  BY DEF Mounted, SetLastRoute, r, a
<1> HIDE DEF shown, u
<1>8. Tidy(u)
  BY <1>6, <1>7, StoreFields, FieldTidy
<1>9. u["compareTickers"] = shown["compareTickers"]
  BY <1>6, <1>7, StoreFields DEF StoreInv
<1> QED
  BY <1>6, <1>7, <1>8, <1>9

(* Setting and toggling what is compared. *)
LEMMA CompareTidy ==
  ASSUME NEW w, StoreInv(w), Tidy(w)
  PROVE  /\ \A tickers : Tidy(SetCompareTickers(w, tickers))
         /\ \A x : Tidy(ToggleCompareTicker(w, x))
<1>1. "compareTickers" \in DOMAIN InitialStore \ {"recentCommands", "savedScreens"}
  BY StoreFields
<1>2. ASSUME NEW tickers PROVE Tidy(SetCompareTickers(w, tickers))
  <2> DEFINE u == SetCompareTickers(w, tickers)
             v == UniqHead(tickers, CompareLimit)
  <2>1. u = [w EXCEPT !["compareTickers"] = v]
    BY DEF SetCompareTickers
  <2> HIDE DEF u, v
  <2>2. Tidy(u)
    BY <1>1, <2>1, FieldTidy
  <2> QED
    BY <2>2 DEF u
<1>3. ASSUME NEW x PROVE Tidy(ToggleCompareTicker(w, x))
  <2> DEFINE u == ToggleCompareTicker(w, x)
             v == Toggled(w.compareTickers, Upper[x], CompareLimit)
  <2>1. u = [w EXCEPT !["compareTickers"] = v]
    BY DEF ToggleCompareTicker
  <2> HIDE DEF u, v
  <2>2. Tidy(u)
    BY <1>1, <2>1, FieldTidy
  <2> QED
    BY <2>2 DEF u
<1> QED
  BY <1>2, <1>3

(* Saving a set that is not empty, and deleting one. *)
LEMMA SetsTidy ==
  ASSUME NEW w, StoreInv(w), Tidy(w)
  PROVE  /\ \A tickers \in Seq(Text), id \in Ids :
              tickers # <<>> => Tidy(SaveCompareSet(w, id, tickers))
         /\ \A id : Tidy(DeleteCompareSet(w, id))
<1> DEFINE old == w.savedCompareSets
<1>1. "savedCompareSets" \in DOMAIN InitialStore \ {"recentCommands", "savedScreens"}
  BY StoreFields
<1>2. old \in Seq(ToSet(old)) /\ Len(old) <= SavedLimit /\ TidySets(old)
  BY DEF StoreInv, SetsInv, Tidy
<1>3. ASSUME NEW tickers \in Seq(Text), NEW id \in Ids, tickers # <<>>
      PROVE  Tidy(SaveCompareSet(w, id, tickers))
  <2> DEFINE head == UniqHead(tickers, CompareLimit)
             item == [id |-> id, tickers |-> head]
             v == Saved(old, item)
             u == SaveCompareSet(w, id, tickers)
  <2>1. u = [w EXCEPT !["savedCompareSets"] = v]
    BY DEF SaveCompareSet
  <2>2. head # <<>>
    BY <1>3, UniqHeadFacts, Limits
  <2> HIDE DEF head
  <2>3. /\ item = [id |-> item.id, tickers |-> item.tickers]
        /\ IsText(item.id) /\ item.tickers # <<>>
    BY <2>2, TextsAreUsed
  <2> HIDE DEF item, u, old
  <2>4. ToSet(v) \subseteq ToSet(old) \cup {item}
    BY <1>2, SavedFacts
  <2> HIDE DEF v
  <2>5. TidySets(v)
    BY <1>2, <2>3, <2>4 DEF TidySets
  <2>6. Tidy(u)
    BY <1>1, <2>1, <2>5, FieldTidy
  <2> QED
    BY <2>6 DEF u
<1>4. ASSUME NEW id PROVE Tidy(DeleteCompareSet(w, id))
  <2> DEFINE v == Without(old, id)
             u == DeleteCompareSet(w, id)
  <2>1. u = [w EXCEPT !["savedCompareSets"] = v]
    BY DEF DeleteCompareSet
  <2> HIDE DEF u, old
  <2>2. ToSet(v) \subseteq ToSet(old)
    BY <1>2, SavedFacts
  <2> HIDE DEF v
  <2>3. TidySets(v)
    BY <1>2, <2>2 DEF TidySets
  <2>4. Tidy(u)
    BY <1>1, <2>1, <2>3, FieldTidy
  <2> QED
    BY <2>4 DEF u
<1> QED
  BY <1>3, <1>4

(* Saving and deleting a draft. *)
LEMMA DraftsTidy ==
  ASSUME NEW w, StoreInv(w), Tidy(w)
  PROVE  /\ \A d, id : id \in Ids => Tidy(SaveBacktestDraft(w, id, d))
         /\ \A id : Tidy(DeleteBacktestDraft(w, id))
<1> DEFINE old == w.savedBacktests
<1>1. "savedBacktests" \in DOMAIN InitialStore \ {"recentCommands", "savedScreens"}
  BY StoreFields
<1>2. old \in Seq(ToSet(old)) /\ Len(old) <= SavedLimit /\ TidyDrafts(old)
  BY DEF StoreInv, DraftsInv, Tidy
<1>3. ASSUME NEW d, NEW id \in Ids PROVE Tidy(SaveBacktestDraft(w, id, d))
  <2> DEFINE item == [id |-> id, draft |-> d]
             v == Saved(old, item)
             u == SaveBacktestDraft(w, id, d)
  <2>1. u = [w EXCEPT !["savedBacktests"] = v]
    BY DEF SaveBacktestDraft
  <2>3. item = [id |-> item.id, draft |-> item.draft] /\ IsText(item.id)
    BY TextsAreUsed
  <2> HIDE DEF item, u, old
  <2>4. ToSet(v) \subseteq ToSet(old) \cup {item}
    BY <1>2, SavedFacts
  <2> HIDE DEF v
  <2>5. TidyDrafts(v)
    BY <1>2, <2>3, <2>4 DEF TidyDrafts
  <2>6. Tidy(u)
    BY <1>1, <2>1, <2>5, FieldTidy
  <2> QED
    BY <2>6 DEF u
<1>4. ASSUME NEW id PROVE Tidy(DeleteBacktestDraft(w, id))
  <2> DEFINE v == Without(old, id)
             u == DeleteBacktestDraft(w, id)
  <2>1. u = [w EXCEPT !["savedBacktests"] = v]
    BY DEF DeleteBacktestDraft
  <2> HIDE DEF u, old
  <2>2. ToSet(v) \subseteq ToSet(old)
    BY <1>2, SavedFacts
  <2> HIDE DEF v
  <2>3. TidyDrafts(v)
    BY <1>2, <2>2 DEF TidyDrafts
  <2>4. Tidy(u)
    BY <1>1, <2>1, <2>3, FieldTidy
  <2> QED
    BY <2>4 DEF u
<1> QED
  BY <1>3, <1>4

(* Writing and clearing a note. *)
LEMMA AnnotationsTidy ==
  ASSUME NEW w, StoreInv(w), Tidy(w), NEW key
  PROVE  /\ \A note : Tidy(SetAnnotation(w, key, note))
         /\ Tidy(ClearAnnotation(w, key))
<1>1. "watchlistAnnotations" \in DOMAIN InitialStore \ {"recentCommands", "savedScreens"}
  BY StoreFields
<1>2. ASSUME NEW note PROVE Tidy(SetAnnotation(w, key, note))
  <2> DEFINE v == (key :> note) @@ w.watchlistAnnotations
             u == SetAnnotation(w, key, note)
  <2>1. u = [w EXCEPT !["watchlistAnnotations"] = v]
    BY DEF SetAnnotation
  <2>2. IsFunction(v)
    BY DEF IsFunction
  <2> HIDE DEF u, v
  <2>3. Tidy(u)
    BY <1>1, <2>1, <2>2, FieldTidy
  <2> QED
    BY <2>3 DEF u
<1>3. Tidy(ClearAnnotation(w, key))
  <2> DEFINE v == [k \in DOMAIN w.watchlistAnnotations \ {key} |-> w.watchlistAnnotations[k]]
             u == ClearAnnotation(w, key)
  <2>1. u = [w EXCEPT !["watchlistAnnotations"] = v]
    BY DEF ClearAnnotation
  <2>2. IsFunction(v)
    BY DEF IsFunction
  <2> HIDE DEF u, v
  <2>3. Tidy(u)
    BY <1>1, <2>1, <2>2, FieldTidy
  <2> QED
    BY <2>3 DEF u
<1> QED
  BY <1>2, <1>3

(* Toggling a ticker of a list changes neither its id nor its name. *)
LEMMA ToggleTidy ==
  ASSUME NEW w, StoreInv(w), Tidy(w), NEW x, NEW id
  PROVE  Tidy(ToggleWatchlist(w, x, id))
<1> DEFINE lists == w.watchlists
           Changed(list) == [list EXCEPT !.symbols = Toggled(list.symbols, Upper[x], ListLimit)]
           more == [i \in DOMAIN lists |-> IF lists[i].id = id THEN Changed(lists[i]) ELSE lists[i]]
           u == ToggleWatchlist(w, x, id)
<1>1. u = [w EXCEPT !.watchlists = more]
  BY DEF ToggleWatchlist, WithList, Mapped
<1>2. ASSUME NEW list, IsList(list)
      PROVE  Changed(list).id = list.id /\ Changed(list).name = list.name
  <2> DEFINE v == Toggled(list.symbols, Upper[x], ListLimit)
             c == Changed(list)
  <2>1. c = [list EXCEPT !.symbols = v]
    OBVIOUS
  <2> HIDE DEF v, c
  <2>2. list = [id |-> list.id, name |-> list.name, symbols |-> list.symbols]
    BY <1>2 DEF IsList
  <2>3. c = [id |-> list.id, name |-> list.name, symbols |-> v]
    BY <2>1, <2>2
  <2>4. c.id = list.id /\ c.name = list.name
    BY <2>3
  <2> QED
    BY <2>4 DEF c
<1>3. ASSUME NEW i \in DOMAIN more PROVE IsText(more[i].id) /\ IsText(more[i].name)
  <2>0. i \in DOMAIN lists
    OBVIOUS
  <2>1. IsList(lists[i]) /\ lists[i] \in ToSet(lists)
    BY <2>0, ListsFacts DEF StoreInv
  <2>2. IsText(lists[i].id) /\ IsText(lists[i].name)
    BY <2>1 DEF Tidy, TidyLists
  <2>3. more[i] = IF lists[i].id = id THEN Changed(lists[i]) ELSE lists[i]
    BY <2>0
  <2> HIDE DEF Changed, more
  <2> QED
    BY <1>2, <2>1, <2>2, <2>3
<1> HIDE DEF more, u
<1>4. TidyLists(more)
  BY <1>3 DEF TidyLists, ToSet
<1>5. Tidy(u)
  BY <1>1, <1>4, ListsTidy
<1> QED
  BY <1>5 DEF u

(* A new name is a text or leaves the name there was. *)
LEMMA RenameTidy ==
  ASSUME NEW w, StoreInv(w), Tidy(w), NEW id, NEW name, name \notin {Junk, Null}
  PROVE  Tidy(RenameWatchlist(w, id, name))
<1> DEFINE lists == w.watchlists
           Changed(list) == [list EXCEPT !.name = IF name = "" THEN list.name ELSE name]
           more == [i \in DOMAIN lists |-> IF lists[i].id = id THEN Changed(lists[i]) ELSE lists[i]]
           u == RenameWatchlist(w, id, name)
<1>1. u = [w EXCEPT !.watchlists = more]
  BY DEF RenameWatchlist, WithList, Mapped
<1>2. ASSUME NEW list, IsList(list)
      PROVE  Changed(list).id = list.id /\ Changed(list).name \in {name, list.name}
             /\ (name = "" => Changed(list).name = list.name)
  <2> DEFINE v == IF name = "" THEN list.name ELSE name
             c == Changed(list)
  <2>0. v \in {name, list.name} /\ (name = "" => v = list.name)
    OBVIOUS
  <2>1. c = [list EXCEPT !.name = v]
    OBVIOUS
  <2> HIDE DEF v, c
  <2>2. list = [id |-> list.id, name |-> list.name, symbols |-> list.symbols]
    BY <1>2 DEF IsList
  <2>3. c = [id |-> list.id, name |-> v, symbols |-> list.symbols]
    BY <2>1, <2>2
  <2>4. c.id = list.id /\ c.name = v
    BY <2>3
  <2> QED
    BY <2>0, <2>4 DEF c
<1>3. ASSUME NEW i \in DOMAIN more PROVE IsText(more[i].id) /\ IsText(more[i].name)
  <2>0. i \in DOMAIN lists
    OBVIOUS
  <2>1. IsList(lists[i]) /\ lists[i] \in ToSet(lists)
    BY <2>0, ListsFacts DEF StoreInv
  <2>2. IsText(lists[i].id) /\ IsText(lists[i].name)
    BY <2>1 DEF Tidy, TidyLists
  <2>3. more[i] = IF lists[i].id = id THEN Changed(lists[i]) ELSE lists[i]
    BY <2>0
  <2>4. name # "" => IsText(name)
    BY DEF IsText
  <2> HIDE DEF Changed, more
  <2> QED
    BY <1>2, <2>1, <2>2, <2>3, <2>4
<1> HIDE DEF more, u
<1>4. TidyLists(more)
  BY <1>3 DEF TidyLists, ToSet
<1>5. Tidy(u)
  BY <1>1, <1>4, ListsTidy
<1> QED
  BY <1>5 DEF u

(* Choosing a list changes none. *)
LEMMA ChoiceTidy ==
  ASSUME NEW w, StoreInv(w), Tidy(w), NEW id
  PROVE  Tidy(SetActiveWatchlist(w, id))
<1>1. SetActiveWatchlist(w, id) = [w EXCEPT !.activeWatchlistId = id]
  BY DEF SetActiveWatchlist
<1>2. TidyLists(w.watchlists)
  BY DEF Tidy
<1> QED
  BY <1>1, <1>2, ListsTidy

(* A new list has a name, of its own or numbered. *)
LEMMA CreateTidy ==
  ASSUME UselessApart, NEW w, StoreInv(w), Tidy(w), NEW id \in Ids, NEW name \in Names
  PROVE  Tidy(CreateWatchlist(w, id, name))
<1> DEFINE lists == w.watchlists
           m == Len(lists) + 1
           n == Numbered(name, "Watchlist ", m)
           list == [id |-> id, symbols |-> <<>>, name |-> n]
           more == Append(lists, list)
           u == CreateWatchlist(w, id, name)
<1>1. u = [w EXCEPT !.watchlists = more, !.activeWatchlistId = id]
  BY DEF CreateWatchlist
<1>2. lists \in Seq(ToSet(lists)) /\ Len(lists) \in Nat /\ TidyLists(lists)
  BY ListsFacts DEF StoreInv, Tidy
<1>3. IsText(n)
  <2>1. m \in Nat
    BY <1>2
  <2> HIDE DEF m
  <2>2. IsText("Watchlist " \o ToString(m))
    BY <2>1, Zenon DEF UselessApart
  <2> QED
    BY <2>2, TextsAreUsed DEF Numbered
<1> HIDE DEF n, u
<1>4. IsText(list.id) /\ IsText(list.name)
  BY <1>3, TextsAreUsed
<1> HIDE DEF list, lists
<1>5. ToSet(more) \subseteq ToSet(lists) \cup {list}
  <2> DEFINE X == ToSet(lists) \cup {list}
  <2>1. lists \in Seq(X) /\ list \in X
    BY <1>2
  <2> HIDE DEF X
  <2>2. more \in Seq(X)
    BY <2>1
  <2> HIDE DEF more
  <2>3. ToSet(more) \subseteq X
    BY <2>2, SeqOfOwn
  <2> QED
    BY <2>3 DEF X
<1> HIDE DEF more
<1>6. TidyLists(more)
  BY <1>2, <1>4, <1>5 DEF TidyLists
<1>7. Tidy(u)
  BY <1>1, <1>6, ListsTidy
<1> QED
  BY <1>7 DEF u

(* What remains when a list goes. *)
LEMMA DeleteTidy ==
  ASSUME NEW w, StoreInv(w), Tidy(w), NEW id
  PROVE  Tidy(DeleteWatchlist(w, id))
<1> DEFINE lists == w.watchlists
           I == {i \in DOMAIN lists : lists[i].id # id}
           remaining == AtPlaces(lists, I)
           next == IF remaining = <<>> THEN Take(DefaultWatchlists, 1) ELSE remaining
           active == IF HasList(next, w.activeWatchlistId) THEN w.activeWatchlistId ELSE next[1].id
           u == DeleteWatchlist(w, id)
<1>1. u = [w EXCEPT !.watchlists = next, !.activeWatchlistId = active]
  BY DEF DeleteWatchlist, Where
<1>2. lists \in Seq(ToSet(lists)) /\ TidyLists(lists)
  BY ListsFacts DEF StoreInv, Tidy
<1> HIDE DEF I, lists, u
<1>3. ToSet(remaining) \subseteq ToSet(lists)
  BY <1>2, FilteredElements
<1>4. TidyLists(remaining)
  BY <1>2, <1>3 DEF TidyLists
<1> HIDE DEF remaining
<1>5. TidyLists(next)
  BY <1>4, InitialTidy
<1> HIDE DEF next, active
<1>6. Tidy(u)
  BY <1>1, <1>5, ListsTidy
<1> QED
  BY <1>6 DEF u

(* A batch toggles, ticker by ticker. *)
LEMMA AddedTidy ==
  ASSUME NEW w, StoreInv(w), Tidy(w), NEW batch \in Seq(Text), NEW symbols
  PROVE  Tidy(Added(w, batch, symbols))
<1> DEFINE n == Len(batch)
<1>1. n \in Nat /\ \A i \in 1..n : batch[i] \in Text
  OBVIOUS
<1>2. PICK after : /\ IsAdding(after, w, batch, symbols, n)
                   /\ Added(w, batch, symbols) = after[n]
  BY <1>1, AddingChosen
<1>3. \A i \in 0..n : after[i] =
        IF i = 0 THEN w
        ELSE IF Contains(symbols, Upper[batch[i]]) THEN after[i - 1]
        ELSE ToggleWatchlist(after[i - 1], batch[i], w.activeWatchlistId)
  BY <1>2 DEF IsAdding
<1> HIDE DEF n
<1> DEFINE S == {i \in Nat : i <= n => StoreInv(after[i]) /\ Tidy(after[i])}
<1>4. 0 \in S
  BY <1>1, <1>3
<1>5. ASSUME NEW i \in Nat, i \in S PROVE i + 1 \in S
  <2> SUFFICES ASSUME i + 1 <= n PROVE StoreInv(after[i + 1]) /\ Tidy(after[i + 1])
    OBVIOUS
  <2>1. StoreInv(after[i]) /\ Tidy(after[i])
    BY <1>1, <1>5
  <2>2. i + 1 \in 1..n /\ i + 1 \in 0..n /\ i + 1 # 0 /\ (i + 1) - 1 = i
    BY <1>1
  <2>3. after[i + 1] =
          IF Contains(symbols, Upper[batch[i + 1]]) THEN after[i]
          ELSE ToggleWatchlist(after[i], batch[i + 1], w.activeWatchlistId)
    BY <1>3, <2>2
  <2> DEFINE v == after[i]
             x == batch[i + 1]
  <2>4. x \in Text
    BY <1>1, <2>2
  <2> HIDE DEF v, x
  <2>5. /\ StoreInv(ToggleWatchlist(v, x, w.activeWatchlistId))
        /\ Tidy(ToggleWatchlist(v, x, w.activeWatchlistId))
    BY <2>1, <2>4, ToggleKeeps, ToggleTidy DEF v
  <2> QED
    BY <2>1, <2>3, <2>5 DEF v, x
<1>6. Nat \subseteq S
  <2> HIDE DEF S
  <2> QED
    BY <1>4, <1>5, Inductive
<1>7. Tidy(after[n])
  BY <1>1, <1>6
<1> QED
  BY <1>2, <1>7

(* What is damaged of a tidy workspace the merge makes tidy again. *)
LEMMA DamagedTidy ==
  ASSUME StoreInv(stored), Tidy(stored), NEW v \in Damages, v # Null
  PROVE  StoredTidy(v)
<1>1. DOMAIN stored = DOMAIN InitialStore
  BY DEF StoreInv
<1>2. PICK f \in DOMAIN InitialStore : \E value :
        v = [stored EXCEPT ![f] = value] /\ (f # "watchlists" /\ f # "activeWatchlistId" => value = Junk)
  <2>1. CASE \E f \in DOMAIN stored : v = [stored EXCEPT ![f] = Junk]
    BY <1>1, <2>1
  <2>2. CASE v = [stored EXCEPT !.watchlists = <<Null>> \o @]
    BY <2>2, StoreFields
  <2>3. CASE v = [stored EXCEPT !.watchlists[1].id = ""]
    BY <2>3, StoreFields
  <2>4. CASE v = [stored EXCEPT !.activeWatchlistId = "missing"]
    BY <2>4, StoreFields
  <2>5. CASE \E ticker \in Visits : v = [stored EXCEPT !.watchlists[1].symbols = <<Junk, ticker>>]
    BY <2>5, StoreFields
  <2> QED
    BY <2>1, <2>2, <2>3, <2>4, <2>5 DEF Damages
<1>3. /\ f # "watchlists" /\ f # "activeWatchlistId" => v[f] = Junk
      /\ \A g \in DOMAIN InitialStore \ {f} : v[g] = stored[g]
  BY <1>1, <1>2
<1>4. v["recentCommands"] \in {<<>>, Junk} /\ v["savedScreens"] \in {<<>>, Junk}
  BY <1>2, <1>3, StoreFields DEF Tidy
<1>5. v["watchlistAnnotations"] = Junk \/ IsFunction(v["watchlistAnnotations"])
  BY <1>2, <1>3, StoreFields DEF Tidy
<1>6. v["lastRoute"] \in Pages \cup {"/", Junk}
  BY <1>2, <1>3, StoreFields DEF Tidy
<1> QED
  BY <1>4, <1>5, <1>6 DEF StoredTidy

-----------------------------------------------------------------------------
(* The invariant for the reload, step by step.                             *)

(* An empty form is in order. *)
LEMMA FormsTidy ==
  /\ TidyForm(NoForm)
  /\ \A f : TidyForm(f) =>
       /\ \A name : name \notin {Junk, Null} => TidyForm([f EXCEPT !.rename = name])
       /\ \A key : TidyForm([f EXCEPT !.key = key])
       /\ \A key, note : TidyForm([f EXCEPT !.key = key, !.note = note])
<1>1. TidyForm(NoForm)
  BY UsableAssumption DEF TidyForm, NoForm
<1>2. ASSUME NEW f, TidyForm(f), NEW name, name \notin {Junk, Null}
      PROVE  TidyForm([f EXCEPT !.rename = name])
  BY <1>2 DEF TidyForm
<1>3. ASSUME NEW f, TidyForm(f), NEW key PROVE TidyForm([f EXCEPT !.key = key])
  BY <1>3 DEF TidyForm
<1>4. ASSUME NEW f, TidyForm(f), NEW key, NEW note
      PROVE  TidyForm([f EXCEPT !.key = key, !.note = note])
  <2> DEFINE g == [f EXCEPT !.key = key, !.note = note]
  <2>1. DOMAIN f = {"rename", "key", "note"}
    BY <1>4 DEF TidyForm
  <2>2. g = [x \in {"rename", "key", "note"} |-> g[x]] /\ g.rename = f.rename
    BY <2>1
  <2> HIDE DEF g
  <2>3. g = [rename |-> g.rename, key |-> g.key, note |-> g.note]
    BY <2>2
  <2> QED
    BY <1>4, <2>2, <2>3 DEF TidyForm, g
<1> QED
  BY <1>1, <1>2, <1>3, <1>4

(* It holds where the tabs are closed and nothing is stored. *)
LEMMA InitReload == WorkspaceInit => ReloadInv
BY InitialTidy, FormsTidy DEF WorkspaceInit, ReloadInv, On

(* A tab goes to a page; what is stored is dropped, left alone by a tab that *)
(* shows nothing, or written by this one.                                    *)
LEMMA GoesTidy ==
  ASSUME WorkspaceInv, ReloadInv, NEW t \in Tabs, NEW m, NEW p, NEW w, Tidy(w), NEW d,
         NEW f, TidyForm(f), Goes(t, m, p, w, d, f),
         m = "open" /\ p = "/compare" => w.compareTickers # <<>>,
         \/ stored' = Null /\ owner' = Null
         \/ UNCHANGED <<stored, owner>> /\ m # "open"
         \/ Tidy(stored') /\ owner' = t /\ (m = "open" => stored' = w)
  PROVE  ReloadInv'
<1>1. DOMAIN store = Tabs /\ DOMAIN mode = Tabs /\ DOMAIN page = Tabs /\ DOMAIN form = Tabs
  BY DEF WorkspaceInv, WorkspaceTypeOK, ReloadInv
<1>2. /\ DOMAIN form' = Tabs
      /\ mode'[t] = m /\ page'[t] = p /\ store'[t] = w /\ form'[t] = f
      /\ \A s \in Tabs \ {t} : /\ mode'[s] = mode[s] /\ page'[s] = page[s]
                               /\ store'[s] = store[s] /\ form'[s] = form[s]
  BY <1>1 DEF Goes
<1>3. \A s \in Tabs : TidyForm(form'[s]) /\ Tidy(store'[s])
  BY <1>2 DEF ReloadInv
<1>4. \A s \in Tabs : mode'[s] = "open" /\ page'[s] = "/compare" => store'[s].compareTickers # <<>>
  BY <1>2 DEF ReloadInv, On
<1>5. owner # Null => owner \in Tabs
  BY DEF WorkspaceInv, WorkspaceTypeOK
<1>6. /\ owner' # Null => Tidy(stored')
      /\ stored' # Null => StoredTidy(stored')
      /\ owner' # Null /\ mode'[owner'] = "open" => stored' = store'[owner']
  <2>1. CASE stored' = Null /\ owner' = Null
    BY <2>1
  <2>2. CASE UNCHANGED <<stored, owner>> /\ m # "open"
    <3>1. owner # Null /\ mode'[owner] = "open" => stored = store'[owner]
      BY <1>2, <1>5, <2>2 DEF ReloadInv
    <3> QED
      BY <2>2, <3>1 DEF ReloadInv
  <2>3. CASE Tidy(stored') /\ owner' = t /\ (m = "open" => stored' = w)
    BY <1>2, <2>3, TidyIsStored
  <2> QED
    BY <2>1, <2>2, <2>3
<1> QED
  BY <1>2, <1>3, <1>4, <1>6 DEF ReloadInv, On

(* A tab that moves on takes what it had in memory with it. *)
LEMMA LeavesTidy ==
  ASSUME WorkspaceInv, ReloadInv, NEW t \in Tabs, NEW m \in {"closed", "loading", "failed"},
         NEW p, Leaves(t, m, p),
         \/ stored' = Null /\ owner' = Null
         \/ UNCHANGED <<stored, owner>>
         \/ Tidy(stored') /\ owner' = t
  PROVE  ReloadInv'
<1>1. m # "open"
  OBVIOUS
<1> QED
  BY <1>1, GoesTidy, InitialTidy, FormsTidy DEF Leaves

(* A page that fails leaves what was stored, or what it had stored itself. *)
LEMMA FailsTidy ==
  ASSUME WorkspaceInv, ReloadInv, NEW t \in Tabs, NEW p, NEW kept,
         kept = stored \/ Tidy(kept), Fails(t, p, kept)
  PROVE  ReloadInv'
<1>1. CASE Leaves(t, "loading", p) /\ Drops
  BY <1>1, LeavesTidy DEF Drops
<1>2. CASE Leaves(t, "failed", p) /\ stored' = kept
           /\ owner' = IF kept = stored THEN owner ELSE t
  <2>1. CASE kept = stored
    <3>1. stored' = stored /\ owner' = owner
      BY <1>2, <2>1
    <3> QED
      BY <1>2, <3>1, LeavesTidy
  <2>2. CASE kept # stored
    <3>1. Tidy(stored') /\ owner' = t
      BY <1>2, <2>2
    <3> QED
      BY <1>2, <3>1, LeavesTidy
  <2> QED
    BY <2>1, <2>2
<1> QED
  BY <1>1, <1>2 DEF Fails

(* What a tab shows is what it has stored, and ready to be merged. *)
LEMMA ShowsTidy ==
  ASSUME WorkspaceInv, ReloadInv, NEW t \in Tabs, NEW w, StoreInv(w), Tidy(w),
         NEW p \in Pages \cup {"/"}, NEW d, NEW f, TidyForm(f), NEW kept,
         kept = stored \/ Tidy(kept), symbol'[t] \in Text, Shows(t, w, p, d, f, kept)
  PROVE  ReloadInv'
<1>1. CASE ~Renders(w, p, d)
  <2>1. Fails(t, p, kept)
    BY <1>1 DEF Shows
  <2> QED
    BY <2>1, FailsTidy
<1>2. CASE Renders(w, p, d)
  <2> DEFINE shown == Mounted(w, p, symbol'[t])
  <2>1. Goes(t, "open", p, shown, d, f) /\ stored' = shown /\ owner' = t
    BY <1>2 DEF Shows, Partialize
  <2>2. Tidy(shown) /\ shown.compareTickers = w.compareTickers
    BY MountedTidy
  <2>3. p = "/compare" => w.compareTickers # <<>>
    BY <1>2 DEF Renders
  <2> HIDE DEF shown
  <2> QED
    BY <2>1, <2>2, <2>3, GoesTidy
<1> QED
  BY <1>1, <1>2

(* A set of the store. *)
LEMMA SetsTidyStep ==
  ASSUME WorkspaceInv, ReloadInv, NEW t \in Tabs, NEW w, StoreInv(w), Tidy(w),
         NEW f, TidyForm(f), Sets(t, w, f) \/ \E id : SetsWithId(t, id, w, f)
  PROVE  ReloadInv'
<1>1. symbol' = symbol /\ Shows(t, w, page[t], draft[t], f, w)
  BY DEF Sets, SetsWithId, Partialize
<1>2. symbol'[t] \in Text /\ page[t] \in Pages \cup {"/"}
  BY <1>1, TabFacts
<1> QED
  BY <1>1, <1>2, ShowsTidy

(* A tab, its workspace and its form. *)
LEMMA TidyFacts ==
  ASSUME WorkspaceInv, ReloadInv, NEW t \in Tabs
  PROVE  /\ StoreInv(store[t]) /\ Tidy(store[t]) /\ TidyForm(form[t])
         /\ form[t].rename \notin {Junk, Null}
         /\ On(t, "/compare") => store[t].compareTickers # <<>>
BY TabFacts DEF ReloadInv, TidyForm

(* What is compared is shown on a page of its own. *)
LEMMA ComparesTidy ==
  ASSUME WorkspaceInv, ReloadInv, NEW t \in Tabs, NEW tickers \in Seq(Text),
         Compares(t, tickers)
  PROVE  ReloadInv'
<1>1. StoreInv(store[t]) /\ Tidy(store[t])
  BY TidyFacts
<1>2. /\ StoreInv(SetCompareTickers(store[t], tickers))
      /\ Tidy(SetCompareTickers(store[t], tickers))
  BY <1>1, CompareKeeps, CompareTidy
<1>3. symbol'[t] \in Text
  BY TabFacts DEF Compares
<1>4. "/compare" \in Pages \cup {"/"}
  BY WorkspaceAssumption
<1> QED
  BY <1>2, <1>3, <1>4, ShowsTidy, FormsTidy DEF Compares

(* Opening, reloading, closing and resetting a tab. *)
LEMMA LeavingTidy ==
  ASSUME WorkspaceInv, ReloadInv, NEW t \in Tabs,
         Open(t) \/ Reload(t) \/ Close(t) \/ HandleReset(t)
  PROVE  ReloadInv'
<1>1. PICK m \in {"closed", "loading"} : \E p : Leaves(t, m, p)
  BY DEF Open, Reload, Close, HandleReset
<1>2. \/ UNCHANGED <<stored, owner>>
      \/ stored' = Null /\ owner' = Null
  BY DEF Open, Reload, Close, HandleReset, Drops
<1> QED
  BY <1>1, <1>2, LeavesTidy

(* What is loaded, whatever is stored, is ready to be stored and merged. *)
LEMMA LoadTidy ==
  ASSUME UselessApart, WorkspaceInv, ReloadInv, NEW t \in Tabs, Load(t)
  PROVE  ReloadInv'
<1>1. stored # Null => StoredInv(stored) /\ StoredTidy(stored)
  BY DEF WorkspaceInv, ReloadInv
<1>2. StoreInv(Hydrated(stored)) /\ Tidy(Hydrated(stored))
  BY <1>1, InitialKeeps, InitialTidy, MergeKeeps, MergeTidy DEF Hydrated
<1>3. page[t] \in Pages \cup {"/"} /\ symbol'[t] \in Text
  BY TabFacts DEF Load
<1> QED
  BY <1>2, <1>3, ShowsTidy, FormsTidy DEF Load

(* Opening another page, and a page whose code does not load. *)
LEMMA NavigateTidy ==
  ASSUME WorkspaceInv, ReloadInv, NEW t \in Tabs, Navigate(t) \/ ChunkFails(t)
  PROVE  ReloadInv'
<1>1. CASE Navigate(t)
  <2>1. PICK p \in Pages :
          /\ \/ \E ticker \in Visits : symbol' = [symbol EXCEPT ![t] = ticker]
             \/ symbol' = symbol
          /\ Shows(t, store[t], p, IF p = "/backtest" THEN bench ELSE draft[t], NoForm, stored)
    BY <1>1 DEF Navigate
  <2>2. DOMAIN symbol = Tabs /\ symbol[t] \in Text
    BY DEF WorkspaceInv, WorkspaceTypeOK
  <2>3. symbol'[t] \in Text
    BY <2>1, <2>2, WorkspaceAssumption
  <2>4. StoreInv(store[t]) /\ Tidy(store[t]) /\ p \in Pages \cup {"/"}
    BY TidyFacts
  <2> DEFINE d == IF p = "/backtest" THEN bench ELSE draft[t]
  <2>5. Shows(t, store[t], p, d, NoForm, stored)
    BY <2>1
  <2> HIDE DEF d
  <2> QED
    BY <2>3, <2>4, <2>5, ShowsTidy, FormsTidy
<1>2. CASE ChunkFails(t)
  BY <1>2, FailsTidy DEF ChunkFails
<1> QED
  BY <1>1, <1>2

(* Damage takes the place of what a tab had written. *)
LEMMA DamageTidy ==
  ASSUME WorkspaceInv, ReloadInv, Damage
  PROVE  ReloadInv'
<1>1. UNCHANGED <<mode, page, store, form>> /\ owner' = Null
  BY DEF Damage, tabState
<1>2. stored' # Null => StoredTidy(stored')
  <2>1. CASE owner # Null /\ stored' \in Damages
    <3>1. StoreInv(stored) /\ Tidy(stored)
      BY <2>1 DEF WorkspaceInv, ReloadInv
    <3> QED
      BY <2>1, <3>1, DamagedTidy
  <2>2. CASE stored' = stored
    BY <2>2 DEF ReloadInv
  <2> QED
    BY <2>1, <2>2 DEF Damage
<1> QED
  BY <1>1, <1>2 DEF ReloadInv, On

(* The buttons that toggle a ticker of the active list. *)
LEMMA TogglesTidy ==
  ASSUME WorkspaceInv, ReloadInv, NEW t \in Tabs,
         \/ RecentToggled(t) \/ RowRemoved(t) \/ RailSymbolRemoved(t)
         \/ \E p : Watched(t, p)
  PROVE  ReloadInv'
<1>1. PICK x \in Text :
        Sets(t, ToggleWatchlist(store[t], x, store[t].activeWatchlistId), form[t])
  BY TabFacts, WorkspaceAssumption DEF RecentToggled, RowRemoved, RailSymbolRemoved, Watched
<1>2. TidyForm(form[t]) /\ StoreInv(store[t]) /\ Tidy(store[t])
  BY TidyFacts
<1>3. /\ StoreInv(ToggleWatchlist(store[t], x, store[t].activeWatchlistId))
      /\ Tidy(ToggleWatchlist(store[t], x, store[t].activeWatchlistId))
  BY <1>2, TabFacts, ToggleKeeps, ToggleTidy
<1> QED
  BY <1>1, <1>2, <1>3, SetsTidyStep

(* The other buttons of the watchlists page and of the rail. *)
LEMMA ListStepsTidy ==
  ASSUME UselessApart, WorkspaceInv, ReloadInv, NEW t \in Tabs,
         TabChosen(t) \/ RailListChosen(t) \/ Rename(t) \/ Create(t) \/ Delete(t)
  PROVE  ReloadInv'
<1>1. /\ StoreInv(store[t]) /\ Tidy(store[t]) /\ TidyForm(form[t])
      /\ form[t].rename \notin {Junk, Null}
  BY TidyFacts
<1>2. CASE TabChosen(t) \/ RailListChosen(t)
  <2>1. PICK list \in Lists(t) :
          \/ Sets(t, SetActiveWatchlist(store[t], list.id), form[t])
          \/ Sets(t, SetActiveWatchlist(store[t], list.id),
                  [form[t] EXCEPT !.rename = list.name])
    BY <1>2 DEF TabChosen, RailListChosen
  <2>2. HasList(store[t].watchlists, list.id)
    BY DEF Lists, HasList
  <2>3. /\ StoreInv(SetActiveWatchlist(store[t], list.id))
        /\ Tidy(SetActiveWatchlist(store[t], list.id))
    BY <1>1, <2>2, ChoiceKeeps, ChoiceTidy
  <2>4. list \in ToSet(store[t].watchlists)
    BY DEF Lists, ToSet
  <2>5. list.name \notin {Junk, Null}
    BY <1>1, <2>4 DEF Tidy, TidyLists, IsText
  <2>6. TidyForm([form[t] EXCEPT !.rename = list.name])
    BY <1>1, <2>5, FormsTidy
  <2> QED
    BY <1>1, <2>1, <2>3, <2>6, SetsTidyStep
<1>3. CASE Rename(t)
  <2>1. PICK name \in Names \cup {form[t].rename} :
          Sets(t, RenameWatchlist(store[t], Active(t).id, name),
               [form[t] EXCEPT !.rename = name])
    BY <1>3 DEF Rename
  <2>2. name \notin {Junk, Null}
    BY <1>1, <2>1, UsableAssumption
  <2>3. /\ StoreInv(RenameWatchlist(store[t], Active(t).id, name))
        /\ Tidy(RenameWatchlist(store[t], Active(t).id, name))
    BY <1>1, <2>2, RenameKeeps, RenameTidy
  <2>4. TidyForm([form[t] EXCEPT !.rename = name])
    BY <1>1, <2>2, FormsTidy
  <2> QED
    BY <2>1, <2>3, <2>4, SetsTidyStep
<1>4. CASE Create(t)
  <2>1. PICK name \in Names :
          SetsWithId(t, NextId, CreateWatchlist(store[t], NextId, name), form[t])
    BY <1>4 DEF Create
  <2>2. NextId \in Ids
    BY <2>1 DEF SetsWithId, WorkspaceInv, WorkspaceTypeOK
  <2>3. /\ StoreInv(CreateWatchlist(store[t], NextId, name))
        /\ Tidy(CreateWatchlist(store[t], NextId, name))
    BY <1>1, <2>2, CreateKeeps, CreateTidy
  <2> QED
    BY <1>1, <2>1, <2>3, SetsTidyStep
<1>5. CASE Delete(t)
  <2>1. /\ StoreInv(DeleteWatchlist(store[t], Active(t).id))
        /\ Tidy(DeleteWatchlist(store[t], Active(t).id))
    BY <1>1, DeleteKeeps, DeleteTidy
  <2> QED
    BY <1>1, <1>5, <2>1, SetsTidyStep DEF Delete
<1> QED
  BY <1>2, <1>3, <1>4, <1>5

(* A batch. *)
LEMMA BatchTidy ==
  ASSUME WorkspaceInv, ReloadInv, NEW t \in Tabs, NEW batch \in Batches, BatchAdd(t, batch)
  PROVE  ReloadInv'
<1>1. /\ StoreInv(store[t]) /\ Tidy(store[t]) /\ TidyForm(form[t])
      /\ ListsInv(store[t].watchlists, store[t].activeWatchlistId)
  BY TabFacts, TidyFacts
<1>2. PICK k \in DOMAIN store[t].watchlists :
        ActivePlace(store[t].watchlists, store[t].activeWatchlistId, k)
  BY <1>1, ActivePlaceExists
<1>3. Active(t) = store[t].watchlists[k]
  BY <1>1, <1>2, ActiveFound DEF Active
<1>4. batch \in Seq(Text)
  BY WorkspaceAssumption
<1>5. StoreInv(Added(store[t], batch, Active(t).symbols))
  BY <1>1, <1>2, <1>3, <1>4, AddedFacts DEF HasAdded
<1>6. Tidy(Added(store[t], batch, Active(t).symbols))
  BY <1>1, <1>4, AddedTidy
<1> QED
  BY <1>1, <1>5, <1>6, SetsTidyStep DEF BatchAdd

(* The buttons that compare. *)
LEMMA CompareStepsTidy ==
  ASSUME WorkspaceInv, ReloadInv, NEW t \in Tabs,
         \/ \E tickers \in Seq(Text) : Compares(t, tickers)
         \/ CompareRemoved(t) \/ CompareSaved(t) \/ CompareReset(t) \/ RailCompareSet(t)
  PROVE  ReloadInv'
<1>1. /\ StoreInv(store[t]) /\ Tidy(store[t]) /\ TidyForm(form[t])
      /\ SetsInv(store[t].savedCompareSets)
      /\ On(t, "/compare") => store[t].compareTickers # <<>>
  BY TidyFacts DEF StoreInv
<1>2. ASSUME NEW tickers \in Seq(Text), Sets(t, SetCompareTickers(store[t], tickers), form[t])
      PROVE  ReloadInv'
  BY <1>1, <1>2, CompareKeeps, CompareTidy, SetsTidyStep
<1>3. CASE \E tickers \in Seq(Text) : Compares(t, tickers)
  BY <1>3, ComparesTidy
<1>4. CASE CompareRemoved(t)
  <2>1. PICK ticker : Sets(t, SetCompareTickers(store[t], Minus(store[t].compareTickers, ticker)), form[t])
    BY <1>4 DEF CompareRemoved
  <2>2. Minus(store[t].compareTickers, ticker) \in Seq(Text)
    BY TabFacts, MinusFacts
  <2> QED
    BY <1>2, <2>1, <2>2
<1>5. CASE CompareSaved(t)
  <2> DEFINE tickers == store[t].compareTickers
             u == SaveCompareSet(store[t], NextId, tickers)
  <2>1. SetsWithId(t, NextId, u, form[t]) /\ tickers # <<>>
    BY <1>1, <1>5 DEF CompareSaved
  <2>2. NextId \in Ids
    BY <2>1 DEF SetsWithId, WorkspaceInv, WorkspaceTypeOK
  <2>3. tickers \in Seq(Text)
    BY TabFacts
  <2>4. StoreInv(u) /\ Tidy(u)
    BY <1>1, <2>1, <2>2, <2>3, SetsKeep, SetsTidy
  <2> HIDE DEF u
  <2> QED
    BY <1>1, <2>1, <2>4, SetsTidyStep
<1>6. CASE CompareReset(t)
  <2>1. "SPY" \in Text /\ "QQQ" \in Text
    BY WorkspaceAssumption, DefaultsAssumption, SymbolsInUpper
  <2>2. <<"SPY", "QQQ">> \in Seq(Text)
    BY <2>1
  <2> QED
    BY <1>2, <1>6, <2>2 DEF CompareReset
<1>7. CASE RailCompareSet(t)
  <2>1. PICK set \in ToSet(store[t].savedCompareSets) :
          \/ Sets(t, SetCompareTickers(store[t], set.tickers), form[t])
          \/ Sets(t, DeleteCompareSet(store[t], set.id), form[t])
    BY <1>7 DEF RailCompareSet
  <2>2. set.tickers \in Seq(Text)
    BY <1>1, SymbolsFacts DEF SetsInv
  <2>3. /\ StoreInv(DeleteCompareSet(store[t], set.id))
        /\ Tidy(DeleteCompareSet(store[t], set.id))
    BY <1>1, SetsKeep, SetsTidy
  <2> QED
    BY <1>1, <1>2, <2>1, <2>2, <2>3, SetsTidyStep
<1> QED
  BY <1>3, <1>4, <1>5, <1>6, <1>7

(* The notes. *)
LEMMA AnnotationStepsTidy ==
  ASSUME WorkspaceInv, ReloadInv, NEW t \in Tabs,
         AnnToggled(t) \/ AnnSaved(t) \/ AnnCleared(t)
  PROVE  ReloadInv'
<1>1. StoreInv(store[t]) /\ Tidy(store[t]) /\ TidyForm(form[t])
  BY TidyFacts
<1>2. CASE AnnToggled(t)
  <2>1. /\ UNCHANGED <<stored, mode, page, store, owner>>
        /\ \E key, note :
             form' = [form EXCEPT ![t] = IF form[t].key = key THEN [@ EXCEPT !.key = Null]
                                         ELSE [@ EXCEPT !.key = key, !.note = note]]
    BY <1>2 DEF AnnToggled
  <2>2. PICK key, note :
          form' = [form EXCEPT ![t] = IF form[t].key = key THEN [@ EXCEPT !.key = Null]
                                      ELSE [@ EXCEPT !.key = key, !.note = note]]
    BY <2>1
  <2>3. PICK f : form' = [form EXCEPT ![t] = f] /\ TidyForm(f)
    BY <1>1, <2>2, FormsTidy
  <2>4. DOMAIN form' = Tabs /\ \A s \in Tabs : TidyForm(form'[s])
    BY <2>3 DEF ReloadInv
  <2> QED
    BY <2>1, <2>4 DEF ReloadInv, On
<1>3. CASE AnnSaved(t)
  <2>1. PICK note : Sets(t, IF note = "" THEN ClearAnnotation(store[t], form[t].key)
                            ELSE SetAnnotation(store[t], form[t].key, note),
                         [form[t] EXCEPT !.key = Null, !.note = note])
    BY <1>3 DEF AnnSaved
  <2> DEFINE u == IF note = "" THEN ClearAnnotation(store[t], form[t].key)
                  ELSE SetAnnotation(store[t], form[t].key, note)
             f == [form[t] EXCEPT !.key = Null, !.note = note]
  <2>2. StoreInv(u) /\ Tidy(u)
    BY <1>1, AnnotationsKeep, AnnotationsTidy
  <2>3. TidyForm(f)
    BY <1>1, FormsTidy
  <2>4. Sets(t, u, f)
    BY <2>1
  <2> HIDE DEF u, f
  <2> QED
    BY <2>2, <2>3, <2>4, SetsTidyStep
<1>4. CASE AnnCleared(t)
  <2>1. /\ StoreInv(ClearAnnotation(store[t], form[t].key))
        /\ Tidy(ClearAnnotation(store[t], form[t].key))
    BY <1>1, AnnotationsKeep, AnnotationsTidy
  <2>2. TidyForm([form[t] EXCEPT !.key = Null])
    BY <1>1, FormsTidy
  <2> QED
    BY <1>4, <2>1, <2>2, SetsTidyStep DEF AnnCleared
<1> QED
  BY <1>2, <1>3, <1>4

(* The backtest page and its saved drafts. *)
LEMMA BacktestStepsTidy ==
  ASSUME WorkspaceInv, ReloadInv, NEW t \in Tabs,
         RailBacktest(t) \/ DraftEdited(t) \/ BacktestSaved(t) \/ BacktestLoaded(t)
  PROVE  ReloadInv'
<1>1. StoreInv(store[t]) /\ Tidy(store[t]) /\ TidyForm(form[t]) /\ draft[t] \in Drafts
  BY TabFacts, TidyFacts
<1>2. CASE RailBacktest(t)
  <2>1. PICK id : Sets(t, DeleteBacktestDraft(store[t], id), form[t])
    BY <1>2 DEF RailBacktest
  <2>2. /\ StoreInv(DeleteBacktestDraft(store[t], id))
        /\ Tidy(DeleteBacktestDraft(store[t], id))
    BY <1>1, DraftsKeep, DraftsTidy
  <2> QED
    BY <1>1, <2>1, <2>2, SetsTidyStep
<1>3. CASE DraftEdited(t)
  <2>1. UNCHANGED <<stored, mode, page, store, form, owner>>
    BY <1>3 DEF DraftEdited
  <2> QED
    BY <2>1 DEF ReloadInv, On
<1>4. CASE BacktestSaved(t)
  <2>1. SetsWithId(t, NextId, SaveBacktestDraft(store[t], NextId, draft[t]), form[t])
    BY <1>4 DEF BacktestSaved
  <2>2. NextId \in Ids
    BY <2>1 DEF SetsWithId, WorkspaceInv, WorkspaceTypeOK
  <2>3. /\ StoreInv(SaveBacktestDraft(store[t], NextId, draft[t]))
        /\ Tidy(SaveBacktestDraft(store[t], NextId, draft[t]))
    BY <1>1, <2>2, DraftsKeep, DraftsTidy
  <2> QED
    BY <1>1, <2>1, <2>3, SetsTidyStep
<1>5. CASE BacktestLoaded(t)
  <2>1. PICK d : Shows(t, store[t], "/backtest", d, form[t], stored)
    BY <1>5 DEF BacktestLoaded
  <2>2. symbol'[t] \in Text /\ "/backtest" \in Pages \cup {"/"}
    BY <1>5, TabFacts DEF BacktestLoaded, On
  <2> QED
    BY <1>1, <2>1, <2>2, ShowsTidy
<1> QED
  BY <1>2, <1>3, <1>4, <1>5

(* WATCH and COMPARE of a security. *)
LEMMA SecurityTidy ==
  ASSUME WorkspaceInv, ReloadInv, NEW t \in Tabs, SecurityMarked(t)
  PROVE  ReloadInv'
<1>1. StoreInv(store[t]) /\ Tidy(store[t]) /\ TidyForm(form[t]) /\ symbol[t] \in Text
  BY TabFacts, TidyFacts
<1>2. /\ StoreInv(ToggleWatchlist(store[t], symbol[t], store[t].activeWatchlistId))
      /\ Tidy(ToggleWatchlist(store[t], symbol[t], store[t].activeWatchlistId))
      /\ StoreInv(ToggleCompareTicker(store[t], symbol[t]))
      /\ Tidy(ToggleCompareTicker(store[t], symbol[t]))
  BY <1>1, ToggleKeeps, ToggleTidy, CompareKeeps, CompareTidy
<1> QED
  BY <1>1, <1>2, SetsTidyStep DEF SecurityMarked

(* The invariant for the reload after every step of every tab. *)
LEMMA ReloadStep ==
  ASSUME UselessApart, WorkspaceInv, ReloadInv, [WorkspaceNext]_workspaceVars
  PROVE  ReloadInv'
<1>1. CASE UNCHANGED workspaceVars
  BY <1>1 DEF workspaceVars, tabState, ReloadInv, On
<1>2. CASE Damage
  BY <1>2, DamageTidy
<1>3. ASSUME NEW t \in Tabs,
             Open(t) \/ Load(t) \/ Reload(t) \/ Close(t) \/ Navigate(t) \/ ChunkFails(t)
               \/ HandleReset(t)
      PROVE  ReloadInv'
  BY <1>3, LeavingTidy, LoadTidy, NavigateTidy
<1>4. ASSUME NEW t \in Tabs,
             \/ TabChosen(t) \/ Rename(t) \/ Create(t) \/ Delete(t) \/ RailListChosen(t)
             \/ \E batch \in Batches : BatchAdd(t, batch)
             \/ RecentToggled(t) \/ RowRemoved(t) \/ RailSymbolRemoved(t)
             \/ \E p : Watched(t, p)
      PROVE  ReloadInv'
  BY <1>4, ListStepsTidy, BatchTidy, TogglesTidy
<1>5. ASSUME NEW t \in Tabs,
             \/ RowCompared(t) \/ MatchesCompared(t) \/ CompareRemoved(t)
             \/ CompareSaved(t) \/ CompareReset(t) \/ RailCompareSet(t)
             \/ MonitorRow(t) \/ SectorRow(t)
      PROVE  ReloadInv'
  BY <1>5, ComparedTexts, CompareStepsTidy, TogglesTidy DEF MonitorRow, SectorRow
<1>6. ASSUME NEW t \in Tabs,
             \/ AnnToggled(t) \/ AnnSaved(t) \/ AnnCleared(t)
             \/ RailBacktest(t) \/ DraftEdited(t) \/ BacktestSaved(t) \/ BacktestLoaded(t)
             \/ SecurityMarked(t) \/ ScreenerRow(t) \/ BacktestMatch(t)
      PROVE  ReloadInv'
  <2>1. CASE ScreenerRow(t) \/ BacktestMatch(t)
    BY <2>1, TogglesTidy DEF ScreenerRow, BacktestMatch
  <2> QED
    BY <1>6, <2>1, AnnotationStepsTidy, BacktestStepsTidy, SecurityTidy
<1> QED
  BY <1>1, <1>2, <1>3, <1>4, <1>5, <1>6 DEF WorkspaceNext

(* Where it holds, what is stored is what the tab that wrote last shows,    *)
(* and the merge brings it back.                                            *)
LEMMA ReloadBringsBack ==
  ASSUME UselessApart, WorkspaceInv, ReloadInv
  PROVE  ReloadKeepsWork
<1> SUFFICES ASSUME owner # Null, mode[owner] = "open"
             PROVE  LET shown == store[owner]
                        again == Hydrated(stored)
                        kept == Where(shown.watchlists, LAMBDA list : list.symbols # <<>>)
                    IN /\ \A f \in DOMAIN shown \ {"watchlists", "activeWatchlistId"} :
                            again[f] = shown[f]
                       /\ kept # <<>> => again.watchlists = kept
                       /\ HasList(kept, shown.activeWatchlistId) =>
                            again.activeWatchlistId = shown.activeWatchlistId
  BY DEF ReloadKeepsWork
<1>1. owner \in Tabs /\ stored = store[owner] /\ StoreInv(stored) /\ Tidy(stored)
  BY DEF WorkspaceInv, WorkspaceTypeOK, ReloadInv
<1>2. DOMAIN stored = DOMAIN InitialStore /\ IsFunction(stored)
  BY <1>1 DEF StoreInv, IsFunction
<1>3. Hydrated(stored) = Merge(stored)
  BY <1>2 DEF UselessApart, Hydrated
<1> QED
  BY <1>1, <1>2, <1>3, MergeSame

(* What a reload would bring back is what the tab that wrote last shows, but *)
(* for lists without symbols: the setters of terminalStore.ts and its merge  *)
(* agree on every limit, order and case.                                     *)
THEOREM ReloadAlwaysKeepsWork ==
  ASSUME UselessApart
  PROVE  WorkspaceSpec => []ReloadKeepsWork
<1>1. WorkspaceInit => WorkspaceInv /\ ReloadInv
  BY InitInvariant, InitReload
<1>2. WorkspaceInv /\ ReloadInv /\ [WorkspaceNext]_workspaceVars => (WorkspaceInv /\ ReloadInv)'
  BY InvariantStep, ReloadStep
<1>3. WorkspaceInv /\ ReloadInv => ReloadKeepsWork
  BY ReloadBringsBack
<1> QED
  BY <1>1, <1>2, <1>3, PTL DEF WorkspaceSpec
=============================================================================
