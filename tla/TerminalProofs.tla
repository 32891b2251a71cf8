--------------------------- MODULE TerminalProofs ---------------------------
(***************************************************************************)
(* The command bar and the research pages, for every vocabulary, every     *)
(* limit and any number of keys, edits and runs: a result is the answer to *)
(* the run asked for last, a draft comes back as it was left, what became  *)
(* a recent command can be run again, and the recent symbols follow the    *)
(* routes.                                                                 *)
(***************************************************************************)
EXTENDS CommandBar, Research, ListLemmas

-----------------------------------------------------------------------------
(* The runs of the research pages.                                         *)

(* Every page runs a kind of request the backtest page runs too. *)
LEMMA KindsOfRuns == \A p \in Places : Kinds(p) \subseteq Kinds("backtest")
BY DEF Kinds, Places

(* A page starts with no run. *)
LEMMA InitRuns == ResearchInit => RunsInv
BY DEF ResearchInit, RunsInv, Idle, AnswerOfLastRun

(* A page that goes takes its observers with it. *)
LEMMA LeavingKeepsRuns ==
  ASSUME RunsInv, Leaves, UNCHANGED <<flights, acts>>
  PROVE  RunsInv'
<1>1. \A k \in Kinds("backtest") : observed'[k] = Idle /\ wanted'[k] = Nothing
  BY DEF Leaves, RunsInv
<1>2. DOMAIN observed' = Kinds("backtest") /\ DOMAIN wanted' = Kinds("backtest")
  BY DEF Leaves, RunsInv
<1>3. AnswerOfLastRun'
  BY <1>1, <1>2 DEF AnswerOfLastRun, Idle
<1>4. \A flight \in flights' :
        /\ flight.kind \in Kinds("backtest") /\ flight.run \in 1..acts
        /\ flight.run # Idle.run
  BY DEF RunsInv, Idle
<1>5. Idle.run \in 0..acts
  BY DEF Idle, RunsInv
<1> QED
  BY <1>1, <1>2, <1>3, <1>4, <1>5 DEF RunsInv

(* A run is numbered like none before it, so that of the runs under way only *)
(* its own answer is heard.                                                  *)
LEMMA RunKeepsRuns ==
  ASSUME RunsInv, DraftsInv, Run
  PROVE  RunsInv'
<1>0. PICK k \in Kinds(at) : \E sent :
        /\ acts' = acts + 1
        /\ flights' = flights \cup {[kind |-> k, run |-> acts + 1, sent |-> sent]}
        /\ observed' = [observed EXCEPT ![k] = [Idle EXCEPT !.run = acts + 1, !.pending = TRUE]]
        /\ wanted' = [wanted EXCEPT ![k] = sent]
  BY DEF Run, Acts
<1>1. PICK sent :
        /\ acts' = acts + 1
        /\ flights' = flights \cup {[kind |-> k, run |-> acts + 1, sent |-> sent]}
        /\ observed' = [observed EXCEPT ![k] = [Idle EXCEPT !.run = acts + 1, !.pending = TRUE]]
        /\ wanted' = [wanted EXCEPT ![k] = sent]
  BY <1>0
<1>2. k \in Kinds("backtest") /\ acts \in Nat
  BY KindsOfRuns DEF Run, DraftsInv, RunsInv, Kinds
<1>3. /\ DOMAIN observed' = Kinds("backtest") /\ DOMAIN wanted' = Kinds("backtest")
      /\ wanted'[k] = sent
      /\ DOMAIN observed'[k] = DOMAIN Idle
      /\ observed'[k].run = acts + 1 /\ observed'[k].data = Nothing
      /\ \A j \in Kinds("backtest") \ {k} :
           observed'[j] = observed[j] /\ wanted'[j] = wanted[j]
  BY <1>1, <1>2 DEF RunsInv, Idle
<1>4. AnswerOfLastRun'
  BY <1>3 DEF RunsInv, AnswerOfLastRun
<1>5. ASSUME NEW flight \in flights'
      PROVE  /\ flight.kind \in Kinds("backtest") /\ flight.run \in 1..(acts + 1)
             /\ flight.run = observed'[flight.kind].run => flight.sent = wanted'[flight.kind]
  <2>1. CASE flight \in flights
    BY <1>2, <1>3, <2>1 DEF RunsInv
  <2>2. CASE flight = [kind |-> k, run |-> acts + 1, sent |-> sent]
    BY <1>2, <1>3, <2>2
  <2> QED
    BY <1>1, <2>1, <2>2
<1>6. \A j \in Kinds("backtest") : DOMAIN observed'[j] = DOMAIN Idle /\ observed'[j].run \in 0..(acts + 1)
  BY <1>2, <1>3 DEF RunsInv
<1> QED
  BY <1>1, <1>2, <1>3, <1>4, <1>5, <1>6 DEF RunsInv

(* What hearing of a run leaves of what its page observes. *)
LEMMA SetAsideFacts ==
  ASSUME NEW seen, {"run", "pending", "failed", "data"} \subseteq DOMAIN seen, NEW answer
  PROVE  /\ DOMAIN [seen EXCEPT !.pending = FALSE, !.data = answer] = DOMAIN seen
         /\ [seen EXCEPT !.pending = FALSE, !.data = answer].run = seen.run
         /\ [seen EXCEPT !.pending = FALSE, !.data = answer].data = answer
         /\ DOMAIN [seen EXCEPT !.pending = FALSE, !.failed = TRUE] = DOMAIN seen
         /\ [seen EXCEPT !.pending = FALSE, !.failed = TRUE].run = seen.run
         /\ [seen EXCEPT !.pending = FALSE, !.failed = TRUE].data = seen.data
OBVIOUS

(* An answer is heard where its run is the one observed. *)
LEMMA AnswerKeepsRuns ==
  ASSUME RunsInv, RunAnswered \/ RunFailed
  PROVE  RunsInv'
<1>1. PICK flight \in flights :
        /\ flights' = flights \ {flight}
        /\ \/ observed' = observed
           \/ /\ flight.run = observed[flight.kind].run
              /\ \/ observed' = [observed EXCEPT ![flight.kind] =
                                   [@ EXCEPT !.pending = FALSE, !.data = flight.sent]]
                 \/ observed' = [observed EXCEPT ![flight.kind] =
                                   [@ EXCEPT !.pending = FALSE, !.failed = TRUE]]
  BY DEF RunAnswered, RunFailed, Heard
<1>2. UNCHANGED <<wanted, acts>>
  BY DEF RunAnswered, RunFailed
<1>3. flight.kind \in Kinds("backtest") /\ DOMAIN observed = Kinds("backtest")
  BY DEF RunsInv
<1>4. /\ DOMAIN observed' = Kinds("backtest")
      /\ \A k \in Kinds("backtest") :
           /\ DOMAIN observed'[k] = DOMAIN Idle /\ observed'[k].run = observed[k].run
           /\ \/ observed'[k].data = observed[k].data
              \/ k = flight.kind /\ flight.run = observed[k].run /\ observed'[k].data = flight.sent
  <2> DEFINE seen == observed[flight.kind]
             new == observed'[flight.kind]
  <2>1. DOMAIN seen = DOMAIN Idle /\ {"run", "pending", "failed", "data"} \subseteq DOMAIN seen
    BY <1>3 DEF RunsInv, Idle
  <2>2. \/ observed' = observed
        \/ flight.run = seen.run /\ observed' = [observed EXCEPT ![flight.kind] = new]
    BY <1>1, <1>3
  <2>3. \/ new = seen
        \/ new = [seen EXCEPT !.pending = FALSE, !.data = flight.sent]
        \/ new = [seen EXCEPT !.pending = FALSE, !.failed = TRUE]
    BY <1>1, <1>3
  <2> HIDE DEF seen, new
  <2>4. DOMAIN new = DOMAIN Idle /\ new.run = seen.run /\ new.data \in {seen.data, flight.sent}
    <3>1. CASE new = seen
      BY <2>1, <3>1
    <3>2. CASE new = [seen EXCEPT !.pending = FALSE, !.data = flight.sent]
      BY ONLY <2>1, <3>2, SetAsideFacts
    <3>3. CASE new = [seen EXCEPT !.pending = FALSE, !.failed = TRUE]
      BY ONLY <2>1, <3>3, SetAsideFacts
    <3> QED
      BY <2>3, <3>1, <3>2, <3>3
  <2>5. DOMAIN observed' = Kinds("backtest")
    BY <1>3, <2>2
  <2>6. \A k \in Kinds("backtest") \ {flight.kind} : observed'[k] = observed[k]
    BY <1>3, <2>2
  <2>7. new = seen \/ flight.run = seen.run
    BY <2>2 DEF seen, new
  <2> QED
    BY <2>1, <2>4, <2>5, <2>6, <2>7 DEF RunsInv, seen, new
<1>5. AnswerOfLastRun'
  BY <1>2, <1>3, <1>4 DEF RunsInv, AnswerOfLastRun
<1> QED
  BY <1>1, <1>2, <1>4, <1>5 DEF RunsInv

(* A page that is left and opened anew has no run. *)
LEMMA ResetKeepsRuns ==
  ASSUME RunsInv, Reset
  PROVE  RunsInv'
<1>1. /\ acts' = acts + 1 /\ flights' = flights
      /\ observed' = [observed EXCEPT !["screen"] = Idle]
      /\ wanted' = [wanted EXCEPT !["screen"] = Nothing]
  BY DEF Reset, Acts
<1>2. "screen" \in Kinds("backtest") /\ acts \in Nat
  BY DEF Kinds, RunsInv
<1>3. /\ DOMAIN observed' = Kinds("backtest") /\ DOMAIN wanted' = Kinds("backtest")
      /\ wanted'["screen"] = Nothing /\ observed'["screen"] = Idle
      /\ \A j \in Kinds("backtest") \ {"screen"} :
           observed'[j] = observed[j] /\ wanted'[j] = wanted[j]
  BY <1>1, <1>2 DEF RunsInv
<1>4. AnswerOfLastRun'
  BY <1>3 DEF RunsInv, AnswerOfLastRun, Idle
<1>5. \A j \in Kinds("backtest") : DOMAIN observed'[j] = DOMAIN Idle /\ observed'[j].run \in 0..acts'
  BY <1>1, <1>2, <1>3 DEF RunsInv, Idle
<1>6. \A flight \in flights' :
        /\ flight.kind \in Kinds("backtest") /\ flight.run \in 1..acts'
        /\ flight.run = observed'[flight.kind].run => flight.sent = wanted'[flight.kind]
  BY <1>1, <1>2, <1>3 DEF RunsInv, Idle
<1> QED
  BY <1>1, <1>2, <1>3, <1>4, <1>5, <1>6 DEF RunsInv

(* Every step keeps each answer with the run that asked for it. *)
LEMMA RunsStep ==
  ASSUME RunsInv, DraftsInv, [ResearchNext]_researchVars
  PROVE  RunsInv'
<1>1. CASE Opened \/ Closed
  BY <1>1, LeavingKeepsRuns DEF Opened, Closed
<1>2. CASE ParamChanged \/ Edit \/ AddRule \/ Save \/ LoadSaved
  <2>1. acts' = acts + 1 /\ UNCHANGED <<observed, flights, wanted>>
    BY <1>2 DEF ParamChanged, Edit, AddRule, Save, LoadSaved, Acts
  <2> QED
    BY <2>1 DEF RunsInv, AnswerOfLastRun
<1>3. CASE Run
  BY <1>3, RunKeepsRuns
<1>4. CASE RunAnswered \/ RunFailed
  BY <1>4, AnswerKeepsRuns
<1>5. CASE Reset
  BY <1>5, ResetKeepsRuns
<1>6. CASE UNCHANGED researchVars
  BY <1>6 DEF researchVars, RunsInv, AnswerOfLastRun
<1> QED
  BY <1>1, <1>2, <1>3, <1>4, <1>5, <1>6 DEF ResearchNext

-----------------------------------------------------------------------------
(* The drafts.                                                             *)

(* No draft is saved at the start. *)
LEMMA InitDrafts == ResearchInit => DraftsInv
BY DEF ResearchInit, DraftsInv, Places

(* A page that opens reads its draft from the store. *)
LEMMA OpeningKeepsDrafts ==
  ASSUME DraftsInv, Opened
  PROVE  DraftsInv'
<1>0. PICK p \in Places \ {at} : \E d :
        /\ at' = p
        /\ draft' = [draft EXCEPT ![p] = d] /\ entry' = [entry EXCEPT ![p] = d]
  BY DEF Opened, Puts
<1>1. PICK d :
        /\ at' = p
        /\ draft' = [draft EXCEPT ![p] = d] /\ entry' = [entry EXCEPT ![p] = d]
  BY <1>0
<1>2. left' = IF at = "elsewhere" THEN left ELSE [left EXCEPT ![at] = draft[at]]
  BY DEF Opened, Leaves
<1> QED
  BY <1>1, <1>2 DEF DraftsInv, Places

(* A page that closes takes none of the saved drafts with it. *)
LEMMA ClosingKeepsDrafts ==
  ASSUME DraftsInv, Closed
  PROVE  DraftsInv'
BY DEF DraftsInv, Places, Closed, Leaves

(* Whatever a page shows of its draft it stores. *)
LEMMA ShowingKeepsDrafts ==
  ASSUME DraftsInv, at \in Places, NEW d, Puts(at, d), UNCHANGED <<at, left>>
  PROVE  DraftsInv'
BY DEF DraftsInv, Puts

(* Every step keeps the page's form to the draft it saved. *)
LEMMA DraftsStep ==
  ASSUME DraftsInv, [ResearchNext]_researchVars
  PROVE  DraftsInv'
<1>1. CASE Opened
  BY <1>1, OpeningKeepsDrafts
<1>2. CASE Closed
  BY <1>2, ClosingKeepsDrafts
<1>3. CASE ParamChanged \/ Edit \/ AddRule \/ LoadSaved \/ Reset
  <2>1. at \in Places /\ (\E d : Puts(at, d)) /\ UNCHANGED <<at, left>>
    BY <1>3 DEF ParamChanged, Edit, AddRule, LoadSaved, Reset, DraftsInv, Places
  <2> QED
    BY <2>1, ShowingKeepsDrafts
<1>4. CASE Save \/ Run \/ RunAnswered \/ RunFailed
  BY <1>4 DEF Save, Run, RunAnswered, RunFailed, DraftsInv
<1>5. CASE UNCHANGED researchVars
  BY <1>5 DEF researchVars, DraftsInv
<1> QED
  BY <1>1, <1>2, <1>3, <1>4, <1>5 DEF ResearchNext

(***************************************************************************)
(* The inductive invariant of the research pages: an answer belongs to the *)
(* run that asked for it, and a draft is what the form last was            *)
(* (BacktestPage.tsx, ScreenerPage.tsx).                                   *)
(***************************************************************************)
THEOREM ResearchInvariant == ResearchSpec => [](RunsInv /\ DraftsInv)
<1>1. ResearchInit => RunsInv /\ DraftsInv
  BY InitRuns, InitDrafts
<1>2. RunsInv /\ DraftsInv /\ [ResearchNext]_researchVars => (RunsInv /\ DraftsInv)'
  BY RunsStep, DraftsStep
<1> QED
  BY <1>1, <1>2, PTL DEF ResearchSpec

(* A result is the answer to the run asked for last, whatever else is under *)
(* way and in whatever order the answers come.                              *)
THEOREM AlwaysAnswerOfLastRun == ResearchSpec => []AnswerOfLastRun
<1>1. RunsInv => AnswerOfLastRun
  BY DEF RunsInv
<1> QED
  BY <1>1, ResearchInvariant, PTL

(* Coming back to a page brings back the draft as it was left, but for the *)
(* ticker the route names.                                                 *)
THEOREM DraftAlwaysReturns == ResearchSpec => DraftReturns
<1>1. ASSUME DraftsInv, [ResearchNext]_researchVars
      PROVE  [\A p \in Places : at # p /\ at' = p /\ left[p] # Nothing =>
                draft'[p] = WithTicker(left[p], param')]_researchVars
  <2>1. SUFFICES ASSUME ResearchNext, NEW p \in Places, at # p, at' = p, left[p] # Nothing
                 PROVE  draft'[p] = WithTicker(left[p], param')
    BY <1>1
  <2>2. Opened
    BY <2>1 DEF ResearchNext, Closed, ParamChanged, Edit, AddRule, Save, LoadSaved, Run,
                RunAnswered, RunFailed, Reset, Places
  <2>3. Puts(p, Loaded(p, param'))
    BY <2>1, <2>2 DEF Opened
  <2>4. draft'[p] = Loaded(p, param') /\ entry[p] = left[p]
    BY <1>1, <2>1, <2>3 DEF Puts, DraftsInv
  <2> QED
    BY <2>1, <2>4 DEF Loaded
<1> QED
  BY <1>1, ResearchInvariant, PTL DEF ResearchSpec, DraftReturns

-----------------------------------------------------------------------------
(* The store.                                                              *)

(* The fields of the persisted store, for the leaves that read one field   *)
(* after another was set.                                                  *)
LEMMA StoreFields ==
  DOMAIN InitialStore =
    {"activeTicker", "watchlists", "activeWatchlistId", "recentTickers", "compareTickers",
     "savedCompareSets", "recentCommands", "savedScreens", "savedBacktests",
     "watchlistAnnotations", "lastRoute"}
BY DEF InitialStore

(* What a symbol is: a text in upper case. *)
LEMMA SymbolsInUpper == Symbol \subseteq Text /\ \A x \in Text : Upper[x] \in Symbol
BY TextAssumption DEF Symbol

(* The list of recents has room for two. *)
LEMMA Limits == RecentLimit \in Nat \ {0} /\ RecentLimit > 1
BY LimitAssumption, RecentAssumption

(* uniqHead of a symbol that is recent now and those that were: what was     *)
(* the first of them, or the second where the first was this, is the second. *)
LEMMA RememberedFacts ==
  ASSUME NEW x \in Text, NEW s, IsSymbols(s, RecentLimit)
  PROVE  LET r == UniqHead(<<x>> \o s, RecentLimit)
         IN /\ IsSymbols(r, RecentLimit)
            /\ r # <<>> /\ r[1] = Upper[x]
            /\ s # <<>> /\ s[1] # Upper[x] => Len(r) > 1 /\ r[2] = s[1]
            /\ Len(s) > 1 /\ s[1] = Upper[x] => Len(r) > 1 /\ r[2] = s[2]
<1> DEFINE items == <<x>> \o s
           t == <<Upper[x]>> \o s
           d == AtPlaces(t, Firsts(t))
           r == UniqHead(items, RecentLimit)
<1>1. s \in Seq(Symbol) /\ Len(s) <= RecentLimit /\ IsInjective(s) /\ Len(s) \in Nat
  BY DEF IsSymbols
<1>2. Upper[x] \in Symbol
  BY SymbolsInUpper
<1>3. /\ t \in Seq(Symbol) /\ Len(t) = Len(s) + 1 /\ t[1] = Upper[x]
      /\ \A i \in 1..Len(s) : t[i + 1] = s[i]
  BY <1>1, <1>2, PrependedFacts
<1>4. Mapped(items, InUpper) = t
  <2>1. s \in Seq(Text)
    BY <1>1, SymbolsInUpper
  <2>2. /\ items \in Seq(Text) /\ Len(items) = Len(s) + 1 /\ items[1] = x
        /\ \A i \in 1..Len(s) : items[i + 1] = s[i]
    BY <2>1, PrependedFacts
  <2>3. DOMAIN items = 1..(Len(s) + 1) /\ DOMAIN t = 1..(Len(s) + 1)
    BY <1>3, <2>2
  <2>4. ASSUME NEW i \in 1..(Len(s) + 1) PROVE Upper[items[i]] = t[i]
    <3>1. CASE i = 1
      BY <1>3, <2>2, <3>1
    <3>2. CASE i # 1
      <4>1. i - 1 \in 1..Len(s) /\ (i - 1) + 1 = i
        BY <1>1, <3>2
      <4>2. items[i] = s[i - 1] /\ t[i] = s[i - 1]
        BY <1>3, <2>2, <4>1
      <4>3. s[i - 1] \in Symbol
        BY <1>1, <4>1
      <4> QED
        BY <4>2, <4>3 DEF Symbol
    <3> QED
      BY <3>1, <3>2
  <2>5. t = [i \in 1..(Len(s) + 1) |-> t[i]]
    BY <1>3, <2>3
  <2> HIDE DEF items, t
  <2>6. Mapped(items, InUpper) = [i \in 1..(Len(s) + 1) |-> Upper[items[i]]]
    BY <2>3 DEF Mapped, InUpper
  <2> QED
    BY <2>4, <2>5, <2>6
<1> HIDE DEF items, t
<1>5. Mapped(t, AsTyped) = t
  BY <1>3 DEF Mapped, AsTyped
<1>6. r = Take(d, RecentLimit)
  BY <1>4, <1>5 DEF UniqHead, Distinct
<1>7. t # <<>>
  BY <1>1, <1>3
<1>8. IsSymbols(r, RecentLimit) /\ r # <<>> /\ r[1] = Upper[x]
  <2> DEFINE head == Take(AtPlaces(t, Firsts(t)), RecentLimit)
  <2>1. /\ head \in Seq(Symbol) /\ Len(head) <= RecentLimit /\ IsInjective(head)
        /\ t # <<>> => Len(head) > 0 /\ head[1] = t[1]
    BY <1>3, HeadFacts, Limits
  <2>2. r = head
    BY <1>6
  <2> HIDE DEF head, r
  <2> QED
    BY <1>3, <1>7, <2>1, <2>2 DEF IsSymbols
<1>9. ASSUME Len(d) > 1 PROVE Len(r) > 1 /\ r[2] = d[2]
  <2>1. d \in Seq(Symbol)
    BY <1>3, AtPlacesSelects
  <2> HIDE DEF d, r
  <2>2. /\ Len(r) = Len(d) \/ Len(r) = RecentLimit
        /\ \A i \in 1..Len(r) : r[i] = d[i]
    BY <1>6, <2>1, TakeFacts, Limits
  <2> QED
    BY <1>9, <2>2, Limits
<1>10. ASSUME s # <<>>, s[1] # Upper[x] PROVE Len(r) > 1 /\ r[2] = s[1]
  <2>1. Len(t) > 1 /\ t[2] = s[1]
    BY <1>1, <1>3, <1>10
  <2>2. 1 \in Firsts(t) \cap (1..Len(t)) /\ 2 \in Firsts(t) \cap (1..Len(t))
    BY <1>3, <1>10, <2>1 DEF Firsts
  <2>3. \A k \in Firsts(t) \cap (1..Len(t)) : k = 1 \/ 2 <= k
    OBVIOUS
  <2>4. Len(d) > 1 /\ d[2] = t[2]
    BY <1>3, <2>2, <2>3, FilteredSecond
  <2> QED
    BY <1>9, <2>1, <2>4
<1>11. ASSUME Len(s) > 1, s[1] = Upper[x] PROVE Len(r) > 1 /\ r[2] = s[2]
  <2>1. Len(t) > 2 /\ t[2] = s[1] /\ t[3] = s[2] /\ s[1] # s[2]
    BY <1>1, <1>3, <1>11 DEF IsInjective
  <2>2. 1 \in Firsts(t) \cap (1..Len(t)) /\ 3 \in Firsts(t) \cap (1..Len(t)) /\ 2 \notin Firsts(t)
    BY <1>3, <1>11, <2>1 DEF Firsts
  <2>3. \A k \in Firsts(t) \cap (1..Len(t)) : k = 1 \/ 3 <= k
    BY <2>2
  <2>4. Len(d) > 1 /\ d[2] = t[3]
    BY <1>3, <2>2, <2>3, FilteredSecond
  <2> QED
    BY <1>9, <2>1, <2>4
<1> QED
  BY <1>8, <1>10, <1>11 DEF items

(* uniqCommands adds nothing to what it is given. *)
LEMMA RememberedCommands ==
  ASSUME NEW c \in Runnable, NEW s \in Seq(Runnable)
  PROVE  UniqCommands(<<c>> \o s, RecentLimit) \in Seq(Runnable)
<1> DEFINE items == <<c>> \o s
           texts == Where(items, LAMBDA x : x # "")
           kept == Distinct(texts, InUpper)
<1>1. items \in Seq(Runnable)
  BY PrependedFacts
<1> HIDE DEF items
<1>2. texts \in Seq(Runnable)
  BY <1>1, AtPlacesSelects DEF Where
<1> HIDE DEF texts
<1>3. kept \in Seq(Runnable)
  BY <1>2, AtPlacesSelects DEF Distinct
<1> HIDE DEF kept
<1>4. Take(kept, RecentLimit) \in Seq(Runnable)
  BY <1>3, TakeFacts, Limits
<1> QED
  BY <1>4 DEF UniqCommands, kept, texts, items

-----------------------------------------------------------------------------
(* What a command says.                                                    *)

(* The security of a command is a ticker, the tickers to compare begin with *)
(* one, and no word leads to a security's page.                             *)
LEMMA ParsedFacts ==
  ASSUME NEW t \in Seq(STRING)
  PROVE  /\ Parsed(t).kind = "security" => Parsed(t).ticker \in TickerTokens
         /\ Parsed(t).kind = "compare" => Parsed(t).tickers[1] \in TickerTokens
         /\ Parsed(t).kind = "route" => Parsed(t).path # "/security"
<1> DEFINE tickers == Where(Tail(t), LAMBDA x : x \in TickerTokens)
<1>1. t # <<>> => Tail(t) \in Seq(STRING)
  OBVIOUS
<1>2. ASSUME t # <<>>, tickers # <<>> PROVE tickers[1] \in TickerTokens
  <2> DEFINE u == Tail(t)
             I == {i \in DOMAIN u : u[i] \in TickerTokens}
  <2>1. u \in Seq(STRING)
    BY <1>1, <1>2
  <2>2. tickers = AtPlaces(u, I)
    BY DEF Where
  <2> HIDE DEF u
  <2>3. /\ AtPlaces(u, I) \in Seq(STRING)
        /\ ToSet(AtPlaces(u, I)) = {u[i] : i \in I \cap (1..Len(u))}
    BY <2>1, AtPlacesSelects, FilteredElements
  <2>4. AtPlaces(u, I)[1] \in ToSet(AtPlaces(u, I))
    <3> DEFINE r == AtPlaces(u, I)
    <3>1. r \in Seq(STRING) /\ r # <<>>
      BY <1>2, <2>2, <2>3
    <3> HIDE DEF r
    <3>2. 1 \in DOMAIN r
      BY <3>1
    <3> QED
      BY <3>2 DEF ToSet, r
  <2> QED
    BY <2>2, <2>3, <2>4
<1>3. /\ \A w \in DOMAIN WordRoutes : WordRoutes[w] # "/security"
      /\ \A w \in DOMAIN LoneRoutes : LoneRoutes[w] # "/security"
  BY DEF WordRoutes, LoneRoutes
<1> HIDE DEF tickers
<1>4. t = <<>> <=> Len(t) = 0
  OBVIOUS
<1> QED
  BY <1>2, <1>3, <1>4 DEF Parsed, Invalid, tickers

-----------------------------------------------------------------------------
(* The recent symbols.                                                     *)

(* "[" and LAST lead to the second of the recent symbols. *)
LEMMA PreviousFacts ==
  ASSUME NEW s, IsSymbols(s, RecentLimit)
  PROVE  /\ Previous(s) # Gone => Previous(s) \in Symbol
         /\ Len(s) > 1 => Previous(s) = s[2]
<1> DEFINE I == {i \in DOMAIN s : s[i] # s[1]}
           others == AtPlaces(s, I)
<1>1. s \in Seq(Symbol) /\ IsInjective(s) /\ DOMAIN s = 1..Len(s) /\ Len(s) \in Nat
  BY DEF IsSymbols
<1>2. others \in Seq(Symbol)
  BY <1>1, AtPlacesSelects
<1>3. Previous(s) = IF s = <<>> \/ others = <<>> THEN Gone ELSE others[1]
  BY DEF Previous, Minus, Where
<1>4. ASSUME Len(s) > 1 PROVE others # <<>> /\ others[1] = s[2]
  <2>1. 2 \in I \cap (1..Len(s))
    BY <1>1, <1>4 DEF IsInjective
  <2>2. \A j \in I \cap (1..Len(s)) : 2 <= j
    BY <1>1
  <2>3. Len(others) > 0 /\ others[1] = s[2]
    BY <1>1, <2>1, <2>2, FilteredFirst
  <2> HIDE DEF others
  <2> QED
    BY <1>2, <2>3
<1> HIDE DEF others
<1>5. others # <<>> => others[1] \in Symbol
  BY <1>2
<1>6. Len(s) > 1 => s # <<>>
  BY <1>1
<1> QED
  BY <1>3, <1>4, <1>5, <1>6

(* Of the securities shown the last two are kept. *)
LEMMA TwoShown ==
  ASSUME NEW x \in Symbol, NEW before \in Seq(Symbol)
  PROVE  LET shown == Take(<<x>> \o before, 2)
         IN /\ shown \in Seq(Symbol) /\ Len(shown) <= 2
            /\ shown # <<>> /\ shown[1] = x
            /\ Len(shown) = 2 => before # <<>> /\ shown[2] = before[1]
<1> DEFINE t == <<x>> \o before
           shown == Take(t, 2)
<1>1. /\ t \in Seq(Symbol) /\ Len(t) = Len(before) + 1 /\ t[1] = x
      /\ \A i \in 1..Len(before) : t[i + 1] = before[i]
  BY PrependedFacts
<1> HIDE DEF t
<1>2. /\ shown \in Seq(Symbol) /\ Len(shown) <= 2
      /\ Len(shown) = Len(t) \/ Len(shown) = 2
      /\ \A i \in 1..Len(shown) : shown[i] = t[i]
      /\ Len(shown) <= Len(t)
  BY <1>1, TakeFacts
<1> HIDE DEF shown
<1>3. shown # <<>> /\ shown[1] = x
  <2>1. Len(before) \in Nat /\ Len(shown) \in Nat
    BY <1>2
  <2>2. Len(shown) = Len(before) + 1 \/ Len(shown) = 2
    BY <1>1, <1>2
  <2>3. 1 \in 1..Len(shown)
    BY <2>1, <2>2
  <2> QED
    BY <1>1, <1>2, <2>3
<1>4. ASSUME Len(shown) = 2 PROVE before # <<>> /\ shown[2] = before[1]
  <2>1. 1 \in 1..Len(before) /\ 2 \in 1..Len(shown) /\ 1 + 1 = 2
    BY <1>1, <1>2, <1>4
  <2> QED
    BY <1>1, <1>2, <2>1
<1> QED
  BY <1>2, <1>3, <1>4 DEF shown, t

(* A navigation leaves the page at hand and the securities shown. *)
LEMMA GoneThere ==
  ASSUME NEW w, NEW r, Goes(w, r)
  PROVE  /\ work' = w /\ route' = r /\ rendered' = rendered /\ trail' = trail
         /\ overtaken' = (overtaken \/ (r # route /\ rendered # route))
  BY DEF Goes

\* Where a step of the bar or the shell may lead, r, and the workspace w it
\* goes there with.
Leads(w, r) ==
  /\ DOMAIN w = DOMAIN InitialStore /\ w.recentTickers = work.recentTickers
  /\ \/ w.activeTicker = work.activeTicker /\ (r = route \/ r[1] # "/security")
     \/ /\ r[1] = "/security" /\ r[2] \in Text
        /\ w.activeTicker \in {work.activeTicker, Upper[r[2]]}

(* Wherever a command, a key or a link leads, it leaves the recent symbols *)
(* and the securities shown, and the active one is the last of those or    *)
(* that of the page on its way, unless it left a page before it was shown. *)
LEMMA GoingKeepsRecents ==
  ASSUME RecentsInv, NEW w, NEW r, Leads(w, r), Goes(w, r)
  PROVE  RecentsInv'
<1>1. /\ work' = w /\ route' = r /\ rendered' = rendered /\ trail' = trail
      /\ overtaken' = (overtaken \/ (r # route /\ rendered # route))
  BY GoneThere
<1>2. /\ DOMAIN w = DOMAIN InitialStore /\ w.recentTickers = work.recentTickers
      /\ \/ w.activeTicker = work.activeTicker /\ (r = route \/ r[1] # "/security")
         \/ /\ r[1] = "/security" /\ r[2] \in Text
            /\ w.activeTicker \in {work.activeTicker, Upper[r[2]]}
  BY DEF Leads
<1>3. work.activeTicker \in Symbol /\ w.activeTicker \in Symbol
  BY <1>2, SymbolsInUpper DEF RecentsInv
<1>4. r[1] = "/security" => r[2] \in Text
  BY <1>2 DEF RecentsInv
<1>5. ASSUME trail # <<>>, ~overtaken'
      PROVE  \/ w.activeTicker = trail[1]
             \/ /\ rendered # r /\ r[1] = "/security"
                /\ w.activeTicker = Upper[r[2]]
  <2>1. ~overtaken /\ (r = route \/ rendered = route)
    BY <1>1, <1>5
  <2>2. \/ work.activeTicker = trail[1]
        \/ /\ rendered # route /\ route[1] = "/security"
           /\ work.activeTicker = Upper[route[2]]
    BY <1>5, <2>1 DEF RecentsInv
  <2>3. rendered = r /\ r[1] = "/security" => trail[1] = Upper[r[2]]
    BY DEF RecentsInv
  <2> QED
    BY <1>2, <2>1, <2>2, <2>3
<1> QED
  BY <1>1, <1>2, <1>3, <1>4, <1>5 DEF RecentsInv

(* What the effects of a page do to the store. *)
LEMMA ArrivedThere ==
  ASSUME DOMAIN work = DOMAIN InitialStore, Arrives
  PROVE  /\ DOMAIN work' = DOMAIN InitialStore
         /\ work'.recentCommands = work.recentCommands
         /\ route[1] # "/security" =>
              /\ work'.activeTicker = work.activeTicker
              /\ work'.recentTickers = work.recentTickers
         /\ route[1] = "/security" =>
              /\ work'.activeTicker = Upper[route[2]]
              /\ work'.recentTickers = UniqHead(<<route[2]>> \o work.recentTickers, RecentLimit)
<1>1. work' = Arrived(work, route)
  BY DEF Arrives
<1>2. DOMAIN work = {"activeTicker", "watchlists", "activeWatchlistId", "recentTickers",
                     "compareTickers", "savedCompareSets", "recentCommands", "savedScreens",
                     "savedBacktests", "watchlistAnnotations", "lastRoute"}
  BY StoreFields
<1>3. CASE route[1] # "/security"
  BY <1>1, <1>2, <1>3 DEF Arrived, SetLastRoute
<1>4. CASE route[1] = "/security"
  BY <1>1, <1>2, <1>4 DEF Arrived, SetLastRoute, AddRecentTicker, SetActiveTicker
<1> QED
  BY <1>3, <1>4

(* The arrival at a page leaves the recent symbols, the active one and the *)
(* securities shown in step.                                               *)
LEMMA ArrivingKeepsRecents ==
  ASSUME RecentsInv, Arrives
  PROVE  RecentsInv'
<1> DEFINE r == route
           s == work.recentTickers
           u == UniqHead(<<r[2]>> \o s, RecentLimit)
<1>1. /\ IsSymbols(s, RecentLimit) /\ trail \in Seq(Symbol) /\ Len(trail) <= 2
      /\ work.activeTicker \in Symbol /\ DOMAIN work = DOMAIN InitialStore
  BY DEF RecentsInv
<1>2. /\ DOMAIN work' = DOMAIN InitialStore /\ route' = r /\ rendered' = r
      /\ overtaken' = (overtaken /\ r[1] # "/security") /\ rendered # r
      /\ trail' = IF r[1] = "/security" /\ (trail = <<>> \/ trail[1] # Upper[r[2]])
                  THEN Take(<<Upper[r[2]]>> \o trail, 2) ELSE trail
  BY <1>1, ArrivedThere DEF Arrives
<1>4. CASE r[1] # "/security"
  <2>1. /\ work'.activeTicker = work.activeTicker /\ work'.recentTickers = s
        /\ trail' = trail /\ (~overtaken' => ~overtaken)
    BY <1>1, <1>2, <1>4, ArrivedThere
  <2> QED
    BY <1>2, <1>4, <2>1 DEF RecentsInv
<1>5. CASE r[1] = "/security"
  <2>1. r[2] \in Text /\ Upper[r[2]] \in Symbol
    BY <1>5, SymbolsInUpper DEF RecentsInv
  <2>2. /\ work'.activeTicker = Upper[r[2]] /\ work'.recentTickers = u
        /\ trail' = IF trail = <<>> \/ trail[1] # Upper[r[2]]
                    THEN Take(<<Upper[r[2]]>> \o trail, 2) ELSE trail
    BY <1>1, <1>2, <1>5, ArrivedThere
  <2>3. /\ IsSymbols(u, RecentLimit) /\ u # <<>> /\ u[1] = Upper[r[2]]
        /\ s # <<>> /\ s[1] # Upper[r[2]] => Len(u) > 1 /\ u[2] = s[1]
        /\ Len(s) > 1 /\ s[1] = Upper[r[2]] => Len(u) > 1 /\ u[2] = s[2]
    BY <1>1, <2>1, RememberedFacts
  <2> HIDE DEF u, s
  <2>4. CASE trail = <<>> \/ trail[1] # Upper[r[2]]
    <3> DEFINE shown == Take(<<Upper[r[2]]>> \o trail, 2)
    <3>1. /\ shown \in Seq(Symbol) /\ Len(shown) <= 2
          /\ shown # <<>> /\ shown[1] = Upper[r[2]]
          /\ Len(shown) = 2 => trail # <<>> /\ shown[2] = trail[1]
      BY <1>1, <2>1, TwoShown
    <3>2. trail' = shown
      BY <2>2, <2>4
    <3> HIDE DEF shown
    <3>3. trail' \in Seq(Symbol) /\ Len(trail') <= 2
      BY <3>1, <3>2
    <3>4. trail' # <<>> /\ trail'[1] = Upper[r[2]]
      BY <3>1, <3>2
    <3>5. ASSUME Len(trail') = 2
          PROVE  Len(u) > 1 /\ u[2] = trail'[2] /\ trail'[1] # trail'[2]
      <4>1. trail # <<>> /\ trail'[2] = trail[1]
        BY <3>1, <3>2, <3>5
      <4>2. s # <<>> /\ s[1] = trail[1]
        BY <4>1 DEF RecentsInv, s
      <4> QED
        BY <2>3, <2>4, <3>4, <4>1, <4>2
    <3> QED
      BY <1>2, <2>1, <2>2, <2>3, <3>3, <3>4, <3>5 DEF RecentsInv
  <2>5. CASE trail # <<>> /\ trail[1] = Upper[r[2]]
    <3>1. trail' = trail /\ s # <<>> /\ s[1] = trail[1]
      BY <2>2, <2>5 DEF RecentsInv, s
    <3>2. Len(trail) = 2 => Len(u) > 1 /\ u[2] = trail[2] /\ trail[1] # trail[2]
      BY <2>3, <2>5, <3>1 DEF RecentsInv, s
    <3> QED
      BY <1>1, <1>2, <2>1, <2>2, <2>3, <2>5, <3>1, <3>2 DEF RecentsInv
  <2> QED
    BY <2>4, <2>5
<1> QED
  BY <1>4, <1>5

-----------------------------------------------------------------------------
(* The commands.                                                           *)

\* CommandsInv but for the search, which commands leave alone.
Remembers ==
  /\ DOMAIN work = DOMAIN InitialStore
  /\ commandValue \in Text
  /\ work.recentCommands \in Seq(Runnable) /\ syncing \in Seq(Runnable)

(* An empty field is a text. *)
LEMMA EmptyIsText == "" \in Text
BY VocabularyAssumption

(* A command that ran is put in front of the recents and is one the bar    *)
(* can run again.                                                          *)
LEMMA RanKeeps ==
  ASSUME CommandsInv, RecentsInv, NEW c, NEW ok \in BOOLEAN, ok => c \in Runnable,
         NEW w, NEW r, Leads(w, r), w.recentCommands = work.recentCommands, Ran(c, ok, w, r)
  PROVE  RecentsInv' /\ Remembers'
<1> DEFINE v == IF ok THEN AddRecentCommand(w, c) ELSE w
<1>1. /\ Goes(v, r) /\ commandValue' \in {"", commandValue} /\ syncing' = syncing
  BY DEF Ran
<1>2. DOMAIN w = {"activeTicker", "watchlists", "activeWatchlistId", "recentTickers",
                  "compareTickers", "savedCompareSets", "recentCommands", "savedScreens",
                  "savedBacktests", "watchlistAnnotations", "lastRoute"}
  BY StoreFields DEF Leads
<1>3. /\ DOMAIN v = DOMAIN w
      /\ v.recentTickers = w.recentTickers /\ v.activeTicker = w.activeTicker
  BY <1>2 DEF AddRecentCommand
<1>4. v.recentCommands \in Seq(Runnable)
  <2>1. work.recentCommands \in Seq(Runnable)
    BY DEF CommandsInv
  <2>2. CASE ok
    <3>1. UniqCommands(<<c>> \o work.recentCommands, RecentLimit) \in Seq(Runnable)
      BY <2>1, <2>2, RememberedCommands
    <3>2. v.recentCommands = UniqCommands(<<c>> \o w.recentCommands, RecentLimit)
      BY <1>2, <2>2 DEF AddRecentCommand
    <3> QED
      BY <3>1, <3>2
  <2>3. CASE ~ ok
    BY <2>1, <2>3
  <2> QED
    BY <2>2, <2>3
<1> HIDE DEF v
<1>5. Leads(v, r)
  BY <1>3 DEF Leads
<1>6. RecentsInv'
  BY <1>1, <1>5, GoingKeepsRecents
<1>7. DOMAIN work' = DOMAIN InitialStore /\ work'.recentCommands = v.recentCommands
  BY <1>1, <1>5, GoneThere DEF Leads
<1> QED
  BY <1>1, <1>4, <1>6, <1>7, EmptyIsText DEF Remembers, CommandsInv

(* A command leaves what can be run again and the recent symbols in step. *)
LEMMA SubmitKeeps ==
  ASSUME CommandsInv, RecentsInv, NEW c \in Text, Submit(c)
  PROVE  RecentsInv' /\ Remembers'
<1> DEFINE command == Parse(c)
           previous == Previous(work.recentTickers)
<1>1. Tokens[c] \in Seq(STRING) /\ TickerTokens \subseteq Text
  BY VocabularyAssumption
<1>2. /\ command.kind = "security" => command.ticker \in Text
      /\ command.kind = "compare" => command.tickers[1] \in Text
      /\ command.kind = "route" => command.path # "/security"
  BY <1>1, ParsedFacts DEF Parse
<1>3. previous # Gone => previous \in Text
  BY PreviousFacts, SymbolsInUpper DEF RecentsInv
<1>4. command.kind # "invalid" => c \in Runnable
  BY DEF Runnable
<1>5. DOMAIN work = {"activeTicker", "watchlists", "activeWatchlistId", "recentTickers",
                     "compareTickers", "savedCompareSets", "recentCommands", "savedScreens",
                     "savedBacktests", "watchlistAnnotations", "lastRoute"}
  BY StoreFields DEF RecentsInv
<1>6. DOMAIN work = DOMAIN InitialStore
  BY DEF RecentsInv
<1>7. \A p, x : /\ Security(x)[1] = "/security" /\ Security(x)[2] = x
                /\ At(p)[1] = p
  BY DEF Security, At
<1> HIDE DEF command, previous
<1>8. CASE command.kind = "invalid" /\ Ran(c, FALSE, work, route)
  <2>1. Leads(work, route)
    BY <1>6 DEF Leads
  <2> QED
    BY <1>8, <2>1, RanKeeps
<1>9. CASE command.kind = "help" /\ Ran(c, TRUE, work, route)
  <2>1. Leads(work, route)
    BY <1>6 DEF Leads
  <2> QED
    BY <1>4, <1>9, <2>1, RanKeeps
<1>10. CASE /\ command.kind = "history"
            /\ IF previous = Gone THEN Ran(c, FALSE, work, route)
               ELSE Ran(c, TRUE, work, Security(previous))
  <2>1. Leads(work, route)
    BY <1>6 DEF Leads
  <2>2. previous # Gone => Leads(work, Security(previous))
    BY <1>3, <1>6, <1>7 DEF Leads
  <2>3. CASE previous = Gone
    BY <1>10, <2>1, <2>3, RanKeeps
  <2>4. CASE previous # Gone
    BY <1>4, <1>10, <2>2, <2>4, RanKeeps
  <2> QED
    BY <2>3, <2>4
<1>11. CASE /\ command.kind = "watchlist"
            /\ Ran(c, TRUE, IF command.action = "show" THEN work
                            ELSE ToggleWatchlist(work, command.ticker, work.activeWatchlistId),
                   route)
  <2> DEFINE w == IF command.action = "show" THEN work
                  ELSE ToggleWatchlist(work, command.ticker, work.activeWatchlistId)
  <2>1. /\ DOMAIN w = DOMAIN work /\ w.recentTickers = work.recentTickers
        /\ w.activeTicker = work.activeTicker /\ w.recentCommands = work.recentCommands
    BY <1>5 DEF ToggleWatchlist
  <2> HIDE DEF w
  <2>2. Leads(w, route)
    BY <1>6, <2>1 DEF Leads
  <2>3. Ran(c, TRUE, w, route)
    BY <1>11 DEF w
  <2> QED
    BY <1>4, <1>11, <2>1, <2>2, <2>3, RanKeeps
<1>12. CASE /\ command.kind = "compare"
            /\ Ran(c, TRUE, SetCompareTickers(work, command.tickers \o work.compareTickers),
                   Security(command.tickers[1]))
  <2> DEFINE w == SetCompareTickers(work, command.tickers \o work.compareTickers)
  <2>1. /\ DOMAIN w = DOMAIN work /\ w.recentTickers = work.recentTickers
        /\ w.activeTicker = work.activeTicker /\ w.recentCommands = work.recentCommands
    BY <1>5 DEF SetCompareTickers
  <2> HIDE DEF w
  <2>2. Leads(w, Security(command.tickers[1]))
    BY <1>2, <1>6, <1>7, <1>12, <2>1 DEF Leads
  <2>3. Ran(c, TRUE, w, Security(command.tickers[1]))
    BY <1>12 DEF w
  <2> QED
    BY <1>4, <1>12, <2>1, <2>2, <2>3, RanKeeps
<1>13. CASE command.kind = "route" /\ Ran(c, TRUE, work, At(command.path))
  <2>1. Leads(work, At(command.path))
    BY <1>2, <1>6, <1>7, <1>13 DEF Leads
  <2> QED
    BY <1>4, <1>13, <2>1, RanKeeps
<1>14. CASE /\ command.kind = "security"
            /\ Ran(c, TRUE, SetActiveTicker(work, command.ticker), Security(command.ticker))
  <2> DEFINE w == SetActiveTicker(work, command.ticker)
  <2>1. /\ DOMAIN w = DOMAIN work /\ w.recentTickers = work.recentTickers
        /\ w.activeTicker = Upper[command.ticker] /\ w.recentCommands = work.recentCommands
    BY <1>5 DEF SetActiveTicker
  <2> HIDE DEF w
  <2>2. Leads(w, Security(command.ticker))
    BY <1>2, <1>6, <1>7, <1>14, <2>1 DEF Leads
  <2>3. Ran(c, TRUE, w, Security(command.ticker))
    BY <1>14 DEF w
  <2> QED
    BY <1>4, <1>14, <2>1, <2>2, <2>3, RanKeeps
<1>15. CASE /\ command.kind = "sync"
            /\ syncing' = Append(syncing, c)
            /\ UNCHANGED <<work, place, commandValue>>
  <2>1. c \in Runnable
    BY <1>4, <1>15
  <2>2. syncing' \in Seq(Runnable)
    BY <1>15, <2>1 DEF CommandsInv
  <2> QED
    BY <1>15, <2>2 DEF RecentsInv, CommandsInv, Remembers, place
<1> QED
  BY <1>8, <1>9, <1>10, <1>11, <1>12, <1>13, <1>14, <1>15 DEF Submit, command, previous

(* What is on offer was remembered or found. *)
LEMMA ResultsAreText ==
  ASSUME CommandsInv
  PROVE  \A i \in DOMAIN CommandResults : CommandResults[i] \in Text
<1>1. CASE Tokens[commandValue] = <<>>
  <2>1. work.recentCommands \in Seq(Text)
    BY DEF CommandsInv, Runnable
  <2> QED
    BY <1>1, <2>1 DEF CommandResults
<1>2. CASE Tokens[commandValue] # <<>>
  <2>1. CommandResults = Mapped(SearchResults, Des)
    BY <1>2 DEF CommandResults
  <2>2. \A i \in DOMAIN SearchResults : SearchResults[i] \o " DES" \in Text
    <3>1. CASE FirstToken \notin DOMAIN found \/ found[FirstToken] = Gone
      <4>1. DOMAIN SearchResults = {}
        BY <3>1 DEF SearchResults
      <4> QED
        BY <4>1
    <3>2. CASE FirstToken \in DOMAIN found /\ found[FirstToken] # Gone
      <4>1. FirstToken \in DOMAIN Hits /\ SearchResults = Hits[FirstToken]
        BY <3>2 DEF SearchResults, CommandsInv
      <4> QED
        BY <4>1, VocabularyAssumption
    <3> QED
      BY <3>1, <3>2
  <2> QED
    BY <2>1, <2>2 DEF Mapped, Des
<1> QED
  BY <1>1, <1>2

(* The answer to SYNC touches only its notice. *)
LEMMA AnsweredSyncKeeps ==
  ASSUME CommandsInv, RecentsInv, SyncAnswered \/ SyncFailed
  PROVE  RecentsInv' /\ Remembers'
<1>1. PICK i \in DOMAIN syncing :
        /\ \/ /\ work' = AddRecentCommand(work, syncing[i]) /\ commandValue' = ""
           \/ UNCHANGED <<work, commandValue>>
        /\ syncing' = RemoveAt(syncing, i)
  BY DEF SyncAnswered, SyncFailed, field
<1>2. UNCHANGED place
  BY DEF SyncAnswered, SyncFailed
<1>3. syncing \in Seq(Runnable) /\ syncing[i] \in Runnable /\ work.recentCommands \in Seq(Runnable)
  BY DEF CommandsInv
<1>4. syncing' \in Seq(Runnable)
  <2>1. i \in 1..Len(syncing)
    BY <1>3
  <2>2. /\ SubSeq(syncing, 1, i - 1) \in Seq(Runnable)
        /\ SubSeq(syncing, i + 1, Len(syncing)) \in Seq(Runnable)
    BY <1>3, <2>1
  <2>3. SubSeq(syncing, 1, i - 1) \o SubSeq(syncing, i + 1, Len(syncing)) \in Seq(Runnable)
    BY <2>2
  <2>4. RemoveAt(syncing, i) \in Seq(Runnable)
    BY <2>3 DEF RemoveAt
  <2> QED
    BY <1>1, <2>4
<1>5. DOMAIN work = {"activeTicker", "watchlists", "activeWatchlistId", "recentTickers",
                     "compareTickers", "savedCompareSets", "recentCommands", "savedScreens",
                     "savedBacktests", "watchlistAnnotations", "lastRoute"}
  BY StoreFields DEF RecentsInv
<1>6. UniqCommands(<<syncing[i]>> \o work.recentCommands, RecentLimit) \in Seq(Runnable)
  BY <1>3, RememberedCommands
<1>7. CASE work' = AddRecentCommand(work, syncing[i]) /\ commandValue' = ""
  <2>1. /\ DOMAIN work' = DOMAIN work
        /\ work'.recentTickers = work.recentTickers /\ work'.activeTicker = work.activeTicker
        /\ work'.recentCommands = UniqCommands(<<syncing[i]>> \o work.recentCommands, RecentLimit)
    BY <1>5, <1>7 DEF AddRecentCommand
  <2>2. RecentsInv'
    BY <1>2, <2>1 DEF RecentsInv, place
  <2>3. Remembers'
    BY <1>4, <1>6, <1>7, <2>1, EmptyIsText DEF Remembers, CommandsInv
  <2> QED
    BY <2>2, <2>3
<1>8. CASE UNCHANGED <<work, commandValue>>
  BY <1>2, <1>4, <1>8 DEF RecentsInv, Remembers, CommandsInv, place
<1> QED
  BY <1>1, <1>7, <1>8

(* The keys of the shell and the links go somewhere and remember nothing. *)
LEMMA ShellKeeps ==
  ASSUME CommandsInv, RecentsInv, PressDest \/ Jump \/ FollowLink
  PROVE  RecentsInv' /\ Remembers'
<1>1. /\ UNCHANGED <<commandValue, syncing>>
      /\ \/ UNCHANGED <<work, place>>
         \/ \E path \in NavPaths : Goes(work, At(path))
         \/ \E ticker \in Links \cup {work.activeTicker} : Goes(work, Security(ticker))
         \/ /\ Previous(work.recentTickers) # Gone
            /\ Goes(work, Security(Previous(work.recentTickers)))
  BY DEF PressDest, Jump, FollowLink, field
<1>2. DOMAIN work = DOMAIN InitialStore
  BY DEF RecentsInv
<1>3. ASSUME NEW r, Leads(work, r), Goes(work, r) PROVE RecentsInv' /\ Remembers'
  <2>1. RecentsInv'
    BY <1>3, GoingKeepsRecents
  <2>2. DOMAIN work' = DOMAIN InitialStore /\ work'.recentCommands = work.recentCommands
    BY <1>2, <1>3, GoneThere
  <2> QED
    BY <1>1, <2>1, <2>2 DEF Remembers, CommandsInv
<1>4. CASE UNCHANGED <<work, place>>
  BY <1>1, <1>4 DEF RecentsInv, Remembers, CommandsInv, place
<1>5. ASSUME NEW path \in NavPaths, Goes(work, At(path)) PROVE RecentsInv' /\ Remembers'
  <2>1. Leads(work, At(path))
    BY <1>2 DEF Leads, At, NavPaths
  <2> QED
    BY <1>3, <1>5, <2>1
<1>6. ASSUME NEW ticker \in Text, Goes(work, Security(ticker)) PROVE RecentsInv' /\ Remembers'
  <2>1. Leads(work, Security(ticker))
    BY <1>2 DEF Leads, Security
  <2> QED
    BY <1>3, <1>6, <2>1
<1>7. /\ Links \cup {work.activeTicker} \subseteq Text
      /\ Previous(work.recentTickers) # Gone => Previous(work.recentTickers) \in Text
  BY VocabularyAssumption, SymbolsInUpper, PreviousFacts DEF RecentsInv
<1> QED
  BY <1>1, <1>4, <1>5, <1>6, <1>7

(* No command has been run at the start. *)
LEMMA InitBar == BarInit => CommandsInv /\ RecentsInv
<1> SUFFICES ASSUME BarInit PROVE CommandsInv /\ RecentsInv
  OBVIOUS
<1>1. /\ work = InitialStore /\ route[1] = "/" /\ rendered = route
      /\ trail = <<>> /\ syncing = <<>>
      /\ commandValue = "" /\ found = [x \in DOMAIN Hits |-> Gone]
  BY DEF BarInit, At
<1>2. /\ work.recentCommands = <<>> /\ work.activeTicker = "SPY"
      /\ work.recentTickers = FirstRecents
  BY <1>1 DEF InitialStore
<1>3. CommandsInv
  <2>1. <<>> \in Seq(Runnable)
    OBVIOUS
  <2>2. DOMAIN found = DOMAIN Hits /\ \A x \in DOMAIN found : found[x] \in {Gone, Hits[x]}
    BY <1>1
  <2>3. /\ DOMAIN work = DOMAIN InitialStore /\ commandValue \in Text
        /\ work.recentCommands \in Seq(Runnable) /\ syncing \in Seq(Runnable)
    BY <1>1, <1>2, <2>1, EmptyIsText
  <2> QED
    BY <2>2, <2>3 DEF CommandsInv
<1>4. RecentsInv
  <2>1. trail \in Seq(Symbol) /\ Len(trail) = 0
    <3>1. <<>> \in Seq(Symbol) /\ Len(<<>>) = 0
      OBVIOUS
    <3> QED
      BY <1>1, <3>1
  <2>2. DOMAIN work = DOMAIN InitialStore
    BY <1>1
  <2>3. work.activeTicker \in Symbol /\ IsSymbols(work.recentTickers, RecentLimit)
    BY <1>2, DefaultsAssumption
  <2>4. route[1] # "/security" /\ rendered[1] # "/security" /\ trail = <<>>
    BY <1>1
  <2> QED
    BY <2>1, <2>2, <2>3, <2>4 DEF RecentsInv
<1> QED
  BY <1>3, <1>4

(* Every step keeps the recents to commands that can be run again. *)
LEMMA BarStep ==
  ASSUME CommandsInv, RecentsInv, [BarNext]_barVars
  PROVE  CommandsInv' /\ RecentsInv'
<1>1. ASSUME RecentsInv', Remembers', UNCHANGED found PROVE CommandsInv' /\ RecentsInv'
  BY <1>1 DEF CommandsInv, Remembers
<1>2. ASSUME UNCHANGED <<work, place, syncing>>, commandValue' \in Text
      PROVE  RecentsInv' /\ Remembers'
  BY <1>2 DEF CommandsInv, RecentsInv, Remembers, place
<1>3. CASE Enter \/ Clicked
  <2>1. PICK c \in Text : Submit(c)
    <3>1. Hints \subseteq Text /\ commandValue \in Text
      BY VocabularyAssumption DEF CommandsInv
    <3> QED
      BY <1>3, <3>1, ResultsAreText DEF Enter, Clicked
  <2>2. UNCHANGED found
    BY <1>3 DEF Enter, Clicked
  <2> QED
    BY <1>1, <2>1, <2>2, SubmitKeeps
<1>4. CASE SyncAnswered \/ SyncFailed
  <2>1. UNCHANGED found
    BY <1>4 DEF SyncAnswered, SyncFailed
  <2> QED
    BY <1>1, <1>4, <2>1, AnsweredSyncKeeps
<1>5. CASE PressDest \/ Jump \/ FollowLink
  <2>1. UNCHANGED found
    BY <1>5 DEF PressDest, Jump, FollowLink
  <2> QED
    BY <1>1, <1>5, <2>1, ShellKeeps
<1>6. CASE Types \/ Debounce \/ Arrow \/ Escape \/ Blur \/ FocusCommandBar \/ PressG
           \/ GForgotten \/ UNCHANGED barVars
  <2>1. /\ UNCHANGED <<work, place, syncing, found>>
        /\ commandValue' \in Typed \cup {"", commandValue}
    BY <1>6 DEF Types, Debounce, Arrow, Escape, Blur, FocusCommandBar, PressG, GForgotten,
                barVars, field
  <2>2. commandValue' \in Text
    BY <2>1, VocabularyAssumption DEF CommandsInv
  <2> QED
    BY <1>1, <1>2, <2>1, <2>2
<1>7. CASE SearchAnswered \/ SearchForgotten
  <2>1. UNCHANGED <<work, place, syncing, commandValue>>
    BY <1>7 DEF SearchAnswered, SearchForgotten, field
  <2>2. /\ DOMAIN found' = DOMAIN Hits
        /\ \A x \in DOMAIN found' : found'[x] \in {Gone, Hits[x]}
    BY <1>7 DEF SearchAnswered, SearchForgotten, CommandsInv
  <2> QED
    BY <2>1, <2>2 DEF CommandsInv, RecentsInv, place
<1>8. CASE Arrives
  <2>1. /\ RecentsInv' /\ UNCHANGED <<found, commandValue, syncing>>
        /\ DOMAIN work' = DOMAIN InitialStore /\ work'.recentCommands = work.recentCommands
    BY <1>8, ArrivingKeepsRecents, ArrivedThere DEF RecentsInv, Arrives, field
  <2> QED
    BY <1>1, <2>1 DEF CommandsInv, Remembers
<1> QED
  BY <1>3, <1>4, <1>5, <1>6, <1>7, <1>8 DEF BarNext

(***************************************************************************)
(* The inductive invariant of the command bar: every command in it and     *)
(* every one remembered is one it can run (CommandBar.tsx,                 *)
(* terminalStore.ts pushRecentCommand).                                    *)
(***************************************************************************)
THEOREM BarInvariant == BarSpec => [](CommandsInv /\ RecentsInv)
<1>1. BarInit => CommandsInv /\ RecentsInv
  BY InitBar
<1>2. CommandsInv /\ RecentsInv /\ [BarNext]_barVars => (CommandsInv /\ RecentsInv)'
  BY BarStep
<1> QED
  BY <1>1, <1>2, PTL DEF BarSpec

(* What the empty field offers to run again can be run, whenever the answer *)
(* came that had it remembered and whatever the field held by then.         *)
THEOREM RecentsAlwaysRun == BarSpec => []RecentsRun
<1>1. CommandsInv => RecentsRun
  BY DEF CommandsInv, RecentsRun, Runnable
<1> QED
  BY <1>1, BarInvariant, PTL

(* "[" and LAST lead to the security shown before, however the pages were  *)
(* reached or left; g s leads to the one shown last, unless a page was left *)
(* before it was shown.                                                     *)
THEOREM RecentsAlwaysFollowRoutes == BarSpec => []RecentsFollowRoutes
<1>1. RecentsInv => RecentsFollowRoutes
  <2> SUFFICES ASSUME RecentsInv PROVE RecentsFollowRoutes
    OBVIOUS
  <2>1. Len(trail) = 2 => Previous(work.recentTickers) = trail[2]
    BY PreviousFacts DEF RecentsInv
  <2> QED
    BY <2>1 DEF RecentsInv, RecentsFollowRoutes
<1> QED
  BY <1>1, BarInvariant, PTL
=============================================================================
