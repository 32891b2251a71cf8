------------------------------- MODULE Research -------------------------------
(***************************************************************************)
(* The screener's and the backtest's page (frontend/src/pages/             *)
(* ScreenerPage.tsx, BacktestPage.tsx, components/strategy and             *)
(* lib/strategy.ts): a strategy's draft and its rule stacks, the entry of  *)
(* localStorage each page keeps its draft in, saved drafts, the definition *)
(* a draft becomes, and the runs whose answers come back to a page that    *)
(* may have gone on.                                                       *)
(*                                                                         *)
(* The answer to a run stands for the definition it was asked with.  Of    *)
(* the fields of a draft the ticker, the universe and one field of each    *)
(* kind of number are kept, of a rule what decides which sides its leg     *)
(* has.                                                                    *)
(***************************************************************************)
EXTENDS Integers, Lists, FiniteSets, SequencesExt

CONSTANTS
  Symbols,       \* tickers, as they are typed and linked to
  Capital,       \* toUpperCase of them
  Numerals,      \* what is typed where a number is meant
  Number,        \* what Number() makes of a text; NaN is sent as null
  Universes,     \* what is typed as the universe, split at its commas
  RuleIds,       \* what crypto.randomUUID returns
  ShownSaved,    \* saved drafts a page lists: 4
  KeptSaved,     \* saved drafts the store keeps: 12
  Nothing,       \* null or undefined
  MaxActs,       \* bound: edits, runs and visits
  MaxFlights     \* bound: runs that have not been answered

VARIABLES
  at,            \* the page: "screener", "backtest" or "elsewhere"
  param,         \* ?ticker= of the backtest's route, or Nothing
  draft,         \* page: its draft while it is shown
  entry,         \* page: its entry of localStorage
  savedDrafts,   \* page: drafts saved in the store, latest first
  observed,      \* kind of run: what the page's useMutation shows of it
  flights,       \* runs on the way: [kind, run, sent]
  spareRules,    \* ids not given out yet
  left,          \* history: page: the draft shown when it was left
  wanted,        \* history: kind: what the run last asked for has sent
  acts

researchVars == <<at, param, draft, entry, savedDrafts, observed, flights, spareRules,
                  left, wanted, acts>>

Places == {"screener", "backtest"}

\* The runs a page can ask for.
Kinds(p) == IF p = "backtest" THEN {"screen", "backtest"} ELSE {"screen"}

-----------------------------------------------------------------------------
(* lib/strategy.ts                                                         *)

MetricRule(id) == [id |-> id, mode |-> "metric", threshold |-> ""]

\* createDefaultStrategyDraft; its ids are like no other.
DefaultStrategy ==
  LET ValueRule(id, text) == [MetricRule(id) EXCEPT !.mode = "value", !.threshold = text]
  IN [ ticker |-> "SPY", universe |-> <<>>, initialCapital |-> "100000",
       stopLossPct |-> "8",
       entryRules |-> <<MetricRule("e1"), ValueRule("e2", "55")>>,
       exitRules |-> <<MetricRule("x1"), ValueRule("x2", "45")>> ]

\* Number(text || otherwise).
Numeric(text, otherwise) == IF text = "" THEN Number[otherwise] ELSE Number[text]

ToLeg(rule) ==
  [ compare_to_metric |-> IF rule.mode = "metric" THEN "metric" ELSE Nothing,
    threshold |-> IF rule.mode = "value" THEN Numeric(rule.threshold, "0") ELSE Nothing ]

ParseUniverse(pieces) ==
  LET clean == Where([i \in DOMAIN pieces |-> Capital[pieces[i]]], LAMBDA x : x # "")
  IN IF clean = <<>> THEN Nothing ELSE clean

Legs(rules) == [i \in DOMAIN rules |-> ToLeg(rules[i])]

\* rules[0] is undefined when there are none.
First(legs) == IF legs = <<>> THEN Nothing ELSE legs[1]

BuildStrategyDefinition(d) ==
  LET entryLegs == Legs(d.entryRules)
      exitLegs == Legs(d.exitRules)
  IN [ entry |-> First(entryLegs), exit |-> First(exitLegs),
       entry_filters |-> SubSeq(entryLegs, 2, Len(entryLegs)),
       exit_filters |-> SubSeq(exitLegs, 2, Len(exitLegs)),
       universe |-> ParseUniverse(d.universe),
       initial_capital |-> Numeric(d.initialCapital, "100000"),
       stop_loss_pct |-> IF d.stopLossPct = "" THEN Nothing ELSE Number[d.stopLossPct] ]

-----------------------------------------------------------------------------
(* StrategyWorkbench                                                       *)

Stacks == {"entryRules", "exitRules"}

Updated(rules, id, Change(_)) ==
  [i \in DOMAIN rules |-> IF rules[i].id = id THEN Change(rules[i]) ELSE rules[i]]

\* The button is disabled on a stack's only rule.
Dropped(rules, id) ==
  IF Len(rules) = 1 THEN rules ELSE Where(rules, LAMBDA rule : rule.id # id)

Rewrites(rules) ==
  UNION { {Dropped(rules, id),
           Updated(rules, id, LAMBDA rule : [rule EXCEPT !.mode =
                     IF @ = "metric" THEN "value" ELSE "metric"])}
          \cup {Updated(rules, id, LAMBDA rule :
                  IF rule.mode = "value" THEN [rule EXCEPT !.threshold = text] ELSE rule) :
                text \in Numerals} :
          id \in {rules[i].id : i \in DOMAIN rules} }

Edited(d, withTicker) ==
  UNION { {[d EXCEPT ![stack] = rules] : rules \in Rewrites(d[stack])} : stack \in Stacks }
  \cup { [d EXCEPT !.initialCapital = text] : text \in Numerals }
  \cup { [d EXCEPT !.stopLossPct = text] : text \in Numerals }
  \cup { [d EXCEPT !.universe = pieces] : pieces \in Universes }
  \cup (IF withTicker THEN { [d EXCEPT !.ticker = Capital[x]] : x \in Symbols } ELSE {})

-----------------------------------------------------------------------------
(* The pages                                                               *)

Idle == [run |-> 0, pending |-> FALSE, failed |-> FALSE, data |-> Nothing]

ResearchInit ==
  /\ at = "elsewhere" /\ param = Nothing
  /\ draft = [p \in Places |-> DefaultStrategy]
  /\ entry = [p \in Places |-> Nothing]
  /\ savedDrafts = [p \in Places |-> <<>>]
  /\ observed = [k \in Kinds("backtest") |-> Idle]
  /\ flights = {} /\ spareRules = RuleIds
  /\ left = [p \in Places |-> Nothing]
  /\ wanted = [k \in Kinds("backtest") |-> Nothing]
  /\ acts = 0

Acts == acts < MaxActs /\ acts' = acts + 1

\* Mutation: what is stored is the draft before the change.
PutsEarlier(p, d) ==
  /\ draft' = [draft EXCEPT ![p] = d]
  /\ entry' = [entry EXCEPT ![p] = draft[p]]

\* The page shows d, and its effect stores it.
Puts(p, d) ==
  /\ draft' = [draft EXCEPT ![p] = d]
  /\ entry' = [entry EXCEPT ![p] = d]

WithTicker(d, x) == IF x = Nothing THEN d ELSE [d EXCEPT !.ticker = Capital[x]]

\* loadJsonState, over which the route's ticker is put.
Loaded(p, x) == WithTicker(IF entry[p] = Nothing THEN DefaultStrategy ELSE entry[p], x)

\* The page at hand goes, and with it the observers of its runs.
Leaves ==
  /\ left' = IF at = "elsewhere" THEN left ELSE [left EXCEPT ![at] = draft[at]]
  /\ observed' = [k \in DOMAIN observed |-> Idle]
  /\ wanted' = [k \in DOMAIN wanted |-> Nothing]

Opened ==
  /\ \E p \in Places \ {at}, x \in Symbols \cup {Nothing} :
       /\ x = Nothing \/ p = "backtest"
       /\ at' = p /\ param' = x
       /\ Puts(p, Loaded(p, x))
  /\ Leaves
  /\ UNCHANGED <<savedDrafts, flights, spareRules, acts>>

Closed ==
  /\ at # "elsewhere" /\ at' = "elsewhere" /\ param' = Nothing
  /\ Leaves
  /\ UNCHANGED <<draft, entry, savedDrafts, flights, spareRules, acts>>

\* Back or forward between two routes of the backtest's page.
ParamChanged ==
  /\ at = "backtest" /\ Acts
  /\ \E x \in (Symbols \cup {Nothing}) \ {param} :
       param' = x /\ Puts("backtest", WithTicker(draft["backtest"], x))
  /\ UNCHANGED <<at, savedDrafts, observed, flights, spareRules, left, wanted>>

Edit ==
  /\ at # "elsewhere" /\ Acts
  /\ \E d \in Edited(draft[at], at = "backtest") \ {draft[at]} : Puts(at, d)
  /\ UNCHANGED <<at, param, savedDrafts, observed, flights, spareRules, left, wanted>>

AddRule ==
  /\ at # "elsewhere" /\ Acts
  /\ \E stack \in Stacks, id \in spareRules :
       /\ spareRules' = spareRules \ {id}
       /\ Puts(at, [draft[at] EXCEPT ![stack] = Append(@, MetricRule(id))])
  /\ UNCHANGED <<at, param, savedDrafts, observed, flights, left, wanted>>

Save ==
  /\ at # "elsewhere" /\ Acts
  /\ savedDrafts' = [savedDrafts EXCEPT ![at] =
       LET all == <<draft[at]>> \o @ IN SubSeq(all, 1, Min({Len(all), KeptSaved}))]
  /\ UNCHANGED <<at, param, draft, entry, observed, flights, spareRules, left, wanted>>

\* setDraft(item.draft).
LoadSaved ==
  /\ at # "elsewhere" /\ Acts
  /\ \E i \in DOMAIN savedDrafts[at] : i <= ShownSaved /\ Puts(at, savedDrafts[at][i])
  /\ UNCHANGED <<at, param, savedDrafts, observed, flights, spareRules, left, wanted>>

\* RUN SCREEN, RUN BACKTEST and REFRESH MATCHES are there while one is
\* running: the page now observes the later run.
Run ==
  /\ at # "elsewhere" /\ Acts
  /\ Cardinality(flights) < MaxFlights
  /\ \E k \in Kinds(at) :
       LET sent == [ticker |-> IF k = "backtest" THEN Capital[draft[at].ticker] ELSE Nothing,
                    strategy |-> BuildStrategyDefinition(draft[at])]
           run == acts + 1
       IN /\ flights' = flights \cup {[kind |-> k, run |-> run, sent |-> sent]}
          /\ observed' = [observed EXCEPT ![k] = [Idle EXCEPT !.run = run, !.pending = TRUE]]
          /\ wanted' = [wanted EXCEPT ![k] = sent]
  /\ UNCHANGED <<at, param, draft, entry, savedDrafts, spareRules, left>>

\* Mutation: whatever is answered is shown.
HeardAny(flight, seen) == [seen EXCEPT ![flight.kind] = [@ EXCEPT
  !.pending = FALSE, !.data = flight.sent]]

\* The observer follows the run its page asked for last.
Heard(flight, seen) ==
  IF seen[flight.kind].run # flight.run THEN seen
  ELSE [seen EXCEPT ![flight.kind] = [@ EXCEPT !.pending = FALSE, !.data = flight.sent]]

RunAnswered ==
  /\ \E flight \in flights :
       flights' = flights \ {flight} /\ observed' = Heard(flight, observed)
  /\ UNCHANGED <<at, param, draft, entry, savedDrafts, spareRules, left, wanted, acts>>

RunFailed ==
  /\ \E flight \in flights :
       /\ flights' = flights \ {flight}
       /\ observed' =
            IF observed[flight.kind].run # flight.run THEN observed
            ELSE [observed EXCEPT ![flight.kind] =
                    [@ EXCEPT !.pending = FALSE, !.failed = TRUE]]
  /\ UNCHANGED <<at, param, draft, entry, savedDrafts, spareRules, left, wanted, acts>>

\* RESET of the screener: the defaults, and no result.
Reset ==
  /\ at = "screener" /\ Acts
  /\ Puts(at, DefaultStrategy)
  /\ observed' = [observed EXCEPT !["screen"] = Idle]
  /\ wanted' = [wanted EXCEPT !["screen"] = Nothing]
  /\ UNCHANGED <<at, param, savedDrafts, flights, spareRules, left>>

ResearchNext ==
  \/ Opened \/ Closed \/ ParamChanged \/ Edit \/ AddRule \/ Save \/ LoadSaved
  \/ Run \/ RunAnswered \/ RunFailed \/ Reset

ResearchSpec == ResearchInit /\ [][ResearchNext]_researchVars

-----------------------------------------------------------------------------
(* What the pages show                                                     *)

\* currentMatches of the backtest's page: the backtest's own come first.
\* Each match list stands for what was sent for it.
CurrentMatches ==
  IF observed["backtest"].data # Nothing THEN observed["backtest"].data
  ELSE observed["screen"].data

-----------------------------------------------------------------------------
(* Properties                                                              *)

IsDraft(d) ==
  /\ d.ticker \in {Capital[x] : x \in Symbols}
  /\ \A stack \in Stacks : \A i \in DOMAIN d[stack] :
       d[stack][i].mode \in {"metric", "value"} /\ d[stack][i].threshold \in Numerals \cup DOMAIN Number

\* Drafts are drafts wherever they are kept, and a run is shown as pending
\* only while an answer to it can come.
ResearchTypeOK ==
  /\ at \in Places \cup {"elsewhere"} /\ param \in Symbols \cup {Nothing}
  /\ \A p \in Places :
       /\ IsDraft(draft[p]) /\ (entry[p] = Nothing \/ IsDraft(entry[p]))
       /\ Len(savedDrafts[p]) <= KeptSaved
       /\ \A i \in DOMAIN savedDrafts[p] : IsDraft(savedDrafts[p][i])
  /\ \A k \in DOMAIN observed : observed[k].pending =>
       \E flight \in flights : flight.kind = k /\ flight.run = observed[k].run
  /\ spareRules \subseteq RuleIds /\ acts \in 0..MaxActs
  /\ Cardinality(flights) <= MaxFlights

\* A result is the answer to the run asked for last on this page, however
\* many are under way and in whatever order they are answered; after a reset
\* or a return to the page there is none until the next run.
AnswerOfLastRun ==
  \A k \in DOMAIN observed : observed[k].data # Nothing => observed[k].data = wanted[k]

\* Coming back to a page brings back the draft as it was left, edited,
\* loaded or reset, but for the ticker the route names.
DraftReturns ==
  [][\A p \in Places : at # p /\ at' = p /\ left[p] # Nothing =>
       draft'[p] = WithTicker(left[p], param')]_researchVars

-----------------------------------------------------------------------------
(* Why they hold                                                           *)

\* Runs are numbered, and the one a page observes was sent what its page
\* wanted last: of another run of the kind no answer is heard.
RunsInv ==
  /\ acts \in Nat
  /\ DOMAIN observed = Kinds("backtest") /\ DOMAIN wanted = Kinds("backtest")
  /\ \A k \in Kinds("backtest") :
       DOMAIN observed[k] = DOMAIN Idle /\ observed[k].run \in 0..acts
  /\ \A flight \in flights :
       /\ flight.kind \in Kinds("backtest") /\ flight.run \in 1..acts
       /\ flight.run = observed[flight.kind].run => flight.sent = wanted[flight.kind]
  /\ AnswerOfLastRun

\* localStorage has the draft of the page at hand, and of any other the one
\* it was left with.
DraftsInv ==
  /\ at \in Places \cup {"elsewhere"}
  /\ DOMAIN draft = Places /\ DOMAIN entry = Places /\ DOMAIN left = Places
  /\ at \in Places => entry[at] = draft[at]
  /\ \A p \in Places \ {at} : left[p] # Nothing => entry[p] = left[p]
=============================================================================
