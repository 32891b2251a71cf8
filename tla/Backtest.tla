------------------------------ MODULE Backtest ------------------------------
(* The simulated account of backend/queries/backtest.py, driven by the rules *)
(* of backend/queries/strategy.py, and the screen that applies the same      *)
(* rules to the newest rows.                                                 *)
(*                                                                           *)
(* Amounts are integers in a unit fine enough for the divisions to come out  *)
(* even, so that \div is the division of the code. A backtest is one run     *)
(* over one frame: Init chooses the stored history of a ticker, the          *)
(* requested range and the strategy, and every step is one row.              *)
EXTENDS Integers, Sequences

CONSTANTS
  Row,          \* the rows the table may hold, functions from columns to values
  NoValue,      \* an indicator whose window is not full (NaN)
  Strategies,   \* the strategies to run
  MaxRows,      \* bound: rows of history
  Capital,      \* initial_capital
  CostNum,      \* the cost rate, fees and slippage, is CostNum / CostDen
  CostDen

\* Prices are numbers and not negative. A range that starts with a price of
\* zero is refused with a ZeroDivisionError (benchmark) and left out in Init.
ASSUME RowAssumption == \A row \in Row : row["Close"] \in Nat
ASSUME MoneyAssumption == Capital \in Nat /\ CostNum \in Nat /\ CostDen \in Nat \ {0}

\* Fees and slippage together stay within the price. The request model accepts
\* up to 100 % of each.
ASSUME CostAssumption == CostNum <= CostDen

\* position_size_pct is between 0 and 100; stop_loss_pct is NoStop or positive.
NoStop == 0
ASSUME StrategyAssumption ==
  \A s \in Strategies : s.size \in Nat /\ s.stop \in 0..100

VARIABLES
  history,      \* the ticker's rows in ticker_data, oldest first
  strategy,
  from,         \* the first row of the requested range
  day,          \* the row the account has seen last
  account,      \* cash, shares and their values without costs
  entry,        \* price and row of the entry
  booked,       \* what the trades earned and what was paid in fees
  equity,       \* the newest point of the equity curve
  phase

vars == <<history, strategy, from, day, account, entry, booked, equity, phase>>
-----------------------------------------------------------------------------
(* The rules. *)

\* resolve_threshold: the column to compare with, or the leg's number.
Against(row, leg) ==
  IF leg.compare = "threshold" THEN leg.threshold ELSE row[leg.compare]

Above(row, leg) == Against(row, leg) # NoValue /\ row[leg.metric] # NoValue
                   /\ row[leg.metric] > Against(row, leg)
Below(row, leg) == Against(row, leg) # NoValue /\ row[leg.metric] # NoValue
                   /\ row[leg.metric] < Against(row, leg)
Level(row, leg) == Against(row, leg) # NoValue
                   /\ row[leg.metric] = Against(row, leg)

\* evaluate_leg on row i of a frame. A comparison with NaN is false, and so is
\* one with the row before the first.
Fires(frame, i, leg) ==
  \/ leg.condition = "above" /\ Above(frame[i], leg)
  \/ leg.condition = "below" /\ Below(frame[i], leg)
  \/ /\ leg.condition = "crosses_above" /\ i > 1 /\ Above(frame[i], leg)
     /\ Below(frame[i - 1], leg) \/ Level(frame[i - 1], leg)
  \/ /\ leg.condition = "crosses_below" /\ i > 1 /\ Below(frame[i], leg)
     /\ Above(frame[i - 1], leg) \/ Level(frame[i - 1], leg)

\* combine_rule_stack: the base leg and its filters under one operator.
Signal(frame, i, rules) ==
  \/ rules.operator = "and" /\ \A k \in DOMAIN rules.legs : Fires(frame, i, rules.legs[k])
  \/ rules.operator = "or" /\ \E k \in DOMAIN rules.legs : Fires(frame, i, rules.legs[k])

\* Mutation: the screen reads the newest row alone.
NewestOne(rows) == SubSeq(rows, Len(rows), Len(rows))

\* The screen: the two newest rows of every ticker, and the state it reports.
NewestTwo(rows) == SubSeq(rows, IF Len(rows) > 2 THEN Len(rows) - 1 ELSE 1, Len(rows))

Screen(rows) ==
  LET frame == NewestTwo(rows)
      last == Len(frame)
  IN CASE ~ Signal(frame, last, strategy.entry) -> "no match"
       [] Signal(frame, last, strategy.entry) /\ ~ Signal(frame, last, strategy.exit) -> "entry"
       [] OTHER -> "entry / exit overlap"

-----------------------------------------------------------------------------
(* The account. *)

\* load_focus_frame for the range that starts at row first.
FrameFrom(first) == SubSeq(history, first, Len(history))
Frame == FrameFrom(from)
Close(d) == history[d]["Close"]
Enters(d) == Signal(Frame, d - from + 1, strategy.entry)

\* Mutation: a close at the stop price does not stop.
StoppedBelow(d) == /\ strategy.stop # NoStop
                   /\ 100 * Close(d) < entry.price * (100 - strategy.stop)

Stopped(d) == /\ strategy.stop # NoStop
              /\ 100 * Close(d) <= entry.price * (100 - strategy.stop)

Exits(d) == Signal(Frame, d - from + 1, strategy.exit) \/ Stopped(d)

\* position_size_pct, brought between 1 % and 100 %.
SizePct == IF strategy.size < 1 THEN 1 ELSE IF strategy.size > 100 THEN 100 ELSE strategy.size

Deployable(cash) == (cash * SizePct) \div 100

\* Mutation: the costs of the entry are not set aside.
BoughtWithAllCash(amount, close, rate) == IF close > 0 THEN amount \div close ELSE 0

Bought(amount, close, rate) ==
  IF close > 0 THEN (amount * CostDen) \div (close * (CostDen + rate)) ELSE 0

CostOf(value) == (value * CostNum) \div CostDen

\* Mutation: a point of the curve is the cash alone.
CashWorth(a, close) == a.cash

Worth(a, close) == a.cash + a.shares * close

Init ==
  /\ history \in UNION {[1..n -> Row] : n \in 1..MaxRows}
  /\ strategy \in Strategies
  /\ from \in DOMAIN history
  /\ Close(from) > 0
  /\ day = from - 1
  /\ account = [cash |-> Capital, grossCash |-> Capital, shares |-> 0, grossShares |-> 0]
  /\ entry = [price |-> 0, row |-> 0]
  /\ booked = [pnl |-> 0, fees |-> 0]
  /\ equity = Capital
  /\ phase = "trading"

RowLeft == phase = "trading" /\ day < Len(history)

\* The end of the loop's body: the point of the equity curve.
NextRow ==
  /\ day' = day + 1
  /\ equity' = Worth(account', Close(day + 1))
  /\ UNCHANGED <<history, strategy, from, phase>>

Buy ==
  LET close == Close(day + 1)
      shares == Bought(Deployable(account.cash), close, CostNum)
      gross == Bought(Deployable(account.grossCash), close, 0)
      cost == CostOf(shares * close)
  IN /\ RowLeft
     /\ account.shares = 0
     /\ Enters(day + 1)
     /\ account' = [cash |-> account.cash - (shares * close + cost), shares |-> shares,
                    grossCash |-> account.grossCash - gross * close, grossShares |-> gross]
     /\ entry' = [price |-> close, row |-> day + 1]
     /\ booked' = [pnl |-> booked.pnl, fees |-> booked.fees + cost]
     /\ NextRow

\* Mutation: the account without costs keeps its shares out of the sale.
SoldNetOnly(close) ==
  LET value == account.shares * close
  IN /\ account' = [account EXCEPT !.cash = @ + (value - CostOf(value)), !.shares = 0,
                                  !.grossShares = 0]
     /\ booked' = [pnl |-> booked.pnl + (close - entry.price) * account.shares,
                   fees |-> booked.fees + CostOf(value)]

\* Mutation: only what a sale earns is booked, its cost is not.
SoldUnbooked(close) ==
  LET value == account.shares * close
  IN /\ account' = [cash |-> account.cash + (value - CostOf(value)), shares |-> 0,
                    grossCash |-> account.grossCash + account.grossShares * close,
                    grossShares |-> 0]
     /\ booked' = [booked EXCEPT !.pnl = @ + (close - entry.price) * account.shares]

\* The shares are sold at a close: cash, fees and the trade's profit, which
\* the code takes before costs.
Sold(close) ==
  LET value == account.shares * close
  IN /\ account' = [cash |-> account.cash + (value - CostOf(value)), shares |-> 0,
                    grossCash |-> account.grossCash + account.grossShares * close,
                    grossShares |-> 0]
     /\ booked' = [pnl |-> booked.pnl + (close - entry.price) * account.shares,
                   fees |-> booked.fees + CostOf(value)]

Sell ==
  /\ RowLeft
  /\ account.shares > 0
  /\ Exits(day + 1)
  /\ Sold(Close(day + 1))
  /\ entry' = [price |-> 0, row |-> 0]
  /\ NextRow

Wait ==
  /\ RowLeft
  /\ ~ (account.shares = 0 /\ Enters(day + 1))
  /\ ~ (account.shares > 0 /\ Exits(day + 1))
  /\ UNCHANGED <<account, entry, booked>>
  /\ NextRow

\* After the last row an open position is sold at the last close. The equity
\* curve gets no point for it.
Settle ==
  /\ phase = "trading"
  /\ day = Len(history)
  /\ \/ account.shares > 0 /\ Sold(Close(day))
     \/ account.shares <= 0 /\ UNCHANGED <<account, booked>>
  /\ phase' = "settled"
  /\ UNCHANGED <<history, strategy, from, day, entry, equity>>

Next == Buy \/ Sell \/ Wait \/ Settle

Spec == Init /\ [][Next]_vars
-----------------------------------------------------------------------------
\* Types; in particular the account is never overdrawn.
TypeOK ==
  /\ history \in Seq(Row) /\ strategy \in Strategies
  /\ from \in 1..Len(history) /\ day \in 0..Len(history)
  /\ account \in [cash : Nat, grossCash : Nat, shares : Nat, grossShares : Nat]
  /\ entry \in [price : Nat, row : Nat]
  /\ booked \in [pnl : Int, fees : Nat]
  /\ equity \in Nat
  /\ phase \in {"trading", "settled"}

\* The trades and the fees explain the cash: what the summary calls the total
\* return is what the listed trades earned less total_fees_paid, while a
\* position is open as well as after the last sale.
BooksBalance ==
  account.cash + account.shares * entry.price = Capital + booked.pnl - booked.fees

\* Gross figures never fall behind the net ones: cost_drag_pct >= 0, which
\* test_backtest_applies_composite_rules_and_cost_drag asserts of one frame.
CostsNeverHelp ==
  account.cash <= account.grossCash /\ account.shares <= account.grossShares

\* The unit of the amounts is fine enough for the next purchase: its division
\* comes out even, as the one of the code does.
PurchaseIsEven ==
  LET close == Close(day + 1)
  IN RowLeft /\ account.shares = 0 /\ Enters(day + 1) /\ close > 0 =>
       (Deployable(account.cash) * CostDen) % (close * (CostDen + CostNum)) = 0

\* A position carried over a close is above its stop, unless it was bought at
\* that close: no order of signals makes the account skip a stop.
StopHolds ==
  account.shares > 0 /\ strategy.stop # NoStop =>
    \/ entry.row = day
    \/ 100 * Close(day) > entry.price * (100 - strategy.stop)

\* The inductive invariant: besides, the newest point of the curve is what the
\* account is worth at the newest close, until the last sale.
AccountInv ==
  /\ TypeOK /\ BooksBalance /\ StopHolds
  /\ phase = "trading" /\ day >= from => equity = Worth(account, Close(day))

\* The screen over two rows and the backtest over the whole range apply the
\* same rules: what the backtest enters the screen would have shown that day,
\* and from the range's second row on the other way around too.
ScreenAgrees ==
  day >= from =>
    LET shown == Screen(SubSeq(history, 1, day)) # "no match"
    IN (Enters(day) => shown) /\ (day > from /\ shown => Enters(day))

\* The account finances itself: from one row to the next its worth changes by
\* what the shares held gained, less the fees paid on the way.
SelfFinancing ==
  [][day' # day /\ day >= from =>
       equity' - equity = account.shares * (Close(day') - Close(day))
                          - (booked'.fees - booked.fees)]_vars
=============================================================================
