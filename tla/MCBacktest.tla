----------------------------- MODULE MCBacktest -----------------------------
(* A small instance of Backtest for TLC. *)
EXTENDS Backtest

Priced == [Close : {1, 2, 4}, SMA : {2}]
MCRow == Priced \cup [Close : {2, 4}, SMA : {NoValue}] \cup [Close : {0}, SMA : {2}]

Leg(condition) == [metric |-> "Close", condition |-> condition, compare |-> "SMA", threshold |-> 0]
AtLeast(n) == [metric |-> "Close", condition |-> "above", compare |-> "threshold", threshold |-> n - 1]
Rules(operator, legs) == [operator |-> operator, legs |-> legs]

\* A strategy with level rules that overlap, one with crossings and a stop,
\* one that buys any price and leaves only by its stop.
MCStrategies ==
  {[entry |-> Rules("or", <<Leg("above"), AtLeast(2)>>),
    exit |-> Rules("and", <<Leg("above"), AtLeast(4)>>), stop |-> NoStop, size |-> 50],
   [entry |-> Rules("and", <<Leg("crosses_above")>>),
    exit |-> Rules("or", <<Leg("crosses_below")>>), stop |-> 50, size |-> 100],
   [entry |-> Rules("or", <<AtLeast(0), Leg("crosses_below")>>),
    exit |-> Rules("and", <<AtLeast(9)>>), stop |-> 25, size |-> 100],
   [entry |-> Rules("or", <<Leg("below"), Leg("crosses_above")>>),
    exit |-> Rules("or", <<AtLeast(4)>>), stop |-> 25, size |-> 50]}
=============================================================================
