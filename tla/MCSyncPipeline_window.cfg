CONSTANTS
  Tickers = {t1, t2}
  Callers = {"scheduled"}
  MaxDay = 5
  TradingDays <- MCTradingDays
  FreshDays = 1
  BufferDays = 1
  WarmupDays = 2
  FullDays = 5
  Outcomes = {"bar", "absent"}
SPECIFICATION Spec
SYMMETRY MCSymmetry
INVARIANTS
  NoDuplicateRows
  NoHoles
  CleanMeansServed
