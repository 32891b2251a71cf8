CONSTANTS
  Tickers = {t1, t2}
  Callers = {"scheduled"}
  MaxDay = 3
  TradingDays <- MCTradingDays
  FreshDays = 1
  BufferDays = 1
  WarmupDays = 2
  FullDays = 3
  Outcomes = {"bar"}
SPECIFICATION Spec
INVARIANTS
  IdleMeansServed
