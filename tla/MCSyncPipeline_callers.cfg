CONSTANTS
  Tickers = {t1, t2}
  Callers = {"scheduled", "manual"}
  MaxDay = 1
  TradingDays <- MCTradingDays
  FreshDays = 0
  BufferDays = 0
  WarmupDays = 2
  FullDays = 2
  Outcomes = {"bar", "pad", "absent"}
SPECIFICATION FairSpec
INVARIANTS
  TablesAgree
  StatusDescribesHolder
PROPERTIES
  CoverageOnlyGrows
  SuccessMeansServed
  StoreSpec
  SyncEnds
