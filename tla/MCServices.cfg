CONSTANTS
  Days = 4
  Weekdays <- MCWeekdays
  DayLength = 9
  SlotTime = 3
  SlotWindow = 4
  Poll = 2
  Lag = 1
  Keys = {k1, k2, k3}
  Threads = {r1, r2}
  MaxEntries = 2
  TTL = 2
  Patience = 1
  Effort = 1
  MaxTime = 4
  Retentions = {1, 2}
  Compressions = {TRUE}
  MaxCommits = 1
  MaxClock = 12
  MaxDay = 34
  OpenDays <- MCOpenDays
  FirstLoad = 24
  Patchy = {17, 23}
  Behind = {0, 5}
  FreshDays = 2
  BufferDays = 7
  WarmupDays = 14
  FullDays = 21
  Window = 8
  Tickers = {aapl}
  Workers = {w1, w2, w3}
  PriceTTL = 2
  MissTTL = 4
  LockWait = 1
  MaxQuoteTime = 7
  Clients = {c1, c2}
  Asked <- MCAsked
  Limit <- MCLimit
  Second = 3
  RoundUp = 1
  WindowTicks = 6
  MaxWindows = 1
  MaxTicks = 13
SPECIFICATION MCSpec
INVARIANTS
  WindowUsed
  AnswerIsFresh
  BackupHoldsCommits
  BackupLeft
  ExportIsWhole
  HiddenOnlyByOverlap
  UnderTwoLimits
  WaitingHelps
PROPERTIES
  OldestGoesFirst
  NoRowLosesItsWindow
