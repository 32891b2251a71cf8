CONSTANTS
  Text <- MCText
  Upper <- MCUpper
  CoreSymbols <- MCCore
  MacroSymbols <- MCMacro
  FirstCompare <- MCCompare
  FirstRecents <- MCRecents
  ListLimit = 2
  RecentLimit = 2
  CompareLimit = 2
  SavedLimit = 1
  Junk = Junk
  Null = Null
  Tabs = {t1}
  Ids = {"u1", "u2"}
  Names = {"", "Tech"}
  Notes = {"", "n1"}
  Batches <- MCBatches
  Visits = {"nvda"}
  Quoted = {"NVDA", "SPY"}
  Pages = {"/watchlists", "/compare", "/backtest", "/security", "/monitor", "/sector",
           "/screener"}
  MaxEdits = 2
  MaxFaults = 1
  DefaultDraft = d1
  OtherDraft = d2
SPECIFICATION FairWorkspaceSpec
INVARIANTS
  WorkspaceTypeOK
  ActiveListExists
  ReloadKeepsWork
PROPERTIES
  BatchAddKeeps
  RecoveryEnds
