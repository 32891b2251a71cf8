CONSTANTS
  Text <- MCText
  Upper <- MCUpper
  CoreSymbols <- MCCore
  MacroSymbols <- MCMacro
  FirstCompare <- MCCompare
  FirstRecents <- MCRecents
  ListLimit = 2
  RecentLimit = 2
  CompareLimit = 2
  SavedLimit = 1
  Junk = Junk
  Null = Null
  Tabs = {t1}
  Ids = {"1b9d6bcd-bbfd-4b2d-9b5d-ab8dfbbd4bed"}
  Names = {"", "Tech"}
  Notes = {"", "n1"}
  Batches <- MCBatches
  Visits = {"nvda"}
  Quoted = {"NVDA", "SPY"}
  Pages = {"/watchlists", "/compare", "/backtest", "/security"}
  MaxEdits = 2
  MaxFaults = 0
  DefaultDraft = d1
  OtherDraft = d2
SPECIFICATION WorkspaceSpec
INVARIANTS
  HeadlinesAppear
