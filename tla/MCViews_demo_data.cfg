CONSTANTS
  Keys <- MCKeys
  Pages <- MCPages
  Asks <- MCAsks
  Links <- MCLinks
  Polled <- MCPolled
  Focused <- MCFocused
  Renewed <- MCRenewed
  Direct <- MCDirect
  Bars <- MCBars
  TickerOf <- MCTickerOf
  Bootstrap = "bootstrap"
  Monitor = "monitor"
  Known = {"A", "B"}
  Recents = {"A", "B"}
  DemoItems = {"B"}
  Demo = Demo
  Compared <- MCCompared
  Stores <- MCStores
  Rows <- MCRows
  Sectors = {"Energy", "Communication Services"}
  PathOf <- MCPathOf
  Text <- MCText
  Upper <- MCUpper
  CoreSymbols <- MCCore
  MacroSymbols <- MCRecents
  FirstCompare <- MCRecents
  FirstRecents <- MCRecents
  ListLimit = 40
  RecentLimit = 12
  CompareLimit = 8
  SavedLimit = 12
  Junk = Junk
  Null = Null
  MaxWorld = 1
  MaxLost = 1
  None = None
SPECIFICATION ViewsSpec
INVARIANTS
  DemoOnlyWhenUnavailable
