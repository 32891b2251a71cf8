CONSTANTS
  Text <- MCText
  Upper <- MCUpper
  CoreSymbols <- MCCore
  MacroSymbols <- MCRecents
  FirstCompare <- MCCore
  FirstRecents <- MCRecents
  ListLimit = 2
  RecentLimit = 3
  CompareLimit = 2
  SavedLimit = 1
  Junk = Junk
  Null = Null
  Tokens <- MCTokens
  TickerTokens <- MCTickerTokens
  Typed <- MCTyped
  Hints = {"SPY DES"}
  Links = {"nvda"}
  Hits <- MCHits
  Gone = Gone
  MaxKeys = 5
  MaxSyncs = 2
  Symbols <- MCSymbols
  Capital <- MCCapital
  Numerals = {"", "x"}
  Number <- MCNumber
  NaN = NaN
  Universes <- MCUniverses
  RuleIds = {"r1"}
  ShownSaved = 1
  KeptSaved = 2
  Nothing = Nothing
  MaxActs = 3
  MaxFlights = 2
SPECIFICATION MCSpec
INVARIANTS
  RecentsFollowRoutes
  RecentsRun
  AnswerOfLastRun
PROPERTIES
  DraftReturns
