CONSTANTS
  NoValue = NoValue
  Row <- MCRow
  Strategies <- MCStrategies
  MaxRows = 4
  Capital = 65536
  CostNum = 1
  CostDen = 3
SPECIFICATION Spec
CHECK_DEADLOCK FALSE
INVARIANTS
  TypeOK
  BooksBalance
  CostsNeverHelp
  StopHolds
  ScreenAgrees
PROPERTIES
  SelfFinancing
