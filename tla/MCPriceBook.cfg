CONSTANTS
  Stocks = {0, 1}
  Prices = {1, 2, 3}
  Quantities = {1}
  Phases = {TRUE}
  Numbers <- SomeNumbers
  LevelMax = 3
  OrderMax = 4
SPECIFICATION Spec
INVARIANTS TypeOK LevelsLinked LevelsCounted
PROPERTIES ImplementsBook WalkEnds
CHECK_DEADLOCK FALSE
