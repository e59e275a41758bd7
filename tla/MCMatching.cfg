CONSTANTS
  Stocks = {0}
  Prices = {1, 2, 3}
  Quantities = {1, 2}
  Phases = {TRUE, FALSE}
  Numbers <- ClientNumbers
  LevelMax = 3
  OrderMax = 4
SPECIFICATION SpecMatching
INVARIANTS MatchTypes OnlySellsMatched LinkedUntilMisplaced
PROPERTIES BestBidFirst ServedUntilMisplaced
CHECK_DEADLOCK FALSE
