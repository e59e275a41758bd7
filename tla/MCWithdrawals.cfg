SPECIFICATION LifeSpec
CONSTANTS
  Stocks = {0}
  Prices = {1, 2}
  Quantities = {1, 2}
  Phases = {TRUE, FALSE}
  Numbers <- ItsIndex
  LevelMax = 3
  OrderMax = 4
  Firms = {1, 2, 3, 4}
  OrderKinds <- SomeKinds
  NewTypes = {"", "SU"}
  TradePhases = {"OCALL", "IOBB", "IPOBB", "TRADE"}
  SortLength = 2
  Bounds <- SomeBounds
INVARIANTS LinkedUntilStale SumsKept PbuRanked
CHECK_DEADLOCK FALSE
