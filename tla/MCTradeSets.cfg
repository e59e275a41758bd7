SPECIFICATION TradeSpec
CONSTANTS
  Codes = {1, 2, 3}
  StockMax = 3
  CategoryIds = {0, 1}
  CategoryMax = 2
  Markets <- SomeMarkets
  SortLength = 2
  TradedCodes = {2}
  OrderStocks = {0}
  Bounds <- SomeBounds
  SetIds = {0, 1}
  SetMax = 3
  SetSizeMax = 2
INVARIANTS FoundByCode RankedUntilMoved OwnPiecesWhole
CHECK_DEADLOCK FALSE
