CONSTANTS
  Stocks = {0}
  Prices = {1, 2, 3}
  Quantities = {1, 2}
  Phases = {TRUE}
  Numbers <- ClientNumbers
  LevelMax = 3
  OrderMax = 4
SPECIFICATION SpecMatching
INVARIANT UntradedSellQueued
CHECK_DEADLOCK FALSE
