CONSTANTS
  Tasks = {1, 2}
  NumOrders = 2
  FdLimit = 2
  MaxBreaks = 1
SPECIFICATION ClientSpec
INVARIANTS OfferedOnceUnlessGap StuckOnlyAfterReconnect
PROPERTY OrdersArrive
CHECK_DEADLOCK FALSE
