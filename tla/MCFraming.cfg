CONSTANTS
  HEAD_LEN = 2
  CHUNK = 4
  MAX_PACKET_LEN = 3
  OrderSize = 1
  Capacity = 5
  RecvMax = 4
  JunkLengths = {0, 2, 3}
  MaxOrders = 4
  MaxSignals = 1
SPECIFICATION Spec
INVARIANTS BuffersInside HangNeedsBacklog
PROPERTIES ImplementsStream Delivered
CHECK_DEADLOCK FALSE
