CONSTANTS
  QUEUE_SIZE = 3
  MaxPush = 7
SPECIFICATION Spec
INVARIANTS HandedOver BuffersOwned OvertakesOnlyCached
PROPERTIES ImplementsChannel RingDelivered
CHECK_DEADLOCK FALSE
