CONSTANTS
  Threads = {t1, t2}
  orderMax = 3
  MaxPush = 5
SPECIFICATION Spec
INVARIANTS SerialTable AloneKept
CHECK_DEADLOCK FALSE
