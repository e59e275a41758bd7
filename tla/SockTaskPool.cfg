CONSTANTS
  mIoCount = 2
  mMaxConnPerIo = 1
  MaxConn = 2
SPECIFICATION Spec
INVARIANTS TypeOK TasksAlive OnePlace LimitUntilCrowded
PROPERTIES ConnectionServed FiniEnds
CHECK_DEADLOCK FALSE
