CONSTANTS
  MaxSpin = 1
  StoreBuffers = {TRUE, FALSE}
  BufferSize = 2
SPECIFICATION Spec
INVARIANTS TypeOK ExclusionUntilForced
PROPERTY LockGranted
