SPECIFICATION FairSpec
CONSTANTS
  NPath = 1
  Request = {1, 2}
  PageSize = 2
  MaxCheckpoints = 1
  MaxAttempts = 1
  Retention = 2
  Window = 1
  Day = 2
  Life = 1
  ListSize = 1
  MaxTime = 3
  MaxSequence = 0
  None = None
CHECK_DEADLOCK FALSE
INVARIANTS
  ListedIsStored
PROPERTIES
  GarbageCollected
