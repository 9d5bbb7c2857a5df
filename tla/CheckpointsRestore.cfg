SPECIFICATION Spec
CONSTANTS
  NPath = 2
  Request = {1, 2, 3}
  PageSize = 1
  MaxCheckpoints = 1
  MaxAttempts = 2
  Retention = 2
  Window = 1
  Day = 2
  Life = 1
  ListSize = 1
  MaxTime = 3
  MaxSequence = 4
  None = None
CHECK_DEADLOCK FALSE
CONSTRAINT
  RevisionsOrIndex
INVARIANTS
  TypeOK
  InventoryIsAnInstant
  CheckpointsRestorable
  ListedIsStored
  IndexBounded
PROPERTIES
  EvictsOldest
