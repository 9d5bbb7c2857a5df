SPECIFICATION Spec
CONSTANTS
  Path = {1, 2}
  ChangesPage = 1
  MaxTries = 2
  MaxCopies = 2
  MaxMade = 5
  MaxSeq = 4
  MaxRemovals = 1
  MaxStops = 1
  Undo = FALSE
CHECK_DEADLOCK FALSE
CONSTRAINT
  OneFileOrTwo
INVARIANTS
  TypeOK
  PlansFromAnInstant
  NothingHidden
  NoContentLost
PROPERTIES
  QuietSyncAgrees
