SPECIFICATION Spec
CONSTANTS
  Path = {1}
  ChangesPage = 1
  MaxTries = 2
  MaxCopies = 2
  MaxMade = 2
  MaxSeq = 3
  MaxRemovals = 0
  MaxStops = 0
  Undo = TRUE
CHECK_DEADLOCK FALSE
INVARIANTS
  DeletionsReachTheVault
