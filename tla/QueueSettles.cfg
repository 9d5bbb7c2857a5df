SPECIFICATION FairSpec
CONSTANTS
  note = note
  NOTE = NOTE
  other = other
  Path = {note}
  Variants = {}
  Stored = note
  MaxEdits = 1
  MaxForeign = 1
  MaxLosses = 1
  MaxStops = 1
  MaxUsed = 3
  MaxReports = 0
  MaxAttempts = 1
  Periodic = TRUE
  None = None
CHECK_DEADLOCK FALSE
PROPERTIES
  Settles
