SPECIFICATION Spec
CONSTANTS
  note = note
  NOTE = NOTE
  other = other
  Path = {note, NOTE, other}
  Variants = {{note, NOTE}}
  Stored = note
  MaxEdits = 3
  MaxForeign = 0
  MaxLosses = 1
  MaxStops = 1
  MaxUsed = 4
  MaxReports = 1
  MaxAttempts = 3
  Periodic = FALSE
  None = None
CHECK_DEADLOCK FALSE
CONSTRAINT
  CaseOrOther
INVARIANTS
  TypeOK
  InFlightIsTheFlush
  NoChangeForgotten
  NoVariantRefused
PROPERTIES
  RenameKeepsACopy
