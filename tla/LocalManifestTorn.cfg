SPECIFICATION Spec
CONSTANTS
  p1 = p1
  p2 = p2
  Path = {p1}
  Upload = {}
  UploadPath <- OnePath
  MaxEdits = 1
  MaxGeneration = 3
  WriteErrorsTear = TRUE
  Absent = Absent
  Torn = Torn
CHECK_DEADLOCK FALSE
INVARIANTS
  TemporaryKept
