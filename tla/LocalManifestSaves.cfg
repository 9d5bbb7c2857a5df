SPECIFICATION Spec
CONSTANTS
  p1 = p1
  p2 = p2
  Path = {p1, p2}
  Upload = {u1, u2}
  UploadPath <- OnePath
  MaxEdits = 3
  MaxGeneration = 4
  WriteErrorsTear = FALSE
  Absent = Absent
  Torn = Torn
CHECK_DEADLOCK FALSE
SYMMETRY Symmetric
CONSTRAINT
  EntriesOrUploads
INVARIANTS
  TypeOK
  CheckpointReadable
  SavedIsDurable
  ReceiptsHeld
PROPERTIES
  CheckpointsAtomic
