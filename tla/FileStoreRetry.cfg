SPECIFICATION Spec
CONSTANTS
  p1 = p1
  p2 = p2
  Path = {p1}
  Clash <- NoClash
  Hash = {h1}
  Op = {o1}
  Upload = {u1, u2}
  Note = {}
  Deletion = {d1}
  MaxDay = 1
  RetryDays = 1
  MaxTries = 1
  None = None
SYMMETRY Symmetric
CHECK_DEADLOCK FALSE
INVARIANTS
  TypeOK
  RejectionIsFinal
  OperationAppliedOnce
