SPECIFICATION Spec
CONSTANTS
  p1 = p1
  p2 = p2
  Path = {p1, p2}
  Clash <- BothClash
  Hash = {h1, h2}
  Op = {o1}
  Upload = {u1, n1}
  Note = {n1}
  Deletion = {d1}
  MaxDay = 0
  RetryDays = 1
  MaxTries = 1
  None = None
SYMMETRY Symmetric
CHECK_DEADLOCK FALSE
CONSTRAINT NamesOrContents
INVARIANTS
  SuccessIsReal
  LiveNamesCompatible
