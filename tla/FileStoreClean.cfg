SPECIFICATION Spec
CONSTANTS
  p1 = p1
  p2 = p2
  Path = {p1}
  Clash <- NoClash
  Hash = {h1}
  Op = {o1, o2}
  Upload = {u1, u2}
  Note = {}
  Deletion = {d1}
  MaxDay = 0
  RetryDays = 1
  MaxTries = 1
  None = None
SYMMETRY Symmetric
CHECK_DEADLOCK FALSE
INVARIANTS
  ChangelogAgrees
  NoDanglingRevision
  ObjectsTracked
  DeletedStaysDeleted
PROPERTY
  ImplementsRegister
  OnlyNamedRevisionsDeleted
