SPECIFICATION FairSpec
CONSTANTS
  p1 = p1
  p2 = p2
  Path = {p1}
  Clash <- NoClash
  Hash = {h1}
  Op = {o1}
  Upload = {u1}
  Note = {}
  Deletion = {d1}
  MaxDay = 0
  RetryDays = 1
  MaxTries = 2
  None = None
CHECK_DEADLOCK FALSE
PROPERTY
  UnreferencedReclaimed
