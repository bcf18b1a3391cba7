SPECIFICATION Spec
CONSTANTS
  m1 = m1
  m2 = m2
  m3 = m3
  None = None
  Mail = {m1, m2, m3}
  Unparseable = {}
  Condstore = TRUE
  StopsBeforeBookmark = TRUE
  MaxUid = 4
  MaxStops = 1
  MaxChanges = 0
  MaxRenumber = 0
INVARIANTS
  NothingUnreachable
CHECK_DEADLOCK FALSE
