SPECIFICATION FairSpec
CONSTANTS
  m1 = m1
  m2 = m2
  m3 = m3
  None = None
  Mail = {m1, m2, m3}
  Unparseable = {m3}
  Condstore = TRUE
  StopsBeforeBookmark = FALSE
  MaxUid = 4
  MaxStops = 2
  MaxChanges = 1
  MaxRenumber = 1
INVARIANTS
  TypeOK
  NothingUnreachable
  HeldIsRight
  MirrorsServer
PROPERTIES
  EventuallyMirrored
CHECK_DEADLOCK FALSE
