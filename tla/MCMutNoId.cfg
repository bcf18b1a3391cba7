SPECIFICATION Spec
CONSTANTS
  m1 = m1
  m2 = m2
  inbox = inbox
  archive = archive
  p1 = p1
  None = None
  Mail = {m1, m2}
  MessageIdOf <- NoIds
  Folder = {inbox, archive}
  Inbox = inbox
  Flusher = {p1}
  HasMove = {TRUE}
  HasUidPlus = TRUE
  MaxUid = 4
  MaxOps = 2
  MaxErrors = 0
  MaxOthers = 1
INVARIANTS
  OnlyIntended
SYMMETRY Symmetry
