SPECIFICATION Spec
CONSTANTS
  m1 = m1
  m2 = m2
  inbox = inbox
  archive = archive
  p1 = p1
  None = None
  Mail = {m1, m2}
  MessageIdOf <- OwnIds
  Folder = {inbox, archive}
  Inbox = inbox
  Flusher = {p1}
  HasMove = {TRUE, FALSE}
  HasUidPlus = TRUE
  MaxUid = 5
  MaxOps = 2
  MaxErrors = 1
  MaxOthers = 1
INVARIANTS
  NothingRepeated
  DoneWasAsked
  OnlyIntended
  NothingLost
PROPERTIES
  LastFlagWordWins
  UndoHolds
  
SYMMETRY Symmetry
