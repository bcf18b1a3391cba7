SPECIFICATION FairSpec
CONSTANTS
  s1 = s1
  None = None
  MaxLetters = 2
  Sync = {s1}
  MaxFaults = 2
INVARIANTS
  TakenBackIsNotPrinted
  TwiceIsAChoiceIfHeard
  FiledOnce
PROPERTIES
  TakenBackStays
  RecordIsFiled
CHECK_DEADLOCK FALSE
