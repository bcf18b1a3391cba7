SPECIFICATION FairSpec
CONSTANTS
  t1 = t1
  r1 = r1
  r2 = r2
  Task = {t1}
  Run = {r1, r2}
  None = None
  Window = 2
  Batch = 2
  Patience = 2
  Unanswerable <- NoAnswerTo
  MaxMail = 3
  MaxSwitches = 1
  MaxFaults = 1

  
  
PROPERTIES
  
  EachHasItsTurn
CHECK_DEADLOCK FALSE
