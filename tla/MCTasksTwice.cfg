SPECIFICATION Spec
CONSTANTS
  t1 = t1
  r1 = r1
  r2 = r2
  Task = {t1}
  Run = {r1, r2}
  None = None
  Window = 2
  Batch = 2
  Patience = 2
  Unanswerable <- NoAnswerTo
  MaxMail = 2
  MaxSwitches = 1
  MaxFaults = 0
INVARIANTS
  DealsOnce
CHECK_DEADLOCK FALSE
