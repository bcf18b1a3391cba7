SPECIFICATION FairSpec
CONSTANTS
  m1 = m1
  a1 = a1
  scheduler = scheduler
  sendNow = sendNow
  Message = {m1}
  Account = {a1}
  AccountOf <- OneAccount
  Sender = {scheduler, sendNow}
  Scheduler = scheduler
  None = None
  MaxTime = 2
  MaxApprovals = 2
  MaxCrashes = 2
  MaxStoreErrors = 1
INVARIANTS
  OneDeliveryPerApproval
  
PROPERTIES
  HandedOverInTime
  ImplementsPromise
  DueIsTried
  ClaimIsSettledByStore
CHECK_DEADLOCK FALSE
