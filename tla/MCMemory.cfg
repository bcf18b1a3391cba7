SPECIFICATION FairSpec
CONSTANTS
  laptop = laptop
  desktop = desktop
  n1 = n1
  Device = {laptop, desktop}
  Sync = {laptop, desktop}
  DeviceOf <- OwnDevice
  Note = {n1}
  Text <- Texts
  None = None
  MaxStamp = 2
  MaxChanges = 3
  MaxSnapshots = 3
INVARIANTS
  UploadStays
PROPERTIES
  LaterChangeWinsUnlessRaced
  FolderLosesNothing
  Settles
CHECK_DEADLOCK FALSE
