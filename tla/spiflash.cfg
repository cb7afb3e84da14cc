SPECIFICATION FairSpec
CONSTANTS
  t1 = t1
  t2 = t2
  b = b
  NoThread = NoThread
  Threads = {t1, t2}
  Bits = {b}
  Sectors = 3
  SectorSize = 2
  PageSize = 2
  WordSize = 2
  WipRetry = 2
  EraseWaits = 2
  ChipRetry = 2
  Chip = "protected"
  Requests <- SomeRequests
  Faults = {"jobFails", "deaf", "restart"}
INVARIANTS
  TypeOK
  CommandsAreHeard
  OkWriteIsStored
  OkEraseIsErased
  QuietAfterCall
  BusIsGivenBack
PROPERTIES
  OnlyTheRange
  CallsReturn
CHECK_DEADLOCK FALSE
