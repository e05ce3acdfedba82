\* A failed reset whose reload fails too.
SPECIFICATION FairSpec
CONSTANTS
  Process = {p1}
  Nobody = Nobody
  Orphan = Orphan
  NoState = NoState
  Event = {}
  Owned = {}
  Fleeting = {}
  Silent = FALSE
  Faulty <- Flow
  LostAcks <- AllButReload
  MaxWrites = 2
  MaxFaults = 2
  MaxLosses = 0
  MaxRestarts = 0
  MaxKeeper = 0
  MaxDays = 1
PROPERTIES
  ResumesService
CHECK_DEADLOCK FALSE
