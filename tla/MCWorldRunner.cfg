\* One process, safety and liveness: every fault but a lost answer to a keeper action
\* and a failing reload after a failed reset.
SPECIFICATION FairSpec
CONSTANTS
  Process = {p1}
  Nobody = Nobody
  Orphan = Orphan
  NoState = NoState
  Event = {e1, f1}
  Owned = {e1}
  Fleeting = {f1}
  Silent = TRUE
  Faulty <- AllButReload
  LostAcks <- AllButAdmin
  MaxWrites = 3
  MaxFaults = 1
  MaxLosses = 1
  MaxRestarts = 1
  MaxKeeper = 1
  MaxDays = 1
INVARIANTS
  TypeOK
  SnapshotNeverAheadOfLog
  RowsMatchSnapshot
  PublishedIsDurable
  RunningIsDurable
  LoggedOnce
PROPERTIES
  ResumesService
  DailyResetHappens
  DurableHistoryGrows
  RefinesDurableWorld
CHECK_DEADLOCK FALSE
