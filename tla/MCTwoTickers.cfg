\* Two processes; PostgreSQL may end the session of a lock before its client hears of it.
SPECIFICATION PunctualSpec
CONSTANTS
  Process = {p1, p2}
  Nobody = Nobody
  Orphan = Orphan
  NoState = NoState
  Event = {e1}
  Owned = {e1}
  Fleeting = {}
  Silent = TRUE
  Faulty = {}
  LostAcks = {}
  MaxWrites = 1
  MaxFaults = 0
  MaxLosses = 1
  MaxRestarts = 0
  MaxKeeper = 0
  MaxDays = 0
INVARIANTS
  OneTicker
CHECK_DEADLOCK FALSE
