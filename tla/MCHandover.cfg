\* Two processes hand the world over: at any moment once the lock is free, with writes
\* of the former owner still to land; its client hears of a lost session first.
SPECIFICATION PunctualSpec
CONSTANTS
  Process = {p1, p2}
  Nobody = Nobody
  Orphan = Orphan
  NoState = NoState
  Event = {e1}
  Owned = {e1}
  Fleeting = {}
  Silent = FALSE
  Faulty <- Flow
  LostAcks <- Flow
  MaxWrites = 1
  MaxFaults = 1
  MaxLosses = 1
  MaxRestarts = 1
  MaxKeeper = 1
  MaxDays = 0
INVARIANTS
  OneTicker
  
CHECK_DEADLOCK FALSE
