\* Control ends where it should: no keeper action, lost lock or failed reset.
SPECIFICATION FairSpec
CONSTANTS
  Socket = {s1, s2}
  Monster = {m1, m2}
  None = None
  QueueLimit = 16
  Upheavals = {"reset"}
  MaxRequests = 2
  MaxFaults = 1
  MaxUpheavals = 1
INVARIANTS
  RegistryMatchesWorld
PROPERTIES
  ReturnsToAI
CHECK_DEADLOCK FALSE
