\* A player leaves while a keeper action has paused the world.
SPECIFICATION FairSpec
CONSTANTS
  Socket = {s1}
  Monster = {m1}
  None = None
  QueueLimit = 16
  Upheavals = {"keeper"}
  MaxRequests = 1
  MaxFaults = 0
  MaxUpheavals = 1
PROPERTIES
  ReturnsToAI
CHECK_DEADLOCK FALSE
