\* Two sockets, every fault.
SPECIFICATION Spec
CONSTANTS
  Socket = {s1, s2}
  Monster = {m1}
  None = None
  QueueLimit = 16
  Upheavals = {"keeper", "reset", "reload", "lock"}
  MaxRequests = 3
  MaxFaults = 1
  MaxUpheavals = 1
INVARIANTS
  TypeOK
  OneController
  MovedByController
  NoRival
PROPERTIES
  NeverBackwards
SYMMETRY Symmetry
CHECK_DEADLOCK FALSE
