\* Two devices, two accounts, two requests at a time: ownership and quota.
SPECIFICATION Spec
CONSTANTS
  Guest = {g1, g2}
  Account = {a1, a2}
  Monster = {m1, m2}
  Dna = {d1}
  Call = {c1, c2}
  None = None
  MAX_OWNED_MONSTERS = 1
  Services <- AllServices
  MaxCalls = 2
  MaxFaults = 1
INVARIANTS
  TypeOK
  QuotaKept
  SelectedIsReachable
PROPERTIES
  SavedForever
  LocalStays
  DeviceHeld
  HistoryMovesWithDevice
SYMMETRY Symmetry
CHECK_DEADLOCK FALSE
