SPECIFICATION Spec
CONSTANTS
  Call = {c1, c2}
  Monster = {m1, m2}
  First = m1
  None = None
  MaxRegistrations = 2
INVARIANTS
  TypeOK
  OneWriter
  SteeredByAMotion
PROPERTIES
  DeedsAreCurrent
  RunStaysOver
  SlotIsFreed
