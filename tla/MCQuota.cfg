\* The quota as the code words it: a device takes back a monster of its account.
SPECIFICATION Spec
CONSTANTS
  Guest = {g1, g2}
  Account = {a1}
  Monster = {m1, m2}
  Dna = {d1}
  Call = {c1}
  None = None
  MAX_OWNED_MONSTERS = 1
  Services = {"create", "select", "claim"}
  MaxCalls = 3
  MaxFaults = 0
PROPERTIES
  QuotaHolds
SYMMETRY Symmetry
CHECK_DEADLOCK FALSE
