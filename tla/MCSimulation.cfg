\* Ticks follow one another for ever, also when the lives are used up.
SPECIFICATION Spec
CONSTANTS
  Monster = {p1, p2, w1}
  Owned = {p1, p2}
  Egg = {e1, e2}
  Request = {r1, r2}
  None = None
  MaxPopulation = 4
  Grace = 1
  PAIR_REQUEST_TIMEOUT = 1
  ADULT_AGE = 2
  MATING_COOLDOWN = 2
  EGG_HATCH = 1
  CORPSE_LINGER = 1
  FINE_CATCHUP = 1
  MaxCommands = 2
  MaxLives = 2
INVARIANTS
  TypeOK
  DeadAreInert
PROPERTIES
  CapKept
  LaysOncePerCooldown
  AcceptedInOneLife
SYMMETRY Symmetry
