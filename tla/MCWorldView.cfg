\* The page may stay away when its connections are used up.
SPECIFICATION Spec
CONSTANTS
  Entity = {me, wild}
  Me = me
  Thing = {egg}
  Field = {x, health}
  Value = {0, 1}
  None = None
  Window = 1
  MaxTicks = 1
  MaxLosses = 1
  MaxLinks = 2
  MaxWishes = 1
INVARIANTS
  TypeOK
  MirrorsTheView
PROPERTIES
  Rebuilt
CHECK_DEADLOCK FALSE
