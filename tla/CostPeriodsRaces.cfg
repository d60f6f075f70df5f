CONSTANTS
  Actors = {a1, a2}
  DataPoints = {d1}
  MaxPeriods = 2
  MaxWrites = 2
  MaxReopens = 1
  Closing = {"missing", "loaded"}
  MayCrash = TRUE
  NoConfig = NoConfig
  NoDatum = NoDatum
SYMMETRY ActorSymmetry
SPECIFICATION Spec
INVARIANTS
  FrozenIsOwnInputs
PROPERTIES
  OpeningCarriesPredecessor
  NeverAskedTwice
CHECK_DEADLOCK FALSE
