CONSTANTS
  Actors = {a1}
  DataPoints = {d1}
  MaxPeriods = 2
  MaxWrites = 2
  MaxReopens = 2
  Closing = {"missing", "loaded"}
  MayCrash = FALSE
  NoConfig = NoConfig
  NoDatum = NoDatum
SPECIFICATION Spec
INVARIANT PendingStaysOut
CHECK_DEADLOCK FALSE
