CONSTANTS
  Actors = {a1}
  DataPoints = {d1}
  MaxPeriods = 3
  MaxWrites = 3
  MaxReopens = 1
  Closing = {"missing", "loaded"}
  MayCrash = FALSE
  NoConfig = NoConfig
  NoDatum = NoDatum
VIEW NoHistory
SPECIFICATION Spec
INVARIANTS
  FrozenMatchesInputs
  ScreenMirrorsOpenPeriod
PROPERTIES
  ClosesWithEverythingImputed
  ClosedMonthOnlyByDecision
CHECK_DEADLOCK FALSE
