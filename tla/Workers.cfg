CONSTANTS
  Users = {u1}
  Worker = worker
  Periods = {1, 2}
  Latest = 2
  MaxRuns = 3
  MaxData = 1
  MaxFails = 1
  Nobody = Nobody
  Never = Never
  NoRun = NoRun
  Calls = {c1, c2, c3, c4}
  MaxConcurrent = 2
  MaxRetries = 1
  Structures = {s1}
  Consumers = {web, worker}
  Levels = {100, 102}
  MaxSyncs = 1
  MaxManual = 1
  MaxDeaths = 2
  NoLevel = NoLevel
  NoStructure = NoStructure
SPECIFICATION WorkersSpec
INVARIANTS
  RepeatsOnlyAfterFailure
  FallIsToldOnce
PROPERTIES
  HistoryStands
  EveryRequestEnds
  ImplementsSlots
  NoOvertaking
  EveryCallEnds
  JumpIsRecalculated
CHECK_DEADLOCK FALSE
