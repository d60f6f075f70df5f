CONSTANTS
  Structures = {s1}
  Consumers = {web, worker}
  Levels = {100, 101, 102}
  MaxSyncs = 1
  MaxManual = 1
  MaxDeaths = 1
  NoLevel = NoLevel
  NoStructure = NoStructure
SPECIFICATION IndicatorsSpec
INVARIANT EveryFetchedIsRecorded
CHECK_DEADLOCK FALSE
