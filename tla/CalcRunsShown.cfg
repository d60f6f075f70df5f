CONSTANTS
  Users = {u1}
  Worker = worker
  Periods = {1}
  Latest = 1
  MaxRuns = 3
  MaxData = 2
  MaxFails = 0
  Nobody = Nobody
  Never = Never
  NoRun = NoRun
SPECIFICATION Spec
INVARIANT ShownIsValidated
CHECK_DEADLOCK FALSE
