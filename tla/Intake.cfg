CONSTANTS
  Actors = {a1, a2}
  Papers = {p1}
  Departments = {d1}
  NoDepartment = NoDepartment
  Readings <- MCReadings
  Classes <- MCClasses
  Corrections = {"cost"}
  MaxEntries = 2
SPECIFICATION Spec
INVARIANTS
  IngestIsWhole
  CountsAtMostOnce
  
SYMMETRY ActorSymmetry
CHECK_DEADLOCK FALSE
