CONSTANTS
  Actors = {a1, a2}
  Papers = {p1}
  Departments = {d1}
  NoDepartment = NoDepartment
  Readings <- MCReadings
  Classes <- MCClasses
  Corrections = {"cost"}
  MaxEntries = 2
SPECIFICATION Spec
PROPERTIES
  SumsOnlyGrow
CHECK_DEADLOCK FALSE
