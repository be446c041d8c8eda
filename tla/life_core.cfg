CONSTANTS
  Callers = {c1}
  Called = {1, 3}
  Openers = {o1}
  NULL = NULL
  LastEntry = 6
  FreeEntries = {1, 2, 3, 4, 5, 6}
  Pattern = {1, 2, 6}
  Hookable = {2, 3}
  Majors = {m1, m2}
  InitMayFail = TRUE
  MaxLoads = 2
  MaxLeaks = 1
SPECIFICATION FairSpec
INVARIANTS
  TypeOK
  RefsCountHolders
  CallsFindServices
  TableAccounted
  CallReachesItsFunction
  UnloadCleansUp
PROPERTIES
  UnmapSparesHolders
  UnloadEnds
CHECK_DEADLOCK FALSE
