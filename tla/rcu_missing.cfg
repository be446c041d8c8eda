CONSTANTS
  Readers = {r1, r2}
  Writers = {w1}
  Addr = {a1, a2, a3}
  NULL = NULL
  levelDeep = 2
  SearchKeys = {0}
  ReplaceKeys = {0, 1, 2}
  RemoveKeys = {0, 1}
  SpinOutcomes = {"reread", "hoisted"}
  NoMemoryLevels = {1}
  MaxInterrupts = 1
SPECIFICATION Spec
SYMMETRY Symmetry
INVARIANTS
  StandingAccounting
  OnTimeReadersProtected
PROPERTIES
  LeakedLockStopsUpdates
