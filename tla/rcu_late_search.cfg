CONSTANTS
  Readers = {r1}
  Writers = {w1, w2}
  Addr = {a1, a2, a3, a4}
  NULL = NULL
  levelDeep = 2
  SearchKeys = {0}
  ReplaceKeys = {0, 1}
  RemoveKeys = {}
  SpinOutcomes = {"reread"}
  NoMemoryLevels = {}
  MaxInterrupts = 0
SPECIFICATION Spec
SYMMETRY Symmetry
INVARIANTS
  ReplaceWaitsForSearches
