CONSTANTS
  Readers = {r1}
  Writers = {w1, w2}
  Addr = {a1, a2, a3, a4, a5}
  NULL = NULL
  levelDeep = 3
  SearchKeys = {0}
  ReplaceKeys = {0, 1, 2}
  RemoveKeys = {}
  SpinOutcomes = {"reread"}
  NoMemoryLevels = {}
  MaxInterrupts = 0
SPECIFICATION Spec
SYMMETRY Symmetry
INVARIANTS
  TypeOK
  SectionHoldsLock
  LockNeverLeaked
  ListIntact
PROPERTIES
  ImplementsAtomicLevels
