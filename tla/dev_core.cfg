CONSTANTS
  Threads = {t1}
  Root = {}
  Svc = {s1, s2}
  NULL = NULL
  min_sys_TAG_Services = 2
  Keys = {k1}
  TAG_IPC_PRIVATE = IPC_PRIVATE
  DirtySlots = {}
  AllocFails = FALSE
  Unmapped = {}
  Calls = {"CREATE", "REMOVE"}
  Perms = {"OPEN_ROOM"}
  CountWidth = 8
  MaxCalls = 3
  DevReaders = {d1, d2}
  Faulty = {d2}
  levelDeep = 2
  LineLength = 1
  STATUS_SIZE_MAX = 3
  PAGE = 3
  Lens = {1, 2}
SPECIFICATION DevFairSpec
INVARIANTS
  TextInsideMapping
  ScanStraysOnlyDuringRemove
  TextDelivered
PROPERTIES
  ReadReturns
CHECK_DEADLOCK FALSE
