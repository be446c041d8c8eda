CONSTANTS
  Threads = {t1, t2, t3}
  Root = {}
  Svc = {s1, s2}
  NULL = NULL
  min_sys_TAG_Services = 2
  Keys = {k1}
  TAG_IPC_PRIVATE = IPC_PRIVATE
  DirtySlots = {}
  AllocFails = FALSE
  Unmapped = {}
  Calls = {"CREATE", "OPEN", "RECEIVE", "AWAKE_ALL", "REMOVE"}
  Perms = {"OPEN_ROOM", "PRIVATE_ROOM"}
  CountWidth = 8
  MaxCalls = 4
SPECIFICATION Spec
SYMMETRY Symmetry
INVARIANTS
  TypeOK
  SearchLockAccounting
  TableHoldsLiveServices
  CountAccounting
  KeysUnique
  CreateReturnsItsService
CHECK_DEADLOCK FALSE
