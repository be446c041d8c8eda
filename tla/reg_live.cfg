CONSTANTS
  Threads = {t1, t2}
  Root = {}
  Svc = {s1, s2}
  NULL = NULL
  min_sys_TAG_Services = 2
  Keys = {k1}
  TAG_IPC_PRIVATE = IPC_PRIVATE
  DirtySlots = {1}
  AllocFails = TRUE
  Unmapped = {t1}
  Calls = {"CREATE", "OPEN", "SEND", "RECEIVE", "AWAKE_ALL", "REMOVE",
           "OTHER", "INVALID"}
  Perms = {"OPEN_ROOM"}
  CountWidth = 8
  MaxCalls = 4
SPECIFICATION FairSpec
INVARIANTS
  ModuleRefsAccounting

  
CHECK_DEADLOCK FALSE
