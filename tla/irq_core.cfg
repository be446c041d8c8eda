CONSTANTS
  Threads = {t1, t2, t3}
  CPUs = 2
  NULL = NULL
  Lists = {l1, l2}
  levelDeep = 2
  MaySleep = TRUE
SPECIFICATION Spec
INVARIANTS
  ListGuardsFlags
  InterruptsFollowSections
PROPERTIES
  SpinsEnd
CHECK_DEADLOCK FALSE
