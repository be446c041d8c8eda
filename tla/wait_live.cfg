CONSTANTS
  Receivers = {r1, r2}
  Senders = {}
  Awakers = {k1}
  levelDeep = 2
  MaxSends = 0
  MaxAwakes = 1
  MaxSignals = 0
SPECIFICATION FairSpec
PROPERTIES
  CalledReturns
  AwakeReachesEveryLevel
CHECK_DEADLOCK FALSE
