CONSTANTS
  Receivers = {r1, r2}
  Senders = {s1}
  Awakers = {k1}
  levelDeep = 1
  MaxSends = 2
  MaxAwakes = 1
  MaxSignals = 1
SPECIFICATION Spec
SYMMETRY Symmetry
INVARIANTS
  TypeOK
  NoMissedWake
  CalledReaderGetsMessage
  RelapseOnlyAfterReset
  WaitersDriftOnlyByRace
PROPERTIES
  SenderSkipsNoSleeper
CHECK_DEADLOCK FALSE
