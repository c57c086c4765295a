SPECIFICATION FairSpec
CONSTANTS
  Probe = {p1, p2}
  MaxConnections = 2
  Timeout = 3
  AcquireTimeout = 2
  WarnAbove = 1
  Lag = 1
INVARIANTS TypeOK ProbingDoesNotDrain
PROPERTIES ImplementsCheck EveryCheckEnds
