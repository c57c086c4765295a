SPECIFICATION FairSpec
CONSTANTS
  Probe = {p1, p2}
  p1 = p1
  p2 = p2
  PoolSize = 1
  Timeout = 2
  WarnAbove = 1
  Margin = 2
  Lag = 1
INVARIANTS TypeOK OuterTimeoutAuthoritative VerdictMatchesReply
PROPERTIES ImplementsCheck EveryCheckEnds PingEnds RuntimeStops
