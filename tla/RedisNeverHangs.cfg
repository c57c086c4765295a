SPECIFICATION FairSpec
CONSTANTS
  Probe = {p1}
  p1 = p1
  PoolSize = 1
  Timeout = 1
  WarnAbove = 0
  Margin = 1
  Lag = 0
PROPERTIES BlockingTaskEnds
