SPECIFICATION FairSpec
CONSTANTS
  Request = {r1}
  r1 = r1
  Dep = {"database", "cache"}
  Strict = FALSE
INVARIANTS TypeOK DrainingNeverReady StartupNeverFails
PROPERTIES ReadinessTracks RequestsEnd ShutdownCompletes ComesUp
