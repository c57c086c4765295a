SPECIFICATION Spec
CONSTANTS
  Scrape = {s1, s2, s3, s4}
  s1 = s1
  s2 = s2
  s3 = s3
  s4 = s4
  Uncached = {s4}
  Dep = {"database"}
  DepState = {"healthy", "degraded", "hung"}
  Ttl = 2
  Deadline = 1
  Horizon = 4
SYMMETRY ScrapeSymmetry
INVARIANTS TypeOK FlipVisible
PROPERTIES StampsNeverGoBack
