SPECIFICATION FairSpec
CONSTANTS
  Scrape = {s1, s2, s3}
  s1 = s1
  s2 = s2
  s3 = s3
  Uncached = {s3}
  Dep = {"database"}
  DepState = {"healthy", "hung"}
  Ttl = 2
  Deadline = 1
  Horizon = 3
PROPERTIES EveryScrapeEnds
