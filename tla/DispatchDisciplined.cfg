CONSTANTS
  w1 = w1
  w2 = w2
  Workers = {w1, w2}
  NoWorker = NoWorker
  MaxRuns = 2
  Lease = 1
  JobTimeout = 1
  Cooldown = 2
  NextWindow = 1
  RetryWait = 1
  Warnings = 2
  MaxReleases = 1
  Disciplined = TRUE
SPECIFICATION FairSpec
INVARIANTS TypeOK JobHoldsLease
PROPERTIES KeepsContract ClaimedRunEnds
