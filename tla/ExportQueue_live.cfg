\* Three workers over one entry, which was queued by slug and may be skipped, leases of
\* one tick, two attempts, at most one crash, failed queue access or reset.
SPECIFICATION FairSpec
CONSTANTS
  w1 = w1
  w2 = w2
  w3 = w3
  NoWorker = NoWorker
  NoEntry = NoEntry
  NumEntries = 1
  Workers = {w1, w2, w3}
  Lease = 1
  RetryLimits <- OneLimit
  WorkerLimit = 0
  Adopted <- NobodyAdopts
  Unresolved <- First
  Skippable <- First
  Retried = TRUE
  MaxUpsets = 1
  MaxRuns = 0
PROPERTIES PromiseKept AllSettled WatchedClaimsEnd
