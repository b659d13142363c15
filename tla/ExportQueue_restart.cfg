\* Workers with different limits, one adopting the second entry, workers that stop
\* after one import, an entry that gets its UUID meanwhile or is skipped, a fault, a restart.
SPECIFICATION Spec
CONSTANTS
  w1 = w1
  w2 = w2
  w3 = w3
  NoWorker = NoWorker
  NoEntry = NoEntry
  NumEntries = 2
  Workers = {w1, w2}
  Lease = 1
  RetryLimits <- TwoLimits
  WorkerLimit = 1
  Adopted <- W1Adopts2
  Unresolved <- First
  Skippable <- First
  Retried = FALSE
  MaxUpsets = 1
  MaxRuns = 1
INVARIANTS TypeOK HeldByNewest ReceiptOfNewestClaim ReportedImported AttemptsWithinLimit
PROPERTIES LiveClaimEndsByHolder
