\* Two operations, one crash: one waiter at a time, which may find the lock stale.
SPECIFICATION FairSpec
CONSTANTS
  Lockers = {p1, p2}
  Assistants = {}
  Free = Free
  Timeout = 3
  Stale = 3
  Prompt = TRUE
  MaxCrashes = 1
INVARIANTS NoLostUpdate
PROPERTIES EveryCallEnds
CHECK_DEADLOCK FALSE
