\* One crash and two waiters, which both find its lock stale.
SPECIFICATION Spec
CONSTANTS
  Lockers = {p1, p2, p3}
  Assistants = {}
  Free = Free
  Timeout = 1
  Stale = 2
  Prompt = TRUE
  MaxCrashes = 1
INVARIANTS NoLostUpdate
CHECK_DEADLOCK FALSE
