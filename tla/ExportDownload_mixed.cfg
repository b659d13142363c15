\* An entry whose UUID is known and one known by slug, three attempts.
SPECIFICATION Spec
CONSTANTS
  e1 = e1
  e3 = e3
  NoEntry = NoEntry
  Entries = {e1, e3}
  Unresolved = {e3}
  MaxAttempts = 3
  MaxWrites = 2
CONSTRAINT FewWrites
INVARIANTS WrittenDuringWait ResolvedIsOwn RecordTells RefusedAsRead
CHECK_DEADLOCK FALSE
