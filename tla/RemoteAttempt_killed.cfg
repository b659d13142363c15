\* One command at a time, of which one loses a reply and is killed.
SPECIFICATION Spec
CONSTANTS
  Operators = {o1}
  Nodes = {n1, n2}
  Arms = {a1}
  MaxFaults <- LostAndKilled
INVARIANTS MarkedFailureShows
CHECK_DEADLOCK FALSE
