\* Two commands at a time, two nodes, one arm, one fault of each kind.
\* The attempt ends.
SPECIFICATION Spec
CONSTANTS
  Operators = {o1, o2}
  Nodes = {n1, n2}
  Arms = {a1}
  MaxFaults <- OneOfEach
SYMMETRY Permute
INVARIANTS StartedOnce GatesHold ReceiptMeansStarted PartialLaunchShows
PROPERTIES FailedIsFinal
CHECK_DEADLOCK FALSE
