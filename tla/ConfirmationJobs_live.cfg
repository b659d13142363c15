\* One command at a time, one arm, three groups on two nodes, one lost worker,
\* one fault of each kind.  The attempt ends.
SPECIFICATION JobsSpec
CONSTANTS
  Operators = {o1}
  Nodes <- NodeSet
  Arms = {a1}
  MaxFaults <- OneOfEach
  Groups = {1, 2, 3}
  Cost <- OneDear
  NodeOrder <- TwoNodes
  Pool = 1
  MaxSpoils = 1
INVARIANTS NoneRefused ReductionFindsAll
PROPERTIES ImplementsAttempt ComesToRest
CHECK_DEADLOCK FALSE
