\* Two operators; full and compact campaigns of one loadout, one training
\* shard and two held-out shards; one upset, one repeated submission.
CONSTANTS
  Operators = {p1, p2}
  Variants = {TRUE, FALSE}
  Loadouts <- MCLoadouts
  TrainShards = {1}
  EvalShards = {1, 2}
  MaxUpsets = 1
  MaxRepeats = 1
SPECIFICATION FairSpec
INVARIANTS BundlesMatch RestsOnInputs OnlyHarmBlocks
PROPERTIES Ends
CHECK_DEADLOCK FALSE
