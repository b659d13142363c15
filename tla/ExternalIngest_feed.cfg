\* Two processes and one scope; three raids, ties among them; pages of one raid,
\* so that uploads come between the pages; limits that refuse and that suffice.
CONSTANTS
  Runners = {p1, p2}
  PageSize = 1
  Limits <- MCLimits
  Orders = {"newest", "oldest"}
  MaxUploads = 3
  MaxTime = 2
  MaxBroken = 1
  MaxExplicit = 1
SPECIFICATION FairSpec
INVARIANTS NothingSkipped
PROPERTIES NothingForgotten CatchesUp
CHECK_DEADLOCK FALSE
