SPECIFICATION Spec
CONSTANTS
  None = None
  AnyTarget = AnyTarget
  strike = strike
  potion = potion
  elixir = elixir
  slam = slam
  shout = shout
  combat = combat
  t1 = t1
  Actions <- MCActions
  ResourceOf <- MCResourceOf
  Targets = {t1, t2}
  Programs <- MCPrograms
  TailGcd <- MCTailGcd
  TailQueue <- MCTailQueue
  TailOffGcd <- MCTailOffGcd
  Listed <- MCListed
  Quiet = 3
  Poll = 2
  GcdTicks = 2
  MaxDue = 1
  MaxDecisions = 4
INVARIANTS StepsAsExecuted StepsInWindows TailOnce FeedbackMatches WaitsEndInWindow
CHECK_DEADLOCK FALSE
