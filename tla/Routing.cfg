SPECIFICATION Spec
CONSTANTS
  p1 = p1
  p2 = p2
  Providers = {p1, p2}
  Requests = {r1, r2}
  Priority <- MCPriority
  RpmLimit <- MCRpmLimit
  RpdLimit <- MCRpdLimit
  Errors <- MCErrors
  MaxConcurrency = 2
  MaxRetries = 2
  NoProvider = NoProvider
  NoLimit = NoLimit
  Minute = 1
  Day = 2
  DefaultCooldown = 1
  MaxTime = 3
  LatencyScores = {0, 2}
INVARIANTS TypeOK BudgetOvershootBounded SubscoresNormalized WindowsCountHistory
PROPERTIES RetryAfterOf429Honoured BetterRanksFirst LoopSpec
SYMMETRY Symmetry
