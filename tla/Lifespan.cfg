SPECIFICATION FairSpec
CONSTANTS
  Providers = {p1, p2}
  Sweepers = {loop, admin}
  BackgroundLoop = loop
  NoProvider = NoProvider
  MaxConcurrency = 1
  p1 = p1
  p2 = p2
  p3 = p3
  m1 = m1
  m2 = m2
  Names = {m1, m2}
  Alias = Alias
  NoModel = NoModel
  MaxContext = 3
  DefaultContext = 2
  Setups <- MCSetups
  Published <- MCPublished
INVARIANTS TypeOK OnlyTestedAreRanked ExplicitNamesKept ClientOutlivesChecks
PROPERTIES ShutdownEnds
CHECK_DEADLOCK FALSE
