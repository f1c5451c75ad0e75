SPECIFICATION Spec
CONSTANTS
  Providers = {p1, p2}
  Requests = {r1, s1}
  Streams = {s1}
  Sweepers = {loop}
  BackgroundLoop = loop
  NoProvider = NoProvider
  FailureThreshold = 1
  HalfOpenMaxCalls = 1
  MaxConcurrency = 1
  MaxRetries = 2
INVARIANTS TypeOK SlotsAreHeld OvershootIsFailover CircuitOpenHealthIsTrue CircuitFollowsFailures
PROPERTIES LoopSpec NoSwitchMidStream LeakedTrialsAreFinal OutOfServiceDrains
SYMMETRY Symmetry
