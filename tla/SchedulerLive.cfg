SPECIFICATION FairSpec
CONSTANTS
  Providers = {p1, p2}
  Requests = {r1}
  Streams = {}
  Sweepers = {loop}
  BackgroundLoop = loop
  NoProvider = NoProvider
  FailureThreshold = 1
  HalfOpenMaxCalls = 1
  MaxConcurrency = 1
  MaxRetries = 2
PROPERTIES RequestEnds CircuitOpenIsRevisited RateLimitedIsRevisited
