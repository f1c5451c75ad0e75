SPECIFICATION Spec
CONSTANTS
  Providers = {p1, p2}
  Requests = {r1}
  Streams = {}
  Sweepers = {loop, admin}
  BackgroundLoop = loop
  NoProvider = NoProvider
  FailureThreshold = 2
  HalfOpenMaxCalls = 2
  MaxConcurrency = 1
  MaxRetries = 1
INVARIANTS CheckingHasSweep CallsBounded
PROPERTIES CBSpec
SYMMETRY Symmetry
