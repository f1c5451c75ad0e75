SPECIFICATION Spec
CONSTANTS
  Requests = {r1, r2}
  Streams = {}
  Payloads <- ClaimPayloads
  MaxConcurrency = 1
  CacheEnabled = TRUE
  NoAnswer = NoAnswer
  GaugeBound = 1
INVARIANTS CollideOnlyIfIdentical
