SPECIFICATION FairSpec
CONSTANTS
  Requests = {r1, r2, s1}
  Streams = {s1}
  Payloads <- MCPayloads
  MaxConcurrency = 1
  CacheEnabled = TRUE
  NoAnswer = NoAnswer
  GaugeBound = 1
INVARIANTS TypeOK PermitsConserved AtMostOneRow CachedIsRecorded AnswerFitsRequest
PROPERTIES PoolSpec WaitingEnds
