SPECIFICATION DoorSpec
CONSTANTS
  Anonymous = Anonymous
  MasterKey = MasterKey
  Keys = {Anonymous, MasterKey}
  Limit = 2
  Span = 1
  MaxTime = 3
  AllowUnauthenticated = TRUE
  Clients = {c1, c2}
  p1 = p1
  p2 = p2
  Providers = {p1, p2}
  Priority <- MCPriority
SYMMETRY Symmetry
INVARIANTS SlidingBound NobodyDeserted
PROPERTIES RSpec
