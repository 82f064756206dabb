SPECIFICATION Spec
CONSTANTS
  r1 = r1
  r2 = r2
  r3 = r3
  s1 = s1
  s2 = s2
  Requests = {r1, r2, r3}
  Sessions = {s1, s2}
  SessionOf <- TwoSessions
  Asked <- AllNormal
  Runs = {x1, x2}
  NoRequest = NoRequest
  MaxWorkers = 1
  MaxQueueSize = 3
  MaxRetries = 1
  MaxManualRetries = 0
  Cancellable = {r1, r2}
  Workers = {}
  MayStop = TRUE
  MayCrash = FALSE
  MayOutlive = FALSE
SYMMETRY RunSymmetry
INVARIANTS
  PoolBooks
  SerialCalls
  NothingLost
  CancelledIsGone
PROPERTIES
  ImplementsExecutor
CHECK_DEADLOCK FALSE
