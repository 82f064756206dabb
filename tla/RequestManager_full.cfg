SPECIFICATION Spec
CONSTANTS
  r1 = r1
  r2 = r2
  r3 = r3
  s1 = s1
  s2 = s2
  Requests = {r1, r2, r3}
  Sessions = {s1, s2}
  SessionOf <- TwoSessions
  Asked <- AllNormal
  Runs = {x1, x2}
  NoRequest = NoRequest
  MaxWorkers = 1
  MaxQueueSize = 1
  MaxRetries = 0
  MaxManualRetries = 1
  Cancellable = {}
  Workers = {w1}
  MayStop = TRUE
  MayCrash = TRUE
  MayOutlive = FALSE
SYMMETRY RunSymmetry
INVARIANTS
  TypeOK
  PoolLimits
CHECK_DEADLOCK FALSE
