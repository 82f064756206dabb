SPECIFICATION FairSpec
CONSTANTS
  r1 = r1
  r2 = r2
  r3 = r3
  s1 = s1
  s2 = s2
  Requests = {r1, r2, r3}
  Sessions = {s1}
  SessionOf <- OneSession
  Asked <- AllNormal
  Runs = {x1, x2}
  NoRequest = NoRequest
  MaxWorkers = 1
  MaxQueueSize = 3
  MaxRetries = 1
  MaxManualRetries = 0
  Cancellable = {}
  Workers = {}
  MayStop = FALSE
  MayCrash = FALSE
  MayOutlive = FALSE
INVARIANTS
  WaitersTriggered
PROPERTIES
  EventuallySettled
CHECK_DEADLOCK FALSE
