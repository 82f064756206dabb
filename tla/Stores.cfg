SPECIFICATION StoresSpec
CONSTANTS
  c1 = c1
  c2 = c2
  c3 = c3
  e1 = e1
  e2 = e2
  NoExecutor = NoExecutor
  Calls <- MCCalls
  Executors <- MCExecutors
  ExecutorOf <- MCExecutorOf
  DirectoryCount <- MCDirectoryCount
  Parameters <- MCParameters
  MayTimeOut = TRUE
  MayOutlast = FALSE
  MaxFaults = 1
  a1 = a1
  a2 = a2
  a3 = a3
  Appends <- MCAppends
  MaxLogFaults = 1
  MaxLogCrashes = 1
  u1 = u1
  u2 = u2
  u3 = u3
  Updates <- MCUpdates
  Marks <- MCMarks
  StatusOf <- MCStatusOf
  Original = Original
  Phases = {"Explore", "Execute"}
  MaxLength = 1
  MaxMetaFaults = 1
  p1 = p1
  x1 = x1
  x2 = x2
  Processes <- MCProcesses
  Threads <- MCThreads
  OwnerOf <- MCOwnerOf
  StoreCalls <- MCStoreCalls
  JobOf <- MCJobOf
  Handlers <- MCHandlers
  Nobody = Nobody
  MaxStoreFaults = 1
  MaxStoreCrashes = 1
INVARIANTS
  StoresTypeOK
  NoOvertaking
  NoCircularWait
  
  MetaSurvives
  IndexIsTrue
  NothingIsLost
PROPERTIES
  LeakedLocksFreed
CHECK_DEADLOCK FALSE
