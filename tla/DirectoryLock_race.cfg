SPECIFICATION Spec
CONSTANTS
  c1 = c1
  c2 = c2
  c3 = c3
  e1 = e1
  e2 = e2
  NoExecutor = NoExecutor
  Calls <- MCCalls
  Executors <- MCExecutors
  ExecutorOf <- MCExecutorOf
  DirectoryCount <- MCDirectoryCount
  Parameters <- MCParameters
  MayTimeOut = FALSE
  MayOutlast = FALSE
  MaxFaults = 0
INVARIANTS
  MutualExclusion
CHECK_DEADLOCK FALSE
