SPECIFICATION FairSpec
CONSTANTS
  r1 = r1
  Requests <- MCRequests
  MaxProcesses = 1
  MaxSteps = 1
  MaxTools = 1
  ChannelSize = 1
  MaxFaults = 0
  Phases <- MCPhases
PROPERTIES
  TimeoutReturns
CHECK_DEADLOCK FALSE
