SPECIFICATION FairSpec
CONSTANTS
  r1 = r1
  Requests <- MCRequests
  MaxProcesses = 2
  MaxSteps = 1
  MaxTools = 1
  ChannelSize = 1
  MaxFaults = 1
  Phases <- MCPhases
INVARIANTS
  TypeOK
  OneProcessAtATime
  ReportIsFinal
  SummaryIsCurrent
PROPERTIES
  ExecutorsEnd
  TrackedProcessReturns
CHECK_DEADLOCK FALSE
