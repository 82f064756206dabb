SPECIFICATION MCSpec
CONSTANTS
  r1 = r1
  u1 = u1
  s1 = s1
  i1 = i1
  i2 = i2
  i3 = i3
  t1 = t1
  c1 = c1
  c2 = c2
  c3 = c3
  e1 = e1
  e2 = e2
  e3 = e3
  h1 = h1
  k1 = k1
  k2 = k2
  fileMode = fileMode
  searchMode = searchMode
  b1 = b1
  b2 = b2
  openai = openai
  ark = ark
  Requests <- MCRequests
  Users <- MCUsers
  Sessions <- MCSessions
  MaxSends = 2
  MaxFaults = 1
  MaxRestarts = 1
  Items <- MCItems
  Lanes <- MCLanes
  Tasks <- MCTimers
  MaxFirings = 2
  Calls <- MCThree
  KThreads <- MCThread
  Executors <- MCExecutors
  MaxErrors = 1
  Tokens <- MCTasks2
  SubjectOf <- MCSubjectOf
  MaxCalls <- MCMaxCalls
  ScopesOf <- MCScopesOf
  Modes <- MCModes
  Checks <- MCTwo
  MaxEntries = 2
  MCalls <- MCThree
  MThreads <- MCThread
  MTasks <- MCTasks2
  MaxUnread = 1
  NItems = 4
  Permits = 2
  ToolOf <- MCToolOf
  Traces <- MCThree
  NameOf <- MCNameOf
  MaxWriteErrors = 1
  MaxRuns = 2
  Uses <- MCTwo
  MaxEdits = 1
  Blocks <- MCBlocks
  Contents <- MCContents
  ServedTypes = {3}
  Configs <- MCConfigs
  Compositions <- MCOne
  Callers <- MCTwo
  Folders <- MCFolders
  SkillRequests <- MCSkillRequests
INVARIANTS
  TypeOK
  NobodyForgotten
  AnswerIsFound
  NoneLost
  OneActive
  CallLimit
  EntryIsAlive
  ListMissesNone
  
  LogFollowsCalls
  RecordIsKept
  CacheIsFresh
  GenerationFits
PROPERTIES
  AnswerReaches
  EventuallyProcessed
  CallsReturn
  SkillCallsEnd
CHECK_DEADLOCK FALSE
