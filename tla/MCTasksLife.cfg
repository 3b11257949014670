SPECIFICATION FairSpec
CONSTANTS
  MaxTasks = 3
  TotalPages = 14
  PagesPerByte = 4
  Entries = 4
  UserDir = 1
  InitPages = 2
  HeapTasks = 6
  Words <- OneWord
  UserCalls <- LifeCalls
  NULL = NULL
INVARIANTS
  SwitchSafe
  LoadedDirectoryLives
  PagesExact
PROPERTIES
  EveryTaskRuns
  TurnsComeNearer
  KernelGoesOn
