SPECIFICATION Spec
CONSTANTS
  MaxTasks = 2
  TotalPages = 8
  PagesPerByte = 4
  Entries = 4
  UserDir = 1
  InitPages = 2
  HeapTasks = 2
  Words <- OneWord
  UserCalls <- LifeCalls
  NULL = NULL
INVARIANTS
  InitExitedMeansGone
