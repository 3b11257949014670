SPECIFICATION Spec
CONSTANTS
  MaxTasks = 3
  TotalPages = 14
  PagesPerByte = 4
  Entries = 4
  UserDir = 1
  InitPages = 2
  HeapTasks = 4
  Words <- OneWord
  UserCalls <- GrowCalls
  NULL = NULL
INVARIANTS
  NoFreePagesMeansNone
