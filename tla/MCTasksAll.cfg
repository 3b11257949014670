SPECIFICATION Spec
CONSTANTS
  MaxTasks = 2
  TotalPages = 7
  PagesPerByte = 1
  Entries = 4
  UserDir = 1
  InitPages = 1
  HeapTasks = 3
  Words <- TwoWords
  UserCalls <- AllCalls
  NULL = NULL
INVARIANTS
  IInv
PROPERTIES
  ImplementsProcesses
