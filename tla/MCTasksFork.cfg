SPECIFICATION Spec
CONSTANTS
  MaxTasks = 2
  TotalPages = 8
  PagesPerByte = 4
  Entries = 4
  UserDir = 1
  InitPages = 1
  HeapTasks = 2
  Words <- TwoWords
  UserCalls <- LifeCalls
  NULL = NULL
PROPERTIES
  ForkCopiesRegisters
