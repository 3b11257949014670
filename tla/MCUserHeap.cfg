SPECIFICATION UserHeapSpec
CONSTANTS
  ProgramEnd = 12
  HeapPage = 12
  Header = 2
  MinAlloc = 2
  Requests = {1, 20}
  HeapFrames = {0, 1, 2, 3}
  TableEntries = 4
  MaxPages = 2
  Kernels = {FALSE}
PROPERTY
  AnswersFormerEnd
CHECK_DEADLOCK FALSE
