SPECIFICATION FairSpec
CONSTANTS
  HeapBegin = 1
  HeapLen = 13
  Header = 2
  MaxChunks = 5
  Lens <- MCLens
  TablesBegin = 8
INVARIANTS
  IInv
  FreedIsLost
  TablesUntouched
PROPERTIES
  MergeLoopEnds
  ImplementsHeap
