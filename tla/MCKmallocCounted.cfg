SPECIFICATION Spec
CONSTANTS
  HeapBegin = 1
  HeapLen = 12
  Header = 2
  MaxChunks = 5
  Lens <- MCLens
  TablesBegin = 8
INVARIANTS
  ChunksCounted
