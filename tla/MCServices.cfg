SPECIFICATION MCSpec
CONSTANTS
  Names <- MCNames
  NameLen <- MCLengths
  Empty = ""
  Dot = "."
  DotDot = ".."
  MaxParts = 5
  Volumes <- MCVolumes
  Paths <- MCPaths
  Root = Root
  SectorsPerCluster = 6
  Chains <- MCChains
  Offsets <- UpToNine
  Lengths <- UpToNine
  ClusterSizes = {1, 2}
  SectorSize = 2
  DataSector = 10
  Base = 3
  Ext = 2
  Letters <- MCLetters
  Others = {"1"}
  UintValues = 8
  FileSize = 5
  Seeks <- MCSeeks
  MaxStreams = 2
  MaxSigned = 15
  ProgramEnd = 12
  HeapPage = 12
  Header = 2
  MinAlloc = 2
  Requests <- MCRequests
  HeapFrames <- MCFrames
  TableEntries = 4
  MaxPages = 2
  Kernels = {FALSE, TRUE}
  PageSize = 2
  Word = 8
  Frames <- MCMemory
  Maps <- MCMaps
  Zeros <- MCZeros
  IntMax = 127
  Formats <- MCFormats
  Lens = {1, 2, 4, 6, 12}
  Places = 3
INVARIANTS
  FreedOnce
  Lookups
  ListsAll
  ReadsExactly
  Renaming
  StreamsApart
  WriteOutcome
  UserHeapInv
  Accounted
  DividesUneven
  MessageFits
PROPERTY
  FollowsPath
