SPECIFICATION MCSpec
CONSTANTS
  Lines <- MCLines
  Reads = 2
  Codes <- MCCodes
  Data <- MCData
  Size = 3
  Room = 3
  AtATime = 2
  width = 3
  height = 2
  Word = 16
  Letters <- MCLetters
  Blank = " "
  Far = 4
  Digit = 4
  Unit = 8
  Limits = 32
  Plus = 1
  Slots = 5
  Bases <- MCBases
  Sizes <- MCSizes
  Privileges = {0, 7}
  MaxChanges = 6
  Page = 4
  Tested = 2
  Entries = 3
  Mapped4M = 1
  Tables = 1
  Physical <- MCPhysical
INVARIANTS
  InterruptsInv
  KeyboardInv
  ConsoleInv
  DescriptorsFit
  LeadsWhereAsked
PROPERTIES
  DiesInWindows
  SlaveOnce
  SilencedByBoot
  MasterTaken
  KeyEndsWait
  ImplementsReader
  ImplementsTransfer
  MovesExactly
  ImplementsTerminal
