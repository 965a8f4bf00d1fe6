SPECIFICATION MCSpec
VIEW Moving
CONSTANTS
  ByteSize = 2
  RstSpacing = 1
  Program <- MCProgram
  Operands8 <- MCOperands
  PAGE_LEN = 65536
  Disks = 3
  Pages = 4
  RomSize = 256
  RamDiskClear = FALSE
  Addresses <- MCAddresses
  Mappings <- MCMappings
  OutCommitTime = 1
  PaletteCommitTime = 5
  DisplayModeTime = 8
  PaletteLen = 2
  Keys <- MCKeys
  Sent <- MCSent
  FrameW = 64
  FrameH = 4
  Top = 1
  ActiveH = 2
  BorderLeft = 16
  ActiveW = 32
  IrqPxl = 7
  ScrollPxl = 19
  Step = 16
  Picture <- MCPicture
  Outs <- MCOuts
  Base = 2
  LowTap = 2
  HighTap = 4
  Tunes <- MCTunes
  Drives = 2
  Tracks = 1
  Sectors = 2
  SectorLen = 2
  HeaderLen = 1
  Watchdog = 2
  MaxRecords = 2
  LastId = 1
  MaxPerScript = 1
  MaxTotal = 1
  Texts <- MCTexts
  Draws <- MCDraws
  MaxPerfs = 1
  LastPerfId = 1
  MaxTests = 2
  Spans <- MCSpans
  MaxClock = 2
  TrailLen = 5
  LogSize = 3
  Digits = 3
  Radix = 2
  Code <- MCCode
  Ranges <- MCRanges
  Globs <- MCGlobs
INVARIANTS TypeOK AluExact MemoryExact PortsKept SoundKept TransfersExact ClientTold TraceAnswers
PROPERTIES ImplementsIsa OutTakesEffect FrameExact
CHECK_DEADLOCK FALSE
