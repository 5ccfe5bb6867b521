SPECIFICATION Spec
CONSTANTS
  FlashPages = 3
  SectorPages = 2
  FlashData = {1}
  MediaSize = 2
  Datums = {1}
  MaxStarts = 2
  PifLen = 6
  BlockBytes = {0, 1, 2, 254, 255}
  Counts <- PollCounts
  MaxCmds = 3
  MaxWall = 3
  Carts = {"A"}
  GbBanks = 1
  GbData = {1}
  Minute = 2
  Hour = 1
  Day = 1
  Days = 2
  MaxGb = 2
  Buttons = {"a", "b"}
  MaxTape = 3
  MaxSlots = 1
  kReserved = 1
  kSecPerClus = 2
  FatEntries = 2
  DirEntries = 3
  kMinClusters = 3
  SdSizes = {0, 1, 3}
  SdNodes = 3
  MaxMoves = 2
  BufSectors = 2
  Word = 2
  Gap = 2
  Values = {0, 1}
  Sizes = {3, 4}
  Interval = 2
  Budget = 26
INVARIANTS FlashKeeps SavesReachDisk InputsExact ClocksExact DecodersExact
PROPERTIES OwnSaveKept StepsKeep
CHECK_DEADLOCK FALSE
