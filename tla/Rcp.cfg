SPECIFICATION Spec
CONSTANTS
  Field = 5
  Heights = {4}
  Lines = {1, 3}
  PiTimes = {1, 3}
  SiTimes = {3}
  IoTime = 1
  LatchTime = 2
  AiDen = 2
  AiRates = {1, 2}
  AiLens = {1, 3}
  MaxClock = 8
  MaxBlock = 3
  MaxAccess = 3
  Registers = {"nop", "MI_MASK", "cartWrite", "cartRead", "PI_LEN", "PI_STATUS_read", "PI_STATUS", "SI_DMA", "SI_STATUS", "AI_LEN_read", "AI_LEN", "AI_DACRATE", "AI_STATUS", "VI_INTR", "VI_V_SYNC", "VI_CURRENT"}
  MemWords = 2
  Gens = 3
  MaxKicks = 3
  MaxPokes = 1
  MaxTime = 1
  Leads = {0, 1}
  Grains = {1, 4}
  RingN = 3
  MaxAt = 8
  MaxPosts = 2
  LogN = 2
  MbN = 2
  MbGrain = 2
  JLeads = {0, 1}
  MaxDate = 3
  MaxWr = 3
INVARIANTS HostInvisibleButLine TransfersEnd ExecutesTheKick HandshakesHold ReadsAreDated
PROPERTIES PixelsFirst InGuestTime
CHECK_DEADLOCK FALSE
