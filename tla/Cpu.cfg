CONSTANTS
 One = 8
 Cpi = 5
 Wrap = 32
 StallMax = 3
 BlockMax = 3
 ClockOps = 8
 Pages = {0, 1}
 Codes <- SmallCodes
 BufMax = 2
 Evictions = TRUE
 Moves = 3
 Gprs = {0, 1, 2, 3}
 RcN = 2
 RcOps = 4
 Lines = {0, 1, 2}
 Indexes = 2
 CacheOps = 4
 Progs <- SmallProgs
 Asids = {0, 1}
 TlbSize = 2
 TlbrUsed = FALSE
 Events = 3
 PS = 2
 PD = 5
 ExpS = 6
 OneBits = 3
 FineBits = 6
 IntBits = 4
 KnowOps = 4
SPECIFICATION Spec
INVARIANTS TimeKept CodeIsThere ExitsCoherent LazyIsEager FpExact
PROPERTIES TrapsPrecise
CHECK_DEADLOCK FALSE
