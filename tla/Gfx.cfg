CONSTANTS
 Foci = {"vector", "vecmem", "jit", "block", "walk", "raster", "comb", "blend", "tmem", "gpu"}
 W = 3
 IndexBits = 2
 Factors = {0, 1, 3, 4, 7}
 VuOps = 1
 V = 8
 M = 24
 N = 6
 Target = 0
 Images <- SmallImages
 kMinOps = 2
 kMaxOps = 4
 kJitWays = 2
 kJitNewWay = 2
 Tanda = 4
 Writes = 2
 Batches = 2
 BlockOps = 4
 Cells = 42
 CiAddrs = {14}
 ZiAddr = 2
 CiWidth = 2
 ScissorXs = {2}
 ScissorY = 2
 Modes = {"fill", "blend", "zupd", "tex", "feed", "zcmp"}
 Commands <- SmallLists
 MaxCmds = 3
 MaxDirty = 1
 WrSlots = 2
 MaxTri = 1
 VertexX = {0, 3, 10, 24, 39}
 VertexY = {1, 2, 4, 7}
 Scissors <- SmallScissors
 Planes <- SmallPlanes
 CombWords <- NearWords
 LaterWords <- NextWords
 TexelPairs <- SmallTexels
 CombSteps = 3
 BlendModes <- SmallBlends
 Sources <- SmallSources
 Coverages = {3, 8}
 Depths <- SmallDepths
 FbPixels <- SmallFb
 BlendSteps = 2
 TmemBytes = 128
 RamBytes = 320
 TiWidth = 16
 Loads <- SmallLoads
 Foldings <- SmallFoldings
 Points <- SmallPoints
 MaxLoads = 2
 Screen = 28
 Prims <- SmallPrims
 LiveMax = 3
 QueueMax = 2
 GpuConfigs <- TwinConfigs
 PrimMax = 3
 ForeignPx = {9}
 OverLast = FALSE
 ForeignMax = 1
SPECIFICATION Spec
INVARIANTS VectorExact TranslatorExact PixelsExact PaintedInOrder
 
CHECK_DEADLOCK FALSE
