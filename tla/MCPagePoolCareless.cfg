SPECIFICATION CarelessSpec
CONSTANTS
    NSlab = 2
    BlkSize <- MCBlkSize
    Bitl <- MCBitl
    MapBits = 2
    MapOne = 16
    SpaceStart = 16
    NDesc = 2
    Kernels <- MCKernels
    Sizes = {8, 16}
    Addrs <- MCAddrs
    Page = 2
    PoolTable <- MCPoolTable
    PageSizes <- MCPageSizes
    WildFrees <- MCWildFrees
PROPERTIES
    OnlyOwnedPagesAreFreed
