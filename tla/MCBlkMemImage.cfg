SPECIFICATION Spec
CONSTANTS
    NSlab = 3
    BlkSize <- MCBlkSize
    Bitl <- MCBitl
    MapBits = 4
    MapOne = 8
    SpaceStart = 8
    NDesc = 3
    Kernels <- MCBoardKernels
    Sizes <- MCSizes
    Addrs <- MCAddrs
INVARIANTS
    KernelImageNeverHandedOut
