SPECIFICATION BlkListsSpec
CONSTANTS
    NSlab = 3
    BlkSize <- MCBlkSize
    Bitl <- MCBitl
    MapBits = 4
    MapOne = 8
    SpaceStart = 8
    NDesc = 3
    Kernels <- MCKernels
    Sizes <- MCSizes
    Addrs <- MCAddrs
    h1 = h1
    h2 = h2
    e1 = e1
    e2 = e2
    e3 = e3
    e4 = e4
    Heads <- MCHead
    Nodes <- MCNode
INVARIANTS
    TypeOK
    QueuesSound
    LedgerMatchesMaps
    NoOverlap
    ReservedNeverHandedOut
    HeldCanBeFreed
    AllFreeIsWhole
    Represents
    ReadersSeeTheLists
PROPERTIES
    ImplementsBlockStore
