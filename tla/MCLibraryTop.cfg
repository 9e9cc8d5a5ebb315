SPECIFICATION LibSpec
CONSTANTS
    Word = 16
    Sign = 128
    Dividends <- MCDividends
    Divisors <- MCDivisors
    Size = 8
    NUL = 0
    Byte <- MCByte
    Memories <- MCMemories
    MemCalls <- MCMemCalls
    Texts <- MCTexts
    TextCalls <- MCTextCalls
    CharBits = 4
    ShortBits = 8
    IntBits = 16
    LongLongBits = 24
    Top = 128
    Requests <- MCTopRequests
    Jobs <- MCJobs
    MaxJobs = 3
    Keys <- MCKeys
    MaxKeys = 4
    TxDepth = 2
    RxDepth = 2
    OutBufSize = 6
    InBufSize = 3
INVARIANTS
    NothingOutside
CHECK_DEADLOCK FALSE
