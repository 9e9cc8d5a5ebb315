SPECIFICATION HalSpec
CONSTANTS
    W = 7
    Calls <- MCCalls
    Period = 12
    Lag = 3
    Milli = 5
    Us <- MCUs
    Ms <- MCMs
    MaxElapsed = 24
INVARIANTS
    QuotientRight
    RemainderRight
    NothingShiftedOut
    NeverEarly
    OnTime
PROPERTIES
    HalReturns
CHECK_DEADLOCK FALSE
