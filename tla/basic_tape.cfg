SPECIFICATION TapeFairSpec
CONSTANTS
    PROGRAM_SIZE = 14
    TapeNumber <- MCNumber
    TapeText <- MCText
    Slot = {0}
    Page <- MCPage
    LineMax = 6
    SLOT_MAX_LEN = 14
    MaxCalls = 5
    MaxLost = 1
PROPERTIES LoadedIsKept LoadEnds
CHECK_DEADLOCK FALSE
