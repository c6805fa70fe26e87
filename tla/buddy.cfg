SPECIFICATION FairSpec
CONSTANTS
    Slots = 2
    Size <- MCSize
    PB_NO_HANDLE = 255
    MaxFaults = 3
    MaxLate = 2
INVARIANTS LagIsLate AnswersFit SlotsAccounted
PROPERTY ListingEnds
CHECK_DEADLOCK FALSE
