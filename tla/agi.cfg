SPECIFICATION FairSpec
CONSTANTS
    ROMFS_MAX_HANDLES = 6
    VAGI_RES_MAX_HANDLES = 6
    Timeout = 2
    Nums <- MCNums
    CodeEnd <- MCCodeEnd
    Entry <- MCEntry
INVARIANTS HandlesOwned Accounted WildOnlyAtTheLimit
PROPERTIES FramesEnd
CHECK_DEADLOCK FALSE
