SPECIFICATION FairSpec
CONSTANTS
    IntDir <- MCIntDir
    HostSize <- MCHostSize
    Missing <- MCMissing
    Ask = 2
    MAX_BUF = 2
    NO_HANDLE = 2
    Listed = {"int"}
INVARIANTS TypeOK HandleLive
PROPERTIES ReadsAreStreams CallsReturn
CHECK_DEADLOCK FALSE
