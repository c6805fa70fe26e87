SPECIFICATION Spec
CONSTANTS
    PROGRAM_SIZE = 15
    Number <- MCNumber
    Text <- MCText
    Stmt <- MCStmt
    Direct <- MCDirect
    FOR_STACK_MAX = 2
    GOSUB_STACK_MAX = 2
    IntMax = 3
    MaxTyped = 5
INVARIANT EndMarkerThere
CHECK_DEADLOCK FALSE
