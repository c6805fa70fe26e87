SPECIFICATION Spec
CONSTANTS
    Program <- MCProgram
    Records <- MCRecords
    Most = 3
INVARIANT RunsWhole
