\* uploads of programs while one runs
SPECIFICATION Spec
CONSTANTS
    b1 = b1
    b2 = b2
    b3 = b3
    Blocks <- MCBlocks
    NULL = NULL
    Sizes <- MCSizes
    StepNumbers <- MCStepNumbers
    Rows <- MCRows
    Zero = 0
SYMMETRY Interchangeable
INVARIANTS
    TypeOK
    BlocksOwned
    FaultsKnown
PROPERTIES
    RunningProgramKept
\* a fault ends the program
CHECK_DEADLOCK FALSE
