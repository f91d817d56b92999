\* commands rewrite the patch while a reader uses it
SPECIFICATION Spec
CONSTANTS
    INPUT_CHANNELS = 3
    DMX_CHANNELS = 1
    Kinds <- AllKinds
    Targets <- AllTargets
    NoInput = NoInput
INVARIANTS
    TypeOK
    PairsMutual
    RightChannel
\* a failed assertion ends the program
CHECK_DEADLOCK FALSE
