\* everything that changes the beat, while time passes
SPECIFICATION Spec
CONSTANTS
    Tick = 500000
    Jumps <- MCJumps
    BpmLevels <- MCBpmLevels
    BeatsPerMinute <- MCBeatsPerMinute
    Sheets <- MCSheets
    Tappers <- MCTappers
    TAPSYNC_REMEMBER_TAPS = 3
    TAPSYNC_MIN_INTERVALS = 2
    LongAgo = 1000000
    MaxLate = 500000
    MaxAhead = 1000000
INVARIANTS
    NextStepWithinWait
PROPERTIES
    WaitVanishes
\* a failed assertion ends the program
CHECK_DEADLOCK FALSE
