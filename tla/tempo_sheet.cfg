\* is a sheet played with its steps per beat?
SPECIFICATION Spec
CONSTANTS
    Tick = 500000
    Jumps <- MCJumps
    BpmLevels <- MCBpmLevels
    BeatsPerMinute <- MCBeatsPerMinute
    Sheets <- SlowSheets
    Tappers <- MCTappers
    TAPSYNC_REMEMBER_TAPS = 3
    TAPSYNC_MIN_INTERVALS = 2
    LongAgo = 1000000
    MaxLate = 500000
    MaxAhead = 1000000
INVARIANTS
    StepsPerBeatKept
\* a failed assertion ends the program
CHECK_DEADLOCK FALSE
