\* dmxmain hangs, dies, is killed, restarted, and the machine rebooted
SPECIFICATION FairSpec
CONSTANTS
    Watched <- Threads
    SleepRounds = 6
    FailWindow = 60
    MaxFailures = 5
    MaxStart = 4
INVARIANTS
    KilledForCause
    RebootForCause
PROPERTIES
    Replaced
\* dmxdog may be stopped, and the machine rebooted
CHECK_DEADLOCK FALSE
