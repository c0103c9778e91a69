\* Two processes of the workload, pids 2 and 12, one of which may be used again.
CONSTANTS
    Pids <- SomePids
    Launcher = 0
    PidFile <- Two
    Within <- SomeWithin
    Prefix <- SomePrefix
    MaxLines = 9
    MaxLost = 1
SPECIFICATION Spec
INVARIANTS
    TimesAreOwn
    EndsAreOwn
    FailsOnlyOnLoss
CHECK_DEADLOCK FALSE
