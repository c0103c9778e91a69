SPECIFICATION Spec
CONSTANTS
    dur_list <- Durations
    MaxAverage = 9
    downscale = 2
    MinuteLen = 4
    Late = 1
    Interval = 2
    JoinTimeout = 2
    MaxAfter = 1
    Traces <- AllTraces
    TestLines = 2
    NoFile = NoFile
    MaxGens = 2
    MaxRuns = 2
    MaxCrashes = 1
    MaxTerms = 1
INVARIANTS
    TypeOK
    CountsKept
    NotAheadOfTrace
    WorkloadKept
    RestoredAtEnd
    MeasuredAsAsked
    LogsOfThisRun
    NoDrift
    SamplesComplete
