SPECIFICATION Spec
CONSTANTS
    dur_list <- Durations
    MaxAverage = 9
    downscale = 2
    MinuteLen = 4
    Late = 0
    Interval = 2
    JoinTimeout = 2
    MaxAfter = 0
    Traces <- OneTrace
    TestLines = 2
    NoFile = NoFile
    MaxGens = 1
    MaxRuns = 1
    MaxCrashes = 0
    MaxTerms = 0
INVARIANTS
    LaunchedWhenDue
