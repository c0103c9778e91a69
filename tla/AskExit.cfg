\* The daemon is told to exit just before it starts to wait.
CONSTANTS
    p1 = p1
    p2 = p2
    c0 = c0
    c1 = c1
    NoPid = NoPid
    Pids <- FirstPid
    KnownPids <- FirstPid
    Cpus <- OneCpu
    Cpu0 = c0
    QCap = 1
    DCap = 1
    RingSlots = 2
    MaxBatch = 2
    MaxEnables = 1
    BatchSize = 1
SPECIFICATION FairSpec
PROPERTIES
    ExitIsHonoured
CHECK_DEADLOCK FALSE
