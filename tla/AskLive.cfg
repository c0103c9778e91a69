\* Liveness: one pid that enters SCHED_EXT twice, and one CPU.
CONSTANTS
    p1 = p1
    p2 = p2
    c0 = c0
    c1 = c1
    NoPid = NoPid
    Pids <- FirstPid
    KnownPids <- FirstPid
    Cpus <- OneCpu
    Cpu0 = c0
    QCap = 1
    DCap = 1
    RingSlots = 2
    MaxBatch = 2
    MaxEnables = 2
    BatchSize = 1
SPECIFICATION FairSpec
PROPERTIES
    WithheldIsReleased
    HeldIsQueued
CHECK_DEADLOCK FALSE
