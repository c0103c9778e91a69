\* One pid that enters SCHED_EXT twice, and two CPUs, CPU 0 among them.
CONSTANTS
    p1 = p1
    p2 = p2
    c0 = c0
    c1 = c1
    NoPid = NoPid
    Pids <- FirstPid
    KnownPids <- FirstPid
    Cpus <- TwoCpus
    Cpu0 = c0
    QCap = 1
    DCap = 1
    RingSlots = 1
    MaxBatch = 2
    MaxEnables = 2
    BatchSize = 1
SPECIFICATION Spec
CONSTRAINT Serving
INVARIANTS
    DaemonListConsistent
    NoLostTask
    NoStuckTask
    ManagedHasCtx
CHECK_DEADLOCK FALSE
