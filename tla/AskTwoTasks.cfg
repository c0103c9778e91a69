\* Two tasks that enter SCHED_EXT once, and one CPU that looks for work.
CONSTANTS
    p1 = p1
    p2 = p2
    c0 = c0
    c1 = c1
    NoPid = NoPid
    Pids <- TwoPids
    KnownPids <- TwoPids
    Cpus <- OneCpu
    Cpu0 = c0
    QCap = 2
    DCap = 1
    RingSlots = 1
    MaxBatch = 2
    MaxEnables = 1
    BatchSize = 1
SPECIFICATION Spec
SYMMETRY PidSymmetry
CONSTRAINT Serving
INVARIANTS
    TypeOK
    NoLostWakeup
    GateRespected
    InfOnlyForShort
PROPERTIES
    ImplementsGate
CHECK_DEADLOCK FALSE
