\* Two tasks, one with the infinite slice, and two CPUs besides CPU 0.
CONSTANTS
    t1 = t1
    t2 = t2
    loader = loader
    c0 = c0
    c1 = c1
    c2 = c2
    NoTask = NoTask
    Tasks <- TwoTasks
    Short <- OneShort
    Cpus <- TwoCpus
    Cpu0 = c0
    Allowed <- WorkloadOnly
    Dfl = 1
    MaxRun = 2
    MaxEnters <- SecondReturns
    Loader = NoTask
    MaxEjects = 0
SPECIFICATION Spec
CONSTRAINT Serving
SYMMETRY CpuSymmetry
INVARIANTS
    TypeOK
    NoWorkAsleep
PROPERTIES
    ImplementsQueue
    GlobalNeverBack
    ChargedForRun
