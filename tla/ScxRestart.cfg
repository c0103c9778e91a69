\* A restart that the kernel asks for.
CONSTANTS
    t1 = t1
    t2 = t2
    loader = loader
    c0 = c0
    c1 = c1
    c2 = c2
    NoTask = NoTask
    Tasks <- TaskAndLoader
    Short <- OneShort
    Cpus <- WithCpu0
    Cpu0 = c0
    Allowed <- LoaderAnywhere
    Dfl = 1
    MaxRun = 2
    MaxEnters <- LoaderReturns
    Loader = loader
    MaxEjects = 1
SPECIFICATION Spec
PROPERTIES
    ServesUntilTold
