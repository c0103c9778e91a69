\* A gap of the workload longer than the timeout of the launchers.
SPECIFICATION FairSpec
CONSTANTS
    N = 3
    l1 = l1
    l2 = l2
    l3 = l3
    Launchers <- ThreeLaunchers
    Poison = Poison
    NoThread = NoThread
    LongGap = TRUE
    Failures = {}
PROPERTIES
    LaunchersCatchUp
