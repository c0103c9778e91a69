\* Three launchers, and everything that may fail.
SPECIFICATION FairSpec
CONSTANTS
    N = 3
    l1 = l1
    l2 = l2
    l3 = l3
    Launchers <- ThreeLaunchers
    Poison = Poison
    NoThread = NoThread
    LongGap = FALSE
    Failures = {"launch", "function", "reader"}
INVARIANTS
    TypeOK
    CountMatches
    JoinMeansHandled
    ChildrenTracked
    NoResultDropped
    Complete
PROPERTIES
    ImplementsInvocations
    Terminates
    LaunchersCatchUp
