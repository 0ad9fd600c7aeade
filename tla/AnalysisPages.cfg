SPECIFICATION FairSpec
CONSTANTS
    c1 = c1
    c2 = c2
    Clients = {c1, c2}
    Limits <- MCLimits
    Cases <- MCCases
    MaxAnalyses = 2
    MaxProjections = 1
INVARIANTS
    TypeOK
    PagesAgree
    CompleteMeansEverything
    KernelVerdictsHold
    CachesTrue
    ContinuationsConsumable
    ThreadsHoldTheLock
PROPERTY
    RequestsEnd
