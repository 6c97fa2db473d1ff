SPECIFICATION FairSpec
CONSTANTS
    Backends = {t1, t2, t3}
    N = 2
    T = 2
    NumWorks <- WorksThreeTwo
    a <- TwoA
    b <- TwoB
INVARIANTS
    TypeOK
    NoLostWakeup
    SynchronizedIsComplete
    SynchronizedIsQuiet
    NoWorkOfFreedRequest
    WorksAreDisjoint
    WorksAreBalanced
PROPERTIES
    ImplementsService
    PoolIsDestroyed
