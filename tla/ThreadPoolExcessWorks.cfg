SPECIFICATION FairSpec
CONSTANTS
    Backends = {t1, t2}
    N = 2
    T = 2
    NumWorks <- WorksSixTwo
    a <- TwoA
    b <- TwoB
PROPERTY
    SynchronizeReturns
