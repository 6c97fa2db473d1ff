SPECIFICATION FairSpec
CONSTANTS
    c1 = c1
    c2 = c2
    Conns = {c1, c2}
    NumSlots = 2
    TIME_OUT = 2
    Width = 12
    MaxTurn = 1
    MaxFailures = 1
INVARIANTS
    SlotsAreRight
    ReadDoesNotWait
    ClosedInTime
PROPERTIES
    NotClosedEarly
    EveryConnectionEnds
