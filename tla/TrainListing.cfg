SPECIFICATION SpecListing
CONSTANTS
    s1 = s1
    c1 = c1
    r1 = r1
    t1 = t1
    t2 = t2
    Servers = {s1}
    Conns = {c1}
    ReadConns = {r1}
    Trains = {t1, t2}
    SEAT_NUM = 2
    PaidAtFirst <- FreeAndFull
INVARIANTS
    ReservedWasReserved
    FreeWasFreeOrIsSold
    PaidIsListed
