SPECIFICATION Spec
CONSTANTS
    s1 = s1
    s2 = s2
    c1 = c1
    c2 = c2
    t1 = t1
    t2 = t2
    Servers = {s1, s2}
    Conns = {c1}
    Trains = {t1, t2}
    SEAT_NUM = 2
    PaidAtFirst <- FreeAndFull
INVARIANT
    SeatHasOneHolder
