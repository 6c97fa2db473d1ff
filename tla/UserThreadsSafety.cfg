SPECIFICATION FairSpec
CONSTANTS
    Program <- MixedProgram
    TimeSlice = 2
    SeatsP = 1
    SeatsS = 2
    THREAD_MAX = 6
    MaxTstp = 4
INVARIANTS
    TypeOK
    OnePlace
    LockIsHonest
    SnapshotHolds
    ReturnsWhenDone
    NumbersAreRight
    OverbookedOnlyByTies
PROPERTIES
    NobodyIsLeftBehind
    EveryThreadExits
