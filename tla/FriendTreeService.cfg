SPECIFICATION FairSpec
CONSTANTS
    a = a
    b = b
    c = c
    NotTako = NotTako
    Friends = {a, b, c}
    FirstValue <- Values
    MaxProcs = 4
    MaxCommands = 4
    DeepAdoptions = FALSE
CHECK_DEADLOCK FALSE
INVARIANTS
    QuietAtRest
PROPERTIES
    ImplementsService
    EveryCommandEnds
    EverybodyLeaves
