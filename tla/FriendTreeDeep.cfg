SPECIFICATION Spec
CONSTANTS
    a = a
    b = b
    c = c
    NotTako = NotTako
    Friends = {a, b, c}
    FirstValue <- Values
    MaxProcs = 7
    MaxCommands = 4
    DeepAdoptions = TRUE
CHECK_DEADLOCK FALSE
INVARIANT
    AdoptedIsThere
