SPECIFICATION Spec
CONSTANTS
    Program <- TiedProgram
    TimeSlice = 1
    SeatsP = 1
    SeatsS = 2
    THREAD_MAX = 6
    MaxTstp = 1
INVARIANT
    SpotsAreThere
