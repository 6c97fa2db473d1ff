SPECIFICATION FairSpec
CONSTANTS
    a = a
    b = b
    CR = CR
    LF = LF
    IAC = IAC
    IP = IP
    Chars = {a, b}
    MaxLength = 2
    MaxLines = 2
    MaxPresses = 2
INVARIANTS
    LinesAreWhole
    NothingIsLeft
PROPERTIES
    EveryLineIsAnswered
