SPECIFICATION FairSpec
CONSTANTS
    p1 = p1
    p2 = p2
    Process = {p1, p2}
    NoProcess = NoProcess
    Lossy = {p2}
    Signalled = {p2}
    NumWant = 2
CHECK_DEADLOCK FALSE
INVARIANTS
    TypeOK
PROPERTIES
    Introduces
    ComesBack
    DeadForgotten
