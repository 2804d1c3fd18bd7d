CONSTANTS
    r1 = r1
    r2 = r2
    r3 = r3
    w1 = w1
    w2 = w2
    Thread <- ThreeAndTwo
    NoThread = NoThread
    SpuriousWakeups = TRUE
    Reader <- Readers
    Capacity = 2
    Comeback = FALSE
SPECIFICATION Spec
INVARIANTS OneDirection NobodyStranded
PROPERTIES EveryCarCrosses
