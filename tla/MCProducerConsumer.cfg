CONSTANTS
    TP1 = TP1
    TP2 = TP2
    TC1 = TC1
    TC2 = TC2
    Thread <- Threads
    Producer <- Producers
    NoThread = NoThread
    SpuriousWakeups = TRUE
    NULL = NULL
    Size = 5
    IntMod = 7
    Ptr <- Numbers
SPECIFICATION Spec
INVARIANTS HandedOverWhole InOrder
PROPERTIES UsesFIFO Alternates
