SPECIFICATION Spec
CONSTANTS
    Thread = {t1, t2, t3, t4}
    NoThread = NoThread
    SpuriousWakeups = TRUE
    Thresholds = {2, 4}
    Calls = 2
INVARIANTS NeverExceeded Rendezvous NobodyForgotten
PROPERTIES ImplementsBarrier AllCleared
CHECK_DEADLOCK FALSE
