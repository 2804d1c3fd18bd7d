SPECIFICATION Spec
CONSTANTS
    Thread = {t1, t2, t3}
    NoThread = NoThread
    SpuriousWakeups = TRUE
    InitialPermits = 1
    MaxPermits = 2
INVARIANTS NeverOverdrawn NoLostWakeup
PROPERTY ImplementsCountingSemaphore
CHECK_DEADLOCK FALSE
