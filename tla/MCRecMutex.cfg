SPECIFICATION Spec
CONSTANTS
    Thread = {t1, t2, t3}
    NoThread = NoThread
    SpuriousWakeups = TRUE
    CountMod = 4
    MaxDepth = 3
INVARIANTS OneHolder AssertsBlameCaller NoStrandedWaiter
PROPERTY FreeMutexIsTaken
CHECK_DEADLOCK FALSE
