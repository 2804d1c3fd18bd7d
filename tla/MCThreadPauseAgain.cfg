SPECIFICATION Spec
CONSTANTS
    Thread = {c1, w}
    Controller = {c1}
    Worker = w
    NoThread = NoThread
    SpuriousWakeups = FALSE
    Pauses = 2
PROPERTY PauseReturns
CHECK_DEADLOCK FALSE
