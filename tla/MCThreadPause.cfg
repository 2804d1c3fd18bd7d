SPECIFICATION Spec
CONSTANTS
    Thread = {c1, c2, c3, w}
    Controller = {c1, c2, c3}
    Worker = w
    NoThread = NoThread
    SpuriousWakeups = TRUE
    Pauses = 2
INVARIANTS PauseReturnsPaused SleepsOnlyOnRequest
PROPERTIES PauseOfRunningWorkerReturns ResumedWorkerRuns
CHECK_DEADLOCK FALSE
