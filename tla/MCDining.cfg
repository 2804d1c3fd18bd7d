CONSTANTS
    N = 5
    Programs = {"Assignment", "Assignment_sol_2"}
    Thread <- Philosophers
    NoThread = NoThread
    SpuriousWakeups = TRUE
SPECIFICATION Spec
INVARIANTS NoHoldAndWait EatAssertsHold
PROPERTIES SpoonsComeBack EatOrAllAsleep
