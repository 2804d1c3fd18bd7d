CONSTANTS
    N = 5
    Programs = {"Assignment_sol_2"}
    Thread <- Philosophers
    NoThread = NoThread
    SpuriousWakeups = FALSE
SPECIFICATION Spec
PROPERTY EatForever
CHECK_DEADLOCK FALSE
