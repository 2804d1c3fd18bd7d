SPECIFICATION Spec
CONSTANTS
    Client = {c1, c2}
    MAX_CLINETS = 3
    Char = {a, b}
    NUL = NUL
    Width = 2
    Lines = 2
INVARIANT RefusedOnlyWhenFull
CHECK_DEADLOCK FALSE
