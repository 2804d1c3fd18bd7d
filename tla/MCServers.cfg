SPECIFICATION ServersSpec
CONSTANTS
    Client = {c1, c2, c3}
    MAX_CLINETS = 2
    Char = {a, b}
    NUL = NUL
    Width = 2
    Lines = 1
    Clients = 2
    MAX_NR_CLIENTS = 2
    TypedWidth = 6
    TypedWords <- OneLongWord
    TypedLines <- LinesOfEach
    FirstChar = a
INVARIANTS ServedAgree FirstEchoIsMine SessionsApart DiesOfKilledClient
PROPERTIES EveryClientIsAnswered SessionsEnd
CHECK_DEADLOCK FALSE
