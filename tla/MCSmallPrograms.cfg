SPECIFICATION SmallSpec
CONSTANTS
    Node = {n1, n2, n3, n4}
    Data = {d1, d2}
    NIL = NIL
    Nr_threads = 3
    ArraySize = 5
    Sender = {s1, s2, s3}
    MAX_MESSAGES = 2
    BufferSizes = {1, 3, 4}
    Amounts <- SomeAmounts
    Offsets <- SomeOffsets
    MaxSize = 8
INVARIANTS Mirrored NothingLeft FilesApart SumsPrinted ReceiverFirstDelivers OnlyNegativesStray
PROPERTY ImplementsList
CHECK_DEADLOCK FALSE
