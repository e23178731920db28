SPECIFICATION Spec
CONSTANTS
    Requests <- MCRequests
    DocRoot <- MCDocRoot
    Users <- MCUsers
    READ_BUFFER_SIZE = 24
    BYTE_VALUES = 8
    NAME_LEN = 4
    TrigModes = {0, 1}
    MaxRequests = 2
    MaxConns = 2
    MaxSplits = 2
INVARIANTS
    TypeOK
    AnswersRequest
    NothingWaits
    SentInOrder
    MapsBalance
    IndexIsTrue
PROPERTIES
    Answered
CHECK_DEADLOCK FALSE
