SPECIFICATION Spec
CONSTANTS
    Fds = {fd1, fd2}
    Workers = {w1, w2}
    NoFd = NoFd
    MaxConns = 3
    MaxSends = 2
    READ_BUFFER_SIZE = 2
    MAX_FD = 2
    m_max_requests = 1
    Signals = {}
SYMMETRY Symmetry
INVARIANTS
    TypeOK
    OneJobAtATime
    NoStaleImprov
    EventsFresh
    BooksBalance
    SingleOwner
    NoOrphan
    OwnBytes
    NoStaleFlag
CHECK_DEADLOCK FALSE
