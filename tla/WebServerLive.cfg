SPECIFICATION FairSpec
CONSTANTS
    Fds = {fd1, fd2}
    Workers = {w1, w2}
    NoFd = NoFd
    MaxConns = 2
    MaxSends = 1
    READ_BUFFER_SIZE = 2
    MAX_FD = 1
    m_max_requests = 1
    Signals = {"SIGALRM", "SIGTERM"}
INVARIANTS
    BooksBalance
PROPERTIES
    HandoverEnds
    DepartedReaped
    AlarmGoesOn
CHECK_DEADLOCK FALSE
