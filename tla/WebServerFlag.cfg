SPECIFICATION Spec
CONSTANTS
    Fds = {fd1, fd2}
    Workers = {w1, w2}
    NoFd = NoFd
    MaxConns = 2
    MaxSends = 2
    READ_BUFFER_SIZE = 2
    MAX_FD = 2
    m_max_requests = 1
    Signals = {}
INVARIANT CloseIsSeen
CHECK_DEADLOCK FALSE
