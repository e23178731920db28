SPECIFICATION FairSpec
CONSTANTS
    Fds = {fd1}
    Workers = {w1}
    NoFd = NoFd
    MaxConns = 1
    MaxSends = 1
    READ_BUFFER_SIZE = 2
    MAX_FD = 1
    m_max_requests = 1
    Signals = {"SIGALRM"}
PROPERTY IdleClosed
CHECK_DEADLOCK FALSE
