SPECIFICATION Spec
CONSTANTS
    Threads = {t1, t2}
    MaxConn = 1
    Exits = FALSE
INVARIANT GetsConnection
