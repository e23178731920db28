SPECIFICATION FairSpec
CONSTANTS
    Threads = {t1, t2, t3, t4}
    MaxConn = 3
    Exits = TRUE
INVARIANTS
    TypeOK
    PermitsMatch
    PopIsSafe
    OneUser
    CountersTrue
PROPERTIES
    KeepsPromise
    WaitersServed
CHECK_DEADLOCK FALSE
