SPECIFICATION Spec
CONSTANTS
    Threads = {t1, t2}
    Nobody = Nobody
    Items = {a, b}
    NoItem = NoItem
    m_max_size = 3
SYMMETRY Symmetry
INVARIANTS
    TypeOK
    Inv
PROPERTIES
    KeepsPromise
    BackIsNewest
CHECK_DEADLOCK FALSE
