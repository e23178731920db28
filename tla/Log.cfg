SPECIFICATION Spec
CONSTANTS
    Writers = {w1, w2}
    Flusher = Flusher
    Nobody = Nobody
    NoLine = NoLine
    m_split_lines = 2
    max_queue_size = 1
    MaxLines = 5
    MaxDay = 2
SYMMETRY Symmetry
INVARIANTS
    TypeOK
    OncePerLine
    OnDiskOnReturn
    FilesSplit
    HangsEmpty
CHECK_DEADLOCK FALSE
