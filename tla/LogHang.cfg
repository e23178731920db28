SPECIFICATION FairSpec
CONSTANTS
    Writers = {w1, w2}
    Flusher = Flusher
    Nobody = Nobody
    NoLine = NoLine
    m_split_lines = 2
    max_queue_size = 1
    MaxLines = 4
    MaxDay = 2
PROPERTIES
    LoggingReturns
CHECK_DEADLOCK FALSE
