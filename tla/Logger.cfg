SPECIFICATION FairSpec
CONSTANTS
    Writers = {t1, t2, t3}
    m_split_lines = 2
    MaxCount = 3
    MaxDay = 2
    NoThread = NoThread
    NoLine = NoLine
INVARIANTS TypeOK OwnLine Durable
PROPERTIES LogReturns
CHECK_DEADLOCK FALSE
