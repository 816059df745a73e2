SPECIFICATION LifeFairSpec
CONSTANTS
    Workers = {w1}
    Fds = {c1}
    Timers = {t1, t2}
    Null = Null
    Span = 1
    MAX_FD = 1
    MaxRequests = 1
    m_listen_trig_mode = "LT"
    MaxDrift = 0
    ListenFd = ListenFd
    NoFd = NoFd
    NoTimer = NoTimer
    PipeSize = 2
INVARIANTS LifeTypeOK AlarmNeverLost
PROPERTIES SpinEnds IdleClosed HupClosed TermStops
CHECK_DEADLOCK FALSE
