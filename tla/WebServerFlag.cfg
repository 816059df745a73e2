SPECIFICATION Spec
CONSTANTS
    Workers = {w1, w2}
    Fds = {c1}
    Timers = {t1, t2}
    Null = Null
    Span = 1
    MAX_FD = 2
    MaxRequests = 1
    m_listen_trig_mode = "LT"
    MaxDrift = 1
    ListenFd = ListenFd
    NoFd = NoFd
    NoTimer = NoTimer
PROPERTIES FlagInTime
CHECK_DEADLOCK FALSE
