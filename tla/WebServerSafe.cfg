SPECIFICATION Spec
CONSTANTS
    Workers = {w1}
    Fds = {c1, c2}
    Timers = {t1, t2}
    Null = Null
    Span = 1
    MAX_FD = 2
    MaxRequests = 1
    m_listen_trig_mode = "ET"
    MaxDrift = 0
    ListenFd = ListenFd
    NoFd = NoFd
    NoTimer = NoTimer
SYMMETRY Symmetry
INVARIANTS TypeOK Handshake TimerLive TimerGuards NeverOvercounts
PROPERTIES StuckOnly TickComplete
CHECK_DEADLOCK FALSE
