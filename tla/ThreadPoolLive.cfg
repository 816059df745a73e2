SPECIFICATION FairSpec
CONSTANTS
    Workers = {w1, w2}
    Producers = {main}
    Requests = {c1, c2}
    MaxRequests = 1
    NoThread = NoThread
    NoRequest = NoRequest
INVARIANTS TypeOK NoLostWakeup
PROPERTIES FifoOnce TasksStart
