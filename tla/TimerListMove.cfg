SPECIFICATION Spec
CONSTANTS
    Timers = {t1, t2, t3}
    MaxTime = 2
    Null = Null
INVARIANTS Ascending
