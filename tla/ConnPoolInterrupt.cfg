SPECIFICATION Spec
CONSTANTS
    Threads = {t1, t2, t3}
    SqlNums = {2}
    Interrupts = TRUE
    MayExit = FALSE
    Null = Null
    NoThread = NoThread
    Main = Main
INVARIANTS NeverAborts
CHECK_DEADLOCK FALSE
