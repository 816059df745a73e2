SPECIFICATION FairSpec
CONSTANTS
    Threads = {t1, t2, t3}
    SqlNums = {1, 3}
    Interrupts = TRUE
    MayExit = TRUE
    Null = Null
    NoThread = NoThread
    Main = Main
INVARIANTS TypeOK OneOwner NoUseAfterClose NoneLost NeverAbortsEnough NeverNull NeverBlocks
PROPERTIES Served
CHECK_DEADLOCK FALSE
