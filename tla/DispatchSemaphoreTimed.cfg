SPECIFICATION FairSpec
CONSTANTS
    Threads = {t1, t2, t3}
    InitialValue = 0
    LongMax = 2
PROPERTY TimedWaitReturns
CHECK_DEADLOCK FALSE
