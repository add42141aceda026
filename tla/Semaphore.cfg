SPECIFICATION UnitSpec
CONSTANTS
    Threads = {"t1", "t2", "t3"}
    InitialValue = 1
    LongMax = 2
    Windows = {"t1", "t2"}
    Tickets = 6
    Timers = {"t1", "t2", "t3"}
INVARIANTS WakeupBalance EveryTicketSoldOnce BoundedOversale RunningIsCancellable NoDeadEntry
PROPERTIES ImplementsCountingSemaphore NoStrandedPermit WindowsSellOut OneShotEnds
CHECK_DEADLOCK FALSE
