CONSTANTS
    MaxBegins = 3
    MaxSessions = 2
    MaxPermits = 2
    Callers = {a, b}
    Tasks = {t1, t2}
SPECIFICATION Spec
INVARIANTS FirstSessionSafe StopMeansStopped NoTaskLost
           DocumentedOrder SummaryAfterRequests DocumentedDeadlocks AtomicCalls
PROPERTIES StallReported MonitorsEnd StopCompletes OthersFinish
CHECK_DEADLOCK FALSE
