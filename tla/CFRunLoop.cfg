CONSTANTS
    Modes = {"default", "tracking"}
    CommonModes = {"default"}
    Sources = {"s"}
    Order <- OrderValue
    Ports = {}
    Timers = {"t"}
    Intervals = {0, 1}
    Callers = {"c1"}
    Observed = {"beforeWaiting"}
    Adds <- AddsValue
    NestAt = {"source", "timer", "main"}
    RunArgs <- RunArgsValue
    MaxCalls = 2
    MaxDepth = 2
    MaxNow = 2
SPECIFICATION Spec
INVARIANTS SleepsOnlyWhenIdle BlocksKept
PROPERTY PendingServed
CHECK_DEADLOCK FALSE
