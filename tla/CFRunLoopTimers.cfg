CONSTANTS
    Modes = {"default", "tracking"}
    CommonModes = {"default"}
    Sources = {}
    Order <- OrderValue
    Ports = {"p"}
    Timers = {"t", "u"}
    Intervals = {1}
    Callers = {"c1"}
    Observed = {}
    Adds <- AddsTimers
    NestAt = {"timer"}
    RunArgs <- RunArgsValue
    MaxCalls = 2
    MaxDepth = 2
    MaxNow = 2
SPECIFICATION Spec
INVARIANT TimersArmed
CHECK_DEADLOCK FALSE
