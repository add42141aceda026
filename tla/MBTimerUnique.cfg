SPECIFICATION TimerSpec
CONSTANT Timers = {a, b, c}
INVARIANT UniqueName
CHECK_DEADLOCK FALSE
