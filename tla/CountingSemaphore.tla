------------------------- MODULE CountingSemaphore -------------------------
(***************************************************************************)
(* What a dispatch_semaphore_t promises its callers, with no trace of how  *)
(* libdispatch keeps the promise: a number of permits, callers that are    *)
(* between a dispatch_semaphore_wait() call and its return, and the result *)
(* of each caller's last wait.  DispatchSemaphore implements this module;  *)
(* the modules of the classes that use semaphores rely on it alone.        *)
(***************************************************************************)
EXTENDS Integers

CONSTANTS Threads,       \* the callers
          InitialValue,  \* the argument of dispatch_semaphore_create()
          LongMax        \* the largest value of the C type long

VARIABLES permits,   \* signals and initial permits not yet consumed
          caller,    \* caller[t]: "idle", "timed" or "forever" (inside a wait)
          result,    \* result[t]: what t's last wait returned
          status     \* "live", "freed" or "crashed"

vars == <<permits, caller, result, status>>

Init ==
    /\ permits = InitialValue
    /\ caller = [t \in Threads |-> "idle"]
    /\ result = [t \in Threads |-> "none"]
    /\ status = "live"

\* A signal makes one permit available.
Signal(t) ==
    /\ caller[t] = "idle"
    /\ permits' = permits + 1
    /\ UNCHANGED <<caller, result, status>>

\* A wait that finds a permit takes it and returns at once.
AcquireAtOnce(t) ==
    /\ caller[t] = "idle"
    /\ permits > 0
    /\ permits' = permits - 1
    /\ result' = [result EXCEPT ![t] = "acquired"]
    /\ UNCHANGED <<caller, status>>

\* A wait that finds none keeps its caller waiting.
StartWaiting(t, kind) ==
    /\ caller[t] = "idle"
    /\ caller' = [caller EXCEPT ![t] = kind]
    /\ UNCHANGED <<permits, result, status>>

\* A waiting caller returns zero only by consuming a permit.
Acquire(t) ==
    /\ caller[t] \in {"timed", "forever"}
    /\ permits > 0
    /\ permits' = permits - 1
    /\ caller' = [caller EXCEPT ![t] = "idle"]
    /\ result' = [result EXCEPT ![t] = "acquired"]
    /\ UNCHANGED status

\* Only a wait that was given a timeout may return non-zero; it takes no permit.
TimeOut(t) ==
    /\ caller[t] = "timed"
    /\ caller' = [caller EXCEPT ![t] = "idle"]
    /\ result' = [result EXCEPT ![t] = "timeout"]
    /\ UNCHANGED <<permits, status>>

\* More permits than a long can count: the process is aborted.
Overflow(t) ==
    /\ caller[t] = "idle"
    /\ permits >= LongMax
    /\ status' = "crashed"
    /\ UNCHANGED <<permits, caller, result>>

\* The last release: a semaphore below its initial value must not be freed.
Dispose ==
    /\ \A t \in Threads : caller[t] = "idle"
    /\ status' = IF permits < InitialValue THEN "crashed" ELSE "freed"
    /\ UNCHANGED <<permits, caller, result>>

Next ==
    /\ status = "live"
    /\ \/ \E t \in Threads :
            \/ Signal(t)
            \/ AcquireAtOnce(t)
            \/ \E kind \in {"timed", "forever"} : StartWaiting(t, kind)
            \/ Acquire(t)
            \/ TimeOut(t)
            \/ Overflow(t)
       \/ Dispose

Spec == Init /\ [][Next]_vars
=============================================================================
