----------------------------- MODULE MBMonitor -----------------------------
(***************************************************************************)
(* MBMonitor (RunLoopDemo): detects that the main thread is stuck.  An     *)
(* observer of the main run loop stores each activity and signals a        *)
(* semaphore; a monitor thread waits for the semaphore with a timeout and, *)
(* when it expires, looks at the activity.  beginMonitor, endMonitor and   *)
(* the observer run on the main thread; the monitor threads share its      *)
(* instance variables without a lock, one step for each access.  A         *)
(* monitor learns that it must end from runLoopObserver being NULL when    *)
(* its wait times out.                                                     *)
(***************************************************************************)
EXTENDS Naturals, FiniteSets

CONSTANTS MaxBegins,    \* bound on the calls of beginMonitor
          MaxSessions,  \* bound on those that install an observer
          MaxPermits    \* bound on the signals a monitor is behind

ASSUME MonitorAssumption ==
    MaxBegins \in Nat /\ MaxSessions \in Nat /\ MaxPermits \in Nat \ {0}

Sessions == 1 .. MaxSessions
NULL == 0

VARIABLES main,               \* where the main thread is
          begins, sessions,   \* how many of each there have been
          cpuMonitorTimer,    \* the timer the property refers to
          timers,             \* the timers scheduled on the main run loop
          runLoopObserver,    \* is it set?
          dispatchSemaphore,  \* NULL, or the session that created it
          permits,            \* permits[s]: the signals pending on semaphore s
          runLoopActivity,    \* "none", "busy" (before sources, after waiting)
                              \* or "other"
          monitor,            \* monitor[s]: where the thread of session s is
          on,                 \* on[s]: the semaphore it waits on
          activity,           \* history: what the observer stored last
          crashed,            \* has NULL been used as a semaphore?
          report              \* what a monitor last made of the run loop

mainVars == <<main, begins, sessions, cpuMonitorTimer, timers>>
monitorVars == <<mainVars, runLoopObserver, dispatchSemaphore, permits, runLoopActivity,
          monitor, on, activity, crashed, report>>

\* shareInstance
MonitorInit ==
    /\ main = "idle" /\ begins = 0 /\ sessions = 0
    /\ cpuMonitorTimer = NULL /\ timers = {}
    /\ runLoopObserver = FALSE /\ dispatchSemaphore = NULL
    /\ permits = [s \in Sessions |-> 0]
    /\ runLoopActivity = "none"
    /\ monitor = [s \in Sessions |-> "none"]
    /\ on = [s \in Sessions |-> NULL]
    /\ activity = "none" /\ crashed = FALSE /\ report = "fine"

-----------------------------------------------------------------------------
(* The main thread *)

\* beginMonitor starts the CPU timer and, unless there is an observer, makes
\* a semaphore ...
BeginCreates ==
    /\ ~crashed /\ main = "idle" /\ begins < MaxBegins
    /\ begins' = begins + 1
    /\ cpuMonitorTimer' = begins'
    /\ timers' = timers \cup {begins'}
    /\ IF runLoopObserver
         THEN UNCHANGED <<main, sessions, dispatchSemaphore>>
         ELSE /\ sessions < MaxSessions
              /\ sessions' = sessions + 1
              /\ dispatchSemaphore' = sessions'
              /\ main' = "creating"
    /\ UNCHANGED <<runLoopObserver, permits, runLoopActivity, monitor, on,
                   activity, crashed, report>>

\* ... and then an observer and a monitor thread.
BeginObserves ==
    /\ ~crashed /\ main = "creating"
    /\ main' = "idle"
    /\ runLoopObserver' = TRUE
    /\ monitor' = [monitor EXCEPT ![sessions] = "load"]
    /\ UNCHANGED <<begins, sessions, cpuMonitorTimer, timers, dispatchSemaphore,
                   permits, runLoopActivity, on, activity, crashed, report>>

\* Mutant: the timer is stopped only where there is no observer to remove.
EndStopsOne ==
    /\ ~crashed /\ main = "idle"
    /\ timers' = IF runLoopObserver THEN timers ELSE timers \ {cpuMonitorTimer}
    /\ runLoopObserver' = FALSE
    /\ activity' = "none"
    /\ UNCHANGED <<main, begins, sessions, cpuMonitorTimer, dispatchSemaphore,
                   permits, runLoopActivity, monitor, on, crashed, report>>

\* endMonitor stops the timer and removes and clears the observer.
endMonitor ==
    /\ ~crashed /\ main = "idle"
    /\ timers' = timers \ {cpuMonitorTimer}
    /\ runLoopObserver' = FALSE
    /\ activity' = "none"
    /\ UNCHANGED <<main, begins, sessions, cpuMonitorTimer, dispatchSemaphore,
                   permits, runLoopActivity, monitor, on, crashed, report>>

\* Mutant: the observer calls back whether or not it was removed.
CallBackRemoved(a) ==
    /\ ~crashed /\ main = "idle" /\ sessions > 0
    /\ main' = "in callback"
    /\ runLoopActivity' = a
    /\ activity' = a
    /\ UNCHANGED <<begins, sessions, cpuMonitorTimer, timers, runLoopObserver,
                   dispatchSemaphore, permits, monitor, on, crashed, report>>

\* runLoopObserverCallBack stores the activity the main run loop has come to,
CallBack(a) ==
    /\ ~crashed /\ main = "idle" /\ runLoopObserver
    /\ main' = "in callback"
    /\ runLoopActivity' = a
    /\ activity' = a
    /\ UNCHANGED <<begins, sessions, cpuMonitorTimer, timers, runLoopObserver,
                   dispatchSemaphore, permits, monitor, on, crashed, report>>

\* and signals the semaphore: a NULL one is dereferenced.
Signal ==
    /\ ~crashed /\ main = "in callback"
    /\ main' = "idle"
    /\ IF dispatchSemaphore = NULL
         THEN crashed' = TRUE /\ UNCHANGED permits
         ELSE /\ permits[dispatchSemaphore] < MaxPermits
              /\ permits' = [permits EXCEPT ![dispatchSemaphore] = @ + 1]
              /\ UNCHANGED crashed
    /\ UNCHANGED <<begins, sessions, cpuMonitorTimer, timers, runLoopObserver,
                   dispatchSemaphore, runLoopActivity, monitor, on, activity,
                   report>>

-----------------------------------------------------------------------------
(* The monitor thread of session s *)

Monitor(s, from, to) ==
    /\ ~crashed /\ monitor[s] = from
    /\ monitor' = [monitor EXCEPT ![s] = to]
    /\ UNCHANGED <<mainVars, runLoopObserver, activity>>

\* It loads dispatchSemaphore and waits for it; NULL is dereferenced.
Load(s) ==
    /\ Monitor(s, "load", "waiting")
    /\ on' = [on EXCEPT ![s] = dispatchSemaphore]
    /\ crashed' = (dispatchSemaphore = NULL)
    /\ UNCHANGED <<dispatchSemaphore, permits, runLoopActivity, report>>

\* The wait takes a signal, and the loop goes round,
WaitSucceeds(s) ==
    /\ Monitor(s, "waiting", "load")
    /\ permits[on[s]] > 0
    /\ permits' = [permits EXCEPT ![on[s]] = @ - 1]
    /\ UNCHANGED <<dispatchSemaphore, runLoopActivity, on, crashed, report>>

\* or there is none for 20 ms.
WaitTimesOut(s) ==
    /\ Monitor(s, "waiting", "timed out")
    /\ permits[on[s]] = 0
    /\ UNCHANGED <<dispatchSemaphore, permits, runLoopActivity, on, crashed,
                   report>>

\* if (!runLoopObserver)
TestObserver(s) ==
    /\ Monitor(s, "timed out", IF runLoopObserver THEN "look" ELSE "reset semaphore")
    /\ UNCHANGED <<dispatchSemaphore, permits, runLoopActivity, on, crashed,
                   report>>

\* dispatchSemaphore = 0;
ResetSemaphore(s) ==
    /\ Monitor(s, "reset semaphore", "reset activity")
    /\ dispatchSemaphore' = NULL
    /\ UNCHANGED <<permits, runLoopActivity, on, crashed, report>>

\* runLoopActivity = 0; return;
ResetActivity(s) ==
    /\ Monitor(s, "reset activity", "ended")
    /\ runLoopActivity' = "none"
    /\ UNCHANGED <<dispatchSemaphore, permits, on, crashed, report>>

\* Mutant: the run loop is reported when it is waiting, not when it is busy.
LookForWaiting(s) ==
    /\ Monitor(s, "look", "load")
    /\ report' = IF runLoopActivity = "other" THEN "stuck" ELSE "fine"
    /\ UNCHANGED <<dispatchSemaphore, permits, runLoopActivity, on, crashed>>

\* A run loop that is busy is reported ("monitor trigger").
Look(s) ==
    /\ Monitor(s, "look", "load")
    /\ report' = IF runLoopActivity = "busy" THEN "stuck" ELSE "fine"
    /\ UNCHANGED <<dispatchSemaphore, permits, runLoopActivity, on, crashed>>

MonitorStep(s) ==
    Load(s) \/ WaitSucceeds(s) \/ WaitTimesOut(s) \/ TestObserver(s)
        \/ ResetSemaphore(s) \/ ResetActivity(s) \/ Look(s)

-----------------------------------------------------------------------------
MonitorNext ==
    \/ BeginCreates
    \/ BeginObserves
    \/ endMonitor
    \/ \E a \in {"busy", "other"} : CallBack(a)
    \/ Signal
    \/ \E s \in Sessions : MonitorStep(s)

\* The main thread ends what it has begun; a monitor thread, whose wait has a
\* timeout, always goes on.  Nothing makes the main thread call anything.
MainStep == BeginObserves \/ Signal

MonitorSpec == MonitorInit /\ [][MonitorNext]_monitorVars

-----------------------------------------------------------------------------
(* Properties *)

\* As long as there has been one session only, the semaphore is there whenever
\* the observer or the monitor uses it.
FirstSessionSafe == sessions <= 1 => ~crashed

\* A main thread that is stuck for ever while busy is reported by every look a
\* monitor takes.  This is claimed of the first session: the monitor of an
\* earlier one may still reset the activity.
StallReported ==
    <>[](sessions = 1 /\ runLoopObserver /\ main = "idle" /\ activity = "busy")
        => <>[](report = "stuck")

\* endMonitor ends what beginMonitor began: once the observer is gone, so are the
\* monitor threads, unless there is an observer again, and no CPU timer is left,
\* provided beginMonitor was never called while monitoring was on (such a call
\* replaces the timer).
MonitorsEnd ==
    /\ \A s \in Sessions :
         ~runLoopObserver ~> (monitor[s] \in {"none", "ended"} \/ runLoopObserver
                              \/ main = "creating" \/ crashed)
    /\ [][endMonitor /\ begins = sessions => timers' = {}]_monitorVars
=============================================================================
