------------------------------- MODULE MCDemos -------------------------------
(***************************************************************************)
(* The classes of the demo applications, one at a time: unit is the one     *)
(* that runs, and the others stay as they are created.                      *)
(***************************************************************************)
EXTENDS MBMonitor, MBPermanentThread, ThreadDemo

VARIABLE unit

Init ==
    /\ unit \in {"monitor", "thread", "demo"}
    /\ MonitorInit /\ ThreadInit
    /\ DemoInit /\ (unit # "demo" => demo = deadLock)

MonitorRuns == unit = "monitor" /\ UNCHANGED <<unit, threadVars, demoVars>>
ThreadRuns == unit = "thread" /\ UNCHANGED <<unit, monitorVars, demoVars>>
DemoRuns == unit = "demo" /\ UNCHANGED <<unit, monitorVars, threadVars>>

Next ==
    \/ MonitorRuns /\ MonitorNext
    \/ ThreadRuns /\ ThreadNext
    \/ DemoRuns /\ DemoNext

vars == <<unit, monitorVars, threadVars, demoVars>>

\* Threads that can run do, and every request is answered or times out; nobody
\* has to call anything, except that the view controller calls run as soon as
\* it has the permanent thread.
Spec ==
    /\ Init /\ [][Next]_vars
    /\ WF_vars((MonitorRuns /\ MainStep) \/ (ThreadRuns /\ run) \/ (DemoRuns /\ DemoNext))
    /\ WF_vars(ThreadRuns /\ InnerNext) /\ \A c \in Callers : WF_vars(ThreadRuns /\ CallerNext(c))
    /\ \A s \in Sessions : WF_vars(MonitorRuns /\ MonitorStep(s))
=============================================================================
