---------------------------- MODULE MCSemaphore ----------------------------
(***************************************************************************)
(* The semaphore of libdispatch, and the two demos that rely on one, the    *)
(* ticket windows and MBTimer, one at a time: unit is the one that runs,    *)
(* and the others stay as they are created.                                 *)
(***************************************************************************)
EXTENDS DispatchSemaphore, TicketSale, MBTimer

VARIABLE unit

UnitInit ==
    /\ unit \in {"semaphore", "tickets", "timers"}
    /\ Init /\ TimerInit
    /\ SaleInit /\ (unit # "tickets" => Safe)

SemaphoreRuns == unit = "semaphore" /\ UNCHANGED <<unit, saleVars, timerVars>>
SaleRuns == unit = "tickets" /\ UNCHANGED <<unit, vars, timerVars>>
TimersRun == unit = "timers" /\ UNCHANGED <<unit, vars, saleVars>>

UnitNext ==
    \/ SemaphoreRuns /\ Next
    \/ SaleRuns /\ SaleNext
    \/ TimersRun /\ TimerNext

unitVars == <<unit, vars, saleVars, timerVars>>

\* The fairness of Fairness, FairSale and FairTimer.  Only one unit runs, so that
\* threads, windows and timers, which have the same names, share two conditions.
Continues(t) ==
    \/ SemaphoreRuns /\ Continue(t)
    \/ t \in Windows /\ SaleRuns /\ SaleStep(t)
    \/ TimersRun /\ (Resume(t) \/ ExecReturns(t))

IsServed(t) ==
    \/ SemaphoreRuns /\ KernelWakes(t)
    \/ t \in Windows /\ SaleRuns /\ Unblock(t) /\ UNCHANGED method

UnitSpec ==
    /\ UnitInit /\ [][UnitNext]_unitVars
    /\ \A t \in Threads : WF_unitVars(Continues(t)) /\ SF_unitVars(IsServed(t))
    /\ \A t \in Timers : WF_unitVars(TimersRun /\ (Fire(t) \/ HandlerEnds(t)))

-----------------------------------------------------------------------------
\* When the windows sell: those of saleTicketSafe sell out, and those of
\* saleTicketNotSave close.
WindowsSellOut == unit = "tickets" => SoldOut
=============================================================================
