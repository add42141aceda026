------------------------- MODULE DispatchSemaphore -------------------------
(***************************************************************************)
(* The semaphore of libdispatch-1173.40.5 (src/semaphore.c): an atomic     *)
(* counter dsema_value in front of a kernel semaphore.  A wait that takes  *)
(* the counter below zero sleeps in the kernel; a signal that raises it to *)
(* zero or less owes the kernel one wake-up, which it posts in a second,   *)
(* separate step; a wait that times out must undo its decrement with a     *)
(* compare-and-swap, unless a signal got there first, in which case the    *)
(* wake-up posted for it has to be drained.  Every atomic instruction is   *)
(* one action.                                                             *)
(***************************************************************************)
EXTENDS Integers, FiniteSets

CONSTANTS Threads,       \* the threads that call signal and wait
          InitialValue,  \* dsema_orig
          LongMax        \* LONG_MAX; bounds dsema_value, as in the code

ASSUME ThreadsAssumption == IsFiniteSet(Threads)
ASSUME ValueAssumption == /\ InitialValue \in Nat
                          /\ LongMax \in Nat
                          /\ InitialValue <= LongMax

VARIABLES dsema_value, \* the atomic counter; -n means n threads wait unserved
          dsema_sema,  \* wake-ups posted to the kernel semaphore, not consumed
          pc,          \* pc[t]: where t is inside signal or wait
          orig,        \* orig[t]: the local `orig` of the slow wait
          result,      \* result[t]: what t's last wait returned
          status       \* "live", "freed" or "crashed" (the process was aborted)

vars == <<dsema_value, dsema_sema, pc, orig, result, status>>

\* Program counters inside _dispatch_semaphore_wait_slow.
SlowPC == {"timedwait", "load", "undo", "drain", "waitForever"}

\* Threads that have decremented the counter and not yet settled it.
Slow == {t \in Threads : pc[t] \in SlowPC}

\* Threads that owe the kernel semaphore a wake-up.
Posting == {t \in Threads : pc[t] = "post"}

Init ==
    /\ dsema_value = InitialValue
    /\ dsema_sema = 0
    /\ pc = [t \in Threads |-> "idle"]
    /\ orig = [t \in Threads |-> 0]
    /\ result = [t \in Threads |-> "none"]
    /\ status = "live"

\* The process has not been aborted, the semaphore not been freed, and t is
\* at the given point of its call.
Ready(t, label) == status = "live" /\ pc[t] = label

Goto(t, label) == pc' = [pc EXCEPT ![t] = label]

Return(t, rc) ==
    /\ pc' = [pc EXCEPT ![t] = "idle"]
    /\ result' = [result EXCEPT ![t] = rc]

-----------------------------------------------------------------------------
(* dispatch_semaphore_signal *)

\* The incremented value is positive: nobody waits, nothing else to do.
SignalFast(t) ==
    /\ Ready(t, "idle")
    /\ dsema_value >= 0
    /\ dsema_value < LongMax
    /\ dsema_value' = dsema_value + 1
    /\ UNCHANGED <<dsema_sema, pc, orig, result, status>>

\* Mutant: the wake-up is posted for a negative value only, not for zero.
SignalOwesBelowZero(t) ==
    /\ Ready(t, "idle")
    /\ dsema_value < 0
    /\ dsema_value' = dsema_value + 1
    /\ Goto(t, IF dsema_value + 1 < 0 THEN "post" ELSE "idle")
    /\ UNCHANGED <<dsema_sema, orig, result, status>>

\* The incremented value is zero or less: a wake-up is owed to a waiter.
SignalOwes(t) ==
    /\ Ready(t, "idle")
    /\ dsema_value < 0
    /\ dsema_value' = dsema_value + 1
    /\ Goto(t, "post")
    /\ UNCHANGED <<dsema_sema, orig, result, status>>

\* The increment wraps to LONG_MIN and the process is aborted.
SignalOverflows(t) ==
    /\ Ready(t, "idle")
    /\ dsema_value = LongMax
    /\ status' = "crashed"
    /\ UNCHANGED <<dsema_value, dsema_sema, pc, orig, result>>

\* _dispatch_semaphore_signal_slow: the wake-up reaches the kernel.
SignalSlow(t) ==
    /\ Ready(t, "post")
    /\ dsema_sema' = dsema_sema + 1
    /\ Goto(t, "idle")
    /\ UNCHANGED <<dsema_value, orig, result, status>>

-----------------------------------------------------------------------------
(* dispatch_semaphore_wait *)

\* The decremented value is not negative: the wait returns 0.
WaitFast(t) ==
    /\ Ready(t, "idle")
    /\ dsema_value > 0
    /\ dsema_value' = dsema_value - 1
    /\ Return(t, "acquired")
    /\ UNCHANGED <<dsema_sema, orig, status>>

\* Where _dispatch_semaphore_wait_slow goes for each kind of timeout.
SlowEntry(timeout) ==
    CASE timeout = "DISPATCH_TIME_NOW"     -> "load"
      [] timeout = "DISPATCH_TIME_FOREVER" -> "waitForever"
      [] timeout = "later"                 -> "timedwait"

Timeouts == {"DISPATCH_TIME_NOW", "DISPATCH_TIME_FOREVER", "later"}

\* The decremented value is negative: the slow path is entered.
WaitEnterSlow(t, timeout) ==
    /\ Ready(t, "idle")
    /\ dsema_value <= 0
    /\ dsema_value' = dsema_value - 1
    /\ Goto(t, SlowEntry(timeout))
    /\ UNCHANGED <<dsema_sema, orig, result, status>>

\* The kernel hands a posted wake-up to a thread that waits for one.
KernelWakes(t) ==
    /\ \E label \in {"timedwait", "drain", "waitForever"} : Ready(t, label)
    /\ dsema_sema > 0
    /\ dsema_sema' = dsema_sema - 1
    /\ Return(t, "acquired")
    /\ UNCHANGED <<dsema_value, orig, status>>

\* The kernel's timed wait gives up.
KernelTimesOut(t) ==
    /\ Ready(t, "timedwait")
    /\ Goto(t, "load")
    /\ UNCHANGED <<dsema_value, dsema_sema, orig, result, status>>

\* orig = dsema->dsema_value
UndoLoad(t) ==
    /\ Ready(t, "load")
    /\ orig' = [orig EXCEPT ![t] = dsema_value]
    /\ Goto(t, "undo")
    /\ UNCHANGED <<dsema_value, dsema_sema, result, status>>

\* Mutant: the decrement is undone by a plain store, not a compare-and-swap.
UndoByStore(t) ==
    /\ Ready(t, "undo")
    /\ orig[t] < 0
    /\ dsema_value' = orig[t] + 1
    /\ orig' = [orig EXCEPT ![t] = 0]
    /\ Return(t, "timeout")
    /\ UNCHANGED <<dsema_sema, status>>

\* The compare-and-swap finds the value it expects: the decrement is undone.
UndoSucceeds(t) ==
    /\ Ready(t, "undo")
    /\ orig[t] < 0
    /\ dsema_value = orig[t]
    /\ dsema_value' = orig[t] + 1
    /\ orig' = [orig EXCEPT ![t] = 0]
    /\ Return(t, "timeout")
    /\ UNCHANGED <<dsema_sema, status>>

\* It finds another value, which becomes the one to try next.
UndoRetries(t) ==
    /\ Ready(t, "undo")
    /\ orig[t] < 0
    /\ dsema_value # orig[t]
    /\ orig' = [orig EXCEPT ![t] = dsema_value]
    /\ UNCHANGED <<dsema_value, dsema_sema, pc, result, status>>

\* Mutant: the wake-up of the signal that came too late is not drained.
UndoTooLateNoDrain(t) ==
    /\ Ready(t, "undo")
    /\ orig[t] >= 0
    /\ orig' = [orig EXCEPT ![t] = 0]
    /\ Return(t, "timeout")
    /\ UNCHANGED <<dsema_value, dsema_sema, status>>

\* A signal has already settled the decrement: its wake-up must be drained.
UndoTooLate(t) ==
    /\ Ready(t, "undo")
    /\ orig[t] >= 0
    /\ orig' = [orig EXCEPT ![t] = 0]
    /\ Goto(t, "drain")
    /\ UNCHANGED <<dsema_value, dsema_sema, result, status>>

-----------------------------------------------------------------------------
\* _dispatch_semaphore_dispose, when the last reference is dropped.
Dispose ==
    /\ status = "live"
    /\ \A t \in Threads : pc[t] = "idle"
    /\ status' = IF dsema_value < InitialValue THEN "crashed" ELSE "freed"
    /\ UNCHANGED <<dsema_value, dsema_sema, pc, orig, result>>

\* The steps a thread takes by itself once it is inside a call.
Continue(t) ==
    \/ SignalSlow(t)
    \/ KernelWakes(t)
    \/ KernelTimesOut(t)
    \/ UndoLoad(t)
    \/ UndoSucceeds(t)
    \/ UndoRetries(t)
    \/ UndoTooLate(t)

Next ==
    \/ \E t \in Threads :
         \/ SignalFast(t)
         \/ SignalOwes(t)
         \/ SignalOverflows(t)
         \/ WaitFast(t)
         \/ \E timeout \in Timeouts : WaitEnterSlow(t, timeout)
         \/ Continue(t)
    \/ Dispose

Spec == Init /\ [][Next]_vars

\* A thread inside a call is scheduled again; callers need not call.  The
\* kernel serves its waiters in order (_DSEMA4_POLICY_FIFO), so a thread that
\* finds wake-ups posted again and again gets one.
Fairness ==
    \A t \in Threads : WF_vars(Continue(t)) /\ SF_vars(KernelWakes(t))

FairSpec == Spec /\ Fairness

-----------------------------------------------------------------------------
(* Properties *)

\* The counter stays within the range the C type and the callers allow, and
\* the local `orig` of the undo loop is a value the counter can have.
TypeOK ==
    /\ dsema_value \in -Cardinality(Threads) .. LongMax
    /\ dsema_sema \in Nat
    /\ pc \in [Threads -> SlowPC \cup {"idle", "post"}]
    /\ orig \in [Threads -> -Cardinality(Threads) .. LongMax]
    /\ result \in [Threads -> {"none", "acquired", "timeout"}]
    /\ status \in {"live", "freed", "crashed"}

\* The comment in dispatch_semaphore_create ("the absolute of the value is
\* equal to the number of waiting threads") made exact: a negative counter
\* counts the threads of the slow path that no wake-up, posted or owed, is
\* meant for; a counter that is not negative leaves none of them out.  So a
\* timed-out wait never takes a wake-up away from a thread that needs it, and
\* never leaves one behind that would let a later wait through for nothing.
WakeupBalance ==
    Cardinality(Slow) = dsema_sema + Cardinality(Posting)
                        + (IF dsema_value < 0 THEN -dsema_value ELSE 0)

\* The permits a caller sees: signals and initial value, not yet consumed.
Permits == dsema_value + Cardinality(Slow)

\* The steps in which dispatch_semaphore_wait returns to its caller.
WaitReturns(t) == WaitFast(t) \/ KernelWakes(t) \/ UndoSucceeds(t)

\* As long as a permit is available and some thread is inside a wait, waits
\* keep returning: no wake-up lost between the increment and the post,
\* or between a timeout and its undo, leaves threads asleep next to a permit.
NoStrandedPermit ==
    <>[](Permits > 0 /\ Slow # {} /\ status = "live")
        => []<><<\E t \in Threads : WaitReturns(t)>>_vars

\* dispatch_semaphore_wait with a timeout returns ("returns zero upon success
\* and non-zero after the timeout expires"): a wait whose timeout has expired,
\* or was DISPATCH_TIME_NOW, does not block for good.
TimedWaitReturns ==
    \A t \in Threads :
        pc[t] = "drain" ~> (pc[t] = "idle" \/ status # "live")

-----------------------------------------------------------------------------
(* Refinement *)

\* How a thread inside dispatch_semaphore_signal or dispatch_semaphore_wait
\* looks to the abstract semaphore: a signal takes effect at the increment.
CallerOf(label) ==
    CASE label \in {"idle", "post"} -> "idle"
      [] label = "waitForever"      -> "forever"
      [] OTHER                      -> "timed"

Caller == [t \in Threads |-> CallerOf(pc[t])]

CS == INSTANCE CountingSemaphore WITH permits <- Permits, caller <- Caller

\* The counter, the kernel semaphore and the undo loop together behave as one
\* number of permits: a wait returns 0 only by consuming one, a wait that
\* times out consumes none, and only a wait with a timeout times out.
ImplementsCountingSemaphore == CS!Spec
=============================================================================
