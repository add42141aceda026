----------------------------- MODULE TicketSale -----------------------------
(***************************************************************************)
(* GcdLockViewController: several windows sell the same tickets, each from *)
(* a serial queue of its own, until none is left.  saleTicketNotSave takes *)
(* no lock; saleTicketSafe puts a semaphore of one permit around the check *)
(* and the decrement.  The property ticketSurplusCount is nonatomic, so    *)
(* the check, the read and the write of a decrement are separate steps.    *)
(* The semaphore is used through CountingSemaphore, which                  *)
(* DispatchSemaphore is proved to implement.                               *)
(***************************************************************************)
EXTENDS Integers, FiniteSets

CONSTANTS Windows,  \* the blocks submitted to queue1, queue2
          Tickets   \* the initial ticketSurplusCount

ASSUME SaleAssumption == IsFiniteSet(Windows) /\ Tickets \in Nat

VARIABLES method,    \* what the blocks call: saleTicketSafe or saleTicketNotSave
          ticketSurplusCount,
          sold,      \* history: how many tickets the windows handed out
          window,    \* window[w]: where window w is in its loop
          count,     \* count[w]: the value w has read for its decrement
          permits, lockCaller, lockResult, lockStatus   \* semaphoreLock

lock == <<permits, lockCaller, lockResult, lockStatus>>
saleVars == <<method, ticketSurplusCount, sold, window, count, lock>>

semaphoreLock == INSTANCE CountingSemaphore
                   WITH Threads <- Windows, InitialValue <- 1, LongMax <- 1,
                        caller <- lockCaller, result <- lockResult, status <- lockStatus

Methods == {"saleTicketSafe", "saleTicketNotSave"}
Safe == method = "saleTicketSafe"

LoopStart == IF Safe THEN "wait" ELSE "check"

\* initTicketStatusNotSave
SaleInit ==
    /\ method \in Methods
    /\ ticketSurplusCount = Tickets
    /\ sold = 0
    /\ window = [w \in Windows |-> LoopStart]
    /\ count = [w \in Windows |-> 0]
    /\ semaphoreLock!Init

GoesTo(w, label) == window' = [window EXCEPT ![w] = label]

-----------------------------------------------------------------------------
(* dispatch_semaphore_wait(semaphoreLock, DISPATCH_TIME_FOREVER) *)

\* Mutant: the lock is not waited for.
WaitNot(w) ==
    /\ window[w] = "wait"
    /\ GoesTo(w, "check")
    /\ UNCHANGED <<ticketSurplusCount, sold, count, lock>>

Wait(w) ==
    /\ window[w] = "wait"
    /\ \/ semaphoreLock!AcquireAtOnce(w) /\ GoesTo(w, "check")
       \/ permits = 0 /\ semaphoreLock!StartWaiting(w, "forever")
                      /\ GoesTo(w, "blocked")
    /\ UNCHANGED <<ticketSurplusCount, sold, count>>

Unblock(w) ==
    /\ window[w] = "blocked"
    /\ semaphoreLock!Acquire(w)
    /\ GoesTo(w, "check")
    /\ UNCHANGED <<ticketSurplusCount, sold, count>>

-----------------------------------------------------------------------------
(* The body of the loop, the same in both methods *)

\* Mutant: tickets are sold until the count is zero, not while it is positive.
CheckNotZero(w) ==
    /\ window[w] = "check"
    /\ GoesTo(w, IF ticketSurplusCount # 0 THEN "read" ELSE "closed")
    /\ UNCHANGED <<ticketSurplusCount, sold, count, lock>>

\* if (self.ticketSurplusCount > 0) ... else break: the window that finds no
\* ticket left closes, in saleTicketSafe without signalling the semaphore.
Check(w) ==
    /\ window[w] = "check"
    /\ GoesTo(w, IF ticketSurplusCount > 0 THEN "read" ELSE "closed")
    /\ UNCHANGED <<ticketSurplusCount, sold, count, lock>>

\* self.ticketSurplusCount--: the getter
Read(w) ==
    /\ window[w] = "read"
    /\ count' = [count EXCEPT ![w] = ticketSurplusCount]
    /\ GoesTo(w, "write")
    /\ UNCHANGED <<ticketSurplusCount, sold, lock>>

\* and the setter; the ticket is handed out
Write(w) ==
    /\ window[w] = "write"
    /\ ticketSurplusCount' = count[w] - 1
    /\ sold' = sold + 1
    /\ GoesTo(w, IF Safe THEN "signal" ELSE "check")
    /\ UNCHANGED <<count, lock>>

\* Mutant: the signal after a sale is forgotten.
SignalNot(w) ==
    /\ window[w] = "signal"
    /\ GoesTo(w, "wait")
    /\ UNCHANGED <<ticketSurplusCount, sold, count, lock>>

\* dispatch_semaphore_signal(semaphoreLock)
Signal(w) ==
    /\ window[w] = "signal"
    /\ semaphoreLock!Signal(w)
    /\ GoesTo(w, "wait")
    /\ UNCHANGED <<ticketSurplusCount, sold, count>>

SaleStep(w) ==
    /\ UNCHANGED method
    /\ \/ Wait(w)
       \/ Unblock(w)
       \/ Check(w)
       \/ Read(w)
       \/ Write(w)
       \/ Signal(w)

SaleNext == \E w \in Windows : SaleStep(w)

SaleSpec == SaleInit /\ [][SaleNext]_saleVars

\* GCD runs the block of every queue; the semaphore serves its waiters in order.
FairSale ==
    /\ SaleSpec
    /\ \A w \in Windows : WF_saleVars(SaleStep(w)) /\ SF_saleVars(Unblock(w) /\ UNCHANGED method)

-----------------------------------------------------------------------------
(* Properties *)

Labels == {"wait", "blocked", "check", "read", "write", "signal", "closed"}

\* The lock is binary: no window signals without having waited.
SaleTypeOK ==
    /\ method \in Methods
    /\ ticketSurplusCount \in Int
    /\ sold \in Nat
    /\ window \in [Windows -> Labels]
    /\ count \in [Windows -> Int]
    /\ permits \in {0, 1}
    /\ lockCaller \in [Windows -> {"idle", "forever"}]
    /\ lockResult \in [Windows -> {"none", "acquired"}]
    /\ lockStatus = "live"

\* Windows between dispatch_semaphore_wait and dispatch_semaphore_signal, and
\* the one that left the loop in between.
Holding == {w \in Windows : window[w] \in {"check", "read", "write", "signal"}}
Kept == {w \in Windows : window[w] = "closed"}

\* saleTicketSafe: every ticket is sold once and none is lost, whatever the
\* interleaving of the windows' reads and writes.
EveryTicketSoldOnce ==
    Safe => ticketSurplusCount >= 0 /\ ticketSurplusCount + sold = Tickets

\* saleTicketNotSave: no ticket is lost, but a write of a stale value puts sold
\* tickets back, and they are sold once more.  The two windows of the code sell
\* Tickets * (Tickets + 3) / 2 in all at the most, and one of them that raced past
\* the check takes the count to -1 and no lower.
BoundedOversale ==
    ~Safe => /\ sold + ticketSurplusCount >= Tickets
             /\ Cardinality(Windows) = 2 =>
                   ticketSurplusCount >= -1 /\ 2 * sold <= Tickets * (Tickets + 3)

\* saleTicketSafe sells out, and with saleTicketNotSave every window closes,
\* although stale writes raise the count again and again.
SoldOut ==
    /\ Safe => <>(ticketSurplusCount = 0)
    /\ ~Safe => <>[](Kept = Windows)

\* The output shown for this code, in which both windows report the end of the
\* sale: every window closes.  In saleTicketSafe it does not: the window that
\* finds no ticket left keeps the permit, and the other one waits for it for ever.
WindowsClose == <>[](Kept = Windows)
=============================================================================
