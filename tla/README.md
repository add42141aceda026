# Verification of the concurrent code in OC_NOTE

OC_NOTE is a collection of notes on Objective-C with small demonstration apps
and, for reading, the sources of the libraries they are about. Its own program
logic is in the apps: named timers, a permanent thread, a main-thread monitor,
a ticket sale, a thread-safe dictionary, five sorts and some thirty methods that
show how queues, groups, semaphores and operations behave. They stand on
libdispatch, CoreFoundation's run loop and the Objective-C runtime, whose
sources are in the repository and are what most of the notes explain. This
project models the apps' own logic and the library mechanisms the notes are
about, checks them with TLC and proves the central invariants with TLAPS.

Paths below are relative to `src/`. `libdispatch/` stands for
`sdk/libdispatch-1173.40.5/src/`, `CF/` for
`sdk/RunLoopDemo/RunLoopDemo/CF-1153.18/`, `objc/` for
`sdk/objc4-818.2/runtime/`.

## 1. Inventory

| Component | State | Operations | Hard behaviour | What makes it correct |
|---|---|---|---|---|
| dispatch semaphore, `libdispatch/semaphore.c` | atomic counter, kernel semaphore, reference | create, signal, wait (forever, timed, now), dispose | signal counts first and posts later; a timeout has to be undone | it is a counting semaphore; no wake-up lost or left over |
| dispatch group, same file | one packed word (count, generation, two bits), queue of notifications, references | enter, leave, wait, notify, dispose | emptying, clearing the bits and waking are separate steps | waits and notifications neither missed nor early; freed only when unused |
| dispatch_once, `libdispatch/once.c`, `shims/lock.{h,c}` | gate per token | dispatch_once_f | waiters register and sleep in two steps; blocks call dispatch_once; the gate passes through a generation before it is done | the block runs once, nobody returns before it has |
| dispatch_apply, `libdispatch/apply.c` | shared index, work left, users, thread event, width of queues | dispatch_apply_f, helpers' invoke | helpers that come after everything is over; a width taken level by level and cut short | each index once; no use after free; all width returned |
| run loop, `CF/CFRunLoop.c` | activations, modes, sources, timers, blocks, wake-up port | run, stop, wake up, signal, add, remove, invalidate, perform block, set fire date | callouts without locks that run the loop again; dropped wake-ups; a cached deadline | never sleeps over work; keeps blocks; armed for its timers; serves what is pending |
| retain counts, `objc/objc-object.h`, `NSObject.mm` | isa bits, side table, weak variable | retain, release, dealloc, loadWeakRetained, storeWeak | counts moved between isa and side table in several steps; weak loads racing the last release | count exact; freed once, when unused, and in the end; the lock unlocked by whoever locked it |
| ticket windows, `sdk/ThreadDemo/.../gcd/GcdLockViewController.m` | tickets left, lock | two sale loops, locked or not | races between check, read and write; a lock kept on `break` | each ticket sold once; every window closes |
| named timers, `sdk/TimerDemo/TimerDemo/MBTimer.m` | dictionary name → source, lock | execTask, cancelTask, handler | names reused while timers run | what runs can be cancelled |
| permanent thread, `MJ底层学习/runloop/.../MBPermanentThread.m` | thread, `innerThread`, `stopped`, run-loop requests | run, excuteTaskBlock, stop, dealloc | unlocked property read twice, weak reference read twice | stop stops; tasks before it run; the thread ends |
| main-thread monitor, `sdk/RunLoopDemo/RunLoopDemo/MBMonitor.m` | observer, semaphore, activity, CPU timer | beginMonitor, endMonitor, observer callback, monitor loop | three unlocked instance variables, timeouts racing signals, restart | a stuck main thread is reported; monitors end |
| queue and request demos, `sdk/ThreadDemo/ThreadDemo/{gcd,NSOperation,NSThread}` | queues, one group, semaphores, dependencies | one method each | any interleaving of the blocks | the printed order the comments promise, deadlock exactly where announced |
| user centre, `sdk/ThreadDemo/ThreadDemo/gcd/UserCenter.m` | dictionary, concurrent queue | objectForKey:, setObject:forKey: | asynchronous writes behind a barrier | calls look atomic |
| sorts, `基础算法/排序算法/SortDemo/SortDemo/SortObject.m` | an array | five sorts | unsigned bounds, shared loop index | the result is the sorted input |
| binary heap, `CF/CFBinaryHeap.c` | buckets, capacity | add, remove least, remove all | the edge of the last level | the first bucket is the least value |
| tree, `CF/CFTree.c` | four links per node | prepend, append, insert, remove, remove all, sort | a cached last child | links stand for sequences of children |

How they interact: the apps call the semaphore (`TicketSale`, `MBTimer`,
`MBMonitor`) and the group (`ThreadDemo`) and hand blocks to queues, timer
sources and run loops. `MBTimer` shares `timers_` between callers on any queue
and the timers' handlers. `MBPermanentThread` is shared by its owner, its
callers and its own thread, and `MBMonitor` by the main thread and one monitor
thread per session; both rest on the run loop (requests wake it, its observers
report its activities) and on weak references and `dispatch_once`. A group's and
an apply's threads meet on thread events; the run loop's blocks, sources and
timers are handed over by any thread under its locks.

PROJECT.json lists the remaining parts (other demos, the rest of the vendored
libraries, generated C++, notes, scaffolding) with the reason each is left out,
and the hazards at the line where each bites.

## 2. Modules

| Module | Models | Theorems in |
|---|---|---|
| `CountingSemaphore` | abstract specification: what a semaphore promises its callers | |
| `DispatchSemaphore` | semaphore of libdispatch; implements `CountingSemaphore` | `DispatchSemaphoreProofs` |
| `DispatchGroup` | group of libdispatch | `DispatchGroupProofs` |
| `DispatchOnce` | `dispatch_once` and its gate | `DispatchCallsProofs` |
| `DispatchApply` | `dispatch_apply`, its helpers and queue widths | `DispatchCallsProofs` |
| `CFRunLoop`, `MCCFRunLoop` | the run loop and its API; the MC module gives constants that are functions | `CFRunLoopProofs` |
| `ObjcRefcount` | retain, release, deallocation and one weak variable | `ObjcRefcountProofs` |
| `CFBinaryHeap` | CoreFoundation's binary heap | `CFCollectionProofs` |
| `CFTree` | CoreFoundation's tree | `CFCollectionProofs` |
| `SortObject` | the five sorts | |
| `TicketSale` | GcdLockViewController, composed with `CountingSemaphore` as its lock | `TicketSaleProofs` |
| `MBTimer` | MBTimer and its use by the controllers | `DemoProofs` |
| `MBPermanentThread` | MBPermanentThread and its owner | `DemoProofs` |
| `MBMonitor` | MBMonitor | `DemoProofs` |
| `ThreadDemo` | the other ThreadDemo controllers and UserCenter | |
| `MCSemaphore` | sum of `DispatchSemaphore`, `TicketSale`, `MBTimer` | |
| `MCDemos` | sum of `MBMonitor`, `MBPermanentThread`, `ThreadDemo` | |
| `MCLibrary` | sum of `DispatchOnce`, `DispatchApply`, `ObjcRefcount`, `SortObject`, `CFBinaryHeap`, `CFTree` | |

A *sum* is a disjoint union: the variable `unit` names the one component that
runs, the others keep their initial state. Its states are the states of each
component side by side, so an invariant of a component holds of the sum if and
only if it holds of the component, and the fairness conditions of the units
that do not run are vacuous. In `MCSemaphore` threads, windows and timers have the
same names and share their fairness conditions, which comes to the same: with
`unit` fixed, a shared condition is that of the one unit that runs.

**DispatchSemaphore.** `dsema_value` and `dsema_sema` are the counter and the
kernel's pending wake-ups. One action per atomic instruction: `SignalFast`,
`SignalOwes` (the increment that leaves the counter at or below zero) and
`SignalSlow` (the kernel post, later); `WaitFast`, `WaitEnterSlow`, then
`KernelTimesOut`, `UndoLoad`, `UndoSucceeds` / `UndoRetries` / `UndoTooLate`
(the compare-and-swap loop) and `KernelWakes`. The overflow and the disposal of
a semaphore in use are crashes, as in the code.

**DispatchGroup.** `dg_state` is the packed word as a record. A leave is
`LeaveLast` (the addition), `LeaveClears` / `LeaveRetries` (the loop that clears
the bits) and the steps of `_dispatch_group_wake`; a notify is push, link,
publish; a wait registers, sleeps on the generation and checks it. References
are counted, because enter retains after it has counted itself.

**DispatchOnce.** `gate[k]` is the word of a token: unlocked, held by a thread
(with the waiters' bit), a generation, done. `TryEnter`, `BlockReturns`,
`Broadcast`, `Wake`, `Wait`, `Sleep` are the atomic instructions and system calls;
`inside[c]` is the stack of calls of a thread, because a block may call
`dispatch_once` (`Nests`); on its own token it crashes. `quiescent` chooses the build with
the kernel's quiescence counter, which is an external action.

**DispatchApply.** The caller and helpers run `_dispatch_apply_invoke2` one
atomic instruction at a time on the record `da`; `Reserve` and `GiveBack` are
`_dispatch_apply_redirect` with one step per queue, while other work on the
queues takes and returns width. The `dispatch_sync_f` that starts the call on a queue
is immediate. `FirstIndex` may find that all is over; only
`ReadContext`, after it got an index, touches the caller's stack.

**CFRunLoop.** `runs` is the stack of activations with their `_per_run_data` and
the local variables of `__CFRunLoopRun`; `pc` is the place of the innermost one.
The loop holds the locks except at a callout and asleep (`Unlocked`), which is
when API calls, kernel timers and arrivals happen. The API takes its own steps
where the code reads before it locks: `AddChecks` / `AddInserts`, and likewise for
invalidation and fire dates. `ArmNext` is `__CFArmNextTimerInMode` with its cached
deadline and its search, which ends at the first timer later than those before it.
`NestAt` are the callouts that may run the loop again. Sources of the same order
are performed in any order, as the code takes them from a set.

**ObjcRefcount.** `isa` is the packed word (extra count, side-table bit,
deallocating, weakly referenced), `refcnts` the side table's count, `slock` its
lock, `local[o]` what a thread has read. Load, addition, compare-and-swap and
the transfers between isa and side table are separate actions. The local variable
`sideTableLocked` is kept as the code sets it: a retain that overflows sets it even
where its caller, a weak load, holds the lock, and if the next attempt finds the
object deallocating it unlocks (`RetainGivesUp`). The weak load then unlocks once
more; what that does is up to the lock, which the model lets end the process
(`Aborted`) if the thread does not own it at that moment.

**SortObject.** The sorts are recursive operators that follow the loops, with
`raises` for the exception of an index out of range. insertionSort subtracts ints
to compare them; `SortAssumption` asks for numbers whose differences fit.

**CFBinaryHeap.** Adding and removing start a loop that moves a value up or down;
each round of it is an action (`Round`), and so is the assignment after it (`Write`);
`sifting` names the loop, `bucket` is its `idx`. A round takes `bucket` nearer
to the root, or nearer to the leaves, so every loop ends. Beside the buckets,
`inHeap` counts how often each value was put in and not removed, which the
property compares with them between two calls.

**CFTree.** `link` holds the four pointers of each node, `kids` the sequences of
children the calls describe, which the property compares with them. What the
code's loops reach by `_sibling` or `_parent` is a least closed set (`Siblings`,
`Above`). `CFQSortArray` is not stable, so equal children are sorted in any order.

**TicketSale.** `method` chooses `saleTicketSafe` or `saleTicketNotSave`. The
property is nonatomic, so the check, the read and the write are separate
steps. The lock is an INSTANCE of `CountingSemaphore`: what is proved of the
sale rests on the abstract semaphore, and `DispatchSemaphoreProofs` shows that
libdispatch implements it.

**MBTimer.** Each section between wait and signal of `semaphore_` is one action.
A source whose last reference goes is cancelled (`Released`: libdispatch's
`source.c` treats `DQF_RELEASED` like a cancellation): the dictionary is what keeps timers alive.

**MBPermanentThread.** The thread's loop condition is two actions, one per load
of `weakSelf`; a call reads `innerThread` twice. A queued request retains its
receiver and, for stop, blocks its caller. What
`performSelector:onThread:` does with a nil, finished or running thread is taken
from GNUstep's `NSThread.m` in the repository.

**MBMonitor.** One action per access of the shared variables; `permits[s]` are
the signals pending on the semaphore of session `s`. Using NULL as a semaphore
sets `crashed`.

**ThreadDemo.** A method is a table of blocks, each a sequence of calls, one
definition per method (`asyncMain`, `barrier`, `test_dispatch_group_enter`, ...).
The queues, the group and the URL session belong to the system and are modelled
by what they promise (`MayStart`, `Start`, `Return` and one action per call,
marked external). The method under test is a block of the main queue, which is
why `dispatch_sync` to the main queue deadlocks without being told to. `out`
counts what has been printed; the counts are enough to say that one line comes
after all occurrences of another. The two iterations of the simulated work are
two steps.

## 3. Runs

| Run | Instance | Checks |
|---|---|---|
| `semaphore` (`MCSemaphore`) | 3 threads, initial value 1, LONG_MAX 2; 2 windows, 6 tickets, both methods; 3 timers, one-shot and repeating | `WakeupBalance`, `ImplementsCountingSemaphore`, `NoStrandedPermit`; `EveryTicketSoldOnce`, `BoundedOversale`, `WindowsSellOut`; `RunningIsCancellable`, `NoDeadEntry`, `OneShotEnds` |
| `semaphore_timed` (violation) | 3 threads, initial value 0 | `TimedWaitReturns` |
| `group` | 3 threads, 1 notification, count ≤ 2, 1 change of generation | `WaitSawEmpty`, `NoForgottenNotification`, `FreedUnused`, `EmptyWakes` |
| `sale_closes` (violation) | 2 windows, 3 tickets | `WindowsClose` |
| `timer_unique` (violation) | 3 timers | `UniqueName` |
| `thread_ends` (violation) | 2 callers, 1 task | `StoppedThreadEnds` |
| `demos` (`MCDemos`) | monitor: 3 begins, 2 sessions, 2 pending signals; thread: 2 callers, 2 tasks; 28 demo methods; UserCenter with 2 threads × 2 calls | `FirstSessionSafe`, `StallReported`, `MonitorsEnd`; `StopMeansStopped`, `NoTaskLost`, `StopCompletes`; `DocumentedOrder`, `SummaryAfterRequests`, `DocumentedDeadlocks`, `OthersFinish`, `AtomicCalls` |
| `runloop` | 1 caller, 2 calls, 2 modes, 1 source, 1 timer, one-shot or repeating, 2 activations | `SleepsOnlyWhenIdle`, `BlocksKept`, `PendingServed` |
| `runloop_timers` | 1 caller, 2 calls, 2 modes, 1 port, 2 repeating timers, 2 activations | `TimersArmed` |
| `library` (`MCLibrary`) | see below | `OnceAndBefore`, `OnceReturns`; `EachIndexOnce`, `UsedWhileAlive`, `WidthReturned`, `ApplyReturns`; `CountExact`, `FreedWhenUnused`, `Reclaimed`; `BubbleAndSelectionSort`; `HeapServesLeast`; `TreeIsSequences` |
| `weak_unlock` (violation) | 2 threads, `RC_HALF` 2, at most 3 references | `UnlocksWhatItLocked` |
| `insertion_sorts` (violation) | arrays of up to 3 numbers out of 1..3 | `InsertionSorts` |

The `library` run: once with threads t1, t2, t3 on tokens a and b (t3 only on a; the block of a
may call `dispatch_once` on b and the block of b on b); apply with 2 helpers, 1 to 3
iterations, not nested or nested in 2, parallelism 3, queues of width 2 and 3;
retain counts with 2 threads, `RC_HALF` 2, at most 3 references; arrays of up to
5 numbers out of 1..3; heaps of up to 7 values out of 1..4; trees of 4 nodes.

### What they show

* The semaphore's counter, kernel semaphore and undo loop behave as one number
  of permits, through every interleaving of signals, timeouts and undos. But a
  wait *with* a timeout may block for ever (`semaphore_timed`): the timeout
  expires, a signal arrives before the undo, the code waits again without a
  timeout, and another waiter takes the wake-up.
* The group loses neither wake-ups nor notifications and is not freed early.
  The header's sentence that the group "will be empty at the time the
  notification block is submitted" is stronger than the code: a leave that
  lost the race with an enter clears the notifications bit in its retry and
  submits what is queued by then. This is in the hazard list; no property
  claims it.
* `dispatch_once` runs the block once and lets nobody pass before it has
  returned, in both builds; every call returns unless a block calls it on its
  own token. Two blocks that call it on each other's token wait for each other
  for ever; `Nests` excludes that.
* `dispatch_apply` calls each index once and returns even if no helper ever
  comes; a late helper finds the index used up and touches neither the caller's
  stack nor freed memory; whatever width is taken comes back.
* The run loop does not sleep over a signalled source, a block, a stop or a
  timeout whose wake-up it has dropped, and keeps its blocks in order. While no
  timer has been invalidated it sleeps with its deadline armed for each timer that
  is in its mode only, also if two timers have the same date. This holds when the
  loop runs again from the callouts of sources, timers and the main queue. It does not hold without
  restriction, see section 4.
* The inline and the side-table count add up through overflow, underflow and
  lost races; a weak load yields a retained object or nil, and the object is
  freed once its references are gone. But a weak load can unlock the side table
  twice (`weak_unlock`): its retain overflows, its compare-and-swap is lost to
  releases that take the count to zero, and the branch that finds the object deallocating
  unlocks (`objc/objc-object.h:665`) although the caller will
  (`objc/NSObject.mm:590`). In between the object may be cleared and freed, with the
  load still inside; nothing the load does from there on touches the object, so
  the count and the order of deallocation stay right until the second unlock.
* Of the sorts, four sort every array but the empty one, on which all five
  raise (`count - 1` is unsigned). `insertionSort` does not sort (`insertion_sorts`): it
  never moves the last element and raises if an earlier element is less than all
  before it.
* The heap's first bucket is the least of the values in it, and the tree's links
  are the sequences its operations describe.
* `saleTicketSafe` sells each ticket once and sells them all (`SoldOut`), but only the
  first window to see zero tickets closes: it breaks out of the loop with the
  permit, and the other waits for it for ever, although the notes show both
  reporting the end of the sale (`sale_closes`). `saleTicketNotSave` loses updates:
  a stale write puts tickets back on sale, so that many more are sold than there
  are. No ticket is lost, both windows close, and with the two windows of the code
  at most T(T+3)/2 of T tickets are sold and the count ends no lower than −1.
* A timer's name is the number of timers stored, so it is not unique
  (`timer_unique`); what still holds is that whatever runs can be cancelled,
  because a reused name releases, and so stops, the timer it took over.
* `stop` always leaves a stopped thread and returns, and no task queued before
  it is lost. The thread ends if the owner keeps the object until it has;
  if the object goes between the two loads of `weakSelf`, it never does
  (`thread_ends`). An object that is released and never stopped leaves its
  thread asleep in the run loop; no property claims otherwise.
* A main thread stuck for ever is reported in the first session. After
  endMonitor and a new beginMonitor the old monitor thread may reset the new
  session's semaphore or activity, so `FirstSessionSafe` and `StallReported`
  speak of one session. A report can also be wrong in the other direction, as
  the activity is read after the timeout. beginMonitor while monitoring is on
  replaces the CPU timer and leaves the old one running; `MonitorsEnd`
  excludes that call.
* Of the thread demos exactly `deadLock` and `syncMain` block, and the others
  finish; they print in the order their comments give; the three strategies
  marked 成功 sum up after the last answer, the rest only after the requests
  have been sent, or after one has (`test_operationQueue`). `UserCenter`
  never reads during a write, and a read returns the last object set before it.

### Why the bounds are enough

Three threads give the semaphore a signaller, a waiter that times out and a
second waiter that can take its wake-up, and the group a waiter, a leaver and a
thread that enters or notifies in between. `LONG_MAX = 2` and `ValueMax = 2`
let the overflow happen. One change of generation makes a waiter outlive the one it
waits for; the notification meets a group that is about to empty, and one that is
in use again. That a second notification joins a queue somebody is about to
capture, and a third generation, are beyond this run, but not beyond the proofs of
its three invariants. Three timers are what a name collision takes (two, one cancelled, one
more). Two callers cover a task against a stop and a stop against a stop. Two
sessions make an old monitor meet a new one. Two threads with two calls each
give every pair of reads and writes, in both orders, in one thread and across
threads.

With three threads on one token one is in the block, one waits and one arrives late; two
helpers and widths 2 and 3 with other work make a reservation fall short on the
first, on the second and on both levels, and three iterations for three threads
leave some without an index. `RC_HALF = 2` with three references makes the
inline count overflow and underflow (the real constant is 2^18 or 2^7). Seven
heap values fill three levels; four tree nodes give a parent with first, middle
and last child, or two levels.

In the run loop two calls give a call during another call's callout or a
second wake-up; two activations give one nested run; the clock's two
dates make a timer due at once and a repeating one, or one given a new date,
again later. Two timers share a date, or one is given the date of the other; both
may leave the default mode and come back, and one may be in both modes. One caller
is another thread beside the loop's and the timeout's, whose calls take several
steps; with more callers, `SleepsOnlyWhenIdle` and `BlocksKept` are proved. One mode is common and served by the main queue, the other is neither.

The cfgs with `CHECK_DEADLOCK FALSE`
belong to systems that may stop: callers need not call, processes crash by
design, programs end, two methods deadlock on purpose, a sale stops when the windows
have closed.

## 4. Limits the properties respect

What the model shows the code does *not* guarantee, and which restriction of a
run or a property keeps it apart:

| Code | What happens | Restriction |
|---|---|---|
| `CF/CFRunLoop.c:2721` | a nested run from a block or a beforeWaiting observer receives the outer activation's wake-up, and the outer one sleeps over its source | `NestAt`; `NestsAwake` in the theorem |
| `CF/CFRunLoop.c:2499` | a nested run from an afterWaiting observer sleeps between a timer's message and its firing, with no deadline armed | `NestAt` |
| `CF/CFRunLoop.c:3132`, `2842` | validity is read before the locks; an invalidated timer or source is inserted and stays; it takes the deadline, and the date it leaves in the cache is not armed for the next timer of that date, even when it has been removed | `TimersArmed` asks that no timer has been invalidated, `PendingServed` leaves out modes that hold one |
| `CF/CFRunLoop.c:3790` | the modes of a timer are read before the locks; a mode added meanwhile keeps its old order | `TimersArmed` leaves out timers in two modes; a timer that moves from one mode to the other during the call takes more calls than `MaxCalls` |
| `CF/CFRunLoop.c:2083` | a later date set in the callout re-arms only the mode that fired | `TimersArmed` leaves out timers in two modes |
| `CF/CFRunLoop.c:2618`, `2667` | a stop in a round that ends for another reason, or during the exit observers, is dropped with the activation | `PendingServed` asks that the activation end, not how |
| `CF/CFRunLoop.c:1625` | blocks an outer activation has taken are not seen by a run nested in one of them | `BlockPending` counts the blocks in the list |
| `libdispatch/once.c:67` | blocks that wait for each other's token | `Nests` |
| `libdispatch/apply.c:345` | `dispatch_sync_f` waits behind a barrier, or for ever on the caller's own serial queue | taken as immediate |
| `SortObject.m:16` | every sort raises on an empty array | `input # <<>>` |

## 5. Fairness

* Semaphore, group: weak fairness for a thread inside a call (the scheduler
  runs it); callers are free not to call and timeouts not to expire. Strong
  fairness for `KernelWakes` (the kernel semaphore is created with the FIFO
  policy) and for the group's `LeaveClears` (a compare-and-swap that is
  retried does not lose every race).
* Once, apply, retain counts: weak fairness for a thread inside a call. No
  helper has to start, and no owner has to retain or release. `Reclaimed` holds if loads of
  the weak variable do not keep the side table's lock busy for ever, since the
  lock is not fair.
* Run loop: weak fairness for the loop's thread (its callouts return) and the
  kernel's timers; strong fairness for a call that has begun and waits for the
  run loop's lock, which is free again and again. Nobody has to make a call.
* Ticket sale: weak fairness for each window (its queue runs its block),
  strong for taking the permit, which the FIFO semaphore gives.
* Timers: execTask returns, an active timer fires, its handler ends.
* Permanent thread: the thread and its callers run; nothing forces the owner
  to let go or a caller to call.
* Monitor: beginMonitor and the observer callback, once begun, continue, and
  so do the monitor threads. Nothing forces the main run loop to do anything.
* Thread demos: something that can run does. Requests end because the session
  calls the completion handler on success, failure or its 30 s timeout.

## 6. Proofs

All hold for every value of the constants that satisfies the named ASSUMEs.

| Theorem | Statement | Assumes |
|---|---|---|
| `SemaphoreInvariant` | `Spec => [](TypeOK /\ WakeupBalance)` | finite `Threads`, `0 <= InitialValue <= LongMax` |
| `SemaphoreRefinement` | `Spec => CS!Spec` | the same |
| `SafeSale` | `SaleSpec => []EveryTicketSoldOnce` | finite `Windows`, `Tickets \in Nat` |
| `RunningTimersCancellable`, `NamesLeadToLiveTimers` | `TimerSpec => []RunningIsCancellable`, `[]NoDeadEntry` | finite `Timers` |
| `OnceSafety` | `OnceSpec => []OnceAndBefore` | `OnceAssumption` |
| `ApplyWidth`, `ApplyEachOnce`, `ApplyMemory` | `ApplySpec => []WidthReturned`, `[]EachIndexOnce`, `[]UsedWhileAlive` | `ApplyAssumption`: widths and parallelism positive, finitely many `Helpers`, none of them the caller |
| `GroupWaits`, `GroupNotifies`, `GroupFreed` | `Spec => []WaitSawEmpty`, `[]NoForgottenNotification`, `[]FreedUnused` | `GroupAssumption`: finite `Threads`, `ValueMax > 0` |
| `RefcountExact`, `RefcountFreed` | `RefcountSpec => []CountExact`, `[]FreedWhenUnused` | `RefcountAssumption`: finite `Owners`, `nobody` not among them, `RC_HALF > 1`, `MaxStrong > 0` |
| `UnsafeSale` | `SaleSpec => []BoundedOversale` | as `SafeSale`; the two upper bounds of the property are about two windows |
| `ThreadStops`, `ThreadKeepsTasks` | `ThreadSpec => []StopMeansStopped`, `[]NoTaskLost` | nothing |
| `BlocksNeverLost` | `Spec => []BlocksKept` | `RunLoopAssumption`: the bounds are naturals, the other constants have their types |
| `NothingLeftAsleep` | `Spec => []SleepsOnlyWhenIdle` | the same, and `NestsAwake`: no block and no beforeTimers, beforeSources or beforeWaiting observer runs the loop again |
| `HeapMinimum` | `HeapSpec => []HeapServesLeast` | `HeapAssumption`: the values are integers, the bound of their number is a natural |
| `TreeLinks` | `TreeSpec => []TreeIsSequences` | `TreeAssumption`: finitely many nodes, `NULL` not one of them, ranks are integers |
| `MonitorFirstSession` | `MonitorSpec => []FirstSessionSafe` | `MonitorAssumption`: the bounds are naturals |

*Semaphore.* `TypeOK` alone is not inductive: that the counter stays above
`-|Threads|` follows from `WakeupBalance`, which equates the threads of the slow
path with the wake-ups posted, owed and missing. The proof counts threads at
program labels (`AtMove`: one thread's move changes each count by at most one)
and treats one action at a time. The refinement maps permits to
`dsema_value + |Slow|`: an increment is the abstract signal, the kernel post a
stutter, a successful undo an abstract timeout.

*Ticket sale.* `SaleInv` adds to the property that the permit has one owner
(`OneOwner`, where a window that closed keeps it) and that what the owner has
checked and read is still true (`ReadIsFresh`). Without the lock there are three
invariants. `NothingLost`: neither the count nor the value a window is about to
write from falls below the tickets not yet sold. `RaceInv`: a window past its check may
find the count at zero, but only when the other one is not past its own (`Racing`),
so the count goes to −1 and no lower. `SalesInv` bounds the sales by a potential:
`Room(n)`, twice what two windows can sell from the count n on, where the worst is
that one sells all n while the other holds on to the value n and then puts n − 1 of
them back; while both hold a value, either may write last (`Fits`).

*Timers.* `TimerInv`: each entry of the dictionary leads to a live timer that has
this very name (`Entries`), sources exist from the call on and are resumed
before it returns (`Started`), and what is active after that is stored
(`Referenced`). Names collide, yet an overwritten entry is the only way a timer
loses its place, and then it loses its last reference too.

*Once.* `OnceInv`: the gate tells how often the block has begun and ended
(`GateCounts`); a thread in the block is the one the gate names, and one that has
passed found it done (`PointsAgree`); and a call under way is on its thread's
stack (`CallsNested`), without which a second call by the same thread could
displace the first.

*Apply.* `WidthInv` says how much width the call holds on each queue as a
function of the caller's place in the reservation (`Mine`): what it still wants
on the queues it has passed, with the excess where that has not been returned.
The width in use is that plus what others hold. `OneQueueMoves` reduces each
step of the reservation to a change on one queue.

`IndexInv` is about the indices. An index has one holder and has not been invoked
while it is held (`OneHolder`); the invoked ones are partitioned into those that
`da_todo` has been told of and one share for each participant that has not
reported yet (`Shares`), so `da_todo` reaches zero only when every index is done;
the caller is signalled once (`OneSignal`); and `da_thr_cnt` counts the participants
that still use the structure (`UsersCounted`), so that the one that brings it to
zero is the last.

*Group.* Four invariants, proved together (`GroupInv`). `WaitInv`: a thread inside
a wait remembers the current generation, which the waiters bit protects, or one
that has passed; in the second case, if it sleeps, a leave that saw the bit has
still to wake it (`Waker`). It rests on `BitCleared`: an empty group with the
waiters bit has a leave about to clear it, so no bit is left over for the next
generation. `QueueInv`: a queue that is not empty has exactly one party responsible
for it, the bit or one thread, and an empty one has none. `RefInv`: the reference
count is the number of holders, which are the client, the enters together (once the
first has taken its reference), the bit, each leave under way and each thread that
carries the notifications. The holders are a set of pairs (`Counted`), each step
adds, removes or moves one or two of them, and when none is left the group is idle
(`NothingHeld`).

*Retain counts.* `CountExact` speaks of the moments when the side table's lock is
free; `RefcountInv` has to say what holds in between. `Balance`: the inline count,
the side table's and what the thread with the lock carries from one to the other
(`Owed`) add up to the strong references. `ThreadOK` says what a thread's stale
copy of `isa` still tells it, `SideKnown` that the bit for the side table is set
exactly while something is there or on its way, `EndOK` and `Over` that deallocation
happens once and last. A thread with `sideTableLocked` that is still retaining has the
lock, so what `RetainGivesUp` gives up is its own; from there the weak load owes
nothing and reads nothing of the object, which is why `FreedWhenUnused` may
find it between its two unlocks. It follows that the branch of the underflow path that finds the side table empty after all
and deallocates is never taken by balanced callers.

*Permanent thread.* `StopInv`: `stopped` and `innerThread` disagree only inside
`__stop`, and a thread that leaves its loop was told to or has been abandoned by
everybody (`Abandoned`), so that the `stop` that raises an exception or is
invalidated finds the thread stopped. `TaskInv` keeps the order of the queue: what
was queued before the first `__stop` is ahead of every `__stop` or has run.

*Run loop.* `BlockInv` adds to `BlocksKept` where blocks can be: an activation holds
some only while it is in `__CFRunLoopDoBlocks` (`BlockTypes`). The lists of all
activations and of the run loop, outermost first, are one increasing sequence cut
into pieces (`Waiting`); taking the list moves it from the last piece to the one
before, putting the rest back joins the two, and a nested run adds an empty piece
between them. Nothing restricts the callouts.

`IdleInv` follows the innermost activation through a round. On its way to sleep
with nothing done (`Quiet`) it does not ignore wake-ups, and whatever it has already
passed, the blocks, the sources or the list of sources still to perform, the stop
flags, the timeout, has come up again only together with a wake-up in the port or
a caller about to send one (`Idle`, `Soon`). A step of another thread either adds
nothing (`AllShrink`: no mode gains a source or is stopped) or is followed by its
wake-up; a step of the loop that receives a message is no longer on its way to
sleep. The hypothesis `NestsAwake` is what makes the return from a nested run
harmless: the run may have received the wake-up, so the activation it returns to
must not be `Quiet`. Without it the property fails, see `CF/CFRunLoop.c:2721` in
section 4; the run's `NestAt` satisfies it.

*Monitor.* `FirstSession`: the observer calls back only while it is installed, and
the monitor gives the semaphore up only after it was removed, which lasts until
the second session.

*Heap.* `HeapServesLeast` speaks of the moments between two calls; `HeapInv` has to say
what the loops keep. The bucket to be written is a hole (`Hole`): around it the
parents are not greater than their children (`Ordered`), what is above the hole is
not greater than what is below it (`Spans`), and the value in hand may stand above
the hole's children while it moves up (`FitsAbove`) or below its parent while it
moves down (`FitsBelow`). The loop's exit is the other half, so that the value fits
where it is written (`FillHole`). Of the contents, the buckets but the hole and the
value in hand together are what was put in (`HeapContents`, counted by `Copies`).
That the first bucket is the least follows from the order by a least
counterexample (`RootLeast`): one with the least index has a parent that is one too.

*Tree.* `TreeInv` adds to `TreeIsSequences` that no child is twice in a sequence
(`Chain`) and that a node without a parent has no sibling (`RootsAlone`), without
which an append would leave a foreign chain behind the last child. Prepending,
appending and inserting are one relinking at a place (`Inserts`, `InsertChain`),
removing is the reverse (`Removes`, `RemoveChain`), and no node of another
parent's chain is touched (`OthersKept`). `SiblingsAreChildren` shows that what the
loops of sorting and of removing all reach by `_sibling` are exactly the children.

Only model-checked:

- every liveness property, the action part of `MonitorsEnd` included, which is
  stated in one formula with it: the prover has no fairness;
- the sorts: they are recursive definitions, and what these compute for every
  input needs induction over data;
- `TimersArmed`: it is a property of the instance and not of every value of the
  constants. Runs nested in an afterWaiting observer break it, and so does, with
  more calls than the run has, a timer that is moved to another mode while its date
  is being set (section 4); the other ways in which the code misses a timer are
  excluded in the property itself;
- `ThreadDemo`: its programs are fixed scripts on a fixed set of queues, which TLC
  explores completely, so there is no parameter to generalise over.

## 7. Abstractions

* Memory is sequentially consistent; the C code's relaxed orders are not
  modelled. In Objective-C an aligned pointer-size property is read and
  written in one step, and unsynchronized accesses interleave.
* The group's 32-bit generation does not wrap (`MaxGen` bounds it), nor does the
  side table's count overflow.
* Ownership counts appear only where they decide control: the group's
  references, timer sources, the permanent thread's object, `da_thr_cnt`.
* Timers of the run loop have no tolerance; dates are small numbers.
* Formatting, logging, URLs, call-stack capture and CPU statistics are left out.
* Each passing property has a mutant of the mapped code that violates it;
  the mutants stand beside the definitions they replace.

## 8. Not modelled

* Most of the repository's lines are output of `clang -rewrite-objc` (`VC.cpp`,
  `ViewController.cpp`, `Person.cpp`, `main-arm64.cpp`), pods, Unicode tables and
  GNUstep's Foundation: generated or third-party text that no demo of its own
  exercises. The share of lines the models cover is small for that reason.
* Of the libraries, what the notes explain and the apps rely on is modelled.
  The rest of libdispatch's queues and sources, of the runtime (message
  dispatch, classes, categories, autorelease pools) and of CoreFoundation
  (strings, collections, I/O) is not.
* Of the run loop: observers added or removed while it runs, adding a mode to the common modes,
  deallocation, the Windows branches.
* Demos of one assignment or one call (bit flags, swizzling, key-value
  observing, hit areas, block captures) have no state worth a model.

## 9. What is left

1. An abstract group specification (enters, waiters, notifications) that
   `DispatchGroup` implements and `ThreadDemo` uses.
2. Autorelease pools of `NSObject.mm`; the queue state word of `queue.c`, of
   which `DispatchApply` has the width only.
3. Observers that are added and removed while the run loop runs.
