---------------------------- MODULE DispatchApply ----------------------------
(***************************************************************************)
(* dispatch_apply_f (apply.c): one call of it, the threads of the pool that *)
(* help, the width it reserves on a chain of concurrent queues, and the     *)
(* thread event it waits for (shims/lock.h, shims/lock.c), one step per     *)
(* atomic instruction.  The dispatch_apply_t is counted in da_thr_cnt; the  *)
(* continuation da_dc points to lives on the caller's stack.                *)
(***************************************************************************)
EXTENDS Integers, Sequences, FiniteSets, FiniteSetsExt

CONSTANTS
    Helpers,      \* threads of the pool
    Iterations,   \* numbers of iterations it is called with
    Nesting,      \* products of the iterations of the calls it is nested in, 0: none
    Parallelism,  \* _dispatch_qos_max_parallelism
    QueueWidth    \* dq_width of the queue, of its target ...; the root is not in it

ASSUME ApplyAssumption ==
    /\ Iterations \subseteq Nat /\ Nesting \subseteq Nat
    /\ Parallelism \in Nat \ {0} /\ Cardinality(Helpers) >= Parallelism - 1
    /\ QueueWidth \in Seq(Nat \ {0}) /\ QueueWidth # <<>>
    /\ "caller" \notin Helpers /\ IsFiniteSet(Helpers)

Caller == "caller"
Executors == Helpers \cup {Caller}
Queues == DOMAIN QueueWidth      \* 1 is the queue of the call, 1 .. n

VARIABLES
    step,      \* where each executor is; helpers: "idle" until they get a continuation
    da,        \* the dispatch_apply_t: da_index, da_todo, da_iterations, da_thr_cnt, da_event
    freed,     \* da has been freed
    idx, done, \* local variables of _dispatch_apply_invoke2
    invoked,   \* how often the function was called for each index
    used,      \* width in use on each queue, by this call and by others
    others,    \* the part of it that others use
    level, width,  \* local variables of _dispatch_apply_redirect: dq, da_width
    excess, undo   \* what _dispatch_queue_relinquish_width gives back, and where it is

applyVars == <<step, da, freed, idx, done, invoked, used, others, level, width, excess, undo>>

redirect == <<used, others, level, width, excess, undo>>
loop == <<idx, done, invoked>>

\* The number of threads, from the nesting and the iterations
ThreadCount(iterations, nested) ==
    LET thr == IF nested = 0 THEN Parallelism
               ELSE IF nested < Parallelism THEN Parallelism \div nested ELSE 1
    IN IF iterations < thr THEN iterations ELSE thr

ApplyInit ==
    /\ step = [e \in Executors |-> "idle"] /\ freed = FALSE
    /\ da = [index |-> 0, todo |-> 0, iterations |-> 0, thr |-> 0, event |-> 0]
    /\ idx = [e \in Executors |-> 0] /\ done = [e \in Executors |-> 0]
    /\ invoked = <<>>
    /\ used = [q \in Queues |-> 0] /\ others = [q \in Queues |-> 0]
    /\ level = 1 /\ width = 0 /\ excess = 0 /\ undo = 0

Go(e, s) == step' = [step EXCEPT ![e] = s]

-----------------------------------------------------------------------------
\* dispatch_apply_f on the root queue, on a queue of width 1 or from that queue
\* itself, or on the head of the chain.  dispatch_sync_f puts the function of
\* the last two on the queue and takes some of its width meanwhile.  It is taken
\* as immediate: that it waits behind a barrier, or for ever on a serial queue
\* the caller is on, is left out.
dispatch_apply_f(iterations, nested, root, same) ==
    /\ step[Caller] = "idle" /\ iterations > 0
    /\ LET thr == ThreadCount(iterations, nested)
           serial == thr <= 1 \/ (~root /\ (QueueWidth[1] = 1 \/ same))
       IN /\ da' = [index |-> 0, todo |-> iterations, iterations |-> iterations, thr |-> thr,
                    event |-> 0]
          /\ width' = thr - 1
          /\ Go(Caller, IF serial THEN "serial" ELSE IF root THEN "push" ELSE "reserve")
    /\ invoked' = [i \in 0 .. iterations - 1 |-> 0]
    /\ UNCHANGED <<freed, idx, done, used, others, level, excess, undo>>

\* _dispatch_apply_serial
Serial ==
    /\ step[Caller] = "serial"
    /\ invoked' = [invoked EXCEPT ![idx[Caller]] = @ + 1]
    /\ idx' = [idx EXCEPT ![Caller] = @ + 1]
    /\ IF idx'[Caller] < da.iterations THEN UNCHANGED <<step, freed>>
       ELSE Go(Caller, "returned") /\ freed' = TRUE
    /\ UNCHANGED <<da, done, redirect>>

\* _dispatch_queue_try_reserve_apply_width on one queue after the other
Reserve ==
    /\ step[Caller] = "reserve"
    /\ LET avail == IF QueueWidth[level] = 1 THEN 0 ELSE QueueWidth[level] - used[level]
           got == Min({avail, width})
       IN /\ used' = [used EXCEPT ![level] = @ + got]
          /\ excess' = width - got /\ width' = got /\ undo' = 1
          /\ da' = [da EXCEPT !.thr = IF got = 0 THEN @ ELSE @ - excess']
          /\ IF got < width THEN Go(Caller, "giveBack") /\ UNCHANGED level
             ELSE /\ level' = level + 1
                  /\ Go(Caller, IF level' \in Queues THEN "reserve" ELSE "push")
    /\ UNCHANGED <<freed, loop, others>>

\* Mutant: the queue that had too little width gives some back as well.
GiveBackTooMuch ==
    /\ step[Caller] = "giveBack"
    /\ IF undo <= level
       THEN /\ used' = [used EXCEPT ![undo] = @ - excess] /\ undo' = undo + 1
            /\ UNCHANGED <<step, level>>
       ELSE /\ Go(Caller, IF width = 0 THEN "serial"
                          ELSE IF level + 1 \in Queues THEN "reserve" ELSE "push")
            /\ level' = level + 1 /\ UNCHANGED <<used, undo>>
    /\ UNCHANGED <<da, freed, loop, others, width, excess>>

\* The excess goes back to the queues before this one; with no width left the
\* call is serial
GiveBack ==
    /\ step[Caller] = "giveBack"
    /\ IF undo < level
       THEN /\ used' = [used EXCEPT ![undo] = @ - excess] /\ undo' = undo + 1
            /\ UNCHANGED <<step, level>>
       ELSE /\ Go(Caller, IF width = 0 THEN "serial"
                          ELSE IF level + 1 \in Queues THEN "reserve" ELSE "push")
            /\ level' = level + 1 /\ UNCHANGED <<used, undo>>
    /\ UNCHANGED <<da, freed, loop, others, width, excess>>

\* _dispatch_apply_f: one continuation for each thread but this one
Push ==
    /\ step[Caller] = "push" /\ undo' = 1
    /\ \E hs \in kSubset(da.thr - 1, Helpers) :
          step' = [e \in Executors |-> IF e \in hs THEN "queued" ELSE IF e = Caller THEN "first" ELSE step[e]]
    /\ UNCHANGED <<da, freed, loop, used, others, level, width, excess>>

\* A thread of the pool gets to the continuation
Starts(h) ==
    /\ step[h] = "queued" /\ Go(h, "first")
    /\ UNCHANGED <<da, freed, loop, redirect>>

-----------------------------------------------------------------------------
(* _dispatch_apply_invoke2 *)

\* os_atomic_inc_orig2o of da_index, the first time and after each call
FirstIndex(e) ==
    /\ step[e] = "first"
    /\ idx' = [idx EXCEPT ![e] = da.index] /\ da' = [da EXCEPT !.index = @ + 1]
    /\ Go(e, IF da.index >= da.iterations THEN "out" ELSE "context")
    /\ UNCHANGED <<freed, done, invoked, redirect>>

\* dc_func and dc_ctxt are read from the caller's stack
ReadContext(e) ==
    /\ step[e] = "context" /\ Go(e, "call")
    /\ UNCHANGED <<da, freed, loop, redirect>>

Invoke(e) ==
    /\ step[e] = "call" /\ Go(e, "next")
    /\ invoked' = [invoked EXCEPT ![idx[e]] = @ + 1] /\ done' = [done EXCEPT ![e] = @ + 1]
    /\ UNCHANGED <<da, freed, idx, redirect>>

\* Mutant: the index is read and written in two instructions of which only the
\* first is seen by the others.
NextIndexLost(e) ==
    /\ step[e] = "next"
    /\ idx' = [idx EXCEPT ![e] = idx[e] + 1] /\ da' = [da EXCEPT !.index = idx[e] + 2]
    /\ Go(e, IF idx'[e] < da.iterations THEN "call" ELSE "todo")
    /\ UNCHANGED <<freed, done, invoked, redirect>>

NextIndex(e) ==
    /\ step[e] = "next"
    /\ idx' = [idx EXCEPT ![e] = da.index] /\ da' = [da EXCEPT !.index = @ + 1]
    /\ Go(e, IF da.index < da.iterations THEN "call" ELSE "todo")
    /\ UNCHANGED <<freed, done, invoked, redirect>>

\* The last one to finish work wakes the caller
Todo(e) ==
    /\ step[e] = "todo" /\ da' = [da EXCEPT !.todo = @ - done[e]]
    /\ Go(e, IF da'.todo = 0 THEN "signal" ELSE "out")
    /\ UNCHANGED <<freed, loop, redirect>>

\* Mutant: a waiting caller is taken for one that has not come yet.
SignalOnly(e) ==
    /\ step[e] = "signal" /\ da' = [da EXCEPT !.event = @ + 1]
    /\ Go(e, "out")
    /\ UNCHANGED <<freed, loop, redirect>>

\* _dispatch_thread_event_signal: 0 -> 1 needs no wake-up
Signal(e) ==
    /\ step[e] = "signal" /\ da' = [da EXCEPT !.event = @ + 1]
    /\ Go(e, IF da.event = 0 THEN "out" ELSE "wake")
    /\ UNCHANGED <<freed, loop, redirect>>

WakeCaller(e) ==
    /\ step[e] = "wake"
    /\ step' = [step EXCEPT ![e] = "out", ![Caller] = IF @ = "asleep" THEN "check" ELSE @]
    /\ UNCHANGED <<da, freed, loop, redirect>>

\* The caller: _dispatch_thread_event_wait and its slow path
WaitEvent ==
    /\ step[Caller] = "out" /\ da' = [da EXCEPT !.event = @ - 1]
    /\ Go(Caller, IF da'.event = 0 THEN "drop" ELSE "check")
    /\ UNCHANGED <<freed, loop, redirect>>

CheckEvent ==
    /\ step[Caller] = "check"
    /\ Go(Caller, CASE da.event = 0 -> "drop" [] da.event = -1 -> "compare"
                    [] da.event \notin {0, -1} -> "corrupt")
    /\ UNCHANGED <<da, freed, loop, redirect>>

\* The kernel compares the value again before the thread sleeps
SleepOnEvent ==
    /\ step[Caller] = "compare"
    /\ Go(Caller, IF da.event = -1 THEN "asleep" ELSE "check")
    /\ UNCHANGED <<da, freed, loop, redirect>>

EventInterrupted ==
    /\ step[Caller] = "asleep" /\ Go(Caller, "check")
    /\ UNCHANGED <<da, freed, loop, redirect>>

\* Mutant: the caller, the last to need the answer, frees it.
DropByCaller(e) ==
    /\ step[e] = (IF e = Caller THEN "drop" ELSE "out")
    /\ da' = [da EXCEPT !.thr = @ - 1] /\ freed' = (freed \/ e = Caller)
    /\ Go(e, IF e = Caller THEN "relinquish" ELSE "idle")
    /\ UNCHANGED <<loop, redirect>>

\* The last thread to leave frees da
DropReference(e) ==
    /\ step[e] = (IF e = Caller THEN "drop" ELSE "out")
    /\ da' = [da EXCEPT !.thr = @ - 1] /\ freed' = (freed \/ da'.thr = 0)
    /\ Go(e, IF e = Caller THEN "relinquish" ELSE "idle")
    /\ UNCHANGED <<loop, redirect>>

\* The width goes back to the queues it was reserved on, if any
Relinquish ==
    /\ step[Caller] = "relinquish"
    /\ IF undo < level
       THEN used' = [used EXCEPT ![undo] = @ - width] /\ undo' = undo + 1 /\ UNCHANGED step
       ELSE Go(Caller, "returned") /\ UNCHANGED <<used, undo>>
    /\ UNCHANGED <<da, freed, loop, others, level, width, excess>>

\* Other work on the queues takes width and gives it back; what it does before
\* and after the reservation makes no difference to the call
OthersMove == step[Caller] \in {"reserve", "giveBack"}

OtherTakes(q) ==
    /\ OthersMove /\ used[q] < QueueWidth[q] /\ used' = [used EXCEPT ![q] = @ + 1]
    /\ others' = [others EXCEPT ![q] = @ + 1]
    /\ UNCHANGED <<step, da, freed, loop, level, width, excess, undo>>

OtherReturns(q) ==
    /\ OthersMove /\ others[q] > 0 /\ used' = [used EXCEPT ![q] = @ - 1]
    /\ others' = [others EXCEPT ![q] = @ - 1]
    /\ UNCHANGED <<step, da, freed, loop, level, width, excess, undo>>

ApplyStep(e) ==
    \/ FirstIndex(e) \/ ReadContext(e) \/ Invoke(e) \/ NextIndex(e) \/ Todo(e)
    \/ Signal(e) \/ WakeCaller(e) \/ DropReference(e)

CallerStep ==
    \/ Serial \/ Reserve \/ GiveBack \/ Push \/ WaitEvent \/ CheckEvent \/ SleepOnEvent
    \/ Relinquish \/ ApplyStep(Caller)

ApplyNext ==
    \/ \E n \in Iterations, nested \in Nesting, root, same \in BOOLEAN :
          dispatch_apply_f(n, nested, root, same)
    \/ CallerStep \/ EventInterrupted
    \/ \E h \in Helpers : Starts(h) \/ ApplyStep(h)
    \/ \E q \in Queues : OtherTakes(q) \/ OtherReturns(q)

ApplySpec == ApplyInit /\ [][ApplyNext]_applyVars

-----------------------------------------------------------------------------
Called == step[Caller] # "idle"
Returned == step[Caller] = "returned"

\* The function is called for no index twice, and for every index before
\* dispatch_apply returns
EachIndexOnce ==
    Called => \A i \in DOMAIN invoked : invoked[i] <= 1 /\ (Returned => invoked[i] = 1)

\* Nobody uses da after it was freed, or reads the continuation on the caller's
\* stack after dispatch_apply returned; and da is freed in the end
UsedWhileAlive ==
    /\ freed => \A e \in Executors : step[e] \in {"idle", "relinquish", "returned"}
    /\ Returned => \A h \in Helpers : step[h] \notin {"context", "call", "next", "todo"}
    /\ Returned /\ (\A h \in Helpers : step[h] = "idle") => freed

\* The width reserved level by level, part of it given back where a queue has
\* less, is never more than the queue's, and all of it is returned
WidthReturned ==
    \A q \in Queues :
        /\ others[q] <= used[q] /\ used[q] <= QueueWidth[q]
        /\ Returned => used[q] = others[q]

\* dispatch_apply returns even if no thread of the pool ever comes to help, and
\* the wake-up of the last one to finish is not lost
ApplyReturns == Called ~> Returned
=============================================================================
