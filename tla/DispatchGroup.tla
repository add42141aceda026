--------------------------- MODULE DispatchGroup ---------------------------
(***************************************************************************)
(* The group of libdispatch-1173.40.5 (src/semaphore.c).  dg_state packs   *)
(* the number of enters not yet left, a generation that the last leave     *)
(* increments with the carry of the same addition, and two bits: somebody  *)
(* waits, somebody is to be notified.  Only the bits may go stale: a       *)
(* leave empties the group in one step, clears the bits in a later one and *)
(* wakes in still later ones, while other threads enter, wait and notify.  *)
(* Each atomic instruction is one action; memory is sequentially           *)
(* consistent.                                                             *)
(***************************************************************************)
EXTENDS Integers, Sequences, FiniteSets

CONSTANTS Threads,   \* the threads that call the group
          Notifs,    \* the blocks given to dispatch_group_notify, once each
          ValueMax,  \* the largest number of enters the value field can hold
          MaxGen     \* bound: how many times the group becomes empty

ASSUME GroupAssumption == /\ IsFiniteSet(Threads)
                          /\ ValueMax \in Nat \ {0}
                          /\ MaxGen \in Nat

VARIABLES dg_state,      \* [value, gen, waiters, notifs]
          dg_notify,     \* the queue of notifications, oldest first
          linked,        \* notifications whose predecessor points to them
          refs,          \* references to the group, the client's included
          client,        \* does the client still hold its reference?
          pc,            \* pc[t]: where t is inside a call
          snap,          \* snap[t]: dg_state as t last saw it
          needs_release, \* needs_release[t]: parameter of _dispatch_group_wake
          item,          \* item[t]: what t hands to dispatch_group_notify
          was_empty,     \* was_empty[t]: t's push found dg_notify empty
          batch,         \* batch[t]: notifications t captured, not submitted
          fired,         \* notifications submitted to their queue
          sawEmpty,      \* history: waiting threads since whose call the
                         \* group has been empty
          status         \* "live", "freed", "crashed" or "disposedInUse"

locals == <<snap, needs_release, item, was_empty, batch>>
history == <<fired, sawEmpty>>
vars == <<dg_state, dg_notify, linked, refs, client, pc, locals, history, status>>

Empty == [value |-> 0, gen |-> 0, waiters |-> FALSE, notifs |-> FALSE]
None == "none"

\* (uint32_t)dg_state == 0: no enters and no bits, whatever the generation.
IsIdle(state) == state.value = 0 /\ ~state.waiters /\ ~state.notifs

\* dispatch_group_create, or _dispatch_group_create_and_enter
Init ==
    /\ \E n \in {0, 1} : dg_state = [Empty EXCEPT !.value = n] /\ refs = 1 + n
    /\ dg_notify = <<>>
    /\ linked = {}
    /\ client = TRUE
    /\ pc = [t \in Threads |-> "idle"]
    /\ snap = [t \in Threads |-> Empty]
    /\ needs_release = [t \in Threads |-> FALSE]
    /\ item = [t \in Threads |-> None]
    /\ was_empty = [t \in Threads |-> FALSE]
    /\ batch = [t \in Threads |-> <<>>]
    /\ fired = {}
    /\ sawEmpty = {}
    /\ status = "live"

Ready(t, label) == status = "live" /\ pc[t] = label
Goto(t, label) == pc' = [pc EXCEPT ![t] = label]

\* A call that needs the caller to hold a reference to the group.
Calls(t) == Ready(t, "idle") /\ client

-----------------------------------------------------------------------------
(* dispatch_group_enter, also the first half of dispatch_group_async *)

\* The caller owes a retain when the group was empty.
Enter(t) ==
    /\ Calls(t)
    /\ dg_state.value < ValueMax
    /\ dg_state' = [dg_state EXCEPT !.value = @ + 1]
    /\ Goto(t, IF dg_state.value = 0 THEN "retain" ELSE "idle")
    /\ UNCHANGED <<dg_notify, linked, refs, client, locals, history, status>>

\* Mutant: the enter that makes the group non-empty takes no reference.
EnterNoRetain(t) ==
    /\ Ready(t, "retain")
    /\ Goto(t, "idle")
    /\ UNCHANGED <<dg_state, dg_notify, linked, refs, client, locals, history,
                   status>>

EnterRetain(t) ==
    /\ Ready(t, "retain")
    /\ refs' = refs + 1
    /\ Goto(t, "idle")
    /\ UNCHANGED <<dg_state, dg_notify, linked, client, locals, history, status>>

\* The value field wraps to zero: "Too many nested calls".
EnterOverflows(t) ==
    /\ Calls(t)
    /\ dg_state.value = ValueMax
    /\ status' = "crashed"
    /\ UNCHANGED <<dg_state, dg_notify, linked, refs, client, pc, locals, history>>

-----------------------------------------------------------------------------
(* dispatch_group_leave *)

\* Callers leave for an enter that has returned.
Returned == dg_state.value - Cardinality({t \in Threads : pc[t] = "retain"})

LeaveNotLast(t) ==
    /\ Ready(t, "idle")
    /\ Returned > 0
    /\ dg_state.value > 1
    /\ dg_state' = [dg_state EXCEPT !.value = @ - 1]
    /\ UNCHANGED <<dg_notify, linked, refs, client, pc, locals, history, status>>

\* The addition that empties the group carries into the generation.
Emptied(state) == [state EXCEPT !.value = 0, !.gen = @ + 1]

\* Threads inside a wait.
Waiting == {t \in Threads : pc[t] \in {"address", "asleep", "check"}}

LeaveLast(t) ==
    /\ Ready(t, "idle")
    /\ Returned > 0
    /\ dg_state.value = 1
    /\ dg_state.gen < MaxGen
    /\ dg_state' = Emptied(dg_state)
    /\ snap' = [snap EXCEPT ![t] = Emptied(dg_state)]
    /\ needs_release' = [needs_release EXCEPT ![t] = TRUE]
    /\ sawEmpty' = sawEmpty \cup Waiting
    /\ Goto(t, "clear")
    /\ UNCHANGED <<dg_notify, linked, refs, client, item, was_empty, batch,
                   fired, status>>

\* "Unbalanced call to dispatch_group_leave()"
LeaveUnbalanced(t) ==
    /\ Calls(t)
    /\ dg_state.value = 0
    /\ status' = "crashed"
    /\ UNCHANGED <<dg_state, dg_notify, linked, refs, client, pc, locals, history>>

\* The bits a leave clears.  When the group was entered again, waiters of the
\* new generation may have set theirs, and it stays.
Cleared(state) ==
    [state EXCEPT !.waiters = @ /\ state.value # 0, !.notifs = FALSE]

\* Mutant: the bits are cleared by a plain store, not a compare-and-swap.
LeaveStores(t) ==
    /\ Ready(t, "clear")
    /\ dg_state' = Cleared(snap[t])
    /\ Goto(t, "wake")
    /\ UNCHANGED <<dg_notify, linked, refs, client, locals, history, status>>

\* The loop ends without a store when there is nothing to clear, or with the
\* compare-and-swap that finds the state it expects.
LeaveClears(t) ==
    /\ Ready(t, "clear")
    /\ Cleared(snap[t]) = snap[t] \/ dg_state = snap[t]
    /\ dg_state' = IF Cleared(snap[t]) = snap[t] THEN dg_state
                                                 ELSE Cleared(snap[t])
    /\ Goto(t, "wake")
    /\ UNCHANGED <<dg_notify, linked, refs, client, locals, history, status>>

\* The compare-and-swap finds another state, and it is tried next.
LeaveRetries(t) ==
    /\ Ready(t, "clear")
    /\ Cleared(snap[t]) # snap[t]
    /\ dg_state # snap[t]
    /\ snap' = [snap EXCEPT ![t] = dg_state]
    /\ UNCHANGED <<dg_state, dg_notify, linked, refs, client, pc,
                   needs_release, item, was_empty, batch, history, status>>

-----------------------------------------------------------------------------
(* dispatch_group_notify *)

\* os_mpsc_push_update_tail
NotifyPush(t, n) ==
    /\ Calls(t)
    /\ \A u \in Threads : item[u] # n
    /\ n \notin linked
    /\ dg_notify' = Append(dg_notify, n)
    /\ item' = [item EXCEPT ![t] = n]
    /\ was_empty' = [was_empty EXCEPT ![t] = (dg_notify = <<>>)]
    /\ Goto(t, "link")
    /\ UNCHANGED <<dg_state, linked, refs, client, snap, needs_release, batch,
                   history, status>>

\* _dispatch_retain if the queue was empty, os_mpsc_push_update_prev
NotifyLink(t) ==
    /\ Ready(t, "link")
    /\ linked' = linked \cup {item[t]}
    /\ refs' = IF was_empty[t] THEN refs + 1 ELSE refs
    /\ Goto(t, IF was_empty[t] THEN "publish" ELSE "idle")
    /\ item' = [item EXCEPT ![t] = None]
    /\ was_empty' = [was_empty EXCEPT ![t] = FALSE]
    /\ UNCHANGED <<dg_state, dg_notify, client, snap, needs_release, batch,
                   history, status>>

\* The first in the queue sets the bit, or wakes at once in an idle group.
NotifyPublish(t) ==
    /\ Ready(t, "publish")
    /\ IF IsIdle(dg_state)
         THEN /\ snap' = [snap EXCEPT ![t] = [dg_state EXCEPT !.notifs = TRUE]]
              /\ needs_release' = [needs_release EXCEPT ![t] = FALSE]
              /\ Goto(t, "wake")
              /\ UNCHANGED dg_state
         ELSE /\ dg_state' = [dg_state EXCEPT !.notifs = TRUE]
              /\ Goto(t, "idle")
              /\ UNCHANGED <<snap, needs_release>>
    /\ UNCHANGED <<dg_notify, linked, refs, client, item, was_empty, batch,
                   history, status>>

-----------------------------------------------------------------------------
(* _dispatch_group_wake *)

\* os_mpsc_capture_snapshot waits until the head is linked.
WakeCapture(t) ==
    /\ Ready(t, "wake")
    /\ snap[t].notifs
    /\ dg_notify # <<>> /\ Head(dg_notify) \in linked
    /\ batch' = [batch EXCEPT ![t] = dg_notify]
    /\ dg_notify' = <<>>
    /\ Goto(t, "submit")
    /\ UNCHANGED <<dg_state, linked, refs, client, snap, needs_release, item,
                   was_empty, history, status>>

\* One iteration: the successor must be linked before the head is submitted.
WakeSubmit(t) ==
    /\ Ready(t, "submit")
    /\ Len(batch[t]) > 1 => batch[t][2] \in linked
    /\ fired' = fired \cup {Head(batch[t])}
    /\ batch' = [batch EXCEPT ![t] = Tail(@)]
    /\ Goto(t, IF Len(batch[t]) > 1 THEN "submit" ELSE "wakeAddress")
    /\ UNCHANGED <<dg_state, dg_notify, linked, refs, client, snap,
                   needs_release, item, was_empty, sawEmpty, status>>

\* _dispatch_wake_by_address releases every thread asleep on dg_gen.
WakeAddress(t) ==
    /\ \/ Ready(t, "wakeAddress")
       \/ Ready(t, "wake") /\ ~snap[t].notifs
    /\ pc' = [u \in Threads |->
                CASE u = t -> "release"
                  [] u # t /\ snap[t].waiters /\ pc[u] = "asleep" -> "check"
                  [] OTHER -> pc[u]]
    /\ UNCHANGED <<dg_state, dg_notify, linked, refs, client, locals, history,
                   status>>

\* The references _dispatch_group_wake gives back.
Releases(t) == (IF needs_release[t] THEN 1 ELSE 0)
                 + (IF snap[t].notifs THEN 1 ELSE 0)

\* _dispatch_release_n; the last reference disposes of the group.
Drop(n) ==
    /\ refs' = refs - n
    /\ status' = IF n = 0 \/ refs > n THEN status
                 ELSE IF IsIdle(dg_state) THEN "freed" ELSE "disposedInUse"

WakeRelease(t) ==
    /\ Ready(t, "release")
    /\ Drop(Releases(t))
    /\ snap' = [snap EXCEPT ![t] = Empty]
    /\ needs_release' = [needs_release EXCEPT ![t] = FALSE]
    /\ Goto(t, "idle")
    /\ UNCHANGED <<dg_state, dg_notify, linked, client, item, was_empty, batch,
                   history>>

-----------------------------------------------------------------------------
(* dispatch_group_wait *)

\* The group is empty: success at once.
WaitEmpty(t) ==
    /\ Calls(t)
    /\ dg_state.value = 0
    /\ sawEmpty' = sawEmpty \cup {t}
    /\ Goto(t, "zero")
    /\ UNCHANGED <<dg_state, dg_notify, linked, refs, client, locals, fired,
                   status>>

\* DISPATCH_TIME_NOW in a group that is not empty.
WaitNow(t) ==
    /\ Calls(t)
    /\ dg_state.value # 0
    /\ Goto(t, "nonzero")
    /\ UNCHANGED <<dg_state, dg_notify, linked, refs, client, locals, history,
                   status>>

\* The waiters bit is set, and the generation of that state remembered.
WaitRegister(t) ==
    /\ Calls(t)
    /\ dg_state.value # 0
    /\ dg_state' = [dg_state EXCEPT !.waiters = TRUE]
    /\ snap' = [snap EXCEPT ![t] = [dg_state EXCEPT !.waiters = TRUE]]
    /\ Goto(t, "address")
    /\ UNCHANGED <<dg_notify, linked, refs, client, needs_release, item,
                   was_empty, batch, history, status>>

\* Mutant: the thread goes to sleep without comparing the generation.
WaitSleepsAnyway(t) ==
    /\ Ready(t, "address")
    /\ Goto(t, "asleep")
    /\ UNCHANGED <<dg_state, dg_notify, linked, refs, client, locals, history,
                   status>>

\* _dispatch_wait_on_address sleeps only if dg_gen still has the value given.
WaitOnAddress(t) ==
    /\ Ready(t, "address")
    /\ Goto(t, IF dg_state.gen = snap[t].gen THEN "asleep" ELSE "check")
    /\ UNCHANGED <<dg_state, dg_notify, linked, refs, client, locals, history,
                   status>>

\* Mutant: a wake-up is taken for the end of the generation waited for.
WaitTrustsWakeup(t) ==
    /\ Ready(t, "check")
    /\ Goto(t, "zero")
    /\ UNCHANGED <<dg_state, dg_notify, linked, refs, client, locals, history,
                   status>>

\* Back from the address: the generation decides.
WaitChecks(t) ==
    /\ Ready(t, "check")
    /\ Goto(t, IF dg_state.gen # snap[t].gen THEN "zero" ELSE "address")
    /\ UNCHANGED <<dg_state, dg_notify, linked, refs, client, locals, history,
                   status>>

\* The timeout expires, before or while the thread sleeps.
WaitTimesOut(t) ==
    /\ Ready(t, "asleep") \/ Ready(t, "address")
    /\ Goto(t, IF dg_state.gen # snap[t].gen THEN "zero" ELSE "nonzero")
    /\ UNCHANGED <<dg_state, dg_notify, linked, refs, client, locals, history,
                   status>>

\* The sleep is interrupted.
WaitInterrupted(t) ==
    /\ Ready(t, "asleep")
    /\ Goto(t, "check")
    /\ UNCHANGED <<dg_state, dg_notify, linked, refs, client, locals, history,
                   status>>

\* dispatch_group_wait returns with the result its label names.
WaitReturns(t) ==
    /\ Ready(t, "zero") \/ Ready(t, "nonzero")
    /\ snap' = [snap EXCEPT ![t] = Empty]
    /\ sawEmpty' = sawEmpty \ {t}
    /\ Goto(t, "idle")
    /\ UNCHANGED <<dg_state, dg_notify, linked, refs, client, needs_release,
                   item, was_empty, batch, fired, status>>

-----------------------------------------------------------------------------
\* Calls made with the client's reference: all but leave, whose reference is
\* the one its enter took.
OnClientReference(t) ==
    \/ pc[t] \in {"retain", "link", "publish", "address", "asleep", "check",
               "zero", "nonzero"}
    \/ pc[t] # "idle" /\ ~needs_release[t]

\* dispatch_release by the client, once no call of its own is under way.
ClientRelease ==
    /\ status = "live"
    /\ client
    /\ \A t \in Threads : ~OnClientReference(t)
    /\ client' = FALSE
    /\ Drop(1)
    /\ UNCHANGED <<dg_state, dg_notify, linked, pc, locals, history>>

\* What a thread does by itself once it is inside a call.
Continue(t) ==
    \/ EnterRetain(t)
    \/ LeaveClears(t)
    \/ LeaveRetries(t)
    \/ NotifyLink(t)
    \/ NotifyPublish(t)
    \/ WakeCapture(t)
    \/ WakeSubmit(t)
    \/ WakeAddress(t)
    \/ WakeRelease(t)
    \/ WaitOnAddress(t)
    \/ WaitChecks(t)
    \/ WaitReturns(t)

Next ==
    \/ \E t \in Threads :
         \/ Enter(t)
         \/ EnterOverflows(t)
         \/ LeaveNotLast(t)
         \/ LeaveLast(t)
         \/ LeaveUnbalanced(t)
         \/ \E n \in Notifs : NotifyPush(t, n)
         \/ WaitEmpty(t)
         \/ WaitNow(t)
         \/ WaitRegister(t)
         \/ WaitTimesOut(t)
         \/ WaitInterrupted(t)
         \/ Continue(t)
    \/ ClientRelease

Spec == Init /\ [][Next]_vars

\* A thread inside a call is scheduled again; callers need not call, and a
\* timeout need not expire.  A compare-and-swap that is retried for ever does
\* not lose the race every time.
FairSpec ==
    /\ Spec
    /\ \A t \in Threads : WF_vars(Continue(t)) /\ SF_vars(LeaveClears(t))

-----------------------------------------------------------------------------
(* Properties *)

\* dispatch_group_wait returns when the group has been empty and not before: it
\* returns zero only if the group was empty at some time since the call, however
\* often it was entered and emptied around it; a thread asleep on the current
\* generation has its bit set, and one asleep on a generation that has passed is
\* about to be woken by a leave that emptied the group.
WaitSawEmpty ==
    /\ \A t \in Threads : pc[t] = "zero" => t \in sawEmpty
    /\ \A t \in Threads : pc[t] = "asleep" =>
         IF dg_state.gen = snap[t].gen
           THEN dg_state.waiters /\ dg_state.value > 0
           ELSE \E u \in Threads :
                  \/ pc[u] = "clear" /\ (dg_state.waiters \/ snap[u].waiters)
                  \/ pc[u] \in {"wake", "submit", "wakeAddress"} /\ snap[u].waiters

\* A queued notification is never forgotten: the bit is set, or a thread that
\* will set it or capture the queue is on its way.
NoForgottenNotification ==
    dg_notify # <<>> =>
        \/ dg_state.notifs
        \/ \E t \in Threads : \/ pc[t] = "link" /\ was_empty[t]
                              \/ pc[t] = "publish"
                              \/ pc[t] = "wake" /\ snap[t].notifs

\* The group is freed only when nothing is inside it: no leave, wait or
\* notification still touches it, and _dispatch_group_dispose never finds it
\* in use, although enter takes its reference after it has been counted.
FreedUnused ==
    /\ status # "disposedInUse"
    /\ status = "freed" => /\ \A t \in Threads : pc[t] = "idle"
                           /\ dg_notify = <<>>
                           /\ ~client

\* Emptying the group reaches everybody: a thread asleep then wakes up, even if
\* the group is entered again before it does, and a notification registered with
\* the group is submitted, unless the group is entered (again) and not left.
EmptyWakes ==
    /\ \A t \in Threads :
         (pc[t] = "asleep" /\ dg_state.gen # snap[t].gen)
             ~> (pc[t] # "asleep" \/ status # "live")
    /\ \A n \in Notifs : n \in linked
         ~> (n \in fired \/ dg_state.value > 0 \/ status # "live")
=============================================================================
