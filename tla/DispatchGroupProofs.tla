------------------------- MODULE DispatchGroupProofs -------------------------
(***************************************************************************)
(* The dispatch group, for any number of threads, notifications, enters and *)
(* generations: waits, notifications and references.                        *)
(***************************************************************************)
EXTENDS DispatchGroup, FiniteSetTheorems, SequenceTheorems, TLAPS

-----------------------------------------------------------------------------
(* The invariants *)

States == [value : Nat, gen : Nat, waiters : BOOLEAN, notifs : BOOLEAN]
Waking == {"wake", "submit", "wakeAddress", "release"}
Labels == {"idle", "retain", "clear", "link", "publish", "zero", "nonzero", "address", "asleep", "check"}
            \cup Waking

GroupTypeOK ==
    /\ dg_state \in States /\ dg_notify \in Seq(Notifs) /\ client \in BOOLEAN
    /\ pc \in [Threads -> Labels] /\ snap \in [Threads -> States]
    /\ needs_release \in [Threads -> BOOLEAN] /\ was_empty \in [Threads -> BOOLEAN]
    /\ sawEmpty \subseteq Threads

\* A thread inside a wait remembers a generation: the current one, which its bit
\* protects, or one that has passed
Registered(t) ==
    t \in Waiting =>
       /\ snap[t].gen <= dg_state.gen
       /\ IF snap[t].gen = dg_state.gen THEN dg_state.waiters /\ dg_state.value > 0
                                        ELSE t \in sawEmpty

\* A leave that will wake the threads asleep
Waker(u) ==
    \/ pc[u] = "clear" /\ snap[u].waiters /\ dg_state.waiters
    \/ pc[u] \in {"wake", "submit", "wakeAddress"} /\ snap[u].waiters

WaitInv ==
    /\ \A t \in Threads : Registered(t) /\ (pc[t] = "zero" => t \in sawEmpty)
    /\ \A t \in Threads : pc[t] = "asleep" /\ dg_state.gen # snap[t].gen => \E u \in Threads : Waker(u)

\* The waiters bit of an empty group is about to be cleared
BitCleared ==
    dg_state.value = 0 /\ dg_state.waiters =>
      \E u \in Threads : pc[u] = "clear" /\ snap[u].waiters /\ snap[u].value = 0

\* Who is responsible for the queue of notifications: one thread or the bit, and
\* nobody when it is empty
Publisher(t) ==
    \/ pc[t] = "link" /\ was_empty[t]
    \/ pc[t] = "publish"
    \/ pc[t] = "wake" /\ snap[t].notifs

QueueInv ==
    /\ dg_notify # <<>> <=> dg_state.notifs \/ \E t \in Threads : Publisher(t)
    /\ dg_state.notifs => \A t \in Threads : ~Publisher(t)
    /\ \A t, u \in Threads : Publisher(t) /\ Publisher(u) => t = u

\* The references: of the client, of the enters, of the notifications while the
\* bit stands for them, of a leave and of a thread with the notifications
NotifyRef(t) == pc[t] = "publish" \/ (pc[t] \in Waking /\ snap[t].notifs)
GroupRef == dg_state.value > 0 /\ \A t \in Threads : pc[t] # "retain"
Slots == ({"client", "group", "bit"} \X {None}) \cup ({"leave", "notify"} \X Threads)
Held(r) ==
    \/ r[1] = "client" /\ client
    \/ r[1] = "group" /\ GroupRef
    \/ r[1] = "bit" /\ dg_state.notifs
    \/ r[1] = "leave" /\ needs_release[r[2]]
    \/ r[1] = "notify" /\ NotifyRef(r[2])
Counted == {r \in Slots : Held(r)}

CallInv(t) ==
    /\ OnClientReference(t) => client
    /\ needs_release[t] => pc[t] \in Waking \cup {"clear"}
    /\ pc[t] = "clear" => needs_release[t]
    /\ pc[t] = "retain" => dg_state.value > 0 /\ \A u \in Threads : pc[u] = "retain" => u = t
    /\ pc[t] \in Waking => Releases(t) > 0

RefInv ==
    /\ \A t \in Threads : CallInv(t)
    /\ refs = Cardinality(Counted)
    /\ status # "disposedInUse" /\ (status = "freed" => refs = 0)

-----------------------------------------------------------------------------
(* Types *)

\* What an enter, a leave, a wait and a notification make of a state
LEMMA StateFacts ==
    ASSUME NEW s \in States
    PROVE  /\ s.value \in Nat /\ s.gen \in Nat /\ s.waiters \in BOOLEAN /\ s.notifs \in BOOLEAN
           /\ [s EXCEPT !.value = @ + 1] \in States
           /\ s.value > 1 => [s EXCEPT !.value = @ - 1] \in States
           /\ [s EXCEPT !.waiters = TRUE] \in States
           /\ [s EXCEPT !.notifs = TRUE] \in States
           /\ Emptied(s) \in States /\ Cleared(s) \in States
<1>1. s.value \in Nat /\ s.gen \in Nat /\ s.waiters \in BOOLEAN /\ s.notifs \in BOOLEAN
  BY DEF States
<1>2. [s EXCEPT !.value = @ + 1] \in States
  BY <1>1 DEF States
<1>3. s.value > 1 => [s EXCEPT !.value = @ - 1] \in States
  <2>1. s.value > 1 => s.value - 1 \in Nat
    BY <1>1
  <2>2. QED
    BY <1>1, <2>1 DEF States
<1>4. [s EXCEPT !.waiters = TRUE] \in States
  BY <1>1 DEF States
<1>5. [s EXCEPT !.notifs = TRUE] \in States
  BY <1>1 DEF States
<1>6. Emptied(s) \in States
  <2>1. s.gen + 1 \in Nat
    BY <1>1
  <2>2. QED
    BY <1>1, <2>1 DEF Emptied, States
<1>7. Cleared(s) \in States
  <2>1. (s.waiters /\ s.value # 0) \in BOOLEAN
    OBVIOUS
  <2>2. QED
    BY <1>1, <2>1 DEF Cleared, States
<1>8. QED
  BY <1>1, <1>2, <1>3, <1>4, <1>5, <1>6, <1>7

\* The fields of those states
LEMMA StateFields ==
    ASSUME NEW s \in States
    PROVE  /\ LET e == [s EXCEPT !.value = @ + 1]
              IN e.value = s.value + 1 /\ e.gen = s.gen /\ e.waiters = s.waiters /\ e.notifs = s.notifs
           /\ LET l == [s EXCEPT !.value = @ - 1]
              IN l.value = s.value - 1 /\ l.gen = s.gen /\ l.waiters = s.waiters /\ l.notifs = s.notifs
           /\ LET w == [s EXCEPT !.waiters = TRUE]
              IN w.value = s.value /\ w.gen = s.gen /\ w.waiters = TRUE /\ w.notifs = s.notifs
<1>1. LET e == [s EXCEPT !.value = @ + 1]
      IN e.value = s.value + 1 /\ e.gen = s.gen /\ e.waiters = s.waiters /\ e.notifs = s.notifs
  BY DEF States
<1>2. LET l == [s EXCEPT !.value = @ - 1]
      IN l.value = s.value - 1 /\ l.gen = s.gen /\ l.waiters = s.waiters /\ l.notifs = s.notifs
  BY DEF States
<1>3. LET w == [s EXCEPT !.waiters = TRUE]
      IN w.value = s.value /\ w.gen = s.gen /\ w.waiters = TRUE /\ w.notifs = s.notifs
  BY DEF States
<1>4. QED
  BY <1>1, <1>2, <1>3

\* A notification sets its bit
LEMMA NotifiedFields ==
    ASSUME NEW s \in States, NEW n, n = [s EXCEPT !.notifs = TRUE]
    PROVE  n.value = s.value /\ n.gen = s.gen /\ (n.waiters <=> s.waiters) /\ n.notifs
BY DEF States

\* The last leave empties the group
LEMMA EmptiedFields ==
    ASSUME NEW s \in States, NEW e, e = Emptied(s)
    PROVE  e.value = 0 /\ e.gen = s.gen + 1 /\ (e.waiters <=> s.waiters) /\ (e.notifs <=> s.notifs)
BY DEF States, Emptied

\* and clears the bits
LEMMA ClearedFields ==
    ASSUME NEW s \in States, NEW c, c = Cleared(s)
    PROVE  /\ c.value = s.value /\ c.gen = s.gen /\ ~c.notifs
           /\ c.waiters <=> (s.waiters /\ s.value # 0)
           /\ c = s => ~s.notifs /\ (s.waiters => s.value # 0)
<1>1. c.value = s.value /\ c.gen = s.gen /\ ~c.notifs
  BY DEF States, Cleared
<1>2. c.waiters <=> (s.waiters /\ s.value # 0)
  BY DEF States, Cleared
<1>3. QED
  BY <1>1, <1>2

\* Every step leaves a state of the group
LEMMA NextTypeOK == GroupTypeOK /\ [Next]_vars => GroupTypeOK'
<1> SUFFICES ASSUME GroupTypeOK, [Next]_vars PROVE GroupTypeOK'
  OBVIOUS
<1> USE DEF GroupTypeOK, Ready, Goto, Calls, Labels, Waking, locals, history
<1>1. \A s \in States : Emptied(s) \in States /\ Cleared(s) \in States
  BY StateFacts
<1>2. \A t \in Threads : /\ [dg_state EXCEPT !.value = @ + 1] \in States
                         /\ [dg_state EXCEPT !.waiters = TRUE] \in States
                         /\ [dg_state EXCEPT !.notifs = TRUE] \in States
                         /\ snap[t] \in States
  BY StateFacts
<1>3. dg_state.value > 1 => [dg_state EXCEPT !.value = @ - 1] \in States
  BY StateFacts
<1>4. Empty \in States
  BY DEF Empty, States
<1>5. ASSUME NEW t \in Threads, Enter(t) PROVE GroupTypeOK'
  BY <1>2, <1>5 DEF Enter
<1>6. ASSUME NEW t \in Threads, EnterOverflows(t) \/ LeaveUnbalanced(t) PROVE GroupTypeOK'
  BY <1>6 DEF EnterOverflows, LeaveUnbalanced
<1>7. ASSUME NEW t \in Threads, EnterRetain(t) PROVE GroupTypeOK'
  BY <1>7 DEF EnterRetain
<1>8. ASSUME NEW t \in Threads, LeaveNotLast(t) PROVE GroupTypeOK'
  BY <1>3, <1>8 DEF LeaveNotLast
<1>9. ASSUME NEW t \in Threads, LeaveLast(t) PROVE GroupTypeOK'
  BY <1>1, <1>9 DEF LeaveLast, Waiting
<1>10. ASSUME NEW t \in Threads, LeaveClears(t) PROVE GroupTypeOK'
  BY <1>1, <1>2, <1>10 DEF LeaveClears
<1>11. ASSUME NEW t \in Threads, LeaveRetries(t) PROVE GroupTypeOK'
  BY <1>11 DEF LeaveRetries
<1>12. ASSUME NEW t \in Threads, NEW n \in Notifs, NotifyPush(t, n) PROVE GroupTypeOK'
  BY <1>12 DEF NotifyPush
<1>13. ASSUME NEW t \in Threads, NotifyLink(t) PROVE GroupTypeOK'
  BY <1>13 DEF NotifyLink
<1>14. ASSUME NEW t \in Threads, NotifyPublish(t) PROVE GroupTypeOK'
  BY <1>2, <1>14 DEF NotifyPublish
<1>15. ASSUME NEW t \in Threads, WakeCapture(t) PROVE GroupTypeOK'
  BY <1>15 DEF WakeCapture
<1>16. ASSUME NEW t \in Threads, WakeSubmit(t) PROVE GroupTypeOK'
  BY <1>16 DEF WakeSubmit
<1>17. ASSUME NEW t \in Threads, WakeAddress(t) PROVE GroupTypeOK'
  <2>1. \A u \in Threads : pc'[u] \in Labels /\ pc' = [v \in Threads |-> pc'[v]]
    BY <1>17 DEF WakeAddress
  <2>2. QED
    BY <1>17, <2>1 DEF WakeAddress
<1>18. ASSUME NEW t \in Threads, WakeRelease(t) PROVE GroupTypeOK'
  BY <1>4, <1>18 DEF WakeRelease
<1>19. ASSUME NEW t \in Threads, WaitEmpty(t) \/ WaitNow(t) PROVE GroupTypeOK'
  BY <1>19 DEF WaitEmpty, WaitNow
<1>20. ASSUME NEW t \in Threads, WaitRegister(t) PROVE GroupTypeOK'
  BY <1>2, <1>20 DEF WaitRegister
<1>21. ASSUME NEW t \in Threads, WaitOnAddress(t) \/ WaitChecks(t) \/ WaitTimesOut(t) \/ WaitInterrupted(t)
       PROVE  GroupTypeOK'
  BY <1>21 DEF WaitOnAddress, WaitChecks, WaitTimesOut, WaitInterrupted
<1>22. ASSUME NEW t \in Threads, WaitReturns(t) PROVE GroupTypeOK'
  BY <1>4, <1>22 DEF WaitReturns
<1>23. CASE ClientRelease
  BY <1>23 DEF ClientRelease
<1>24. CASE UNCHANGED vars
  BY <1>24 DEF vars
<1>25. QED
  BY <1>5, <1>6, <1>7, <1>8, <1>9, <1>10, <1>11, <1>12, <1>13, <1>14, <1>15, <1>16, <1>17, <1>18,
     <1>19, <1>20, <1>21, <1>22, <1>23, <1>24 DEF Next, Continue

-----------------------------------------------------------------------------
(* Waits *)

\* A step of t after which the threads that wait are as well off as before
KeepsWaits(t) ==
    /\ \A u \in Threads \ {t} : pc'[u] = pc[u] /\ snap'[u] = snap[u] /\ (u \in sawEmpty => u \in sawEmpty')
    /\ dg_state'.gen = dg_state.gen /\ (dg_state.waiters => dg_state'.waiters)
    /\ dg_state.value > 0 => dg_state'.value > 0
    /\ dg_state'.value = 0 /\ dg_state'.waiters => dg_state.value = 0 /\ dg_state.waiters
    /\ Registered(t)' /\ (pc'[t] = "zero" => t \in sawEmpty')
    /\ pc'[t] = "asleep" => snap'[t].gen = dg_state'.gen
    /\ Waker(t) => Waker(t)'
    /\ pc[t] = "clear" /\ snap[t].waiters /\ snap[t].value = 0 /\ dg_state'.value = 0 /\ dg_state'.waiters =>
         pc'[t] = "clear" /\ snap'[t].waiters /\ snap'[t].value = 0

\* Such a step preserves what is true of waits
LEMMA WaitsKept ==
    ASSUME NEW t \in Threads, WaitInv, BitCleared, KeepsWaits(t)
    PROVE  WaitInv' /\ BitCleared'
<1>1. \A u \in Threads : Registered(u)' /\ (pc'[u] = "zero" => u \in sawEmpty')
  BY DEF KeepsWaits, WaitInv, Registered, Waiting
<1>2. \A u \in Threads : Waker(u) => Waker(u)'
  BY DEF KeepsWaits, Waker
<1>3. ASSUME NEW u \in Threads, pc'[u] = "asleep", dg_state'.gen # snap'[u].gen
      PROVE  \E v \in Threads : Waker(v)'
  <2>1. pc[u] = "asleep" /\ dg_state.gen # snap[u].gen
    BY <1>3 DEF KeepsWaits
  <2>2. QED
    BY <1>2, <2>1 DEF WaitInv
<1>4. BitCleared'
  BY DEF KeepsWaits, BitCleared
<1>5. QED
  BY <1>1, <1>3, <1>4 DEF WaitInv

\* Every step preserves what is true of waits
LEMMA NextWaits ==
    ASSUME GroupTypeOK, WaitInv, BitCleared, [Next]_vars
    PROVE  WaitInv' /\ BitCleared'
<1>0. /\ dg_state \in States /\ dg_state.value \in Nat /\ dg_state.gen \in Nat /\ \A t \in Threads : snap[t] \in States
      /\ pc \in [Threads -> Labels] /\ snap \in [Threads -> States]
      /\ \A t \in Threads : snap[t].value \in Nat /\ snap[t].gen \in Nat
  BY StateFacts DEF GroupTypeOK
<1> USE DEF Ready, Goto, Calls, locals, history
<1>1. ASSUME NEW t \in Threads, Enter(t) PROVE KeepsWaits(t)
  BY <1>0, <1>1, StateFields DEF Enter, KeepsWaits, Registered, Waiting, Waker
<1>2. ASSUME NEW t \in Threads, EnterOverflows(t) \/ LeaveUnbalanced(t) PROVE KeepsWaits(t)
  BY <1>2 DEF EnterOverflows, LeaveUnbalanced, KeepsWaits, Registered, Waiting, Waker
<1>3. ASSUME NEW t \in Threads, EnterRetain(t) PROVE KeepsWaits(t)
  BY <1>0, <1>3 DEF EnterRetain, KeepsWaits, Registered, Waiting, Waker
<1>4. ASSUME NEW t \in Threads, LeaveNotLast(t) PROVE KeepsWaits(t)
  BY <1>0, <1>4, StateFields DEF LeaveNotLast, KeepsWaits, Registered, Waiting, Waker
<1>5. ASSUME NEW t \in Threads, LeaveRetries(t) PROVE KeepsWaits(t)
  BY <1>0, <1>5 DEF LeaveRetries, KeepsWaits, Registered, Waiting, Waker
<1>6. ASSUME NEW t \in Threads, NEW n \in Notifs, NotifyPush(t, n) PROVE KeepsWaits(t)
  BY <1>0, <1>6 DEF NotifyPush, KeepsWaits, Registered, Waiting, Waker
<1>7. ASSUME NEW t \in Threads, NotifyLink(t) PROVE KeepsWaits(t)
  BY <1>0, <1>7 DEF NotifyLink, KeepsWaits, Registered, Waiting, Waker
<1>8. ASSUME NEW t \in Threads, NotifyPublish(t) PROVE KeepsWaits(t)
  <2>1. CASE IsIdle(dg_state)
    BY <1>0, <1>8, <2>1 DEF NotifyPublish, KeepsWaits, Registered, Waiting, Waker, IsIdle
  <2>2. CASE ~IsIdle(dg_state)
    <3>1. /\ dg_state'.value = dg_state.value /\ dg_state'.gen = dg_state.gen
          /\ dg_state'.waiters <=> dg_state.waiters
      BY <1>0, <1>8, <2>2, NotifiedFields DEF NotifyPublish
    <3>2. pc[t] = "publish" /\ pc' = [pc EXCEPT ![t] = "idle"] /\ snap' = snap /\ sawEmpty' = sawEmpty
      BY <1>8, <2>2 DEF NotifyPublish
    <3>3. QED
      BY <1>0, <3>1, <3>2 DEF KeepsWaits, Registered, Waiting, Waker
  <2>3. QED
    BY <2>1, <2>2
<1>9. ASSUME NEW t \in Threads, WakeCapture(t) PROVE KeepsWaits(t)
  BY <1>0, <1>9 DEF WakeCapture, KeepsWaits, Registered, Waiting, Waker
<1>10. ASSUME NEW t \in Threads, WakeSubmit(t) PROVE KeepsWaits(t)
  BY <1>0, <1>10 DEF WakeSubmit, KeepsWaits, Registered, Waiting, Waker
<1>11. ASSUME NEW t \in Threads, WakeRelease(t) PROVE KeepsWaits(t)
  BY <1>0, <1>11 DEF WakeRelease, KeepsWaits, Registered, Waiting, Waker
<1>12. ASSUME NEW t \in Threads, WaitEmpty(t) \/ WaitNow(t) PROVE KeepsWaits(t)
  BY <1>0, <1>12 DEF WaitEmpty, WaitNow, KeepsWaits, Registered, Waiting, Waker
<1>13. ASSUME NEW t \in Threads, WaitRegister(t) PROVE KeepsWaits(t)
  BY <1>0, <1>13, StateFields DEF WaitRegister, KeepsWaits, Registered, Waiting, Waker
<1>14. ASSUME NEW t \in Threads, WaitOnAddress(t) \/ WaitChecks(t) \/ WaitTimesOut(t) \/ WaitInterrupted(t)
       PROVE  KeepsWaits(t)
  <2>1. Registered(t)
    BY DEF WaitInv
  <2>2. QED
    BY <1>0, <1>14, <2>1 DEF WaitOnAddress, WaitChecks, WaitTimesOut, WaitInterrupted, KeepsWaits, Registered,
                             Waiting, Waker
<1>15. ASSUME NEW t \in Threads, WaitReturns(t) PROVE KeepsWaits(t)
  BY <1>0, <1>15 DEF WaitReturns, KeepsWaits, Registered, Waiting, Waker
\* Now every thread that waits has seen the group empty, and those asleep have
\* this leave to wake them if nobody else does
<1>16. ASSUME NEW t \in Threads, LeaveLast(t) PROVE WaitInv' /\ BitCleared'
  <2>1. /\ pc[t] = "idle" /\ pc'[t] = "clear" /\ \A u \in Threads \ {t} : pc'[u] = pc[u] /\ snap'[u] = snap[u]
        /\ snap'[t] = Emptied(dg_state) /\ dg_state' = Emptied(dg_state)
        /\ sawEmpty' = sawEmpty \cup Waiting
    BY <1>0, <1>16 DEF LeaveLast
  <2>2. /\ dg_state'.gen = dg_state.gen + 1 /\ (dg_state'.waiters <=> dg_state.waiters) /\ dg_state'.value = 0
        /\ (snap'[t].waiters <=> dg_state.waiters) /\ snap'[t].value = 0
    BY <1>0, <2>1, EmptiedFields
  <2>3. \A u \in Threads : Registered(u)' /\ (pc'[u] = "zero" => u \in sawEmpty')
    BY <1>0, <2>1, <2>2 DEF WaitInv, Registered, Waiting
  <2>4. ASSUME NEW u \in Threads, pc'[u] = "asleep" PROVE \E v \in Threads : Waker(v)'
    <3>1. pc[u] = "asleep" /\ u # t /\ Registered(u)
      BY <2>1, <2>4 DEF WaitInv
    <3>2. CASE snap[u].gen = dg_state.gen
      BY <2>1, <2>2, <3>1, <3>2 DEF Registered, Waiting, Waker
    <3>3. CASE snap[u].gen # dg_state.gen
      <4>1. PICK v \in Threads : Waker(v)
        BY <3>1, <3>3 DEF WaitInv
      <4>2. v # t
        BY <2>1, <4>1 DEF Waker
      <4>3. QED
        BY <2>1, <2>2, <4>1, <4>2 DEF Waker
    <3>4. QED
      BY <3>2, <3>3
  <2>5. BitCleared'
    BY <2>1, <2>2 DEF BitCleared
  <2>6. QED
    BY <2>3, <2>4, <2>5 DEF WaitInv
\* The bit of an empty group is cleared by a leave that remembers it
<1>17. ASSUME NEW t \in Threads, LeaveClears(t) PROVE WaitInv' /\ BitCleared'
  <2>1. /\ pc[t] = "clear" /\ pc'[t] = "wake" /\ \A u \in Threads \ {t} : pc'[u] = pc[u]
        /\ snap' = snap /\ sawEmpty' = sawEmpty
    BY <1>0, <1>17 DEF LeaveClears
  <2>2. CASE Cleared(snap[t]) = snap[t]
    <3>1. dg_state' = dg_state /\ (snap[t].waiters => snap[t].value # 0)
      BY <1>0, <1>17, <2>2, ClearedFields DEF LeaveClears
    <3>2. KeepsWaits(t)
      BY <2>1, <3>1 DEF KeepsWaits, Registered, Waiting, Waker
    <3>3. QED
      BY <3>2, WaitsKept
  <2>3. CASE Cleared(snap[t]) # snap[t]
    <3>1. dg_state = snap[t] /\ dg_state' = Cleared(dg_state)
      BY <1>17, <2>3 DEF LeaveClears
    <3>2. /\ dg_state'.value = dg_state.value /\ dg_state'.gen = dg_state.gen
          /\ dg_state'.waiters <=> (dg_state.waiters /\ dg_state.value # 0)
      BY <1>0, <3>1, ClearedFields
    <3>3. \A u \in Threads : Registered(u)' /\ (pc'[u] = "zero" => u \in sawEmpty')
      BY <1>0, <2>1, <3>2 DEF WaitInv, Registered, Waiting
    <3>4. ASSUME NEW u \in Threads, Waker(u) PROVE \E v \in Threads : Waker(v)'
      BY <2>1, <3>1, <3>4 DEF Waker
    <3>5. BitCleared'
      BY <3>2 DEF BitCleared
    <3>6. QED
      BY <2>1, <3>2, <3>3, <3>4, <3>5 DEF WaitInv
  <2>4. QED
    BY <2>2, <2>3
\* Nobody stays asleep after a wake-up; without one, somebody else will wake
<1>18. ASSUME NEW t \in Threads, WakeAddress(t) PROVE WaitInv' /\ BitCleared'
  <2>1. /\ pc[t] \in {"wake", "wakeAddress"} /\ pc'[t] = "release"
        /\ dg_state' = dg_state /\ snap' = snap /\ sawEmpty' = sawEmpty
        /\ \A u \in Threads \ {t} : pc'[u] = IF snap[t].waiters /\ pc[u] = "asleep" THEN "check" ELSE pc[u]
    BY <1>0, <1>18 DEF WakeAddress
  <2>2. \A u \in Threads : Registered(u)' /\ (pc'[u] = "zero" => u \in sawEmpty')
    BY <2>1 DEF WaitInv, Registered, Waiting
  <2>3. ASSUME NEW u \in Threads, pc'[u] = "asleep", dg_state'.gen # snap'[u].gen
        PROVE  \E v \in Threads : Waker(v)'
    <3>1. pc[u] = "asleep" /\ ~snap[t].waiters
      BY <2>1, <2>3
    <3>2. PICK v \in Threads : Waker(v)
      BY <2>1, <2>3, <3>1 DEF WaitInv
    <3>3. v # t /\ pc'[v] = pc[v]
      BY <2>1, <3>1, <3>2 DEF Waker
    <3>4. QED
      BY <2>1, <3>2, <3>3 DEF Waker
  <2>4. BitCleared'
    BY <2>1 DEF BitCleared
  <2>5. QED
    BY <2>2, <2>3, <2>4 DEF WaitInv
<1>19. CASE ClientRelease \/ UNCHANGED vars
  <2>1. dg_state' = dg_state /\ pc' = pc /\ snap' = snap /\ sawEmpty' = sawEmpty
    BY <1>19 DEF ClientRelease, vars
  <2>2. QED
    BY <2>1 DEF WaitInv, BitCleared, Registered, Waiting, Waker
<1>20. QED
  BY <1>1, <1>2, <1>3, <1>4, <1>5, <1>6, <1>7, <1>8, <1>9, <1>10, <1>11, <1>12, <1>13, <1>14, <1>15,
     <1>16, <1>17, <1>18, <1>19, WaitsKept DEF Next, Continue

-----------------------------------------------------------------------------
(* Notifications *)

\* A step that leaves the queue of notifications in the same hands
KeepsQueue ==
    /\ dg_notify' = <<>> <=> dg_notify = <<>>
    /\ dg_state'.notifs <=> dg_state.notifs
    /\ \A u \in Threads : Publisher(u)' <=> Publisher(u)

\* Every step preserves what is true of the queue
LEMMA NextQueue ==
    ASSUME GroupTypeOK, QueueInv, [Next]_vars
    PROVE  QueueInv'
<1>0. /\ dg_state \in States /\ \A t \in Threads : snap[t] \in States
      /\ pc \in [Threads -> Labels] /\ snap \in [Threads -> States] /\ was_empty \in [Threads -> BOOLEAN]
      /\ dg_notify \in Seq(Notifs)
  BY DEF GroupTypeOK
<1>K. KeepsQueue => QueueInv'
  BY DEF KeepsQueue, QueueInv
<1> USE DEF Ready, Goto, Calls, locals, history
<1>1. ASSUME NEW t \in Threads, Enter(t) PROVE KeepsQueue
  BY <1>0, <1>1, StateFields DEF Enter, KeepsQueue, Publisher
<1>2. ASSUME NEW t \in Threads, EnterOverflows(t) \/ LeaveUnbalanced(t) PROVE KeepsQueue
  BY <1>2 DEF EnterOverflows, LeaveUnbalanced, KeepsQueue, Publisher
<1>3. ASSUME NEW t \in Threads, EnterRetain(t) PROVE KeepsQueue
  BY <1>0, <1>3 DEF EnterRetain, KeepsQueue, Publisher
<1>4. ASSUME NEW t \in Threads, LeaveNotLast(t) PROVE KeepsQueue
  BY <1>0, <1>4, StateFields DEF LeaveNotLast, KeepsQueue, Publisher
<1>5. ASSUME NEW t \in Threads, LeaveRetries(t) PROVE KeepsQueue
  BY <1>0, <1>5 DEF LeaveRetries, KeepsQueue, Publisher
<1>6. ASSUME NEW t \in Threads, LeaveLast(t) PROVE KeepsQueue
  <2>1. dg_state'.notifs <=> dg_state.notifs
    BY <1>0, <1>6, EmptiedFields DEF LeaveLast
  <2>2. QED
    BY <1>0, <1>6, <2>1 DEF LeaveLast, KeepsQueue, Publisher
<1>7. ASSUME NEW t \in Threads, NotifyLink(t) PROVE KeepsQueue
  BY <1>0, <1>7 DEF NotifyLink, KeepsQueue, Publisher
<1>8. ASSUME NEW t \in Threads, WakeSubmit(t) PROVE KeepsQueue
  BY <1>0, <1>8 DEF WakeSubmit, KeepsQueue, Publisher
<1>9. ASSUME NEW t \in Threads, WakeRelease(t) PROVE KeepsQueue
  BY <1>0, <1>9 DEF WakeRelease, KeepsQueue, Publisher
<1>10. ASSUME NEW t \in Threads, WaitEmpty(t) \/ WaitNow(t) PROVE KeepsQueue
  BY <1>0, <1>10 DEF WaitEmpty, WaitNow, KeepsQueue, Publisher
<1>11. ASSUME NEW t \in Threads, WaitRegister(t) PROVE KeepsQueue
  BY <1>0, <1>11, StateFields DEF WaitRegister, KeepsQueue, Publisher
<1>12. ASSUME NEW t \in Threads, WaitOnAddress(t) \/ WaitChecks(t) \/ WaitTimesOut(t) \/ WaitInterrupted(t)
       PROVE  KeepsQueue
  BY <1>0, <1>12 DEF WaitOnAddress, WaitChecks, WaitTimesOut, WaitInterrupted, KeepsQueue, Publisher
<1>13. ASSUME NEW t \in Threads, WaitReturns(t) PROVE KeepsQueue
  BY <1>0, <1>13 DEF WaitReturns, KeepsQueue, Publisher
<1>14. ASSUME NEW t \in Threads, WakeAddress(t) PROVE KeepsQueue
  BY <1>0, <1>14 DEF WakeAddress, KeepsQueue, Publisher
<1>15. CASE ClientRelease \/ UNCHANGED vars
  <2>1. KeepsQueue
    BY <1>15 DEF ClientRelease, vars, KeepsQueue, Publisher
  <2>2. QED
    BY <1>K, <2>1
\* The first notification of the queue makes its thread responsible
<1>16. ASSUME NEW t \in Threads, NEW n \in Notifs, NotifyPush(t, n) PROVE QueueInv'
  <2>1. /\ pc[t] = "idle" /\ pc'[t] = "link" /\ (was_empty'[t] <=> dg_notify = <<>>)
        /\ \A u \in Threads \ {t} : pc'[u] = pc[u] /\ was_empty'[u] = was_empty[u]
        /\ snap' = snap /\ dg_state' = dg_state
    BY <1>0, <1>16 DEF NotifyPush
  <2>2. dg_notify' # <<>>
    BY <1>0, <1>16 DEF NotifyPush
  <2>3. (Publisher(t)' <=> dg_notify = <<>>) /\ ~Publisher(t)
        /\ \A u \in Threads \ {t} : Publisher(u)' <=> Publisher(u)
    BY <2>1 DEF Publisher
  <2>4. QED
    BY <2>1, <2>2, <2>3 DEF QueueInv
\* It hands over to the bit, or captures the queue itself
<1>17. ASSUME NEW t \in Threads, NotifyPublish(t) PROVE QueueInv'
  <2>1. /\ pc[t] = "publish" /\ dg_notify' = dg_notify /\ was_empty' = was_empty
        /\ \A u \in Threads \ {t} : pc'[u] = pc[u] /\ snap'[u] = snap[u]
    BY <1>0, <1>17 DEF NotifyPublish
  <2>2. Publisher(t) /\ \A u \in Threads \ {t} : Publisher(u)' <=> Publisher(u)
    BY <2>1 DEF Publisher
  <2>3. CASE IsIdle(dg_state)
    <3>1. snap'[t].notifs /\ pc'[t] = "wake" /\ dg_state' = dg_state
      BY <1>0, <1>17, <2>3, NotifiedFields DEF NotifyPublish
    <3>2. Publisher(t)'
      BY <3>1 DEF Publisher
    <3>3. QED
      BY <1>K, <2>1, <2>2, <3>1, <3>2 DEF KeepsQueue
  <2>4. CASE ~IsIdle(dg_state)
    <3>1. dg_state'.notifs /\ pc'[t] = "idle"
      BY <1>0, <1>17, <2>4, NotifiedFields DEF NotifyPublish
    <3>2. ~Publisher(t)'
      BY <3>1 DEF Publisher
    <3>3. QED
      BY <2>1, <2>2, <3>1, <3>2 DEF QueueInv
  <2>5. QED
    BY <2>3, <2>4
\* A leave takes over from the bit that it clears
<1>18. ASSUME NEW t \in Threads, LeaveClears(t) PROVE QueueInv'
  <2>1. /\ pc[t] = "clear" /\ pc'[t] = "wake" /\ \A u \in Threads \ {t} : pc'[u] = pc[u]
        /\ snap' = snap /\ dg_notify' = dg_notify /\ was_empty' = was_empty
    BY <1>0, <1>18 DEF LeaveClears
  <2>2. (Publisher(t)' <=> snap[t].notifs) /\ ~Publisher(t)
        /\ \A u \in Threads \ {t} : Publisher(u)' <=> Publisher(u)
    BY <2>1 DEF Publisher
  <2>3. CASE Cleared(snap[t]) = snap[t]
    <3>1. dg_state' = dg_state /\ ~snap[t].notifs
      BY <1>0, <1>18, <2>3, ClearedFields DEF LeaveClears
    <3>2. QED
      BY <1>K, <2>1, <2>2, <3>1 DEF KeepsQueue
  <2>4. CASE Cleared(snap[t]) # snap[t]
    <3>1. dg_state = snap[t] /\ ~dg_state'.notifs
      BY <1>0, <1>18, <2>4, ClearedFields DEF LeaveClears
    <3>2. QED
      BY <2>1, <2>2, <3>1 DEF QueueInv
  <2>5. QED
    BY <2>3, <2>4
\* The queue is captured by the one responsible
<1>19. ASSUME NEW t \in Threads, WakeCapture(t) PROVE QueueInv'
  <2>1. /\ pc[t] = "wake" /\ snap[t].notifs /\ pc'[t] = "submit" /\ \A u \in Threads \ {t} : pc'[u] = pc[u]
        /\ snap' = snap /\ dg_notify' = <<>> /\ was_empty' = was_empty /\ dg_state' = dg_state
    BY <1>0, <1>19 DEF WakeCapture
  <2>2. Publisher(t) /\ ~Publisher(t)' /\ \A u \in Threads \ {t} : Publisher(u)' <=> Publisher(u)
    BY <2>1 DEF Publisher
  <2>3. QED
    BY <2>1, <2>2 DEF QueueInv
<1>20. QED
  BY <1>K, <1>1, <1>2, <1>3, <1>4, <1>5, <1>6, <1>7, <1>8, <1>9, <1>10, <1>11, <1>12, <1>13, <1>14, <1>15,
     <1>16, <1>17, <1>18, <1>19 DEF Next, Continue

-----------------------------------------------------------------------------
(* References *)

\* The slots, and what is in them before and after a step
LEMMA HeldFacts ==
    /\ \A r \in Slots : \/ r \in {<<"client", None>>, <<"group", None>>, <<"bit", None>>}
                        \/ \E t \in Threads : r = <<"leave", t>> \/ r = <<"notify", t>>
    /\ {<<"client", None>>, <<"group", None>>, <<"bit", None>>} \subseteq Slots
    /\ \A t \in Threads : <<"leave", t>> \in Slots /\ <<"notify", t>> \in Slots
    /\ (Held(<<"client", None>>) <=> client) /\ (Held(<<"client", None>>)' <=> client')
    /\ (Held(<<"group", None>>) <=> GroupRef) /\ (Held(<<"group", None>>)' <=> GroupRef')
    /\ (Held(<<"bit", None>>) <=> dg_state.notifs) /\ (Held(<<"bit", None>>)' <=> dg_state'.notifs)
    /\ \A t \in Threads : (Held(<<"leave", t>>) <=> needs_release[t]) /\ (Held(<<"leave", t>>)' <=> needs_release'[t])
    /\ \A t \in Threads : (Held(<<"notify", t>>) <=> NotifyRef(t)) /\ (Held(<<"notify", t>>)' <=> NotifyRef(t)')
<1>1. \A r \in Slots : \/ r \in {<<"client", None>>, <<"group", None>>, <<"bit", None>>}
                       \/ \E t \in Threads : r = <<"leave", t>> \/ r = <<"notify", t>>
  BY DEF Slots
<1>2. /\ {<<"client", None>>, <<"group", None>>, <<"bit", None>>} \subseteq Slots
      /\ \A t \in Threads : <<"leave", t>> \in Slots /\ <<"notify", t>> \in Slots
  BY DEF Slots
<1>3. /\ (Held(<<"client", None>>) <=> client) /\ (Held(<<"client", None>>)' <=> client')
      /\ (Held(<<"group", None>>) <=> GroupRef) /\ (Held(<<"group", None>>)' <=> GroupRef')
      /\ (Held(<<"bit", None>>) <=> dg_state.notifs) /\ (Held(<<"bit", None>>)' <=> dg_state'.notifs)
  BY DEF Held
<1>4. \A t \in Threads : (Held(<<"leave", t>>) <=> needs_release[t]) /\ (Held(<<"leave", t>>)' <=> needs_release'[t])
  BY DEF Held
<1>5. \A t \in Threads : (Held(<<"notify", t>>) <=> NotifyRef(t)) /\ (Held(<<"notify", t>>)' <=> NotifyRef(t)')
  BY DEF Held
<1>6. QED
  BY <1>1, <1>2, <1>3, <1>4, <1>5

\* There are finitely many references
LEMMA CountedFinite == IsFiniteSet(Counted) /\ Cardinality(Counted) \in Nat
                       /\ IsFiniteSet(Counted') /\ Cardinality(Counted') \in Nat
<1>1. IsFiniteSet({"client", "group", "bit"}) /\ IsFiniteSet({"leave", "notify"}) /\ IsFiniteSet({None})
  <2>1. IsFiniteSet({"client"}) /\ IsFiniteSet({"leave"}) /\ IsFiniteSet({None})
    BY FS_Singleton
  <2>2. IsFiniteSet({"client"} \cup {"group"}) /\ IsFiniteSet({"leave"} \cup {"notify"})
    BY <2>1, FS_AddElement
  <2>3. IsFiniteSet(({"client"} \cup {"group"}) \cup {"bit"})
    BY <2>2, FS_AddElement
  <2>4. /\ ({"client"} \cup {"group"}) \cup {"bit"} = {"client", "group", "bit"}
        /\ {"leave"} \cup {"notify"} = {"leave", "notify"}
    OBVIOUS
  <2>5. QED
    BY <2>1, <2>2, <2>3, <2>4
<1>2. IsFiniteSet({"client", "group", "bit"} \X {None}) /\ IsFiniteSet({"leave", "notify"} \X Threads)
  BY <1>1, FS_Product, GroupAssumption
<1>3. IsFiniteSet(Slots)
  BY <1>2, FS_Union DEF Slots
<1>4. IsFiniteSet(Counted) /\ IsFiniteSet(Counted')
  BY <1>3, FS_Subset DEF Counted
<1>5. QED
  BY <1>4, FS_CardinalityType

\* The references do not change,
LEMMA SameCount ==
    ASSUME \A r \in Slots : Held(r)' <=> Held(r)
    PROVE  Cardinality(Counted') = Cardinality(Counted)
<1>1. Counted' = Counted
  BY DEF Counted, Slots
<1>2. QED
  BY <1>1

\* one is added,
LEMMA OneMore ==
    ASSUME NEW x \in Slots, ~Held(x), Held(x)', \A r \in Slots : r # x => (Held(r)' <=> Held(r))
    PROVE  Cardinality(Counted') = Cardinality(Counted) + 1
<1>1. Counted' = {r \in Slots : Held(r)'}
  BY DEF Counted, Slots
<1>2. Counted' = Counted \cup {x} /\ x \notin Counted
  BY <1>1 DEF Counted
<1>3. Cardinality(Counted \cup {x}) = Cardinality(Counted) + 1
  BY <1>2, CountedFinite, FS_AddElement
<1>4. QED
  BY <1>2, <1>3

\* one is given back,
LEMMA OneLess ==
    ASSUME NEW x \in Slots, Held(x), ~Held(x)', \A r \in Slots : r # x => (Held(r)' <=> Held(r))
    PROVE  Cardinality(Counted') = Cardinality(Counted) - 1
<1>1. Counted' = {r \in Slots : Held(r)'}
  BY DEF Counted, Slots
<1>2. Counted' = Counted \ {x} /\ x \in Counted
  BY <1>1 DEF Counted
<1>3. Cardinality(Counted \ {x}) = Cardinality(Counted) - 1
  BY <1>2, CountedFinite, FS_RemoveElement
<1>4. QED
  BY <1>2, <1>3

\* one is handed over,
LEMMA OneMoves ==
    ASSUME NEW x \in Slots, NEW y \in Slots, x # y, Held(x), ~Held(x)', ~Held(y), Held(y)',
           \A r \in Slots : r # x /\ r # y => (Held(r)' <=> Held(r))
    PROVE  Cardinality(Counted') = Cardinality(Counted)
<1>1. Counted' = {r \in Slots : Held(r)'}
  BY DEF Counted, Slots
<1>2. Counted' = (Counted \ {x}) \cup {y} /\ x \in Counted /\ y \notin Counted \ {x}
  BY <1>1 DEF Counted
<1>3. IsFiniteSet(Counted \ {x}) /\ Cardinality(Counted \ {x}) = Cardinality(Counted) - 1
  BY <1>2, CountedFinite, FS_RemoveElement
<1>4. Cardinality((Counted \ {x}) \cup {y}) = Cardinality(Counted \ {x}) + 1
  BY <1>2, <1>3, FS_AddElement
<1>5. QED
  BY <1>2, <1>3, <1>4, CountedFinite

\* or two are given back
LEMMA TwoLess ==
    ASSUME NEW x \in Slots, NEW y \in Slots, x # y, Held(x), ~Held(x)', Held(y), ~Held(y)',
           \A r \in Slots : r # x /\ r # y => (Held(r)' <=> Held(r))
    PROVE  Cardinality(Counted') = Cardinality(Counted) - 2
<1>1. Counted' = {r \in Slots : Held(r)'}
  BY DEF Counted, Slots
<1>2. Counted' = (Counted \ {x}) \ {y} /\ x \in Counted /\ y \in Counted \ {x}
  BY <1>1 DEF Counted
<1>3. IsFiniteSet(Counted \ {x}) /\ Cardinality(Counted \ {x}) = Cardinality(Counted) - 1
  BY <1>2, CountedFinite, FS_RemoveElement
<1>4. Cardinality((Counted \ {x}) \ {y}) = Cardinality(Counted \ {x}) - 1
  BY <1>2, <1>3, FS_RemoveElement
<1>5. QED
  BY <1>2, <1>3, <1>4, CountedFinite

NoReference ==
    /\ GroupTypeOK /\ BitCleared /\ QueueInv /\ \A t \in Threads : CallInv(t)
    /\ Cardinality(Counted) = 0
Unused ==
    /\ IsIdle(dg_state) /\ dg_notify = <<>> /\ ~client
    /\ \A t \in Threads : pc[t] = "idle"

\* With the last reference gone nobody is inside the group
LEMMA NothingHeld == NoReference => Unused
<1> SUFFICES ASSUME NoReference PROVE Unused
  OBVIOUS
<1> USE DEF NoReference
<1>1. Counted = {}
  BY CountedFinite, FS_EmptySet
<1>2. \A r \in Slots : ~Held(r)
  BY <1>1 DEF Counted
<1>3. ~client /\ ~GroupRef /\ ~dg_state.notifs /\ \A t \in Threads : ~needs_release[t] /\ ~NotifyRef(t)
  BY <1>2, HeldFacts
<1>4. \A t \in Threads : pc[t] = "idle"
  BY <1>3 DEF CallInv, OnClientReference
<1>5. dg_state.value = 0
  <2>1. dg_state.value \in Nat
    BY StateFacts DEF GroupTypeOK
  <2>2. ~(dg_state.value > 0)
    BY <1>3, <1>4 DEF GroupRef
  <2>3. QED
    BY <2>1, <2>2
<1>6. ~dg_state.waiters
  BY <1>4, <1>5 DEF BitCleared
<1>7. dg_notify = <<>>
  BY <1>3, <1>4 DEF QueueInv, Publisher
<1>8. QED
  BY <1>3, <1>4, <1>5, <1>6, <1>7 DEF IsIdle, Unused

\* The same after a step
LEMMA NothingHeldNext == NoReference' => Unused'
BY NothingHeld, PTL

\* A step of t after which the calls of the other threads are where they were
KeepsCalls(t) ==
    /\ \A u \in Threads \ {t} :
         /\ needs_release'[u] = needs_release[u] /\ snap'[u] = snap[u]
         /\ pc'[u] = pc[u] \/ (pc[u] = "asleep" /\ pc'[u] = "check")
         /\ pc[u] = "retain" => dg_state'.value > 0 /\ pc'[t] # "retain"
    /\ client => client'
    /\ CallInv(t)'

\* The calls stay as they should be
LEMMA CallsKept ==
    ASSUME NEW t \in Threads, \A u \in Threads : CallInv(u), KeepsCalls(t)
    PROVE  \A u \in Threads : CallInv(u)'
<1> SUFFICES ASSUME NEW u \in Threads, u # t PROVE CallInv(u)'
  BY DEF KeepsCalls
<1>1. OnClientReference(u)' => client'
  BY DEF KeepsCalls, CallInv, OnClientReference
<1>2. /\ needs_release'[u] => pc'[u] \in Waking \cup {"clear"}
      /\ pc'[u] = "clear" => needs_release'[u]
  BY DEF KeepsCalls, CallInv, Waking
<1>3. pc'[u] = "retain" => dg_state'.value > 0 /\ \A v \in Threads : pc'[v] = "retain" => v = u
  BY DEF KeepsCalls, CallInv
<1>4. pc'[u] \in Waking => Releases(u)' > 0
  BY DEF KeepsCalls, CallInv, Waking, Releases
<1>5. QED
  BY <1>1, <1>2, <1>3, <1>4 DEF CallInv

\* No reference changes hands
KeepsCount ==
    /\ refs' = refs /\ (client' <=> client) /\ (GroupRef' <=> GroupRef)
    /\ dg_state'.notifs <=> dg_state.notifs
    /\ \A u \in Threads : (needs_release'[u] <=> needs_release[u]) /\ (NotifyRef(u)' <=> NotifyRef(u))

\* A step without references
LEMMA RefsKept ==
    ASSUME NEW t \in Threads, RefInv, KeepsCalls(t), KeepsCount, status' \in {status, "crashed"}
    PROVE  RefInv'
<1>1. \A u \in Threads : CallInv(u)'
  BY CallsKept DEF RefInv
<1>2. Cardinality(Counted') = Cardinality(Counted)
  BY HeldFacts, SameCount DEF KeepsCount
<1>3. QED
  BY <1>1, <1>2 DEF RefInv, KeepsCount

\* A step with references
LEMMA RefsMoved ==
    ASSUME NEW t \in Threads, RefInv, KeepsCalls(t), refs' = Cardinality(Counted'), status = "live",
           status' = status
    PROVE  RefInv'
BY CallsKept DEF RefInv

\* Every step preserves the references
LEMMA NextRefs ==
    ASSUME GroupTypeOK, GroupTypeOK', BitCleared', QueueInv, QueueInv', RefInv, [Next]_vars
    PROVE  RefInv'
<1>0. /\ dg_state \in States /\ \A t \in Threads : snap[t] \in States /\ CallInv(t)
      /\ dg_state.value \in Nat
      /\ pc \in [Threads -> Labels] /\ snap \in [Threads -> States] /\ was_empty \in [Threads -> BOOLEAN]
      /\ needs_release \in [Threads -> BOOLEAN]
      /\ refs = Cardinality(Counted) /\ refs \in Nat
  BY StateFacts, CountedFinite DEF GroupTypeOK, RefInv
<1> USE DEF Ready, Goto, Calls, locals, history
<1>1. ASSUME NEW t \in Threads, Enter(t) PROVE RefInv'
  <2>1. /\ dg_state'.value = dg_state.value + 1 /\ (dg_state'.notifs <=> dg_state.notifs)
        /\ pc[t] = "idle" /\ pc'[t] = (IF dg_state.value = 0 THEN "retain" ELSE "idle")
        /\ \A u \in Threads \ {t} : pc'[u] = pc[u]
        /\ client /\ client' = client /\ refs' = refs /\ status' = status
        /\ needs_release' = needs_release /\ snap' = snap
    BY <1>0, <1>1, StateFields DEF Enter
  <2>2. \A u \in Threads : pc[u] = "retain" => dg_state.value > 0
    BY <1>0 DEF CallInv
  <2>3. ~needs_release[t] /\ CallInv(t)'
    BY <1>0, <2>1, <2>2 DEF CallInv, OnClientReference, Waking
  <2>4. KeepsCalls(t)
    BY <1>0, <2>1, <2>2, <2>3 DEF KeepsCalls
  <2>5. GroupRef' <=> GroupRef
    BY <1>0, <2>1, <2>2 DEF GroupRef
  <2>6. \A u \in Threads : NotifyRef(u)' <=> NotifyRef(u)
    BY <2>1 DEF NotifyRef, Waking
  <2>7. QED
    BY <2>1, <2>4, <2>5, <2>6, RefsKept DEF KeepsCount
<1>2. ASSUME NEW t \in Threads, EnterOverflows(t) \/ LeaveUnbalanced(t) PROVE RefInv'
  <2>1. /\ status' = "crashed" /\ refs' = refs /\ client' = client /\ dg_state' = dg_state /\ pc' = pc
        /\ needs_release' = needs_release /\ snap' = snap /\ CallInv(t)
    BY <1>0, <1>2 DEF EnterOverflows, LeaveUnbalanced
  <2>2. CallInv(t)'
    BY <2>1 DEF CallInv, OnClientReference, Releases
  <2>3. KeepsCalls(t) /\ KeepsCount
    BY <1>0, <2>1, <2>2 DEF KeepsCalls, KeepsCount, GroupRef, NotifyRef, CallInv
  <2>4. QED
    BY <2>1, <2>3, RefsKept
\* The reference that an enter owed
<1>3. ASSUME NEW t \in Threads, EnterRetain(t) PROVE RefInv'
  <2>1. /\ dg_state' = dg_state /\ pc[t] = "retain" /\ pc'[t] = "idle"
        /\ \A u \in Threads \ {t} : pc'[u] = pc[u]
        /\ client' = client /\ refs' = refs + 1 /\ status' = status /\ status = "live"
        /\ needs_release' = needs_release /\ snap' = snap
    BY <1>0, <1>3 DEF EnterRetain
  <2>2. dg_state.value > 0 /\ ~needs_release[t] /\ client /\ \A u \in Threads \ {t} : pc[u] # "retain"
    BY <1>0, <2>1 DEF CallInv, OnClientReference, Waking
  <2>3. KeepsCalls(t)
    BY <1>0, <2>1, <2>2 DEF KeepsCalls, CallInv, OnClientReference, Waking
  <2>4. GroupRef' /\ ~GroupRef /\ \A u \in Threads : NotifyRef(u)' <=> NotifyRef(u)
    BY <2>1, <2>2 DEF GroupRef, NotifyRef, Waking
  <2>5. Cardinality(Counted') = Cardinality(Counted) + 1
    <3>1. \A r \in Slots : r # <<"group", None>> => (Held(r)' <=> Held(r))
      BY <2>1, <2>4, HeldFacts
    <3>2. QED
      BY <2>4, <3>1, HeldFacts, OneMore
  <2>6. QED
    BY <1>0, <2>1, <2>3, <2>5, RefsMoved
<1>4. ASSUME NEW t \in Threads, LeaveNotLast(t) PROVE RefInv'
  <2>1. /\ dg_state'.value = dg_state.value - 1 /\ dg_state.value > 1 /\ (dg_state'.notifs <=> dg_state.notifs)
        /\ pc[t] = "idle" /\ pc' = pc /\ client' = client /\ refs' = refs /\ status' = status
        /\ needs_release' = needs_release /\ snap' = snap
    BY <1>0, <1>4, StateFields DEF LeaveNotLast
  <2>2. CallInv(t)'
    BY <1>0, <2>1 DEF CallInv, OnClientReference, Waking
  <2>3. KeepsCalls(t)
    BY <1>0, <2>1, <2>2 DEF KeepsCalls
  <2>4. KeepsCount
    BY <1>0, <2>1 DEF KeepsCount, GroupRef, NotifyRef
  <2>5. QED
    BY <2>1, <2>3, <2>4, RefsKept
\* The last leave takes over the reference of the enters
<1>5. ASSUME NEW t \in Threads, LeaveLast(t) PROVE RefInv'
  <2>1. /\ dg_state'.value = 0 /\ (dg_state'.notifs <=> dg_state.notifs) /\ dg_state.value = 1
        /\ pc[t] = "idle" /\ pc'[t] = "clear" /\ \A u \in Threads \ {t} : pc'[u] = pc[u] /\ snap'[u] = snap[u]
        /\ client' = client /\ refs' = refs /\ status' = status /\ status = "live"
        /\ needs_release'[t] /\ \A u \in Threads \ {t} : needs_release'[u] = needs_release[u]
    BY <1>0, <1>5, EmptiedFields DEF LeaveLast
  <2>2. \A u \in Threads : pc[u] # "retain"
    <3>1. IsFiniteSet({u \in Threads : pc[u] = "retain"})
      BY GroupAssumption, FS_Subset
    <3>2. Cardinality({u \in Threads : pc[u] = "retain"}) \in Nat
      BY <3>1, FS_CardinalityType
    <3>3. Cardinality({u \in Threads : pc[u] = "retain"}) = 0
      BY <1>5, <2>1, <3>2 DEF LeaveLast, Returned
    <3>4. {u \in Threads : pc[u] = "retain"} = {}
      BY <3>1, <3>3, FS_EmptySet
    <3>5. QED
      BY <3>4
  <2>3. ~needs_release[t]
    BY <1>0, <2>1 DEF CallInv, Waking
  <2>4. KeepsCalls(t)
    BY <1>0, <2>1, <2>2 DEF KeepsCalls, CallInv, OnClientReference, Waking
  <2>5. GroupRef /\ ~GroupRef' /\ \A u \in Threads : NotifyRef(u)' <=> NotifyRef(u)
    BY <2>1, <2>2 DEF GroupRef, NotifyRef, Waking
  <2>6. Cardinality(Counted') = Cardinality(Counted)
    <3>1. \A r \in Slots : r # <<"group", None>> /\ r # <<"leave", t>> => (Held(r)' <=> Held(r))
      BY <2>1, <2>5, HeldFacts
    <3>2. <<"group", None>> # <<"leave", t>>
      OBVIOUS
    <3>3. QED
      BY <2>1, <2>3, <2>5, <3>1, <3>2, HeldFacts, OneMoves
  <2>7. QED
    BY <1>0, <2>1, <2>4, <2>6, RefsMoved
\* The reference of the bit goes to the leave that clears it
<1>6. ASSUME NEW t \in Threads, LeaveClears(t) PROVE RefInv'
  <2>1. /\ pc[t] = "clear" /\ pc'[t] = "wake" /\ \A u \in Threads \ {t} : pc'[u] = pc[u]
        /\ snap' = snap /\ client' = client /\ refs' = refs /\ status' = status /\ status = "live"
        /\ needs_release' = needs_release /\ dg_state'.value = dg_state.value
    BY <1>0, <1>6, ClearedFields DEF LeaveClears
  <2>2. needs_release[t]
    BY <1>0, <2>1 DEF CallInv
  <2>3. KeepsCalls(t)
    BY <1>0, <2>1, <2>2 DEF KeepsCalls, CallInv, OnClientReference, Waking, Releases
  <2>4. GroupRef' <=> GroupRef
    BY <2>1 DEF GroupRef
  <2>5. ~NotifyRef(t) /\ (NotifyRef(t)' <=> snap[t].notifs)
        /\ \A u \in Threads \ {t} : NotifyRef(u)' <=> NotifyRef(u)
    BY <2>1 DEF NotifyRef, Waking
  <2>6. CASE Cleared(snap[t]) = snap[t] \/ ~snap[t].notifs
    <3>1. ~snap[t].notifs /\ (dg_state'.notifs <=> dg_state.notifs)
      BY <1>0, <1>6, <2>6, ClearedFields DEF LeaveClears
    <3>2. QED
      BY <2>1, <2>3, <2>4, <2>5, <3>1, RefsKept DEF KeepsCount
  <2>7. CASE Cleared(snap[t]) # snap[t] /\ snap[t].notifs
    <3>1. dg_state.notifs /\ ~dg_state'.notifs
      BY <1>0, <1>6, <2>7, ClearedFields DEF LeaveClears
    <3>2. Cardinality(Counted') = Cardinality(Counted)
      <4>1. \A r \in Slots : r # <<"bit", None>> /\ r # <<"notify", t>> => (Held(r)' <=> Held(r))
        BY <2>1, <2>4, <2>5, HeldFacts
      <4>2. <<"bit", None>> # <<"notify", t>>
        OBVIOUS
      <4>3. QED
        BY <2>5, <2>7, <3>1, <4>1, <4>2, HeldFacts, OneMoves
    <3>3. QED
      BY <1>0, <2>1, <2>3, <3>2, RefsMoved
  <2>8. QED
    BY <2>6, <2>7
<1>7. ASSUME NEW t \in Threads, LeaveRetries(t) PROVE RefInv'
  <2>1. /\ pc[t] = "clear" /\ pc' = pc /\ \A u \in Threads \ {t} : snap'[u] = snap[u]
        /\ client' = client /\ refs' = refs /\ status' = status /\ dg_state' = dg_state
        /\ needs_release' = needs_release
    BY <1>0, <1>7 DEF LeaveRetries
  <2>2. KeepsCalls(t)
    BY <1>0, <2>1 DEF KeepsCalls, CallInv, OnClientReference, Waking
  <2>3. KeepsCount
    BY <2>1 DEF KeepsCount, GroupRef, NotifyRef, Waking
  <2>4. QED
    BY <2>1, <2>2, <2>3, RefsKept
<1>8. ASSUME NEW t \in Threads, NEW n \in Notifs, NotifyPush(t, n) PROVE RefInv'
  <2>1. /\ pc[t] = "idle" /\ pc'[t] = "link" /\ \A u \in Threads \ {t} : pc'[u] = pc[u]
        /\ snap' = snap /\ client /\ client' = client /\ refs' = refs /\ status' = status
        /\ dg_state' = dg_state /\ needs_release' = needs_release
    BY <1>0, <1>8 DEF NotifyPush
  <2>2. KeepsCalls(t)
    BY <1>0, <2>1 DEF KeepsCalls, CallInv, OnClientReference, Waking
  <2>3. KeepsCount
    BY <2>1 DEF KeepsCount, GroupRef, NotifyRef, Waking
  <2>4. QED
    BY <2>1, <2>2, <2>3, RefsKept
\* The first notification of the queue takes a reference
<1>9. ASSUME NEW t \in Threads, NotifyLink(t) PROVE RefInv'
  <2>1. /\ pc[t] = "link" /\ pc'[t] = (IF was_empty[t] THEN "publish" ELSE "idle")
        /\ \A u \in Threads \ {t} : pc'[u] = pc[u]
        /\ snap' = snap /\ client' = client /\ refs' = (IF was_empty[t] THEN refs + 1 ELSE refs)
        /\ status' = status /\ status = "live" /\ dg_state' = dg_state /\ needs_release' = needs_release
    BY <1>0, <1>9 DEF NotifyLink
  <2>2. client /\ ~needs_release[t]
    BY <1>0, <2>1 DEF CallInv, OnClientReference, Waking
  <2>3. KeepsCalls(t)
    BY <1>0, <2>1, <2>2 DEF KeepsCalls, CallInv, OnClientReference, Waking
  <2>4. (GroupRef' <=> GroupRef) /\ ~NotifyRef(t) /\ (NotifyRef(t)' <=> was_empty[t])
        /\ \A u \in Threads \ {t} : NotifyRef(u)' <=> NotifyRef(u)
    BY <2>1 DEF GroupRef, NotifyRef, Waking
  <2>5. CASE ~was_empty[t]
    BY <2>1, <2>3, <2>4, <2>5, RefsKept DEF KeepsCount
  <2>6. CASE was_empty[t]
    <3>1. \A r \in Slots : r # <<"notify", t>> => (Held(r)' <=> Held(r))
      BY <2>1, <2>4, HeldFacts
    <3>2. Cardinality(Counted') = Cardinality(Counted) + 1
      BY <2>4, <2>6, <3>1, HeldFacts, OneMore
    <3>3. QED
      BY <1>0, <2>1, <2>3, <2>6, <3>2, RefsMoved
  <2>7. QED
    BY <2>5, <2>6
\* and leaves it to the bit, which was not set, or keeps it
<1>10. ASSUME NEW t \in Threads, NotifyPublish(t) PROVE RefInv'
  <2>1. /\ pc[t] = "publish" /\ \A u \in Threads \ {t} : pc'[u] = pc[u] /\ snap'[u] = snap[u]
        /\ client' = client /\ refs' = refs /\ status' = status /\ status = "live"
        /\ \A u \in Threads \ {t} : needs_release'[u] = needs_release[u]
    BY <1>0, <1>10 DEF NotifyPublish
  <2>2. client /\ ~needs_release[t] /\ ~dg_state.notifs
    BY <1>0, <2>1 DEF CallInv, OnClientReference, Waking, QueueInv, Publisher
  <2>3. CASE IsIdle(dg_state)
    <3>1. pc'[t] = "wake" /\ snap'[t].notifs /\ needs_release'[t] = FALSE /\ dg_state' = dg_state
      BY <1>0, <1>10, <2>3, NotifiedFields DEF NotifyPublish
    <3>2. CallInv(t)'
      BY <2>1, <2>2, <3>1 DEF CallInv, OnClientReference, Waking, Releases
    <3>3. KeepsCalls(t)
      BY <1>0, <2>1, <3>1, <3>2 DEF KeepsCalls, CallInv
    <3>4. KeepsCount
      BY <2>1, <2>2, <3>1 DEF KeepsCount, GroupRef, NotifyRef, Waking
    <3>5. QED
      BY <2>1, <3>3, <3>4, RefsKept
  <2>4. CASE ~IsIdle(dg_state)
    <3>1. /\ pc'[t] = "idle" /\ snap' = snap /\ needs_release' = needs_release
          /\ dg_state'.notifs /\ dg_state'.value = dg_state.value
      BY <1>0, <1>10, <2>4, NotifiedFields DEF NotifyPublish
    <3>2. CallInv(t)'
      BY <2>1, <2>2, <3>1 DEF CallInv, OnClientReference, Waking
    <3>3. KeepsCalls(t)
      BY <1>0, <2>1, <3>1, <3>2 DEF KeepsCalls, CallInv
    <3>4. (GroupRef' <=> GroupRef) /\ NotifyRef(t) /\ ~NotifyRef(t)'
          /\ \A u \in Threads \ {t} : NotifyRef(u)' <=> NotifyRef(u)
      BY <2>1, <3>1 DEF GroupRef, NotifyRef, Waking
    <3>5. Cardinality(Counted') = Cardinality(Counted)
      <4>1. \A r \in Slots : r # <<"bit", None>> /\ r # <<"notify", t>> => (Held(r)' <=> Held(r))
        BY <2>1, <3>1, <3>4, HeldFacts
      <4>2. <<"notify", t>> # <<"bit", None>>
        OBVIOUS
      <4>3. QED
        BY <2>2, <3>1, <3>4, <4>1, <4>2, HeldFacts, OneMoves
    <3>6. QED
      BY <1>0, <2>1, <3>3, <3>5, RefsMoved
  <2>5. QED
    BY <2>3, <2>4
<1>11. ASSUME NEW t \in Threads, WakeCapture(t) \/ WakeSubmit(t) \/ WakeAddress(t) PROVE RefInv'
  <2>1. /\ pc[t] \in Waking \ {"release"} /\ pc'[t] \in Waking /\ snap' = snap /\ client' = client /\ refs' = refs
        /\ \A u \in Threads \ {t} : pc'[u] = pc[u] \/ (pc[u] = "asleep" /\ pc'[u] = "check")
        /\ status' = status /\ dg_state' = dg_state /\ needs_release' = needs_release
    BY <1>0, <1>11 DEF WakeCapture, WakeSubmit, WakeAddress, Waking
  <2>2. CallInv(t)'
    BY <1>0, <2>1 DEF CallInv, OnClientReference, Waking, Releases
  <2>3. KeepsCalls(t)
    BY <1>0, <2>1, <2>2 DEF KeepsCalls, CallInv, Waking
  <2>4. KeepsCount
    BY <2>1 DEF KeepsCount, GroupRef, NotifyRef, Waking
  <2>5. QED
    BY <2>1, <2>3, <2>4, RefsKept
<1>12. ASSUME NEW t \in Threads, WaitEmpty(t) \/ WaitNow(t) \/ WaitRegister(t) PROVE RefInv'
  <2>1. /\ pc[t] = "idle" /\ pc'[t] \in {"zero", "nonzero", "address"}
        /\ \A u \in Threads \ {t} : pc'[u] = pc[u] /\ snap'[u] = snap[u]
        /\ client /\ client' = client /\ refs' = refs /\ status' = status /\ needs_release' = needs_release
        /\ dg_state'.value = dg_state.value /\ (dg_state'.notifs <=> dg_state.notifs)
    BY <1>0, <1>12, StateFields DEF WaitEmpty, WaitNow, WaitRegister
  <2>2. KeepsCalls(t)
    BY <1>0, <2>1 DEF KeepsCalls, CallInv, OnClientReference, Waking
  <2>3. KeepsCount
    BY <2>1 DEF KeepsCount, GroupRef, NotifyRef, Waking
  <2>4. QED
    BY <2>1, <2>2, <2>3, RefsKept
<1>13. ASSUME NEW t \in Threads, WaitOnAddress(t) \/ WaitChecks(t) \/ WaitTimesOut(t) \/ WaitInterrupted(t)
                                   \/ WaitReturns(t)
       PROVE  RefInv'
  <2>1. /\ pc[t] \in {"address", "asleep", "check", "zero", "nonzero"}
        /\ pc'[t] \in {"address", "asleep", "check", "zero", "nonzero", "idle"}
        /\ \A u \in Threads \ {t} : pc'[u] = pc[u] /\ snap'[u] = snap[u]
        /\ client' = client /\ refs' = refs /\ status' = status /\ needs_release' = needs_release
        /\ dg_state' = dg_state
    BY <1>0, <1>13 DEF WaitOnAddress, WaitChecks, WaitTimesOut, WaitInterrupted, WaitReturns
  <2>2. client /\ ~needs_release[t]
    BY <1>0, <2>1 DEF CallInv, OnClientReference, Waking
  <2>3. KeepsCalls(t)
    BY <1>0, <2>1, <2>2 DEF KeepsCalls, CallInv, OnClientReference, Waking
  <2>4. KeepsCount
    BY <2>1 DEF KeepsCount, GroupRef, NotifyRef, Waking
  <2>5. QED
    BY <2>1, <2>3, <2>4, RefsKept
\* References that are given back: with the last one the group is idle
<1>D. ASSUME NEW n \in {1, 2}, Drop(n), \A u \in Threads : CallInv(u)',
             Cardinality(Counted') = Cardinality(Counted) - n, status = "live", dg_state' = dg_state
      PROVE  RefInv'
  <2>1. refs' = Cardinality(Counted') /\ refs' \in Nat
    BY <1>0, <1>D, CountedFinite DEF Drop
  <2>2. CASE refs > n
    BY <1>0, <1>D, <2>1, <2>2 DEF Drop, RefInv
  <2>3. CASE ~(refs > n)
    <3>1. refs' = 0 /\ refs \in Nat
      BY <1>0, <1>D, <2>1, <2>3 DEF Drop
    <3>2. NoReference'
      BY <1>D, <2>1, <3>1 DEF NoReference
    <3>3. IsIdle(dg_state)
      BY <1>D, <3>2, NothingHeldNext DEF Unused
    <3>4. status' = "freed"
      BY <1>D, <2>3, <3>3 DEF Drop
    <3>5. QED
      BY <1>D, <2>1, <3>1, <3>4 DEF RefInv
  <2>4. QED
    BY <2>2, <2>3
<1>14. ASSUME NEW t \in Threads, WakeRelease(t) PROVE RefInv'
  <2>1. /\ pc[t] = "release" /\ pc'[t] = "idle" /\ ~needs_release'[t] /\ dg_state' = dg_state /\ client' = client
        /\ \A u \in Threads \ {t} : pc'[u] = pc[u] /\ snap'[u] = snap[u] /\ needs_release'[u] = needs_release[u]
        /\ status = "live" /\ Drop(Releases(t))
    BY <1>0, <1>14 DEF WakeRelease
  <2>2. KeepsCalls(t)
    BY <1>0, <2>1 DEF KeepsCalls, CallInv, OnClientReference, Waking
  <2>3. \A u \in Threads : CallInv(u)'
    BY <1>0, <2>2, CallsKept
  <2>4. (GroupRef' <=> GroupRef) /\ (NotifyRef(t) <=> snap[t].notifs) /\ ~NotifyRef(t)'
        /\ \A u \in Threads \ {t} : NotifyRef(u)' <=> NotifyRef(u)
    BY <2>1 DEF GroupRef, NotifyRef, Waking
  <2>5. \A r \in Slots : r # <<"leave", t>> /\ r # <<"notify", t>> => (Held(r)' <=> Held(r))
    BY <2>1, <2>4, HeldFacts
  <2>6. CASE needs_release[t] /\ snap[t].notifs
    <3>1. Releases(t) = 2 /\ <<"leave", t>> # <<"notify", t>>
      BY <2>6 DEF Releases
    <3>2. Cardinality(Counted') = Cardinality(Counted) - 2
      BY <2>1, <2>4, <2>5, <2>6, <3>1, HeldFacts, TwoLess
    <3>3. QED
      BY <1>D, <2>1, <2>3, <3>1, <3>2
  <2>7. CASE needs_release[t] /\ ~snap[t].notifs
    <3>1. Releases(t) = 1
      BY <2>7 DEF Releases
    <3>2. \A r \in Slots : r # <<"leave", t>> => (Held(r)' <=> Held(r))
      BY <2>4, <2>5, <2>7, HeldFacts
    <3>3. Cardinality(Counted') = Cardinality(Counted) - 1
      BY <2>1, <2>7, <3>2, HeldFacts, OneLess
    <3>4. QED
      BY <1>D, <2>1, <2>3, <3>1, <3>3
  <2>8. CASE ~needs_release[t] /\ snap[t].notifs
    <3>1. Releases(t) = 1
      BY <2>8 DEF Releases
    <3>2. \A r \in Slots : r # <<"notify", t>> => (Held(r)' <=> Held(r))
      BY <2>1, <2>5, <2>8, HeldFacts
    <3>3. Cardinality(Counted') = Cardinality(Counted) - 1
      BY <2>4, <2>8, <3>2, HeldFacts, OneLess
    <3>4. QED
      BY <1>D, <2>1, <2>3, <3>1, <3>3
  <2>9. needs_release[t] \/ snap[t].notifs
    BY <1>0, <2>1 DEF CallInv, Waking, Releases
  <2>10. QED
    BY <2>6, <2>7, <2>8, <2>9
<1>15. CASE ClientRelease
  <2>1. /\ client /\ ~client' /\ pc' = pc /\ snap' = snap /\ needs_release' = needs_release /\ dg_state' = dg_state
        /\ status = "live" /\ Drop(1) /\ \A u \in Threads : ~OnClientReference(u)
    BY <1>15 DEF ClientRelease
  <2>2. \A u \in Threads : CallInv(u)'
    BY <1>0, <2>1 DEF CallInv, OnClientReference, Releases
  <2>3. \A r \in Slots : r # <<"client", None>> => (Held(r)' <=> Held(r))
    <3>1. (GroupRef' <=> GroupRef) /\ \A u \in Threads : NotifyRef(u)' <=> NotifyRef(u)
      BY <2>1 DEF GroupRef, NotifyRef
    <3>2. QED
      BY <2>1, <3>1, HeldFacts
  <2>4. Cardinality(Counted') = Cardinality(Counted) - 1
    BY <2>1, <2>3, HeldFacts, OneLess
  <2>5. QED
    BY <1>D, <2>1, <2>2, <2>4
<1>16. CASE UNCHANGED vars
  <2>1. /\ pc' = pc /\ snap' = snap /\ needs_release' = needs_release /\ dg_state' = dg_state
        /\ client' = client /\ refs' = refs /\ status' = status
    BY <1>16 DEF vars
  <2>2. (\A u \in Threads : CallInv(u)') /\ Counted' = Counted
    BY <1>0, <2>1 DEF CallInv, OnClientReference, Releases, Counted, Held, Slots, GroupRef, NotifyRef
  <2>3. QED
    BY <2>1, <2>2 DEF RefInv
<1>17. QED
  BY <1>1, <1>2, <1>3, <1>4, <1>5, <1>6, <1>7, <1>8, <1>9, <1>10, <1>11, <1>12, <1>13, <1>14, <1>15, <1>16
     DEF Next, Continue

-----------------------------------------------------------------------------
(* The invariant of the group, and what follows from it *)

GroupInv == GroupTypeOK /\ WaitInv /\ BitCleared /\ QueueInv /\ RefInv

\* The references of a new group: the client's, and that of the first enter
LEMMA InitCount == Init => refs = Cardinality(Counted)
<1> SUFFICES ASSUME Init PROVE refs = Cardinality(Counted)
  OBVIOUS
<1>1. PICK n \in {0, 1} : dg_state = [Empty EXCEPT !.value = n] /\ refs = 1 + n
  BY DEF Init
<1>2. dg_state.value = n /\ ~dg_state.notifs
  BY <1>1 DEF Empty
<1>3. client /\ \A t \in Threads : pc[t] = "idle" /\ ~needs_release[t] /\ ~NotifyRef(t)
  BY DEF Init, NotifyRef, Waking
<1>4. GroupRef <=> n = 1
  BY <1>2, <1>3 DEF GroupRef
<1>5. IsFiniteSet({<<"client", None>>}) /\ Cardinality({<<"client", None>>}) = 1
  BY FS_Singleton
<1>6. CASE n = 0
  <2>1. Counted = {<<"client", None>>}
    BY <1>2, <1>3, <1>4, <1>6, HeldFacts DEF Counted
  <2>2. QED
    BY <2>1, <1>1, <1>5, <1>6
<1>7. CASE n = 1
  <2>1. Counted = {<<"client", None>>} \cup {<<"group", None>>}
    BY <1>2, <1>3, <1>4, <1>7, HeldFacts DEF Counted
  <2>2. <<"group", None>> \notin {<<"client", None>>}
    OBVIOUS
  <2>3. Cardinality({<<"client", None>>} \cup {<<"group", None>>}) = 1 + 1
    BY <1>5, <2>2, FS_AddElement
  <2>4. QED
    BY <2>1, <2>3, <1>1, <1>7
<1>8. QED
  BY <1>6, <1>7

\* dispatch_group_create establishes it,
LEMMA InitGroupInv == Init => GroupInv
<1> SUFFICES ASSUME Init PROVE GroupInv
  OBVIOUS
<1>1. PICK n \in {0, 1} : dg_state = [Empty EXCEPT !.value = n] /\ refs = 1 + n
  BY DEF Init
<1>2. dg_state.value = n /\ ~dg_state.notifs /\ ~dg_state.waiters
  BY <1>1 DEF Empty
<1>3. \A t \in Threads : pc[t] = "idle" /\ ~needs_release[t]
  BY DEF Init
<1>4. GroupTypeOK
  <2>1. Empty \in States /\ [Empty EXCEPT !.value = n] \in States
    <3>1. n \in Nat /\ 0 \in Nat
      OBVIOUS
    <3>2. Empty \in States
      BY <3>1 DEF Empty, States
    <3>3. [Empty EXCEPT !.value = n] \in States
      BY <3>1, <3>2 DEF States
    <3>4. QED
      BY <3>2, <3>3
  <2>2. dg_notify \in Seq(Notifs)
    BY DEF Init
  <2>3. QED
    BY <1>1, <2>1, <2>2 DEF Init, GroupTypeOK, Labels
<1>5. WaitInv
  BY <1>3 DEF WaitInv, Registered, Waiting
<1>6. BitCleared
  BY <1>2 DEF BitCleared
<1>7. QueueInv
  <2>1. dg_notify = <<>> /\ \A t \in Threads : ~Publisher(t)
    BY <1>3 DEF Init, Publisher
  <2>2. QED
    BY <1>2, <2>1 DEF QueueInv
<1>8. RefInv
  <2>1. \A t \in Threads : CallInv(t)
    BY <1>3 DEF CallInv, OnClientReference, Waking
  <2>2. status = "live"
    BY DEF Init
  <2>3. QED
    BY <2>1, <2>2, InitCount DEF RefInv
<1>9. QED
  BY <1>4, <1>5, <1>6, <1>7, <1>8 DEF GroupInv

\* every step keeps it,
LEMMA NextGroupInv == GroupInv /\ [Next]_vars => GroupInv'
<1> SUFFICES ASSUME GroupInv, [Next]_vars PROVE GroupInv'
  OBVIOUS
<1>1. GroupTypeOK'
  BY NextTypeOK DEF GroupInv
<1>2. WaitInv' /\ BitCleared'
  BY NextWaits DEF GroupInv
<1>3. QueueInv'
  BY NextQueue DEF GroupInv
<1>4. RefInv'
  BY <1>1, <1>2, <1>3, NextRefs DEF GroupInv
<1>5. QED
  BY <1>1, <1>2, <1>3, <1>4 DEF GroupInv

\* and so it always holds
LEMMA GroupInvAlways == Spec => []GroupInv
BY InitGroupInv, NextGroupInv, PTL DEF Spec

\* dispatch_group_wait returns zero only when the group has been empty since the
\* call; a thread asleep on the current generation is protected by the waiters bit,
\* and one asleep on a past generation by a leave that is about to wake it.
THEOREM GroupWaits == Spec => []WaitSawEmpty
<1>1. GroupInv => WaitSawEmpty
  <2> SUFFICES ASSUME GroupInv PROVE WaitSawEmpty
    OBVIOUS
  <2>1. \A t \in Threads : pc[t] = "zero" => t \in sawEmpty
    BY DEF GroupInv, WaitInv
  <2>2. ASSUME NEW t \in Threads, pc[t] = "asleep", dg_state.gen = snap[t].gen
        PROVE  dg_state.waiters /\ dg_state.value > 0
    BY <2>2 DEF GroupInv, WaitInv, Registered, Waiting
  <2>3. ASSUME NEW t \in Threads, pc[t] = "asleep", dg_state.gen # snap[t].gen
        PROVE  \E u \in Threads :
                 \/ pc[u] = "clear" /\ (dg_state.waiters \/ snap[u].waiters)
                 \/ pc[u] \in {"wake", "submit", "wakeAddress"} /\ snap[u].waiters
    BY <2>3 DEF GroupInv, WaitInv, Waker
  <2>4. QED
    BY <2>1, <2>2, <2>3 DEF WaitSawEmpty
<1>2. QED
  BY <1>1, GroupInvAlways, PTL

\* A notification that dispatch_group_notify has queued always has somebody
\* responsible for it: the notifications bit, the thread that found the queue empty
\* and is about to set the bit, or a thread that is about to capture the queue.
THEOREM GroupNotifies == Spec => []NoForgottenNotification
<1>1. GroupInv => NoForgottenNotification
  BY DEF GroupInv, QueueInv, Publisher, NoForgottenNotification
<1>2. QED
  BY <1>1, GroupInvAlways, PTL

\* The count of references is exact, so the release of the last one, by a leave or by
\* the client, finds the group idle: _dispatch_group_dispose never runs on a group in
\* use, and no thread is inside a call on a freed group.
THEOREM GroupFreed == Spec => []FreedUnused
<1>1. GroupInv => FreedUnused
  <2> SUFFICES ASSUME GroupInv PROVE FreedUnused
    OBVIOUS
  <2>1. status # "disposedInUse" /\ (status = "freed" => Cardinality(Counted) = 0)
    BY DEF GroupInv, RefInv
  <2>2. status = "freed" => Unused
    BY <2>1, NothingHeld DEF GroupInv, RefInv, NoReference
  <2>3. QED
    BY <2>1, <2>2 DEF FreedUnused, Unused
<1>2. QED
  BY <1>1, GroupInvAlways, PTL
=============================================================================
