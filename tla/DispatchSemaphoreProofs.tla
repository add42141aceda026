---------------------- MODULE DispatchSemaphoreProofs ----------------------
(***************************************************************************)
(* Proofs, for any finite set of threads, any initial value and any        *)
(* LONG_MAX, that wake-ups and waiters of a dispatch semaphore stay        *)
(* balanced and that the implementation is a counting semaphore.           *)
(***************************************************************************)
EXTENDS DispatchSemaphore, FiniteSetTheorems, TLAPS

Labels == SlowPC \cup {"idle", "post"}

\* The threads whose program counter is one of the labels S.
At(f, S) == {x \in Threads : f[x] \in S}

\* Sets of threads are finite and no larger than Threads.
LEMMA AtFinite ==
    ASSUME NEW f, NEW S
    PROVE  /\ IsFiniteSet(At(f, S))
           /\ Cardinality(At(f, S)) \in Nat
           /\ Cardinality(Threads) \in Nat
           /\ Cardinality(At(f, S)) <= Cardinality(Threads)
<1>1. At(f, S) \subseteq Threads
  BY DEF At
<1>2. QED
  BY <1>1, FS_Subset, FS_CardinalityType, ThreadsAssumption

\* A set that does not hold every thread is smaller than Threads.
LEMMA AtSmaller ==
    ASSUME NEW f, NEW S, NEW t \in Threads, f[t] \notin S
    PROVE  Cardinality(At(f, S)) < Cardinality(Threads)
<1>1. At(f, S) \subseteq Threads \ {t}
  BY DEF At
<1>2. /\ IsFiniteSet(Threads \ {t})
      /\ Cardinality(Threads \ {t}) = Cardinality(Threads) - 1
  BY FS_RemoveElement, ThreadsAssumption
<1>3. Cardinality(At(f, S)) <= Cardinality(Threads) - 1
  BY <1>1, <1>2, FS_Subset
<1>4. QED
  BY <1>3, AtFinite

\* Moving one thread to another label changes each count by at most one.
LEMMA AtMove ==
    ASSUME NEW S, NEW t \in Threads,
           \A x \in Threads \ {t} : pc'[x] = pc[x]
    PROVE  /\ pc'[t] \in S /\ pc[t] \notin S
                => Cardinality(At(pc', S)) = Cardinality(At(pc, S)) + 1
           /\ pc'[t] \notin S /\ pc[t] \in S
                => Cardinality(At(pc', S)) = Cardinality(At(pc, S)) - 1
           /\ (pc'[t] \in S <=> pc[t] \in S) => At(pc', S) = At(pc, S)
<1>1. IsFiniteSet(At(pc, S))
  BY AtFinite
<1>2. ASSUME pc'[t] \in S, pc[t] \notin S
      PROVE  Cardinality(At(pc', S)) = Cardinality(At(pc, S)) + 1
  <2>1. At(pc', S) = At(pc, S) \cup {t} /\ t \notin At(pc, S)
    BY <1>2 DEF At
  <2>2. QED
    BY <1>1, <2>1, FS_AddElement
<1>3. ASSUME pc'[t] \notin S, pc[t] \in S
      PROVE  Cardinality(At(pc', S)) = Cardinality(At(pc, S)) - 1
  <2>1. At(pc', S) = At(pc, S) \ {t} /\ t \in At(pc, S)
    BY <1>3 DEF At
  <2>2. QED
    BY <1>1, <2>1, FS_RemoveElement
<1>4. ASSUME pc'[t] \in S <=> pc[t] \in S
      PROVE  At(pc', S) = At(pc, S)
  BY <1>4 DEF At
<1>5. QED
  BY <1>2, <1>3, <1>4

\* The two sets of the invariant, as sets of threads at a label.
LEMMA SlowIsAt ==
    /\ Slow = At(pc, SlowPC) /\ Slow' = At(pc', SlowPC)
    /\ Posting = At(pc, {"post"}) /\ Posting' = At(pc', {"post"})
BY DEF Slow, Posting, At

\* The counter leaves no wake-up unaccounted for, and that is what bounds it:
\* the two invariants are inductive only together.
IInv == TypeOK /\ WakeupBalance

-----------------------------------------------------------------------------
\* Initially nobody is inside a call.
LEMMA InitIInv == Init => IInv
<1> SUFFICES ASSUME Init PROVE IInv
  OBVIOUS
<1>1. Slow = {} /\ Posting = {}
  BY DEF Init, Slow, Posting, SlowPC
<1>2. Cardinality({}) = 0 /\ Cardinality(Threads) \in Nat
  BY FS_EmptySet, FS_CardinalityType, ThreadsAssumption
<1>3. TypeOK
  BY <1>2, ValueAssumption DEF Init, TypeOK
<1>4. WakeupBalance
  BY <1>1, <1>2, ValueAssumption DEF Init, WakeupBalance
<1>5. QED
  BY <1>3, <1>4 DEF IInv

\* What a step that moves one thread does to the two counts, and what the
\* thread's label says about them.
LEMMA Counts ==
    ASSUME TypeOK, NEW t \in Threads, NEW l \in Labels,
           pc' = [pc EXCEPT ![t] = l]
    PROVE  /\ l \in SlowPC /\ pc[t] \notin SlowPC
                => Cardinality(Slow') = Cardinality(Slow) + 1
           /\ l \notin SlowPC /\ pc[t] \in SlowPC
                => Cardinality(Slow') = Cardinality(Slow) - 1
           /\ (l \in SlowPC <=> pc[t] \in SlowPC)
                => Cardinality(Slow') = Cardinality(Slow)
           /\ l = "post" /\ pc[t] # "post"
                => Cardinality(Posting') = Cardinality(Posting) + 1
           /\ l # "post" /\ pc[t] = "post"
                => Cardinality(Posting') = Cardinality(Posting) - 1
           /\ (l = "post" <=> pc[t] = "post")
                => Cardinality(Posting') = Cardinality(Posting)
           /\ Cardinality(Slow) \in Nat
           /\ Cardinality(Posting) \in Nat
           /\ Cardinality(Threads) \in Nat
           /\ pc[t] \notin SlowPC => Cardinality(Slow) < Cardinality(Threads)
           /\ pc' \in [Threads -> Labels]
<1>0. pc \in [Threads -> Labels]
  BY DEF TypeOK, Labels
<1>a. pc'[t] = l /\ \A x \in Threads \ {t} : pc'[x] = pc[x]
  BY <1>0
<1>1. /\ l \in SlowPC /\ pc[t] \notin SlowPC
           => Cardinality(Slow') = Cardinality(Slow) + 1
      /\ l \notin SlowPC /\ pc[t] \in SlowPC
           => Cardinality(Slow') = Cardinality(Slow) - 1
      /\ (l \in SlowPC <=> pc[t] \in SlowPC)
           => Cardinality(Slow') = Cardinality(Slow)
  <2>1. /\ pc'[t] \in SlowPC /\ pc[t] \notin SlowPC
             => Cardinality(At(pc', SlowPC)) = Cardinality(At(pc, SlowPC)) + 1
        /\ pc'[t] \notin SlowPC /\ pc[t] \in SlowPC
             => Cardinality(At(pc', SlowPC)) = Cardinality(At(pc, SlowPC)) - 1
        /\ (pc'[t] \in SlowPC <=> pc[t] \in SlowPC)
             => At(pc', SlowPC) = At(pc, SlowPC)
    BY <1>a, AtMove
  <2>2. QED
    BY <1>a, <2>1, SlowIsAt
<1>2. /\ l \in {"post"} /\ pc[t] \notin {"post"}
           => Cardinality(Posting') = Cardinality(Posting) + 1
      /\ l \notin {"post"} /\ pc[t] \in {"post"}
           => Cardinality(Posting') = Cardinality(Posting) - 1
      /\ (l \in {"post"} <=> pc[t] \in {"post"})
           => Cardinality(Posting') = Cardinality(Posting)
  <2>1. /\ pc'[t] \in {"post"} /\ pc[t] \notin {"post"}
             => Cardinality(At(pc', {"post"}))
                  = Cardinality(At(pc, {"post"})) + 1
        /\ pc'[t] \notin {"post"} /\ pc[t] \in {"post"}
             => Cardinality(At(pc', {"post"}))
                  = Cardinality(At(pc, {"post"})) - 1
        /\ (pc'[t] \in {"post"} <=> pc[t] \in {"post"})
             => At(pc', {"post"}) = At(pc, {"post"})
    BY <1>a, AtMove
  <2>2. QED
    BY <1>a, <2>1, SlowIsAt
<1>3. /\ Cardinality(Slow) \in Nat
      /\ Cardinality(Posting) \in Nat
      /\ Cardinality(Threads) \in Nat
  BY AtFinite, SlowIsAt
<1>4. pc[t] \notin SlowPC => Cardinality(Slow) < Cardinality(Threads)
  BY AtSmaller, SlowIsAt
<1>5. pc' \in [Threads -> Labels]
  BY <1>0
<1>6. QED
  BY <1>1, <1>2, <1>3, <1>4, <1>5

\* The bounds on the counter that follow from the balance.
LEMMA Same ==
    ASSUME TypeOK, pc' = pc
    PROVE  Slow' = Slow /\ Posting' = Posting
           /\ Cardinality(Slow) \in Nat /\ Cardinality(Posting) \in Nat
           /\ Cardinality(Threads) \in Nat
BY AtFinite, SlowIsAt DEF Slow, Posting

\* Every step keeps types and balance.
LEMMA NextIInv == IInv /\ [Next]_vars => IInv'
<1> SUFFICES ASSUME TypeOK, WakeupBalance, [Next]_vars
             PROVE  TypeOK' /\ WakeupBalance'
  BY DEF IInv
<1> USE ValueAssumption DEF Ready
<1>1. ASSUME NEW t \in Threads, SignalFast(t)
      PROVE  TypeOK' /\ WakeupBalance'
  BY <1>1, Same DEF SignalFast, TypeOK, WakeupBalance
<1>2. ASSUME NEW t \in Threads, SignalOwes(t)
      PROVE  TypeOK' /\ WakeupBalance'
  <2>1. pc' = [pc EXCEPT ![t] = "post"]
    BY <1>2 DEF SignalOwes, Goto
  <2>2. /\ Cardinality(Slow') = Cardinality(Slow)
        /\ Cardinality(Posting') = Cardinality(Posting) + 1
        /\ Cardinality(Slow) \in Nat /\ Cardinality(Posting) \in Nat
        /\ Cardinality(Threads) \in Nat /\ pc' \in [Threads -> Labels]
    BY <1>2, <2>1, Counts DEF SignalOwes, Labels, SlowPC
  <2>3. TypeOK'
    BY <1>2, <2>2 DEF SignalOwes, TypeOK, Labels
  <2>4. WakeupBalance'
    BY <1>2, <2>2 DEF SignalOwes, TypeOK, WakeupBalance
  <2>5. QED
    BY <2>3, <2>4
<1>3. ASSUME NEW t \in Threads, SignalOverflows(t)
      PROVE  TypeOK' /\ WakeupBalance'
  BY <1>3, Same DEF SignalOverflows, TypeOK, WakeupBalance
<1>4. ASSUME NEW t \in Threads, SignalSlow(t)
      PROVE  TypeOK' /\ WakeupBalance'
  <2>1. pc' = [pc EXCEPT ![t] = "idle"]
    BY <1>4 DEF SignalSlow, Goto
  <2>2. /\ Cardinality(Slow') = Cardinality(Slow)
        /\ Cardinality(Posting') = Cardinality(Posting) - 1
        /\ Cardinality(Slow) \in Nat /\ Cardinality(Posting) \in Nat
        /\ Cardinality(Threads) \in Nat /\ pc' \in [Threads -> Labels]
    BY <1>4, <2>1, Counts DEF SignalSlow, Labels, SlowPC
  <2>3. TypeOK'
    BY <1>4, <2>2 DEF SignalSlow, TypeOK, Labels
  <2>4. WakeupBalance'
    BY <1>4, <2>2 DEF SignalSlow, TypeOK, WakeupBalance
  <2>5. QED
    BY <2>3, <2>4
<1>5. ASSUME NEW t \in Threads, WaitFast(t)
      PROVE  TypeOK' /\ WakeupBalance'
  <2>1. pc' = [pc EXCEPT ![t] = "idle"]
    BY <1>5 DEF WaitFast, Return
  <2>2. /\ Cardinality(Slow') = Cardinality(Slow)
        /\ Cardinality(Posting') = Cardinality(Posting)
        /\ Cardinality(Slow) \in Nat /\ Cardinality(Posting) \in Nat
        /\ Cardinality(Threads) \in Nat /\ pc' \in [Threads -> Labels]
    BY <1>5, <2>1, Counts DEF WaitFast, Labels, SlowPC
  <2>3. TypeOK'
    BY <1>5, <2>2 DEF WaitFast, Return, TypeOK, Labels
  <2>4. WakeupBalance'
    BY <1>5, <2>2 DEF WaitFast, TypeOK, WakeupBalance
  <2>5. QED
    BY <2>3, <2>4
<1>6. ASSUME NEW t \in Threads, NEW timeout \in Timeouts,
             WaitEnterSlow(t, timeout)
      PROVE  TypeOK' /\ WakeupBalance'
  <2>1. SlowEntry(timeout) \in SlowPC /\ SlowEntry(timeout) # "post"
    BY DEF SlowEntry, Timeouts, SlowPC
  <2>2. pc' = [pc EXCEPT ![t] = SlowEntry(timeout)]
    BY <1>6 DEF WaitEnterSlow, Goto
  <2>3. /\ Cardinality(Slow') = Cardinality(Slow) + 1
        /\ Cardinality(Posting') = Cardinality(Posting)
        /\ Cardinality(Slow) \in Nat /\ Cardinality(Posting) \in Nat
        /\ Cardinality(Slow) < Cardinality(Threads)
        /\ Cardinality(Threads) \in Nat /\ pc' \in [Threads -> Labels]
    BY <1>6, <2>1, <2>2, Counts DEF WaitEnterSlow, Labels, SlowPC
  <2>4. dsema_value' \in -Cardinality(Threads) .. LongMax
    BY <1>6, <2>3 DEF WaitEnterSlow, TypeOK, WakeupBalance
  <2>5. TypeOK'
    BY <1>6, <2>3, <2>4 DEF WaitEnterSlow, TypeOK, Labels
  <2>6. WakeupBalance'
    BY <1>6, <2>3 DEF WaitEnterSlow, TypeOK, WakeupBalance
  <2>7. QED
    BY <2>5, <2>6
<1>7. ASSUME NEW t \in Threads, KernelWakes(t)
      PROVE  TypeOK' /\ WakeupBalance'
  <2>1. pc' = [pc EXCEPT ![t] = "idle"]
    BY <1>7 DEF KernelWakes, Return
  <2>2. /\ Cardinality(Slow') = Cardinality(Slow) - 1
        /\ Cardinality(Posting') = Cardinality(Posting)
        /\ Cardinality(Slow) \in Nat /\ Cardinality(Posting) \in Nat
        /\ Cardinality(Threads) \in Nat /\ pc' \in [Threads -> Labels]
    BY <1>7, <2>1, Counts DEF KernelWakes, Labels, SlowPC
  <2>3. TypeOK'
    BY <1>7, <2>2 DEF KernelWakes, Return, TypeOK, Labels
  <2>4. WakeupBalance'
    BY <1>7, <2>2 DEF KernelWakes, TypeOK, WakeupBalance
  <2>5. QED
    BY <2>3, <2>4
<1>8. ASSUME NEW t \in Threads, KernelTimesOut(t)
      PROVE  TypeOK' /\ WakeupBalance'
  <2>1. pc' = [pc EXCEPT ![t] = "load"]
    BY <1>8 DEF KernelTimesOut, Goto
  <2>2. /\ Cardinality(Slow') = Cardinality(Slow)
        /\ Cardinality(Posting') = Cardinality(Posting)
        /\ Cardinality(Slow) \in Nat /\ Cardinality(Posting) \in Nat
        /\ Cardinality(Threads) \in Nat /\ pc' \in [Threads -> Labels]
    BY <1>8, <2>1, Counts DEF KernelTimesOut, Labels, SlowPC
  <2>3. TypeOK'
    BY <1>8, <2>2 DEF KernelTimesOut, TypeOK, Labels
  <2>4. WakeupBalance'
    BY <1>8, <2>2 DEF KernelTimesOut, TypeOK, WakeupBalance
  <2>5. QED
    BY <2>3, <2>4
<1>9. ASSUME NEW t \in Threads, UndoLoad(t)
      PROVE  TypeOK' /\ WakeupBalance'
  <2>1. pc' = [pc EXCEPT ![t] = "undo"]
    BY <1>9 DEF UndoLoad, Goto
  <2>2. /\ Cardinality(Slow') = Cardinality(Slow)
        /\ Cardinality(Posting') = Cardinality(Posting)
        /\ Cardinality(Slow) \in Nat /\ Cardinality(Posting) \in Nat
        /\ Cardinality(Threads) \in Nat /\ pc' \in [Threads -> Labels]
    BY <1>9, <2>1, Counts DEF UndoLoad, Labels, SlowPC
  <2>3. TypeOK'
    BY <1>9, <2>2 DEF UndoLoad, TypeOK, Labels
  <2>4. WakeupBalance'
    BY <1>9, <2>2 DEF UndoLoad, TypeOK, WakeupBalance
  <2>5. QED
    BY <2>3, <2>4
<1>10. ASSUME NEW t \in Threads, UndoSucceeds(t)
       PROVE  TypeOK' /\ WakeupBalance'
  <2>1. pc' = [pc EXCEPT ![t] = "idle"]
    BY <1>10 DEF UndoSucceeds, Return
  <2>2. /\ Cardinality(Slow') = Cardinality(Slow) - 1
        /\ Cardinality(Posting') = Cardinality(Posting)
        /\ Cardinality(Slow) \in Nat /\ Cardinality(Posting) \in Nat
        /\ Cardinality(Threads) \in Nat /\ pc' \in [Threads -> Labels]
    BY <1>10, <2>1, Counts DEF UndoSucceeds, Labels, SlowPC
  <2>3. TypeOK'
    BY <1>10, <2>2 DEF UndoSucceeds, Return, TypeOK, Labels
  <2>4. WakeupBalance'
    BY <1>10, <2>2 DEF UndoSucceeds, TypeOK, WakeupBalance
  <2>5. QED
    BY <2>3, <2>4
<1>11. ASSUME NEW t \in Threads, UndoRetries(t)
       PROVE  TypeOK' /\ WakeupBalance'
  BY <1>11, Same DEF UndoRetries, TypeOK, WakeupBalance
<1>12. ASSUME NEW t \in Threads, UndoTooLate(t)
       PROVE  TypeOK' /\ WakeupBalance'
  <2>1. pc' = [pc EXCEPT ![t] = "drain"]
    BY <1>12 DEF UndoTooLate, Goto
  <2>2. /\ Cardinality(Slow') = Cardinality(Slow)
        /\ Cardinality(Posting') = Cardinality(Posting)
        /\ Cardinality(Slow) \in Nat /\ Cardinality(Posting) \in Nat
        /\ Cardinality(Threads) \in Nat /\ pc' \in [Threads -> Labels]
    BY <1>12, <2>1, Counts DEF UndoTooLate, Labels, SlowPC
  <2>3. TypeOK'
    <3>1. orig' \in [Threads -> -Cardinality(Threads) .. LongMax]
      BY <1>12, <2>2 DEF UndoTooLate, TypeOK
    <3>2. QED
      BY <1>12, <2>2, <3>1 DEF UndoTooLate, TypeOK, Labels
  <2>4. WakeupBalance'
    BY <1>12, <2>2 DEF UndoTooLate, TypeOK, WakeupBalance
  <2>5. QED
    BY <2>3, <2>4
<1>13. CASE Dispose
  BY <1>13, Same DEF Dispose, TypeOK, WakeupBalance
<1>14. CASE UNCHANGED vars
  BY <1>14, Same DEF vars, TypeOK, WakeupBalance
<1>15. QED
  BY <1>1, <1>2, <1>3, <1>4, <1>5, <1>6, <1>7, <1>8, <1>9, <1>10, <1>11,
     <1>12, <1>13, <1>14 DEF Next, Continue

\* The counter of a dispatch semaphore stays in range, and the number of
\* threads inside the slow path of dispatch_semaphore_wait always equals the
\* wake-ups posted or owed plus the absolute value of a negative counter.
THEOREM SemaphoreInvariant == Spec => [](TypeOK /\ WakeupBalance)
<1>1. Spec => []IInv
  BY InitIInv, NextIInv, PTL DEF Spec
<1>2. QED
  BY <1>1, PTL DEF IInv

-----------------------------------------------------------------------------
(* Refinement *)

\* Moving one thread moves it to the abstract state its new label stands for.
LEMMA CallerMove ==
    ASSUME TypeOK, NEW t \in Threads, NEW l \in Labels,
           pc' = [pc EXCEPT ![t] = l]
    PROVE  /\ Caller[t] = CallerOf(pc[t])
           /\ Caller' = [Caller EXCEPT ![t] = CallerOf(l)]
           /\ CallerOf(l) = CallerOf(pc[t]) => Caller' = Caller
<1>0. pc \in [Threads -> Labels]
  BY DEF TypeOK, Labels
<1>1. Caller[t] = CallerOf(pc[t])
  BY DEF Caller
<1>2. \A x \in Threads : Caller'[x] = IF x = t THEN CallerOf(l) ELSE Caller[x]
  BY <1>0 DEF Caller
<1>3. Caller' = [Caller EXCEPT ![t] = CallerOf(l)]
  BY <1>2 DEF Caller
<1>4. CallerOf(l) = CallerOf(pc[t]) => Caller' = Caller
  BY <1>1, <1>2 DEF Caller
<1>5. QED
  BY <1>1, <1>3, <1>4

\* The abstract names of the labels.
LEMMA CallerNames ==
    /\ CallerOf("idle") = "idle" /\ CallerOf("post") = "idle"
    /\ CallerOf("waitForever") = "forever"
    /\ \A l \in {"timedwait", "load", "undo", "drain"} : CallerOf(l) = "timed"
BY DEF CallerOf

\* Initially all permits are available and nobody waits.
LEMMA InitRefines == Init => CS!Init
<1> SUFFICES ASSUME Init PROVE CS!Init
  OBVIOUS
<1>1. Slow = {}
  BY DEF Init, Slow, SlowPC
<1>2. Permits = InitialValue
  BY <1>1, FS_EmptySet, ValueAssumption DEF Permits, Init
<1>3. Caller = [t \in Threads |-> "idle"]
  BY CallerNames DEF Init, Caller
<1>4. QED
  BY <1>2, <1>3 DEF Init, CS!Init

\* Every step of the implementation is a step of the counting semaphore or
\* leaves it unchanged.
LEMMA NextRefines == IInv /\ [Next]_vars => [CS!Next]_CS!vars
<1> SUFFICES ASSUME TypeOK, WakeupBalance, [Next]_vars
             PROVE  [CS!Next]_CS!vars
  BY DEF IInv
<1> USE ValueAssumption DEF Ready
<1>0. Cardinality(Slow) \in Nat /\ Cardinality(Posting) \in Nat
  BY AtFinite, SlowIsAt
<1>1. ASSUME NEW t \in Threads, SignalFast(t)
      PROVE  CS!Next
  <2>1. Slow' = Slow /\ Caller' = Caller /\ Caller[t] = "idle"
    BY <1>1, CallerNames DEF SignalFast, Slow, Caller
  <2>2. Permits' = Permits + 1
    BY <1>0, <1>1, <2>1 DEF SignalFast, Permits, TypeOK
  <2>3. CS!Signal(t)
    BY <1>1, <2>1, <2>2 DEF SignalFast, CS!Signal
  <2>4. QED
    BY <1>1, <2>3 DEF SignalFast, CS!Next
<1>2. ASSUME NEW t \in Threads, SignalOwes(t)
      PROVE  CS!Next
  <2>1. pc' = [pc EXCEPT ![t] = "post"] /\ "post" \in Labels
    BY <1>2 DEF SignalOwes, Goto, Labels, SlowPC
  <2>2. Cardinality(Slow') = Cardinality(Slow)
    BY <1>2, <2>1, Counts DEF SignalOwes, SlowPC
  <2>3. Caller' = Caller /\ Caller[t] = "idle"
    BY <1>2, <2>1, CallerMove, CallerNames DEF SignalOwes
  <2>4. Permits' = Permits + 1
    BY <1>0, <1>2, <2>2 DEF SignalOwes, Permits, TypeOK
  <2>5. CS!Signal(t)
    BY <1>2, <2>3, <2>4 DEF SignalOwes, CS!Signal
  <2>6. QED
    BY <1>2, <2>5 DEF SignalOwes, CS!Next
<1>3. ASSUME NEW t \in Threads, SignalOverflows(t)
      PROVE  CS!Next
  <2>1. Slow' = Slow /\ Caller' = Caller /\ Caller[t] = "idle"
    BY <1>3, CallerNames DEF SignalOverflows, Slow, Caller
  <2>2. Permits' = Permits /\ Permits >= LongMax
    BY <1>0, <1>3, <2>1 DEF SignalOverflows, Permits, TypeOK
  <2>3. CS!Overflow(t)
    BY <1>3, <2>1, <2>2 DEF SignalOverflows, CS!Overflow
  <2>4. QED
    BY <1>3, <2>3 DEF SignalOverflows, CS!Next
<1>4. ASSUME NEW t \in Threads, SignalSlow(t)
      PROVE  UNCHANGED CS!vars
  <2>1. pc' = [pc EXCEPT ![t] = "idle"] /\ "idle" \in Labels
    BY <1>4 DEF SignalSlow, Goto, Labels, SlowPC
  <2>2. Cardinality(Slow') = Cardinality(Slow)
    BY <1>4, <2>1, Counts DEF SignalSlow, SlowPC
  <2>3. Caller' = Caller
    BY <1>4, <2>1, CallerMove, CallerNames DEF SignalSlow
  <2>4. Permits' = Permits
    BY <1>0, <1>4, <2>2 DEF SignalSlow, Permits, TypeOK
  <2>5. QED
    BY <1>4, <2>3, <2>4 DEF SignalSlow, CS!vars
<1>5. ASSUME NEW t \in Threads, WaitFast(t)
      PROVE  CS!Next
  <2>1. pc' = [pc EXCEPT ![t] = "idle"] /\ "idle" \in Labels
    BY <1>5 DEF WaitFast, Return, Labels, SlowPC
  <2>2. Cardinality(Slow') = Cardinality(Slow)
    BY <1>5, <2>1, Counts DEF WaitFast, SlowPC
  <2>3. Caller' = Caller /\ Caller[t] = "idle"
    BY <1>5, <2>1, CallerMove, CallerNames DEF WaitFast
  <2>4. Permits' = Permits - 1 /\ Permits > 0
    BY <1>0, <1>5, <2>2 DEF WaitFast, Permits, TypeOK, WakeupBalance
  <2>5. CS!AcquireAtOnce(t)
    BY <1>5, <2>3, <2>4 DEF WaitFast, Return, CS!AcquireAtOnce
  <2>6. QED
    BY <1>5, <2>5 DEF WaitFast, CS!Next
<1>6. ASSUME NEW t \in Threads, NEW timeout \in Timeouts,
             WaitEnterSlow(t, timeout)
      PROVE  CS!Next
  <2>1. SlowEntry(timeout) \in {"timedwait", "load", "waitForever"}
    BY DEF SlowEntry, Timeouts
  <2>2. /\ pc' = [pc EXCEPT ![t] = SlowEntry(timeout)]
        /\ SlowEntry(timeout) \in Labels
    BY <1>6, <2>1 DEF WaitEnterSlow, Goto, Labels, SlowPC
  <2>3. Cardinality(Slow') = Cardinality(Slow) + 1
    BY <1>6, <2>1, <2>2, Counts DEF WaitEnterSlow, SlowPC
  <2>4. PICK kind \in {"timed", "forever"} : CallerOf(SlowEntry(timeout)) = kind
    BY <2>1, CallerNames
  <2>5. Caller[t] = "idle" /\ Caller' = [Caller EXCEPT ![t] = kind]
    BY <1>6, <2>2, <2>4, CallerMove, CallerNames DEF WaitEnterSlow
  <2>6. Permits' = Permits
    BY <1>0, <1>6, <2>3 DEF WaitEnterSlow, Permits, TypeOK
  <2>7. CS!StartWaiting(t, kind)
    BY <1>6, <2>5, <2>6 DEF WaitEnterSlow, CS!StartWaiting
  <2>8. QED
    BY <1>6, <2>7 DEF WaitEnterSlow, CS!Next
<1>7. ASSUME NEW t \in Threads, KernelWakes(t)
      PROVE  CS!Next
  <2>1. pc' = [pc EXCEPT ![t] = "idle"] /\ "idle" \in Labels
    BY <1>7 DEF KernelWakes, Return, Labels, SlowPC
  <2>2. Cardinality(Slow') = Cardinality(Slow) - 1
    BY <1>7, <2>1, Counts DEF KernelWakes, SlowPC
  <2>3. /\ Caller[t] \in {"timed", "forever"}
        /\ Caller' = [Caller EXCEPT ![t] = "idle"]
    <3>1. pc[t] \in {"timedwait", "drain", "waitForever"}
      BY <1>7 DEF KernelWakes
    <3>2. CallerOf(pc[t]) \in {"timed", "forever"}
      BY <3>1, CallerNames
    <3>3. QED
      BY <2>1, <3>2, CallerMove, CallerNames
  <2>4. Permits' = Permits - 1 /\ Permits > 0
    BY <1>0, <1>7, <2>2 DEF KernelWakes, Permits, TypeOK, WakeupBalance
  <2>5. CS!Acquire(t)
    BY <1>7, <2>3, <2>4 DEF KernelWakes, Return, CS!Acquire
  <2>6. QED
    BY <1>7, <2>5 DEF KernelWakes, CS!Next
<1>8. ASSUME NEW t \in Threads, KernelTimesOut(t)
      PROVE  UNCHANGED CS!vars
  <2>1. pc' = [pc EXCEPT ![t] = "load"] /\ "load" \in Labels
    BY <1>8 DEF KernelTimesOut, Goto, Labels, SlowPC
  <2>2. Cardinality(Slow') = Cardinality(Slow)
    BY <1>8, <2>1, Counts DEF KernelTimesOut, SlowPC
  <2>3. Caller' = Caller
    BY <1>8, <2>1, CallerMove, CallerNames DEF KernelTimesOut
  <2>4. Permits' = Permits
    BY <1>0, <1>8, <2>2 DEF KernelTimesOut, Permits, TypeOK
  <2>5. QED
    BY <1>8, <2>3, <2>4 DEF KernelTimesOut, CS!vars
<1>9. ASSUME NEW t \in Threads, UndoLoad(t)
      PROVE  UNCHANGED CS!vars
  <2>1. pc' = [pc EXCEPT ![t] = "undo"] /\ "undo" \in Labels
    BY <1>9 DEF UndoLoad, Goto, Labels, SlowPC
  <2>2. Cardinality(Slow') = Cardinality(Slow)
    BY <1>9, <2>1, Counts DEF UndoLoad, SlowPC
  <2>3. Caller' = Caller
    BY <1>9, <2>1, CallerMove, CallerNames DEF UndoLoad
  <2>4. Permits' = Permits
    BY <1>0, <1>9, <2>2 DEF UndoLoad, Permits, TypeOK
  <2>5. QED
    BY <1>9, <2>3, <2>4 DEF UndoLoad, CS!vars
<1>10. ASSUME NEW t \in Threads, UndoSucceeds(t)
      PROVE  CS!Next
  <2>1. pc' = [pc EXCEPT ![t] = "idle"] /\ "idle" \in Labels
    BY <1>10 DEF UndoSucceeds, Return, Labels, SlowPC
  <2>2. Cardinality(Slow') = Cardinality(Slow) - 1
    BY <1>10, <2>1, Counts DEF UndoSucceeds, SlowPC
  <2>3. Caller[t] = "timed" /\ Caller' = [Caller EXCEPT ![t] = "idle"]
    BY <1>10, <2>1, CallerMove, CallerNames DEF UndoSucceeds
  <2>4. Permits' = Permits
    BY <1>0, <1>10, <2>2 DEF UndoSucceeds, Permits, TypeOK
  <2>5. CS!TimeOut(t)
    BY <1>10, <2>3, <2>4 DEF UndoSucceeds, Return, CS!TimeOut
  <2>6. QED
    BY <1>10, <2>5 DEF UndoSucceeds, CS!Next
<1>11. ASSUME NEW t \in Threads, UndoRetries(t)
       PROVE  UNCHANGED CS!vars
  BY <1>11 DEF UndoRetries, CS!vars, Permits, Slow, Caller
<1>12. ASSUME NEW t \in Threads, UndoTooLate(t)
      PROVE  UNCHANGED CS!vars
  <2>1. pc' = [pc EXCEPT ![t] = "drain"] /\ "drain" \in Labels
    BY <1>12 DEF UndoTooLate, Goto, Labels, SlowPC
  <2>2. Cardinality(Slow') = Cardinality(Slow)
    BY <1>12, <2>1, Counts DEF UndoTooLate, SlowPC
  <2>3. Caller' = Caller
    BY <1>12, <2>1, CallerMove, CallerNames DEF UndoTooLate
  <2>4. Permits' = Permits
    BY <1>0, <1>12, <2>2 DEF UndoTooLate, Permits, TypeOK
  <2>5. QED
    BY <1>12, <2>3, <2>4 DEF UndoTooLate, CS!vars
<1>13. ASSUME Dispose
       PROVE  CS!Next
  <2>1. Slow = {} /\ Slow' = Slow /\ Caller' = Caller
    BY <1>13 DEF Dispose, Slow, SlowPC, Caller
  <2>2. \A t \in Threads : Caller[t] = "idle"
    BY <1>13, CallerNames DEF Dispose, Caller
  <2>3. Permits = dsema_value /\ Permits' = Permits
    BY <1>13, <2>1, FS_EmptySet DEF Dispose, Permits, TypeOK
  <2>4. CS!Dispose
    BY <1>13, <2>1, <2>2, <2>3 DEF Dispose, CS!Dispose
  <2>5. QED
    BY <1>13, <2>4 DEF Dispose, CS!Next
<1>14. CASE UNCHANGED vars
  BY <1>14 DEF vars, CS!vars, Permits, Slow, Caller
<1>15. QED
  BY <1>1, <1>2, <1>3, <1>4, <1>5, <1>6, <1>7, <1>8, <1>9, <1>10, <1>11,
     <1>12, <1>13, <1>14 DEF Next, Continue

\* dispatch_semaphore_signal and dispatch_semaphore_wait, interleaved in any
\* way by any number of threads, implement the abstract counting semaphore.
THEOREM SemaphoreRefinement == Spec => ImplementsCountingSemaphore
<1>1. Spec => []IInv
  BY InitIInv, NextIInv, PTL DEF Spec
<1>2. QED
  BY <1>1, InitRefines, NextRefines, PTL
     DEF Spec, ImplementsCountingSemaphore, CS!Spec
=============================================================================
