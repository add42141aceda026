------------------------ MODULE DispatchCallsProofs ------------------------
(***************************************************************************)
(* Proofs about two calls of libdispatch.  dispatch_once calls the block of *)
(* a token at most once and no call returns before the block has, for any   *)
(* number of threads and tokens, blocks that call dispatch_once themselves, *)
(* and both builds.  dispatch_apply calls every index once, uses nothing    *)
(* that was freed, never reserves more width than a queue has and returns   *)
(* all of it, for any number of helpers, iterations and queues.             *)
(***************************************************************************)
EXTENDS DispatchOnce, DispatchApply, SequenceTheorems, FiniteSetTheorems, TLAPS

-----------------------------------------------------------------------------
(* dispatch_once *)

Points == {"out", "load", "quiesce", "tryenter", "callout", "broadcast", "wake", "wait",
           "sleep", "asleep", "returned"}

HeldValues == [is : {"held"}, by : Callers, waiters : BOOLEAN]

GateValues == {Unentered, Done} \cup {Gen(n) : n \in Nat} \cup HeldValues

OnceTypeOK ==
    /\ generation \in Nat
    /\ gate \in [Tokens -> GateValues]
    /\ inside \in [Callers -> Seq(Tokens)]
    /\ at \in [Callers -> [Tokens -> Points]]
    /\ began \in [Tokens -> Nat] /\ ended \in [Tokens -> Nat]

\* What a gate says of its block
GateCounts ==
    \A k \in Tokens :
        /\ gate[k].is = "unlocked" => began[k] = 0
        /\ gate[k].is # "unlocked" => began[k] = 1
        /\ gate[k].is \in {"gen", "done"} => ended[k] = 1
        /\ gate[k].is = "unlocked" => ended[k] = 0

\* What a call's point says of its gate: a thread in the block, or about to
\* broadcast, is the one the gate names; one that has passed has found it done
PointsAgree ==
    \A c \in Callers, k \in Tokens :
        /\ at[c][k] \in {"callout", "broadcast"} =>
             /\ gate[k].is = "held" /\ gate[k].by = c
             /\ ended[k] = (IF at[c][k] = "callout" THEN 0 ELSE 1)
        /\ at[c][k] \in {"quiesce", "wake", "returned"} => gate[k].is \in {"gen", "done"}

\* A call that is under way is one of the thread's nested calls, so that a new
\* call never takes the place of one in its block
CallsNested ==
    \A c \in Callers, k \in Tokens :
        at[c][k] \notin {"out", "returned"} => k \in ToSet(inside[c])

\* OnceAndBefore is not inductive: that a second thread cannot enter rests on
\* the gate naming the one inside.
OnceInv == OnceTypeOK /\ GateCounts /\ PointsAgree /\ CallsNested

-----------------------------------------------------------------------------
\* What is left of a sequence without its last element
LEMMA FrontKeeps ==
    ASSUME NEW S, NEW s \in Seq(S), s # <<>>
    PROVE  /\ Front(s) \in Seq(S)
           /\ \A x \in ToSet(s) : x # Last(s) => x \in ToSet(Front(s))
<1>1. Len(s) \in Nat \ {0}
  OBVIOUS
<1>2. Front(s) \in Seq(S) /\ Len(Front(s)) = Len(s) - 1
      /\ \A i \in 1 .. Len(s) - 1 : Front(s)[i] = s[i]
  <2>1. \A i \in 1 .. Len(s) - 1 : s[i] \in S
    BY <1>1
  <2>2. 1 \in Int /\ Len(s) - 1 \in Int
    BY <1>1
  <2> DEFINE n == Len(s) - 1
  <2>3. n \in Nat
    BY <1>1
  <2> HIDE DEF n
  <2>4. /\ SubSeq(s, 1, n) \in Seq(S)
        /\ Len(SubSeq(s, 1, n)) = (IF 1 <= n THEN n - 1 + 1 ELSE 0)
        /\ \A i \in 1 .. n - 1 + 1 : SubSeq(s, 1, n)[i] = s[1 + i - 1]
    BY <2>1, <2>2, <2>3, SubSeqProperties DEF n
  <2>5. n - 1 + 1 = n /\ \A i \in 1 .. n : 1 + i - 1 = i
    BY <2>3
  <2>6. QED
    BY <2>3, <2>4, <2>5 DEF Front, n
<1>3. ASSUME NEW x \in ToSet(s), x # Last(s)
      PROVE  x \in ToSet(Front(s))
  <2>1. PICK i \in 1 .. Len(s) : s[i] = x
    BY <1>3 DEF ToSet
  <2>2. i \in 1 .. Len(s) - 1
    BY <1>1, <1>3, <2>1 DEF Last
  <2>3. QED
    BY <1>2, <2>1, <2>2 DEF ToSet
<1>4. QED
  BY <1>2, <1>3

\* What a sequence with one element more contains
LEMMA AppendHas ==
    ASSUME NEW S, NEW s \in Seq(S), NEW e \in S
    PROVE  Append(s, e) \in Seq(S) /\ ToSet(Append(s, e)) = ToSet(s) \cup {e}
<1>1. /\ Append(s, e) \in Seq(S) /\ Len(Append(s, e)) = Len(s) + 1
      /\ Append(s, e)[Len(s) + 1] = e
      /\ \A i \in 1 .. Len(s) : Append(s, e)[i] = s[i]
  OBVIOUS
<1>2. DOMAIN Append(s, e) = 1 .. Len(s) + 1 /\ DOMAIN s = 1 .. Len(s) /\ Len(s) \in Nat
  BY <1>1
<1>3. ASSUME NEW x \in ToSet(Append(s, e)) PROVE x \in ToSet(s) \cup {e}
  <2>1. PICK i \in 1 .. Len(s) + 1 : Append(s, e)[i] = x
    BY <1>2, <1>3 DEF ToSet
  <2>2. QED
    BY <1>1, <1>2, <2>1 DEF ToSet
<1>4. ASSUME NEW x \in ToSet(s) \cup {e} PROVE x \in ToSet(Append(s, e))
  <2>1. CASE x = e
    BY <1>1, <1>2, <2>1 DEF ToSet
  <2>2. CASE x \in ToSet(s)
    <3>1. PICK i \in 1 .. Len(s) : s[i] = x
      BY <1>2, <2>2 DEF ToSet
    <3>2. QED
      BY <1>1, <1>2, <3>1 DEF ToSet
  <2>3. QED
    BY <1>4, <2>1, <2>2
<1>5. QED
  BY <1>1, <1>3, <1>4

\* The kinds of gate values are told apart by "is"
LEMMA GateKinds ==
    /\ Unentered.is = "unlocked" /\ Done.is = "done"
    /\ \A n : Gen(n).is = "gen"
    /\ \A c, w : Held(c, w).is = "held" /\ Held(c, w).by = c
BY DEF Unentered, Done, Gen, Held

\* and there are no others
LEMMA GateCases ==
    ASSUME NEW v \in GateValues
    PROVE  /\ v.is \in {"unlocked", "held", "gen", "done"}
           /\ v.is = "unlocked" => v = Unentered
           /\ v.is = "held" => v \in HeldValues
<1>1. CASE v \in {Unentered, Done}
  BY <1>1, GateKinds
<1>2. CASE \E n \in Nat : v = Gen(n)
  BY <1>2, GateKinds
<1>3. CASE v \in HeldValues
  BY <1>3 DEF HeldValues
<1>4. QED
  BY <1>1, <1>2, <1>3 DEF GateValues

\* Setting DLOCK_WAITERS_BIT leaves the owner
LEMMA WaitersBit ==
    ASSUME NEW v \in HeldValues
    PROVE  LET new == [v EXCEPT !.waiters = TRUE]
           IN new \in HeldValues /\ new.is = "held" /\ new.by = v.by
BY DEF HeldValues

\* What _dispatch_once_gate_tryenter stores
LEMMA HeldIsHeld ==
    ASSUME NEW c \in Callers
    PROVE  Held(c, FALSE) \in HeldValues
BY DEF Held, HeldValues

-----------------------------------------------------------------------------
\* No gate has been entered.
LEMMA InitOnceInv == OnceInit => OnceInv
<1> SUFFICES ASSUME OnceInit PROVE OnceInv
  OBVIOUS
<1>1. OnceTypeOK
  BY DEF OnceInit, OnceTypeOK, GateValues, Points
<1>2. GateCounts
  BY GateKinds DEF OnceInit, GateCounts
<1>3. PointsAgree /\ CallsNested
  BY DEF OnceInit, PointsAgree, CallsNested
<1>4. QED
  BY <1>1, <1>2, <1>3 DEF OnceInv

\* A call that ends where its gate is done keeps the invariant; the gate may
\* have become done with it.
LEMMA ReturnsKeeps ==
    ASSUME OnceInv, NEW c \in Callers, NEW k \in Tokens, inside[c] # <<>>, Last(inside[c]) = k,
           Returns(c, k), UNCHANGED <<generation, began, ended>>,
           gate' \in [Tokens -> GateValues],
           \A j \in Tokens \ {k} : gate'[j] = gate[j],
           gate'[k].is \in {"gen", "done"}, began[k] = 1, ended[k] = 1,
           \A d \in Callers : at[d][k] \in {"callout", "broadcast"} => d = c
    PROVE  OnceInv'
<1> USE DEF OnceInv
<1>1. at' = [at EXCEPT ![c][k] = "returned"] /\ inside' = [inside EXCEPT ![c] = Front(inside[c])]
  BY DEF Returns, To
<1>2. /\ Front(inside[c]) \in Seq(Tokens)
      /\ \A j \in ToSet(inside[c]) : j # k => j \in ToSet(Front(inside[c]))
  BY FrontKeeps DEF OnceTypeOK
<1>3. OnceTypeOK'
  BY <1>1, <1>2 DEF OnceTypeOK, Points
<1>4. GateCounts'
  BY DEF GateCounts
<1>5. PointsAgree'
  BY <1>1 DEF PointsAgree, OnceTypeOK
<1>6. CallsNested'
  BY <1>1, <1>2 DEF CallsNested, OnceTypeOK
<1>7. QED
  BY <1>3, <1>4, <1>5, <1>6

\* So does one that goes on inside the gate code, to a point that says no more
\* of the gate than is true
LEMMA MoveKeeps ==
    ASSUME OnceInv, NEW c \in Callers, NEW k \in Tokens, inside[c] # <<>>, Last(inside[c]) = k,
           NEW p \in Points \ {"callout", "broadcast", "returned"}, To(c, k, p),
           UNCHANGED <<generation, gate, inside, began, ended>>,
           p \in {"quiesce", "wake"} => gate[k].is \in {"gen", "done"}
    PROVE  OnceInv'
<1> USE DEF OnceInv
<1>1. at' = [at EXCEPT ![c][k] = p]
  BY DEF To
<1>2. k \in ToSet(inside[c])
  <2>1. inside[c] \in Seq(Tokens) /\ Len(inside[c]) \in 1 .. Len(inside[c])
    BY DEF OnceTypeOK
  <2>2. QED
    BY <2>1 DEF Last, ToSet
<1>3. OnceTypeOK'
  BY <1>1 DEF OnceTypeOK
<1>4. GateCounts'
  BY DEF GateCounts
<1>5. PointsAgree'
  BY <1>1 DEF PointsAgree, OnceTypeOK
<1>6. CallsNested'
  BY <1>1, <1>2 DEF CallsNested, OnceTypeOK
<1>7. QED
  BY <1>3, <1>4, <1>5, <1>6

\* Every step of every call keeps the invariant.
LEMMA NextOnceInv == OnceInv /\ [OnceNext]_onceVars => OnceInv'
<1> SUFFICES ASSUME OnceInv, [OnceNext]_onceVars
             PROVE  OnceInv'
  OBVIOUS
<1> USE DEF OnceInv
<1>1. ASSUME NEW c \in Callers, NEW k \in Tokens, dispatch_once_f(c, k)
      PROVE  OnceInv'
  <2>1. CASE k \in ToSet(inside[c])
    <3>1. UNCHANGED <<generation, gate, inside, at, began, ended>>
      BY <1>1, <2>1 DEF dispatch_once_f
    <3>2. QED
      BY <3>1 DEF OnceTypeOK, GateCounts, PointsAgree, CallsNested
  <2>2. CASE k \notin ToSet(inside[c])
    <3>1. /\ at' = [at EXCEPT ![c][k] = "load"] /\ UNCHANGED <<generation, gate, began, ended>>
          /\ inside' = [inside EXCEPT ![c] = Append(inside[c], k)]
      BY <1>1, <2>2 DEF dispatch_once_f, To
    <3>2. /\ Append(inside[c], k) \in Seq(Tokens)
          /\ ToSet(Append(inside[c], k)) = ToSet(inside[c]) \cup {k}
      BY AppendHas DEF OnceTypeOK
    <3>3. OnceTypeOK'
      BY <3>1, <3>2 DEF OnceTypeOK, Points
    <3>4. GateCounts' /\ PointsAgree'
      BY <3>1 DEF GateCounts, PointsAgree, OnceTypeOK
    <3>5. CallsNested'
      BY <3>1, <3>2 DEF CallsNested, OnceTypeOK
    <3>6. QED
      BY <3>3, <3>4, <3>5
  <2>3. QED
    BY <2>1, <2>2
<1>2. ASSUME NEW c \in Callers, NEW k \in Tokens, inside[c] # <<>>, Last(inside[c]) = k,
             Passed(c, k, gate[k]), UNCHANGED <<generation, gate, began, ended>>
      PROVE  OnceInv'
  <2>1. /\ gate[k].is \in {"gen", "done"} /\ began[k] = 1 /\ ended[k] = 1
        /\ \A d \in Callers : at[d][k] \notin {"callout", "broadcast"}
    BY <1>2 DEF Passed, GateCounts, PointsAgree
  <2>2. CASE Returns(c, k)
    BY <1>2, <2>1, <2>2, ReturnsKeeps DEF OnceTypeOK
  <2>3. CASE To(c, k, "quiesce") /\ UNCHANGED inside
    BY <1>2, <2>1, <2>3, MoveKeeps DEF Points
  <2>4. QED
    BY <1>2, <2>2, <2>3 DEF Passed
<1>3. ASSUME NEW c \in Callers, NEW k \in Tokens, Load(c, k)
      PROVE  OnceInv'
  <2>1. CASE Passed(c, k, gate[k])
    BY <1>2, <1>3, <2>1 DEF Load, Is
  <2>2. CASE To(c, k, "tryenter") /\ UNCHANGED inside
    BY <1>3, <2>2, MoveKeeps DEF Load, Is, Points
  <2>3. QED
    BY <1>3, <2>1, <2>2 DEF Load
<1>4. ASSUME NEW c \in Callers, NEW k \in Tokens, MarkDoneIfQuiesced(c, k)
      PROVE  OnceInv'
  <2>1. /\ gate[k].is \in {"gen", "done"} /\ began[k] = 1 /\ ended[k] = 1
        /\ \A d \in Callers : at[d][k] \notin {"callout", "broadcast"}
    BY <1>4 DEF MarkDoneIfQuiesced, Is, GateCounts, PointsAgree
  <2>2. gate' \in {gate, [gate EXCEPT ![k] = Done]}
    BY <1>4 DEF MarkDoneIfQuiesced
  <2>3. /\ gate' \in [Tokens -> GateValues] /\ gate'[k].is \in {"gen", "done"}
        /\ \A j \in Tokens \ {k} : gate'[j] = gate[j]
    BY <2>1, <2>2, GateKinds DEF OnceTypeOK, GateValues
  <2>4. QED
    BY <1>4, <2>1, <2>3, ReturnsKeeps DEF MarkDoneIfQuiesced, Is
<1>5. ASSUME NEW c \in Callers, NEW k \in Tokens, TryEnter(c, k)
      PROVE  OnceInv'
  <2>1. CASE gate[k] = Unentered
    <3> DEFINE h == Held(c, FALSE)
    <3>1. /\ gate' = [gate EXCEPT ![k] = h] /\ at' = [at EXCEPT ![c][k] = "callout"]
          /\ began' = [began EXCEPT ![k] = began[k] + 1] /\ UNCHANGED <<generation, inside, ended>>
      BY <1>5, <2>1 DEF TryEnter, To
    <3>2. h \in GateValues /\ h.is = "held" /\ h.by = c /\ gate[k].is = "unlocked"
      BY <2>1, GateKinds, HeldIsHeld DEF GateValues
    <3> HIDE DEF h
    <3>3. OnceTypeOK'
      BY <3>1, <3>2 DEF OnceTypeOK, Points
    <3>4. GateCounts'
      BY <3>1, <3>2 DEF GateCounts, OnceTypeOK
    <3>5. PointsAgree'
      BY <3>1, <3>2 DEF PointsAgree, GateCounts, OnceTypeOK
    <3>6. CallsNested'
      BY <1>5, <3>1 DEF CallsNested, OnceTypeOK, TryEnter, Is
    <3>7. QED
      BY <3>3, <3>4, <3>5, <3>6
  <2>2. CASE gate[k] # Unentered
    BY <1>5, <2>2, MoveKeeps DEF TryEnter, Is, Points
  <2>3. QED
    BY <2>1, <2>2
<1>6. ASSUME NEW c \in Callers, NEW k \in Tokens, BlockReturns(c, k)
      PROVE  OnceInv'
  <2>1. /\ at[c][k] = "callout" /\ at' = [at EXCEPT ![c][k] = "broadcast"]
        /\ ended' = [ended EXCEPT ![k] = ended[k] + 1]
        /\ UNCHANGED <<generation, gate, inside, began>>
    BY <1>6 DEF BlockReturns, Is, To
  <2>2. gate[k].is = "held" /\ gate[k].by = c /\ ended[k] = 0
    BY <2>1 DEF PointsAgree
  <2>3. OnceTypeOK'
    BY <2>1 DEF OnceTypeOK, Points
  <2>4. GateCounts'
    BY <2>1, <2>2 DEF GateCounts, OnceTypeOK
  <2>5. PointsAgree'
    BY <2>1, <2>2 DEF PointsAgree, OnceTypeOK
  <2>6. CallsNested'
    BY <2>1 DEF CallsNested, OnceTypeOK
  <2>7. QED
    BY <2>3, <2>4, <2>5, <2>6
<1>7. ASSUME NEW c \in Callers, NEW k \in Tokens, Broadcast(c, k)
      PROVE  OnceInv'
  <2>1. /\ at[c][k] = "broadcast" /\ inside[c] # <<>> /\ Last(inside[c]) = k
        /\ UNCHANGED <<generation, began, ended>>
        /\ gate' = [gate EXCEPT ![k] = IF quiescent THEN Gen(generation) ELSE Done]
    BY <1>7 DEF Broadcast, Is
  <2>2. /\ gate[k].is = "held" /\ gate[k].by = c /\ ended[k] = 1 /\ began[k] = 1
        /\ \A d \in Callers : at[d][k] \in {"callout", "broadcast"} => d = c
    BY <2>1 DEF PointsAgree, GateCounts
  <2>3. /\ gate' \in [Tokens -> GateValues] /\ gate'[k].is \in {"gen", "done"}
        /\ \A j \in Tokens \ {k} : gate'[j] = gate[j]
    BY <2>1, GateKinds DEF OnceTypeOK, GateValues
  <2>4. CASE Returns(c, k)
    BY <2>1, <2>2, <2>3, <2>4, ReturnsKeeps
  <2>5. CASE To(c, k, "wake") /\ UNCHANGED inside
    <3>1. at' = [at EXCEPT ![c][k] = "wake"]
      BY <2>5 DEF To
    <3>2. OnceTypeOK' /\ GateCounts'
      BY <2>1, <2>2, <2>3, <2>5, <3>1 DEF OnceTypeOK, GateCounts, Points
    <3>3. PointsAgree'
      BY <2>1, <2>2, <2>3, <3>1 DEF PointsAgree, OnceTypeOK
    <3>4. CallsNested'
      BY <2>1, <2>5, <3>1 DEF CallsNested, OnceTypeOK
    <3>5. QED
      BY <3>2, <3>3, <3>4
  <2>6. QED
    BY <1>7, <2>4, <2>5 DEF Broadcast
<1>8. ASSUME NEW c \in Callers, NEW k \in Tokens, Wake(c, k)
      PROVE  OnceInv'
  <2>1. /\ at[c][k] = "wake" /\ inside[c] # <<>> /\ Last(inside[c]) = k
        /\ inside' = [inside EXCEPT ![c] = Front(inside[c])]
        /\ UNCHANGED <<generation, gate, began, ended>>
        /\ at' = [d \in Callers |-> [at[d] EXCEPT ![k] =
                     IF d = c THEN "returned" ELSE IF at[d][k] = "asleep" THEN "wait" ELSE at[d][k]]]
    BY <1>8 DEF Wake, Is
  <2>2. /\ Front(inside[c]) \in Seq(Tokens)
        /\ \A j \in ToSet(inside[c]) : j # k => j \in ToSet(Front(inside[c]))
    BY <2>1, FrontKeeps DEF OnceTypeOK
  <2>3. /\ \A d \in Callers, j \in Tokens : j # k \/ (d # c /\ at[d][k] # "asleep") => at'[d][j] = at[d][j]
        /\ at'[c][k] = "returned"
        /\ \A d \in Callers : d # c /\ at[d][k] = "asleep" => at'[d][k] = "wait"
        /\ at' \in [Callers -> [Tokens -> Points]]
    BY <2>1 DEF OnceTypeOK, Points
  <2>4. OnceTypeOK' /\ GateCounts'
    BY <2>1, <2>2, <2>3 DEF OnceTypeOK, GateCounts
  <2>5. PointsAgree'
    BY <2>1, <2>3 DEF PointsAgree
  <2>6. CallsNested'
    BY <2>1, <2>2, <2>3 DEF CallsNested, OnceTypeOK
  <2>7. QED
    BY <2>4, <2>5, <2>6
<1>9. ASSUME NEW c \in Callers, NEW k \in Tokens, Wait(c, k)
      PROVE  OnceInv'
  <2>1. CASE Passed(c, k, gate[k]) /\ UNCHANGED gate
    BY <1>2, <1>9, <2>1 DEF Wait, Is
  <2>2. CASE gate[k].is = "held" /\ gate' = [gate EXCEPT ![k].waiters = TRUE]
             /\ To(c, k, "sleep") /\ UNCHANGED inside
    <3>1. /\ at[c][k] = "wait" /\ at' = [at EXCEPT ![c][k] = "sleep"]
          /\ UNCHANGED <<generation, inside, began, ended>>
      BY <1>9, <2>2 DEF Wait, Is, To
    <3>2. gate[k] \in HeldValues
      BY <2>2, GateCases DEF OnceTypeOK
    <3>3. /\ gate' \in [Tokens -> GateValues] /\ \A j \in Tokens \ {k} : gate'[j] = gate[j]
          /\ gate'[k].is = "held" /\ gate'[k].by = gate[k].by
      BY <2>2, <3>2, WaitersBit DEF OnceTypeOK, GateValues
    <3>4. OnceTypeOK' /\ GateCounts'
      BY <2>2, <3>1, <3>3 DEF OnceTypeOK, GateCounts, Points
    <3>5. PointsAgree'
      BY <2>2, <3>1, <3>3 DEF PointsAgree, OnceTypeOK
    <3>6. CallsNested'
      BY <3>1 DEF CallsNested, OnceTypeOK
    <3>7. QED
      BY <3>4, <3>5, <3>6
  <2>3. QED
    BY <1>9, <2>1, <2>2 DEF Wait
<1>10. ASSUME NEW c \in Callers, NEW k \in Tokens, Sleep(c, k) \/ Interrupted(c, k)
       PROVE  OnceInv'
  <2>1. PICK p \in {"asleep", "wait"} : To(c, k, p)
    BY <1>10 DEF Sleep, Interrupted
  <2>2. QED
    BY <1>10, <2>1, MoveKeeps DEF Sleep, Interrupted, Is, Points
<1>11. CASE Quiesce
  BY <1>11 DEF Quiesce, OnceTypeOK, GateCounts, PointsAgree, CallsNested
<1>12. CASE UNCHANGED onceVars
  BY <1>12 DEF onceVars, OnceTypeOK, GateCounts, PointsAgree, CallsNested
<1>13. QED
  BY <1>1, <1>3, <1>4, <1>5, <1>6, <1>7, <1>8, <1>9, <1>10, <1>11, <1>12 DEF OnceNext, OnceStep

-----------------------------------------------------------------------------
\* dispatch_once: in every execution, of any number of threads on any tokens,
\* with blocks that call dispatch_once on others, each block is called at most
\* once, and no call returns before it has returned.
THEOREM OnceSafety == OnceSpec => []OnceAndBefore
<1>1. OnceInv => OnceAndBefore
  <2> SUFFICES ASSUME OnceInv, NEW k \in Tokens
               PROVE  /\ began[k] <= 1
                      /\ \A c \in Callers : at[c][k] = "returned" => ended[k] = 1
    BY DEF OnceAndBefore
  <2>1. began[k] <= 1
    BY DEF OnceInv, GateCounts
  <2>2. ASSUME NEW c \in Callers, at[c][k] = "returned" PROVE ended[k] = 1
    BY <2>2 DEF OnceInv, GateCounts, PointsAgree
  <2>3. QED
    BY <2>1, <2>2
<1>2. QED
  BY <1>1, InitOnceInv, NextOnceInv, PTL DEF OnceSpec

-----------------------------------------------------------------------------
(* dispatch_apply *)

\* From the moment the continuations are there until the width goes back
Working == {"push", "first", "context", "call", "next", "todo", "signal", "wake", "out",
            "check", "compare", "asleep", "corrupt", "drop"}

Steps == Working \cup {"idle", "serial", "reserve", "giveBack", "relinquish", "returned", "queued"}

ApplyTypeOK ==
    /\ step \in [Executors -> Steps]
    /\ used \in [Queues -> Int] /\ others \in [Queues -> Nat]
    /\ level \in Nat \ {0} /\ undo \in Nat /\ width \in Int /\ excess \in Int

\* The width the call holds on queue q, by where its caller is: what it still
\* wants on the queues it has passed, with the excess where that has not yet
\* been given back
Mine(q) ==
    LET s == step[Caller]
    IN CASE s \in {"idle", "serial", "returned", "queued"} -> 0
         [] s \in {"reserve"} \cup Working -> IF q < level THEN width ELSE 0
         [] s = "giveBack" -> IF q < level THEN (IF q < undo THEN width ELSE width + excess)
                              ELSE IF q = level THEN width ELSE 0
         [] s = "relinquish" -> IF undo <= q /\ q < level THEN width ELSE 0

\* The local variables of _dispatch_apply_redirect
RedirectOK ==
    LET s == step[Caller]
    IN /\ s \in {"reserve", "giveBack", "relinquish"} \cup Working => width \in Nat
       /\ s \in {"reserve", "giveBack"} => level \in Queues
       /\ s = "giveBack" => excess \in Nat
       /\ s = "giveBack" => undo <= level /\ undo > 0
       /\ s \in Working \ {"push"} => undo = 1
       /\ s = "idle" => level = 1
       /\ s # "queued"

WidthInv ==
    /\ ApplyTypeOK /\ RedirectOK
    /\ \A q \in Queues : used[q] = others[q] + Mine(q) /\ used[q] <= QueueWidth[q]

-----------------------------------------------------------------------------
\* The queues are numbered from 1
LEMMA QueueFacts ==
    /\ Queues = 1 .. Len(QueueWidth) /\ Len(QueueWidth) \in Nat \ {0}
    /\ \A q \in Queues : QueueWidth[q] \in Nat \ {0}
BY ApplyAssumption DEF Queues

\* What a call takes of the width there is
LEMMA MinOfTwo ==
    ASSUME NEW a \in Int, NEW b \in Int
    PROVE  Min({a, b}) = (IF a <= b THEN a ELSE b)
BY DEF Min

\* The call never holds less than nothing
LEMMA MineIsNat == WidthInv => \A q \in Queues : Mine(q) \in Nat
BY QueueFacts DEF WidthInv, ApplyTypeOK, RedirectOK, Mine, Steps, Working, Executors

\* Nothing has been reserved.
LEMMA InitWidthInv == ApplyInit => WidthInv
BY QueueFacts DEF ApplyInit, WidthInv, ApplyTypeOK, RedirectOK, Mine, Steps, Working, Executors

\* A step that changes neither the caller's phase nor any of the variables of
\* the reservation keeps the invariant
LEMMA WorkKeeps ==
    ASSUME WidthInv, UNCHANGED redirect, step' \in [Executors -> Steps],
           \/ step'[Caller] = step[Caller]
           \/ step[Caller] \in Working \ {"push"} /\ step'[Caller] \in Working \ {"push"}
    PROVE  WidthInv'
<1>1. \A q \in Queues : Mine(q)' = Mine(q)
  BY DEF Mine, redirect, Working
<1>2. ApplyTypeOK' /\ RedirectOK'
  BY DEF WidthInv, ApplyTypeOK, RedirectOK, redirect, Working
<1>3. QED
  BY <1>1, <1>2 DEF WidthInv, redirect

\* A step that changes what the call holds on one queue, and the width in use
\* there by as much, keeps the balance
LEMMA OneQueueMoves ==
    ASSUME WidthInv, ApplyTypeOK', RedirectOK', others' = others,
           NEW q \in Queues, NEW d \in Int,
           used' = [used EXCEPT ![q] = used[q] + d], used[q] + d <= QueueWidth[q],
           Mine(q)' = Mine(q) + d, \A p \in Queues \ {q} : Mine(p)' = Mine(p)
    PROVE  WidthInv'
<1> SUFFICES ASSUME NEW p \in Queues
             PROVE  used'[p] = others'[p] + Mine(p)' /\ used'[p] <= QueueWidth[p]
  BY DEF WidthInv
<1>1. /\ used[p] = others[p] + Mine(p) /\ used[p] <= QueueWidth[p] /\ used[p] \in Int
      /\ others[p] \in Nat /\ Mine(p) \in Nat
  BY MineIsNat DEF WidthInv, ApplyTypeOK
<1>2. CASE p = q
  <2>1. used'[p] = used[p] + d
    BY <1>2 DEF WidthInv, ApplyTypeOK
  <2>2. Mine(p)' = Mine(p) + d
    BY <1>2
  <2>3. QED
    BY <1>1, <1>2, <2>1, <2>2
<1>3. CASE p # q
  <2>1. used'[p] = used[p] /\ Mine(p)' = Mine(p)
    BY <1>3 DEF WidthInv, ApplyTypeOK
  <2>2. QED
    BY <1>1, <2>1
<1>4. QED
  BY <1>2, <1>3

\* Every step, of the caller, of a helper and of the others, keeps the invariant.
LEMMA NextWidthInv == WidthInv /\ [ApplyNext]_applyVars => WidthInv'
<1> SUFFICES ASSUME WidthInv, [ApplyNext]_applyVars
             PROVE  WidthInv'
  OBVIOUS
<1> USE DEF Executors
<1>1. ASSUME NEW n \in Iterations, NEW nested \in Nesting, NEW root \in BOOLEAN, NEW same \in BOOLEAN,
             dispatch_apply_f(n, nested, root, same)
      PROVE  WidthInv'
  <2> DEFINE thr == ThreadCount(n, nested)
             serial == thr <= 1 \/ (~root /\ (QueueWidth[1] = 1 \/ same))
  <2>1. thr \in Int
    BY ApplyAssumption DEF ThreadCount
  <2>2. /\ width' = thr - 1 /\ step[Caller] = "idle"
        /\ step' = [step EXCEPT ![Caller] = IF serial THEN "serial" ELSE IF root THEN "push" ELSE "reserve"]
        /\ UNCHANGED <<used, others, level, excess, undo>>
    BY <1>1 DEF dispatch_apply_f, Go
  <2>3. serial \/ thr > 1
    BY <2>1
  <2> HIDE DEF thr, serial
  <2>4. CASE serial
    <3>1. step' = [step EXCEPT ![Caller] = "serial"]
      BY <2>2, <2>4
    <3>2. ApplyTypeOK' /\ RedirectOK'
      BY <2>1, <2>2, <3>1 DEF WidthInv, ApplyTypeOK, RedirectOK, Steps, Working
    <3>3. \A q \in Queues : Mine(q)' = 0 /\ Mine(q) = 0
      BY <2>2, <3>1 DEF WidthInv, ApplyTypeOK, Mine, Working
    <3>4. QED
      BY <2>2, <3>2, <3>3 DEF WidthInv
  <2>5. CASE ~serial /\ root
    <3>1. step' = [step EXCEPT ![Caller] = "push"] /\ width' \in Nat
      BY <2>1, <2>2, <2>3, <2>5
    <3>2. ApplyTypeOK' /\ RedirectOK'
      BY <2>2, <3>1, QueueFacts DEF WidthInv, ApplyTypeOK, RedirectOK, Steps, Working
    <3>3. \A q \in Queues : Mine(q)' = 0 /\ Mine(q) = 0
      BY <2>2, <3>1, QueueFacts DEF WidthInv, ApplyTypeOK, RedirectOK, Mine, Working
    <3>4. QED
      BY <2>2, <3>2, <3>3 DEF WidthInv
  <2>6. CASE ~serial /\ ~root
    <3>1. step' = [step EXCEPT ![Caller] = "reserve"] /\ width' \in Nat
      BY <2>1, <2>2, <2>3, <2>6
    <3>2. ApplyTypeOK' /\ RedirectOK'
      BY <2>2, <3>1, QueueFacts DEF WidthInv, ApplyTypeOK, RedirectOK, Steps, Working
    <3>3. \A q \in Queues : Mine(q)' = 0 /\ Mine(q) = 0
      BY <2>2, <3>1, QueueFacts DEF WidthInv, ApplyTypeOK, RedirectOK, Mine, Working
    <3>4. QED
      BY <2>2, <3>2, <3>3 DEF WidthInv
  <2>7. QED
    BY <2>4, <2>5, <2>6
<1>2. CASE Serial
  <2>1. /\ step[Caller] = "serial" /\ UNCHANGED redirect
        /\ step' = step \/ step' = [step EXCEPT ![Caller] = "returned"]
    BY <1>2 DEF Serial, Go
  <2>2. QED
    BY <2>1 DEF WidthInv, ApplyTypeOK, RedirectOK, Mine, Steps, Working, redirect
<1>3. CASE Reserve
  <2> DEFINE avail == IF QueueWidth[level] = 1 THEN 0 ELSE QueueWidth[level] - used[level]
             got == Min({avail, width})
  <2>1. /\ step[Caller] = "reserve" /\ level \in Queues /\ width \in Nat
        /\ used[level] \in Int /\ used[level] <= QueueWidth[level]
    BY <1>3 DEF Reserve, WidthInv, ApplyTypeOK, RedirectOK
  <2>2. avail \in Nat /\ used[level] + avail <= QueueWidth[level]
    BY <2>1, QueueFacts
  <2>3. got \in Nat /\ got <= width /\ used[level] + got <= QueueWidth[level]
    <3> HIDE DEF avail
    <3>1. got = IF avail <= width THEN avail ELSE width
      BY <2>1, <2>2, MinOfTwo
    <3> HIDE DEF got
    <3>2. QueueWidth[level] \in Nat
      BY <2>1, QueueFacts
    <3>3. QED
      BY <2>1, <2>2, <3>1, <3>2
  <2>4. /\ used' = [used EXCEPT ![level] = used[level] + got]
        /\ excess' = width - got /\ width' = got /\ undo' = 1 /\ UNCHANGED others
        /\ IF got < width THEN step' = [step EXCEPT ![Caller] = "giveBack"] /\ level' = level
           ELSE /\ level' = level + 1
                /\ step' = [step EXCEPT ![Caller] = IF level' \in Queues THEN "reserve" ELSE "push"]
    BY <1>3 DEF Reserve, Go
  <2> HIDE DEF avail, got
  <2>5. \A q \in Queues : Mine(q) = IF q < level THEN width ELSE 0
    BY <2>1 DEF Mine, Working
  <2>6. CASE got < width
    <3>1. step' = [step EXCEPT ![Caller] = "giveBack"] /\ level' = level
      BY <2>4, <2>6
    <3>2. ApplyTypeOK' /\ RedirectOK'
      BY <2>1, <2>3, <2>4, <3>1, QueueFacts DEF WidthInv, ApplyTypeOK, RedirectOK, Steps, Working
    <3>3. \A q \in Queues : Mine(q)' = IF q < level THEN width ELSE IF q = level THEN got ELSE 0
      BY <2>1, <2>3, <2>4, <3>1, QueueFacts DEF Mine, WidthInv, ApplyTypeOK, Working
    <3>4. PICK l \in Queues, g \in Int : l = level /\ g = got
      BY <2>1, <2>3
    <3>5. Mine(l)' = Mine(l) + g /\ \A q \in Queues \ {l} : Mine(q)' = Mine(q)
      BY <2>1, <2>3, <2>5, <3>3, <3>4, QueueFacts
    <3>6. QED
      BY <2>3, <2>4, <3>2, <3>4, <3>5, OneQueueMoves
  <2>7. CASE got = width
    <3>1. level' = level + 1 /\ step' = [step EXCEPT ![Caller] = IF level' \in Queues THEN "reserve" ELSE "push"]
      BY <2>1, <2>4, <2>7
    <3>2. ApplyTypeOK' /\ RedirectOK'
      BY <2>1, <2>3, <2>4, <3>1, QueueFacts DEF WidthInv, ApplyTypeOK, RedirectOK, Steps, Working
    <3>3. \A q \in Queues : Mine(q)' = IF q < level + 1 THEN width ELSE 0
      <4>1. CASE level' \in Queues
        BY <2>4, <2>7, <3>1, <4>1 DEF Mine, WidthInv, ApplyTypeOK, Working
      <4>2. CASE level' \notin Queues
        BY <2>4, <2>7, <3>1, <4>2 DEF Mine, WidthInv, ApplyTypeOK, Working
      <4>3. QED
        BY <4>1, <4>2
    <3>4. PICK l \in Queues, g \in Int : l = level /\ g = got
      BY <2>1, <2>3
    <3>5. Mine(l)' = Mine(l) + g /\ \A q \in Queues \ {l} : Mine(q)' = Mine(q)
      BY <2>1, <2>3, <2>5, <2>7, <3>3, <3>4, QueueFacts
    <3>6. QED
      BY <2>3, <2>4, <3>2, <3>4, <3>5, OneQueueMoves
  <2>8. QED
    BY <2>1, <2>3, <2>6, <2>7
<1>4. CASE GiveBack
  <2>1. /\ step[Caller] = "giveBack" /\ level \in Queues /\ level \in Nat \ {0} /\ undo \in Nat \ {0}
        /\ undo <= level /\ width \in Nat /\ excess \in Nat /\ UNCHANGED <<others, width, excess>>
    BY <1>4 DEF GiveBack, WidthInv, ApplyTypeOK, RedirectOK
  <2>2. \A q \in Queues :
           Mine(q) = IF q < level THEN (IF q < undo THEN width ELSE width + excess)
                     ELSE IF q = level THEN width ELSE 0
    BY <2>1 DEF Mine, Working
  <2>3. CASE undo < level
    <3>1. /\ used' = [used EXCEPT ![undo] = used[undo] - excess] /\ undo' = undo + 1
          /\ UNCHANGED <<step, level>> /\ undo \in Queues
      BY <1>4, <2>1, <2>3, QueueFacts DEF GiveBack
    <3>2. ApplyTypeOK' /\ RedirectOK'
      BY <2>1, <2>3, <3>1 DEF WidthInv, ApplyTypeOK, RedirectOK, Working
    <3>3. \A q \in Queues :
             Mine(q)' = IF q < level THEN (IF q < undo + 1 THEN width ELSE width + excess)
                        ELSE IF q = level THEN width ELSE 0
      BY <2>1, <3>1 DEF Mine, Working
    <3>4. PICK u \in Queues, d \in Int : u = undo /\ d = -excess
      BY <2>1, <3>1
    <3>5. u \in Nat /\ QueueWidth[u] \in Nat /\ used[u] \in Int /\ used[u] <= QueueWidth[u]
      BY QueueFacts DEF WidthInv, ApplyTypeOK
    <3>6. used[u] - excess = used[u] + d /\ used[u] + d <= QueueWidth[u]
      BY <2>1, <3>4, <3>5
    <3>7. Mine(u)' = Mine(u) + d
      BY <2>1, <2>2, <2>3, <3>3, <3>4, <3>5
    <3>8. \A q \in Queues \ {u} : Mine(q)' = Mine(q)
      BY <2>1, <2>2, <2>3, <3>3, <3>4, QueueFacts
    <3>9. QED
      BY <2>1, <3>1, <3>2, <3>4, <3>6, <3>7, <3>8, OneQueueMoves
  <2>4. CASE ~(undo < level)
    <3>1. /\ step' = [step EXCEPT ![Caller] = IF width = 0 THEN "serial"
                                               ELSE IF level + 1 \in Queues THEN "reserve" ELSE "push"]
          /\ level' = level + 1 /\ UNCHANGED <<used, undo>>
      BY <1>4, <2>4 DEF GiveBack, Go
    <3>2. ApplyTypeOK' /\ RedirectOK'
      BY <2>1, <3>1 DEF WidthInv, ApplyTypeOK, RedirectOK, Steps, Working
    <3>3. \A q \in Queues : Mine(q)' = IF q < level + 1 THEN width ELSE 0
      <4>1. CASE width = 0
        BY <2>1, <3>1, <4>1, QueueFacts DEF Mine, WidthInv, ApplyTypeOK, Working
      <4>2. CASE width # 0 /\ level + 1 \in Queues
        BY <2>1, <3>1, <4>2 DEF Mine, WidthInv, ApplyTypeOK, Working
      <4>3. CASE width # 0 /\ level + 1 \notin Queues
        BY <2>1, <3>1, <4>3 DEF Mine, WidthInv, ApplyTypeOK, Working
      <4>4. QED
        BY <4>1, <4>2, <4>3
    <3>4. \A q \in Queues : Mine(q)' = Mine(q)
      BY <2>1, <2>2, <2>4, <3>3, QueueFacts
    <3>5. QED
      BY <2>1, <3>1, <3>2, <3>4 DEF WidthInv
  <2>5. QED
    BY <2>3, <2>4
<1>5. CASE Push
  <2>1. /\ step[Caller] = "push" /\ undo' = 1 /\ step'[Caller] = "first"
        /\ step' \in [Executors -> Steps]
        /\ UNCHANGED <<used, others, level, width, excess>>
    BY <1>5, ApplyAssumption DEF Push, kSubset, WidthInv, ApplyTypeOK, Steps, Working, Caller
  <2>2. QED
    BY <2>1 DEF WidthInv, ApplyTypeOK, RedirectOK, Mine, Working
<1>6. ASSUME NEW h \in Helpers, Starts(h)
      PROVE  WidthInv'
  BY <1>6, WorkKeeps, ApplyAssumption DEF Starts, Go, WidthInv, ApplyTypeOK, Steps, Working, Caller
<1>7. ASSUME NEW e \in Executors,
             FirstIndex(e) \/ ReadContext(e) \/ Invoke(e) \/ NextIndex(e) \/ Todo(e) \/ Signal(e)
      PROVE  WidthInv'
  <2>1. PICK s \in Working \ {"push"} : step' = [step EXCEPT ![e] = s] /\ step[e] \in Working \ {"push"}
    BY <1>7 DEF FirstIndex, ReadContext, Invoke, NextIndex, Todo, Signal, Go, Working
  <2>2. UNCHANGED redirect
    BY <1>7 DEF FirstIndex, ReadContext, Invoke, NextIndex, Todo, Signal
  <2>3. QED
    BY <2>1, <2>2, WorkKeeps DEF WidthInv, ApplyTypeOK, Steps, Caller
<1>8. ASSUME NEW e \in Executors, WakeCaller(e)
      PROVE  WidthInv'
  BY <1>8, WorkKeeps DEF WakeCaller, WidthInv, ApplyTypeOK, Steps, Working, Caller
<1>9. CASE WaitEvent \/ CheckEvent \/ SleepOnEvent \/ EventInterrupted
  <2>1. PICK s \in Working \ {"push"} : step' = [step EXCEPT ![Caller] = s] /\ step[Caller] \in Working \ {"push"}
    BY <1>9 DEF WaitEvent, CheckEvent, SleepOnEvent, EventInterrupted, Go, Working
  <2>2. UNCHANGED redirect
    BY <1>9 DEF WaitEvent, CheckEvent, SleepOnEvent, EventInterrupted
  <2>3. QED
    BY <2>1, <2>2, WorkKeeps DEF WidthInv, ApplyTypeOK, Steps
<1>10. ASSUME NEW e \in Executors, DropReference(e)
       PROVE  WidthInv'
  <2>1. CASE e = Caller
    <3>1. step[Caller] = "drop" /\ step' = [step EXCEPT ![Caller] = "relinquish"] /\ UNCHANGED redirect
      BY <1>10, <2>1 DEF DropReference, Go
    <3>2. QED
      BY <3>1, QueueFacts DEF WidthInv, ApplyTypeOK, RedirectOK, Mine, Steps, Working, redirect
  <2>2. CASE e # Caller
    <3>1. step' = [step EXCEPT ![e] = "idle"] /\ UNCHANGED redirect
      BY <1>10, <2>2 DEF DropReference, Go
    <3>2. QED
      BY <2>2, <3>1, WorkKeeps DEF WidthInv, ApplyTypeOK, Steps
  <2>3. QED
    BY <2>1, <2>2
<1>11. CASE Relinquish
  <2>1. /\ step[Caller] = "relinquish" /\ width \in Nat /\ undo \in Nat /\ level \in Nat \ {0}
        /\ UNCHANGED <<others, level, width, excess>>
    BY <1>11 DEF Relinquish, WidthInv, ApplyTypeOK, RedirectOK
  <2>2. \A q \in Queues : Mine(q) = IF undo <= q /\ q < level THEN width ELSE 0
    BY <2>1 DEF Mine, Working
  <2>3. CASE undo < level
    <3>1. used' = [used EXCEPT ![undo] = used[undo] - width] /\ undo' = undo + 1 /\ UNCHANGED step
      BY <1>11, <2>3 DEF Relinquish
    <3>2. ApplyTypeOK' /\ RedirectOK'
      <4>1. used' \in [Queues -> Int] /\ undo' \in Nat
        <5>1. \A q \in Queues : used[q] - width \in Int
          BY <2>1 DEF WidthInv, ApplyTypeOK
        <5>2. used \in [Queues -> Int]
          BY DEF WidthInv, ApplyTypeOK
        <5>3. DOMAIN used' = Queues /\ \A q \in Queues : used'[q] \in {used[q], used[q] - width}
          BY <3>1, <5>2
        <5>4. \A q \in Queues : used'[q] \in Int
          BY <5>1, <5>2, <5>3
        <5>5. used' = [q \in Queues |-> used'[q]]
          BY <3>1, <5>2, <5>3
        <5>6. used' \in [Queues -> Int]
          BY <5>4, <5>5
        <5>7. undo' \in Nat
          BY <2>1, <3>1
        <5>8. QED
          BY <5>6, <5>7
      <4>2. ApplyTypeOK'
        BY <2>1, <3>1, <4>1 DEF WidthInv, ApplyTypeOK
      <4>3. RedirectOK'
        BY <2>1, <3>1 DEF WidthInv, RedirectOK, Working
      <4>4. QED
        BY <4>2, <4>3
    <3>3. \A q \in Queues : Mine(q)' = IF undo + 1 <= q /\ q < level THEN width ELSE 0
      BY <2>1, <3>1 DEF Mine, Working
    <3>4. QED
      BY <2>1, <2>2, <2>3, <3>1, <3>2, <3>3, QueueFacts DEF WidthInv, ApplyTypeOK
  <2>4. CASE ~(undo < level)
    <3>1. step' = [step EXCEPT ![Caller] = "returned"] /\ UNCHANGED <<used, undo>>
      BY <1>11, <2>4 DEF Relinquish, Go
    <3>2. ApplyTypeOK' /\ RedirectOK'
      BY <2>1, <3>1 DEF WidthInv, ApplyTypeOK, RedirectOK, Steps, Working
    <3>3. \A q \in Queues : Mine(q)' = 0 /\ Mine(q) = 0
      BY <2>1, <2>2, <2>4, <3>1, QueueFacts DEF Mine, WidthInv, ApplyTypeOK, Working
    <3>4. QED
      BY <2>1, <3>1, <3>2, <3>3 DEF WidthInv
  <2>5. QED
    BY <2>3, <2>4
<1>12. ASSUME NEW q \in Queues, OtherTakes(q) \/ OtherReturns(q)
       PROVE  WidthInv'
  <2>1. \A p \in Queues : Mine(p)' = Mine(p)
    BY <1>12 DEF OtherTakes, OtherReturns, Mine
  <2>2. RedirectOK'
    BY <1>12 DEF OtherTakes, OtherReturns, WidthInv, RedirectOK
  <2>3. CASE OtherTakes(q)
    <3>1. ApplyTypeOK'
      BY <2>3 DEF OtherTakes, WidthInv, ApplyTypeOK
    <3>2. \A p \in Queues : used'[p] = others'[p] + Mine(p) /\ used'[p] <= QueueWidth[p]
      BY <2>3, QueueFacts, MineIsNat DEF OtherTakes, WidthInv, ApplyTypeOK
    <3>3. QED
      BY <2>1, <2>2, <3>1, <3>2 DEF WidthInv
  <2>4. CASE OtherReturns(q)
    <3>1. ApplyTypeOK'
      BY <2>4 DEF OtherReturns, WidthInv, ApplyTypeOK
    <3>2. \A p \in Queues : used'[p] = others'[p] + Mine(p) /\ used'[p] <= QueueWidth[p]
      <4>1. used' = [used EXCEPT ![q] = used[q] - 1] /\ others' = [others EXCEPT ![q] = others[q] - 1]
        BY <2>4 DEF OtherReturns
      <4>2. \A p \in Queues : /\ used[p] = others[p] + Mine(p) /\ used[p] <= QueueWidth[p]
                              /\ used[p] \in Int /\ others[p] \in Nat /\ Mine(p) \in Nat
                              /\ QueueWidth[p] \in Nat
        BY QueueFacts, MineIsNat DEF WidthInv, ApplyTypeOK
      <4>3. QED
        BY <4>1, <4>2 DEF WidthInv, ApplyTypeOK
    <3>3. QED
      BY <2>1, <2>2, <3>1, <3>2 DEF WidthInv
  <2>5. QED
    BY <1>12, <2>3, <2>4
<1>13. CASE UNCHANGED applyVars
  BY <1>13 DEF applyVars, WidthInv, ApplyTypeOK, RedirectOK, Mine
<1>14. QED
  BY <1>1, <1>2, <1>3, <1>4, <1>5, <1>6, <1>7, <1>8, <1>9, <1>10, <1>11, <1>12, <1>13
     DEF ApplyNext, CallerStep, ApplyStep

\* dispatch_apply: whatever width other work on the queues takes and returns
\* meanwhile, and however many levels the reservation has come down when it is
\* cut short, no queue is used beyond its width, and when the call returns it
\* holds none.
THEOREM ApplyWidth == ApplySpec => []WidthReturned
<1>1. WidthInv => WidthReturned
  <2> SUFFICES ASSUME WidthInv, NEW q \in Queues
               PROVE  /\ others[q] <= used[q] /\ used[q] <= QueueWidth[q]
                      /\ Returned => used[q] = others[q]
    BY DEF WidthReturned
  <2>1. used[q] = others[q] + Mine(q) /\ Mine(q) \in Nat /\ others[q] \in Nat
    BY MineIsNat DEF WidthInv, ApplyTypeOK
  <2>2. others[q] <= used[q] /\ used[q] <= QueueWidth[q]
    BY <2>1 DEF WidthInv
  <2>3. ASSUME Returned PROVE used[q] = others[q]
    <3>1. Mine(q) = 0
      BY <2>3 DEF Mine, Returned, Working
    <3>2. QED
      BY <2>1, <3>1
  <2>4. QED
    BY <2>2, <2>3
<1>2. QED
  BY <1>1, InitWidthInv, NextWidthInv, PTL DEF ApplySpec

-----------------------------------------------------------------------------
(* Indices, the thread event and the memory of the call *)

Before == {"idle", "serial", "reserve", "giveBack", "push"}
Waited == {"check", "compare", "asleep", "corrupt", "drop", "relinquish", "returned"}
Gone == {"idle", "relinquish", "returned"}

Indices == 0 .. da.iterations - 1

IndexTypeOK ==
    /\ step \in [Executors -> Steps]
    /\ da \in [index : Nat, todo : Int, iterations : Nat, thr : Int, event : Int]
    /\ idx \in [Executors -> Nat] /\ done \in [Executors -> Nat] /\ freed \in BOOLEAN
    /\ step[Caller] # "idle" => invoked \in [Indices -> Nat]

\* The call has not pushed its continuations, and perhaps never will
Sequential ==
    /\ step[Caller] \in Before /\ ~freed
    /\ \A h \in Helpers : step[h] = "idle"
    /\ \A e \in Executors : done[e] = 0
    /\ da.index = 0 /\ da.event = 0 /\ da.todo = da.iterations
    /\ step[Caller] # "idle" =>
         \A i \in Indices : invoked[i] = IF step[Caller] = "serial" /\ i < idx[Caller] THEN 1 ELSE 0
    /\ step[Caller] # "serial" => idx[Caller] = 0
    /\ step[Caller] = "serial" => idx[Caller] < da.iterations
    /\ step[Caller] # "idle" => da.iterations > 0

\* The serial call has returned
Finished ==
    /\ Returned /\ freed /\ \A h \in Helpers : step[h] = "idle"
    /\ \A i \in Indices : invoked[i] = 1

\* An index that was handed out and not called yet has one holder
Holding(e) == step[e] \in {"context", "call"}
OneHolder ==
    /\ \A e \in Executors :
          Holding(e) => idx[e] \in Indices /\ idx[e] < da.index /\ invoked[idx[e]] = 0
    /\ \A e, f \in Executors : Holding(e) /\ Holding(f) /\ idx[e] = idx[f] => e = f
    /\ \A i \in Indices : invoked[i] \in {0, 1} /\ (i >= da.index => invoked[i] = 0)

DoneCounts ==
    \A e \in Executors :
        /\ step[e] \in {"queued", "first", "context"} => done[e] = 0
        /\ step[e] \in {"next", "todo"} => done[e] > 0

\* What da_todo has not been told of yet
Pending(e) == IF step[e] \in {"call", "next", "todo"} THEN done[e] ELSE 0

\* Every call belongs to the executor that has not subtracted it from da_todo
\* yet, or to those counted already, and to one of them only: share[e] and
\* counted are the indices.
Shares(share, counted) ==
    /\ \A e \in Executors : share[e] \cap counted = {}
    /\ \A e, f \in Executors : e # f => share[e] \cap share[f] = {}
    /\ \A e \in Executors : \A i \in share[e] : invoked[i] = 1
    /\ \A i \in counted : invoked[i] = 1
    /\ \A e \in Executors : Cardinality(share[e]) = Pending(e)
    /\ Cardinality(counted) = da.iterations - da.todo

SharesExist ==
    \E share \in [Executors -> SUBSET Indices], counted \in SUBSET Indices : Shares(share, counted)

\* The event is signalled once, when nothing is left to do, and the caller gets
\* past it only then
Sent == da.event + (IF step[Caller] \in Waited THEN 1 ELSE 0)
OneSignal ==
    /\ Sent \in {0, 1}
    /\ \A e \in Executors : step[e] = "signal" => Sent = 0 /\ da.todo = 0
    /\ \A e, f \in Executors : step[e] = "signal" /\ step[f] = "signal" => e = f
    /\ Sent = 1 => da.todo = 0
    /\ step[Caller] \in {"drop", "relinquish", "returned"} => Sent = 1

\* da_thr_cnt counts the executors that still use da
Users == {e \in Executors : step[e] \notin Gone}
UsersCounted == da.thr = Cardinality(Users) /\ (freed <=> da.thr = 0)

Parallel ==
    /\ step[Caller] \notin Before \cup {"queued"}
    /\ OneHolder /\ DoneCounts /\ SharesExist /\ OneSignal /\ UsersCounted

IndexInv == IndexTypeOK /\ (Sequential \/ Finished \/ Parallel)

-----------------------------------------------------------------------------
\* The indices are a finite set
LEMMA IndicesFinite ==
    ASSUME IndexTypeOK
    PROVE  /\ IsFiniteSet(Indices) /\ Cardinality(Indices) = da.iterations
           /\ \A S \in SUBSET Indices : IsFiniteSet(S) /\ Cardinality(S) \in Nat
                                        /\ Cardinality(S) <= da.iterations
                                        /\ (Cardinality(S) = da.iterations => S = Indices)
<1>1. da.iterations \in Nat /\ 0 \in Int /\ da.iterations - 1 \in Int
  BY DEF IndexTypeOK
<1>2. IsFiniteSet(Indices) /\ Cardinality(Indices) = da.iterations
  <2> DEFINE n == da.iterations
  <2>1. /\ IsFiniteSet(0 .. n - 1)
        /\ Cardinality(0 .. n - 1) = IF 0 > n - 1 THEN 0 ELSE (n - 1) - 0 + 1
    BY <1>1, FS_Interval
  <2>2. (IF 0 > n - 1 THEN 0 ELSE (n - 1) - 0 + 1) = n
    BY <1>1
  <2>3. QED
    BY <2>1, <2>2 DEF Indices
<1>3. ASSUME NEW S \in SUBSET Indices
      PROVE  IsFiniteSet(S) /\ Cardinality(S) \in Nat /\ Cardinality(S) <= da.iterations
             /\ (Cardinality(S) = da.iterations => S = Indices)
  BY <1>2, FS_Subset, FS_CardinalityType
<1>4. QED
  BY <1>2, <1>3

\* When da_todo is zero every index was called, and nobody is at work
LEMMA NothingLeft ==
    ASSUME IndexTypeOK, Parallel, da.todo = 0
    PROVE  /\ \A i \in Indices : invoked[i] = 1
           /\ \A e \in Executors : step[e] \notin {"context", "call", "next", "todo"}
<1>1. PICK share \in [Executors -> SUBSET Indices], counted \in SUBSET Indices : Shares(share, counted)
  BY DEF Parallel, SharesExist
<1>2. counted = Indices
  <2>1. Cardinality(counted) = da.iterations
    BY <1>1 DEF Shares, IndexTypeOK
  <2>2. QED
    BY <2>1, IndicesFinite
<1>3. \A i \in Indices : invoked[i] = 1
  BY <1>1, <1>2 DEF Shares
<1>4. ASSUME NEW e \in Executors PROVE step[e] \notin {"context", "call", "next", "todo"}
  <2>1. share[e] \in SUBSET Indices /\ share[e] \cap counted = {}
    BY <1>1 DEF Shares
  <2>2. share[e] = {}
    BY <1>2, <2>1
  <2>3. Pending(e) = 0
    BY <1>1, <2>2, FS_EmptySet DEF Shares
  <2>4. step[e] \notin {"next", "todo"}
    BY <2>3 DEF Pending, Parallel, DoneCounts, IndexTypeOK
  <2>5. step[e] \notin {"context", "call"}
    BY <1>3 DEF Parallel, OneHolder, Holding
  <2>6. QED
    BY <2>4, <2>5
<1>5. QED
  BY <1>3, <1>4

\* A step that calls no index and subtracts none from da_todo leaves the shares
LEMMA SameShares ==
    ASSUME SharesExist, UNCHANGED invoked, da'.iterations = da.iterations, da'.todo = da.todo,
           \A e \in Executors : Pending(e)' = Pending(e)
    PROVE  SharesExist'
<1>1. PICK share \in [Executors -> SUBSET Indices], counted \in SUBSET Indices : Shares(share, counted)
  BY DEF SharesExist
<1>2. Indices' = Indices
  BY DEF Indices
<1>3. Shares(share, counted)'
  BY <1>1 DEF Shares
<1>4. QED
  BY <1>2, <1>3 DEF SharesExist

\* Executors are finitely many
LEMMA UsersFinite == IsFiniteSet(Users) /\ Cardinality(Users) \in Nat
<1>1. IsFiniteSet(Helpers) /\ IsFiniteSet(Executors)
  BY ApplyAssumption, FS_AddElement DEF Executors
<1>2. QED
  BY <1>1, FS_Subset, FS_CardinalityType DEF Users

\* A step of one executor that keeps it among the users, or leaves it outside
LEMMA SameUsers ==
    ASSUME IndexTypeOK, UsersCounted, da'.thr = da.thr, UNCHANGED freed,
           \A e \in Executors : step'[e] \in Gone <=> step[e] \in Gone
    PROVE  UsersCounted'
BY DEF UsersCounted, Users

\* Before the continuations are pushed only the caller moves.
LEMMA SequentialStep ==
    ASSUME WidthInv', IndexTypeOK, Sequential, ApplyNext
    PROVE  IndexInv'
<1> USE DEF Executors
<1>1. ASSUME NEW n \in Iterations, NEW nested \in Nesting, NEW root \in BOOLEAN, NEW same \in BOOLEAN,
             dispatch_apply_f(n, nested, root, same)
      PROVE  IndexInv'
  <2> DEFINE thr == ThreadCount(n, nested)
  <2>1. thr \in Int
    BY ApplyAssumption DEF ThreadCount
  <2>2. n \in Nat \ {0}
    BY <1>1, ApplyAssumption DEF dispatch_apply_f
  <2>3. /\ step[Caller] = "idle" /\ UNCHANGED <<freed, idx, done>>
        /\ da' = [index |-> 0, todo |-> n, iterations |-> n, thr |-> thr, event |-> 0]
        /\ invoked' = [i \in 0 .. n - 1 |-> 0]
        /\ \E s \in {"serial", "push", "reserve"} : step' = [step EXCEPT ![Caller] = s]
    BY <1>1 DEF dispatch_apply_f, Go
  <2> HIDE DEF thr
  <2>4. Indices' = 0 .. n - 1
    BY <2>3 DEF Indices
  <2>5. IndexTypeOK'
    BY <2>1, <2>2, <2>3, <2>4 DEF IndexTypeOK, Steps, Working
  <2>6. Sequential'
    BY <2>2, <2>3, <2>4, ApplyAssumption DEF IndexTypeOK, Sequential, Before, Caller
  <2>7. QED
    BY <2>5, <2>6 DEF IndexInv
<1>2. CASE Serial
  <2>1. /\ step[Caller] = "serial" /\ UNCHANGED <<da, done>>
        /\ invoked' = [invoked EXCEPT ![idx[Caller]] = invoked[idx[Caller]] + 1]
        /\ idx' = [idx EXCEPT ![Caller] = idx[Caller] + 1]
    BY <1>2 DEF Serial
  <2>2. /\ idx[Caller] \in Indices /\ idx'[Caller] = idx[Caller] + 1 /\ Indices' = Indices
        /\ idx[Caller] \in Nat /\ da.iterations \in Nat /\ invoked \in [Indices -> Nat]
    BY <2>1 DEF IndexTypeOK, Sequential, Indices
  <2>3. /\ invoked' \in [Indices -> Nat]
        /\ \A i \in Indices : invoked'[i] = IF i < idx[Caller] + 1 THEN 1 ELSE 0
    BY <2>1, <2>2 DEF Sequential, Indices
  <2>4. CASE idx'[Caller] < da.iterations
    <3>1. UNCHANGED <<step, freed>>
      BY <1>2, <2>4 DEF Serial
    <3>2. IndexTypeOK'
      BY <2>1, <2>2, <2>3, <3>1 DEF IndexTypeOK
    <3>3. Sequential'
      BY <2>1, <2>2, <2>3, <2>4, <3>1 DEF Sequential
    <3>4. QED
      BY <3>2, <3>3 DEF IndexInv
  <2>5. CASE ~(idx'[Caller] < da.iterations)
    <3>1. step' = [step EXCEPT ![Caller] = "returned"] /\ freed'
      BY <1>2, <2>5 DEF Serial, Go
    <3>2. IndexTypeOK'
      BY <2>1, <2>2, <2>3, <3>1 DEF IndexTypeOK, Steps
    <3>3. \A i \in Indices : i < idx[Caller] + 1
      BY <2>2, <2>5 DEF Indices
    <3>4. \A i \in Indices' : invoked'[i] = 1
      BY <2>2, <2>3, <3>3
    <3>5. Returned' /\ \A h \in Helpers : step'[h] = "idle"
      BY <3>1, ApplyAssumption DEF IndexTypeOK, Returned, Sequential, Caller
    <3>6. Finished'
      BY <3>1, <3>4, <3>5 DEF Finished
    <3>7. QED
      BY <3>2, <3>6 DEF IndexInv
  <2>6. QED
    BY <2>4, <2>5
<1>3. CASE Reserve \/ GiveBack
  <2>1. /\ step[Caller] \in {"reserve", "giveBack"} /\ UNCHANGED <<freed, idx, done, invoked>>
        /\ \E s \in {"giveBack", "reserve", "push", "serial"} :
             step' = step \/ step' = [step EXCEPT ![Caller] = s]
        /\ \E t \in {da.thr, da.thr - excess'} : da' = [da EXCEPT !.thr = t]
    <3>1. CASE Reserve
      BY <3>1 DEF Reserve, Go, loop
    <3>2. CASE GiveBack
      <4>1. da = [da EXCEPT !.thr = da.thr]
        BY DEF IndexTypeOK
      <4>2. QED
        BY <3>2, <4>1 DEF GiveBack, Go, loop
    <3>3. QED
      BY <1>3, <3>1, <3>2
  <2>2. excess' \in Int
    BY DEF WidthInv, ApplyTypeOK
  <2>3. /\ da' \in [index : Nat, todo : Int, iterations : Nat, thr : Int, event : Int]
        /\ da'.index = da.index /\ da'.todo = da.todo /\ da'.iterations = da.iterations
        /\ da'.event = da.event
    BY <2>1, <2>2 DEF IndexTypeOK
  <2>4. Indices' = Indices
    BY <2>3 DEF Indices
  <2>5. IndexTypeOK'
    BY <2>1, <2>3, <2>4 DEF IndexTypeOK, Steps, Working
  <2>6. idx[Caller] = 0 /\ \A i \in Indices : invoked[i] = 0
    BY <2>1 DEF Sequential
  <2>7. /\ \A h \in Helpers : step'[h] = "idle"
        /\ step'[Caller] \in {"reserve", "giveBack", "push", "serial"}
    BY <2>1, ApplyAssumption DEF IndexTypeOK, Sequential, Caller
  <2>8. da.iterations > 0
    BY <2>1 DEF Sequential
  <2>9. Sequential'
    BY <2>1, <2>3, <2>4, <2>6, <2>7, <2>8 DEF Sequential, Before, Indices, IndexTypeOK
  <2>10. QED
    BY <2>5, <2>9 DEF IndexInv
<1>4. CASE Push
  <2>1. PICK hs \in SUBSET Helpers :
           /\ Cardinality(hs) = da.thr - 1
           /\ step' = [e \in Executors |-> IF e \in hs THEN "queued" ELSE IF e = Caller THEN "first" ELSE step[e]]
    BY <1>4 DEF Push, kSubset
  <2>2. step[Caller] = "push" /\ UNCHANGED <<da, freed, idx, done, invoked>>
    BY <1>4 DEF Push, loop
  <2>3. /\ \A e \in Executors : step'[e] = IF e \in hs THEN "queued" ELSE IF e = Caller THEN "first" ELSE "idle"
        /\ Caller \notin hs
    BY <2>1, ApplyAssumption DEF Sequential, Caller
  <2>4. Indices' = Indices /\ \A i \in Indices : invoked'[i] = 0
    BY <2>2 DEF Indices, Sequential
  <2>5. IndexTypeOK'
    BY <2>1, <2>2, <2>4 DEF IndexTypeOK, Steps, Working
  <2>6. /\ step'[Caller] = "first"
        /\ \A e \in Executors : step'[e] \in {"queued", "first", "idle"} /\ done'[e] = 0
    BY <2>2, <2>3 DEF Sequential
  <2>7. OneHolder' /\ DoneCounts'
    BY <2>4, <2>6 DEF OneHolder, DoneCounts, Holding
  <2>8. SharesExist'
    <3>1. PICK share \in [Executors -> SUBSET Indices] : \A e \in Executors : share[e] = {}
      <4>1. [e \in Executors |-> {}] \in [Executors -> SUBSET Indices]
        OBVIOUS
      <4>2. QED
        BY <4>1
    <3>2. \A e \in Executors : Pending(e)' = 0
      BY <2>6 DEF Pending
    <3>3. Cardinality({}) = da'.iterations - da'.todo
      BY <2>2, FS_EmptySet DEF Sequential, IndexTypeOK
    <3>4. Shares(share, {})'
      BY <3>1, <3>2, <3>3, FS_EmptySet DEF Shares
    <3>5. QED
      BY <2>4, <3>4 DEF SharesExist
  <2>9. OneSignal'
    BY <2>2, <2>6 DEF OneSignal, Sent, Waited, Sequential
  <2>10. UsersCounted'
    <3>1. Users' = hs \cup {Caller}
      BY <2>3 DEF Users, Gone
    <3>2. IsFiniteSet(hs)
      BY ApplyAssumption, FS_Subset
    <3>3. Cardinality(Users') = Cardinality(hs) + 1 /\ Cardinality(hs) \in Nat
      BY <2>3, <3>1, <3>2, FS_AddElement, FS_CardinalityType
    <3>4. da'.thr = Cardinality(Users') /\ da'.thr # 0
      BY <2>1, <2>2, <3>3 DEF IndexTypeOK
    <3>5. QED
      BY <2>2, <3>4 DEF UsersCounted, Sequential
  <2>11. Parallel'
    BY <2>6, <2>7, <2>8, <2>9, <2>10 DEF Parallel, Before
  <2>12. QED
    BY <2>5, <2>11 DEF IndexInv
<1>5. ASSUME NEW q \in Queues, OtherTakes(q) \/ OtherReturns(q)
      PROVE  IndexInv'
  BY <1>5 DEF OtherTakes, OtherReturns, loop, IndexInv, IndexTypeOK, Indices, Sequential
<1>6. ASSUME NEW e \in Executors, ApplyStep(e) PROVE FALSE
  BY <1>6, ApplyAssumption
     DEF ApplyStep, FirstIndex, ReadContext, Invoke, NextIndex, Todo, Signal, WakeCaller,
         DropReference, Sequential, Before, Caller
<1>7. ASSUME NEW h \in Helpers, Starts(h) PROVE FALSE
  BY <1>7 DEF Starts, Sequential
<1>8. CASE WaitEvent \/ CheckEvent \/ SleepOnEvent \/ Relinquish \/ EventInterrupted
  BY <1>8 DEF WaitEvent, CheckEvent, SleepOnEvent, Relinquish, EventInterrupted, Sequential, Before
<1>9. QED
  BY <1>1, <1>2, <1>3, <1>4, <1>5, <1>6, <1>7, <1>8 DEF ApplyNext, CallerStep

\* A move of one executor that takes no index, calls none, counts none and
\* signals nothing: only where it is changes
LEMMA QuietMove ==
    ASSUME IndexTypeOK, Parallel, UNCHANGED <<da, freed, loop>>,
           step' \in [Executors -> Steps], step'[Caller] \notin Before \cup {"queued"},
           \A e \in Executors :
               /\ step'[e] \in Gone <=> step[e] \in Gone
               /\ step'[e] # step[e] =>
                    /\ step'[e] \notin {"queued", "context", "next", "todo", "signal"}
                    /\ step'[e] = "first" => step[e] = "queued"
                    /\ step'[e] = "call" => step[e] = "context"
                    /\ step[e] \notin {"call", "next", "todo"},
           step'[Caller] \in Waited <=> step[Caller] \in Waited,
           step'[Caller] \in {"drop", "relinquish", "returned"} => Sent = 1
    PROVE  IndexInv'
<1>1. Indices' = Indices
  BY DEF Indices
<1>2. IndexTypeOK'
  BY <1>1 DEF IndexTypeOK, loop, Parallel, Before
<1>3. OneHolder'
  BY <1>1 DEF OneHolder, Holding, Parallel, loop
<1>4. DoneCounts'
  BY DEF DoneCounts, Parallel, loop
<1>5. SharesExist'
  <2>1. \A e \in Executors : Pending(e)' = Pending(e)
    BY DEF Pending, DoneCounts, Parallel, loop
  <2>2. QED
    BY <2>1, SameShares DEF Parallel, loop
<1>6. OneSignal'
  <2>1. Sent' = Sent
    BY DEF Sent
  <2>2. QED
    BY <2>1 DEF OneSignal, Parallel
<1>7. UsersCounted'
  BY SameUsers DEF Parallel
<1>8. QED
  BY <1>2, <1>3, <1>4, <1>5, <1>6, <1>7 DEF IndexInv, Parallel

\* The next index goes to one executor
LEMMA TakesIndex ==
    ASSUME IndexTypeOK, Parallel, NEW e \in Executors, FirstIndex(e) \/ NextIndex(e)
    PROVE  IndexInv'
<1> USE DEF Executors
<1>1. PICK s \in {"out", "context", "call", "todo"} :
         /\ step' = [step EXCEPT ![e] = s]
         /\ s \in {"context", "call"} <=> da.index < da.iterations
         /\ step[e] = "first" => s \in {"out", "context"}
         /\ step[e] = "next" => s \in {"call", "todo"}
         /\ step[e] \in {"first", "next"}
  BY DEF FirstIndex, NextIndex, Go, IndexTypeOK
<1>2. /\ da' = [da EXCEPT !.index = da.index + 1] /\ idx' = [idx EXCEPT ![e] = da.index]
      /\ UNCHANGED <<freed, done, invoked>>
  BY DEF FirstIndex, NextIndex
<1>3. /\ da'.index = da.index + 1 /\ da'.todo = da.todo /\ da'.iterations = da.iterations
      /\ da'.thr = da.thr /\ da'.event = da.event /\ da.index \in Nat /\ da.iterations \in Nat
      /\ Indices' = Indices /\ idx'[e] = da.index
      /\ \A f \in Executors : f # e => idx'[f] = idx[f] /\ step'[f] = step[f]
      /\ step'[e] = s
  BY <1>1, <1>2 DEF IndexTypeOK, Indices
<1>4. IndexTypeOK' /\ step'[Caller] \notin Before \cup {"queued"}
  <2>1. IndexTypeOK'
    BY <1>1, <1>2, <1>3 DEF IndexTypeOK, Steps, Working, Parallel, Before
  <2>2. QED
    BY <1>1, <1>3, <2>1 DEF Parallel, Before
<1>5. OneHolder'
  <2>1. ASSUME NEW f \in Executors, Holding(f)'
        PROVE  idx'[f] \in Indices' /\ idx'[f] < da'.index /\ invoked'[idx'[f]] = 0
    <3>1. CASE f = e
      <4>1. da.index \in Indices
        BY <1>1, <1>3, <2>1, <3>1 DEF Holding, Indices
      <4>2. QED
        BY <1>2, <1>3, <3>1, <4>1 DEF OneHolder, Parallel
    <3>2. CASE f # e
      <4>1. Holding(f) /\ idx[f] \in Indices /\ idx[f] < da.index /\ invoked[idx[f]] = 0
        BY <1>3, <2>1, <3>2 DEF OneHolder, Parallel, Holding
      <4>2. QED
        BY <1>2, <1>3, <3>2, <4>1 DEF Indices
    <3>3. QED
      BY <3>1, <3>2
  <2>2. ASSUME NEW f \in Executors, NEW g \in Executors, Holding(f)', Holding(g)', idx'[f] = idx'[g]
        PROVE  f = g
    <3>1. \A h \in Executors : h # e /\ Holding(h)' => Holding(h) /\ idx'[h] = idx[h] /\ idx[h] < da.index /\ idx[h] \in Int
      BY <1>3 DEF OneHolder, Parallel, Holding, Indices
    <3>2. QED
      BY <1>3, <2>2, <3>1 DEF OneHolder, Parallel
  <2>3. \A i \in Indices' : invoked'[i] \in {0, 1} /\ (i >= da'.index => invoked'[i] = 0)
    BY <1>2, <1>3 DEF OneHolder, Parallel, Indices
  <2>4. QED
    BY <2>1, <2>2, <2>3 DEF OneHolder
<1>6. DoneCounts'
  BY <1>1, <1>2, <1>3 DEF DoneCounts, Parallel
<1>7. SharesExist'
  <2>1. \A f \in Executors : Pending(f)' = Pending(f)
    BY <1>1, <1>2, <1>3 DEF Pending, DoneCounts, Parallel
  <2>2. QED
    BY <1>2, <1>3, <2>1, SameShares DEF Parallel
<1>8. OneSignal'
  <2>1. Sent' = Sent
    BY <1>1, <1>3 DEF Sent, Waited
  <2>2. QED
    BY <1>1, <1>3, <2>1 DEF OneSignal, Parallel
<1>9. UsersCounted'
  BY <1>1, <1>2, <1>3, SameUsers DEF Parallel, Gone
<1>10. QED
  BY <1>4, <1>5, <1>6, <1>7, <1>8, <1>9 DEF IndexInv, Parallel

\* The function is called for an index nobody else holds or has called
LEMMA InvokesOnce ==
    ASSUME IndexTypeOK, Parallel, NEW e \in Executors, Invoke(e)
    PROVE  IndexInv'
<1> USE DEF Executors
<1>1. /\ step[e] = "call" /\ step' = [step EXCEPT ![e] = "next"]
      /\ invoked' = [invoked EXCEPT ![idx[e]] = invoked[idx[e]] + 1]
      /\ done' = [done EXCEPT ![e] = done[e] + 1] /\ UNCHANGED <<da, freed, idx>>
  BY DEF Invoke, Go
<1>2. /\ idx[e] \in Indices /\ invoked[idx[e]] = 0 /\ idx[e] < da.index
      /\ invoked \in [Indices -> Nat] /\ Indices' = Indices
  BY <1>1 DEF Parallel, OneHolder, Holding, IndexTypeOK, Before, Indices
<1>3. /\ \A i \in Indices : invoked'[i] = IF i = idx[e] THEN 1 ELSE invoked[i]
      /\ invoked' \in [Indices -> Nat]
      /\ \A f \in Executors : f # e => step'[f] = step[f] /\ done'[f] = done[f]
      /\ step'[e] = "next" /\ done'[e] = done[e] + 1 /\ done[e] \in Nat
  BY <1>1, <1>2 DEF IndexTypeOK
<1>4. IndexTypeOK' /\ step'[Caller] \notin Before \cup {"queued"}
  <2>1. IndexTypeOK'
    BY <1>1, <1>2, <1>3 DEF IndexTypeOK, Steps, Working
  <2>2. QED
    BY <1>3, <2>1 DEF Parallel, Before
<1>5. OneHolder'
  <2>1. \A f \in Executors : Holding(f)' => f # e /\ Holding(f) /\ idx[f] # idx[e]
    BY <1>1, <1>3 DEF Holding, Parallel, OneHolder
  <2>2. \A i \in Indices : i >= da.index => i # idx[e]
    BY <1>2 DEF Indices, IndexTypeOK
  <2>3. QED
    BY <1>1, <1>2, <1>3, <2>1, <2>2 DEF OneHolder, Parallel
<1>6. DoneCounts'
  BY <1>1, <1>3 DEF DoneCounts, Parallel
<1>7. SharesExist'
  <2>1. PICK share \in [Executors -> SUBSET Indices], counted \in SUBSET Indices : Shares(share, counted)
    BY DEF Parallel, SharesExist
  <2>2. PICK i \in Indices : i = idx[e]
    BY <1>2
  <2>3. i \notin counted /\ \A f \in Executors : i \notin share[f]
    BY <1>2, <2>1, <2>2 DEF Shares
  <2> DEFINE new == [share EXCEPT ![e] = share[e] \cup {i}]
  <2>4. new \in [Executors -> SUBSET Indices] /\ new[e] = share[e] \cup {i}
        /\ \A f \in Executors : f # e => new[f] = share[f]
    BY <2>1, <2>2
  <2> HIDE DEF new
  <2>5. Cardinality(new[e]) = Cardinality(share[e]) + 1
    <3>1. IsFiniteSet(share[e])
      BY <2>1, IndicesFinite
    <3>2. QED
      BY <2>3, <2>4, <3>1, FS_AddElement
  <2>6. \A f \in Executors : Cardinality(new[f]) = Pending(f)'
    <3>1. Pending(e) = done[e] /\ Pending(e)' = done[e] + 1
      BY <1>1, <1>3 DEF Pending
    <3>2. \A f \in Executors : f # e => Pending(f)' = Pending(f)
      BY <1>3 DEF Pending
    <3>3. QED
      BY <2>1, <2>4, <2>5, <3>1, <3>2 DEF Shares
  <2>7. \A f \in Executors : new[f] \cap counted = {}
    BY <2>1, <2>3, <2>4 DEF Shares
  <2>8. \A f, g \in Executors : f # g => new[f] \cap new[g] = {}
    BY <2>1, <2>3, <2>4 DEF Shares
  <2>9. /\ \A f \in Executors : \A j \in new[f] : invoked'[j] = 1
        /\ \A j \in counted : invoked'[j] = 1
    BY <1>3, <2>1, <2>2, <2>3, <2>4 DEF Shares
  <2>10. Shares(new, counted)'
    BY <1>1, <2>1, <2>6, <2>7, <2>8, <2>9 DEF Shares
  <2>11. QED
    BY <1>2, <2>1, <2>4, <2>10 DEF SharesExist
<1>8. OneSignal'
  <2>1. Sent' = Sent
    BY <1>1, <1>3 DEF Sent, Waited
  <2>2. QED
    BY <1>1, <1>3, <2>1 DEF OneSignal, Parallel
<1>9. UsersCounted'
  BY <1>1, <1>3, SameUsers DEF Parallel, Gone
<1>10. QED
  BY <1>4, <1>5, <1>6, <1>7, <1>8, <1>9 DEF IndexInv, Parallel

\* What an executor has done is subtracted once
LEMMA CountsTodo ==
    ASSUME IndexTypeOK, Parallel, NEW e \in Executors, Todo(e)
    PROVE  IndexInv'
<1> USE DEF Executors
<1>1. PICK s \in {"signal", "out"} :
         /\ step[e] = "todo" /\ step' = [step EXCEPT ![e] = s] /\ UNCHANGED <<freed, idx, done, invoked>>
         /\ da' = [da EXCEPT !.todo = da.todo - done[e]]
         /\ s = "signal" <=> da'.todo = 0
  BY DEF Todo, Go, loop
<1>2. /\ da'.index = da.index /\ da'.todo = da.todo - done[e] /\ da'.iterations = da.iterations
      /\ da'.thr = da.thr /\ da'.event = da.event /\ Indices' = Indices
      /\ da.todo \in Int /\ done[e] \in Nat /\ done[e] > 0 /\ da.iterations \in Nat
      /\ \A f \in Executors : f # e => step'[f] = step[f]
      /\ step'[e] = s
  BY <1>1 DEF IndexTypeOK, Indices, DoneCounts, Parallel
<1>3. da.todo # 0
  BY <1>1, NothingLeft
<1>4. IndexTypeOK' /\ step'[Caller] \notin Before \cup {"queued"}
  <2>1. IndexTypeOK'
    BY <1>1, <1>2 DEF IndexTypeOK, Steps, Working, Parallel, Before
  <2>2. QED
    BY <1>1, <1>2, <2>1 DEF Parallel, Before
<1>5. OneHolder' /\ DoneCounts'
  BY <1>1, <1>2 DEF OneHolder, Holding, DoneCounts, Parallel
<1>6. SharesExist'
  <2>1. PICK share \in [Executors -> SUBSET Indices], counted \in SUBSET Indices : Shares(share, counted)
    BY DEF Parallel, SharesExist
  <2> DEFINE new == [share EXCEPT ![e] = {}]
             all == counted \cup share[e]
  <2>2. /\ new \in [Executors -> SUBSET Indices] /\ new[e] = {} /\ all \in SUBSET Indices
        /\ \A f \in Executors : f # e => new[f] = share[f]
    BY <2>1
  <2>3. Cardinality(all) = Cardinality(counted) + Cardinality(share[e])
    <3>1. /\ IsFiniteSet(share[e]) /\ IsFiniteSet(counted) /\ counted \cap share[e] = {}
          /\ Cardinality(counted) \in Nat /\ Cardinality(share[e]) \in Nat
      BY <2>1, IndicesFinite DEF Shares
    <3>2. Cardinality(counted \cup share[e])
            = Cardinality(counted) + Cardinality(share[e]) - Cardinality(counted \cap share[e])
      BY <3>1, FS_Union
    <3>3. Cardinality(counted \cap share[e]) = 0
      BY <3>1, FS_EmptySet
    <3>4. QED
      BY <3>1, <3>2, <3>3
  <2>4. Cardinality(share[e]) = done[e] /\ Cardinality(counted) = da.iterations - da.todo
    BY <1>1, <2>1 DEF Shares, Pending
  <2>5. Cardinality(all) = da'.iterations - da'.todo
    BY <1>2, <2>3, <2>4
  <2> HIDE DEF new, all
  <2>6. \A f \in Executors : Cardinality(new[f]) = Pending(f)'
    BY <1>1, <1>2, <2>1, <2>2, FS_EmptySet DEF Shares, Pending
  <2>7. /\ \A f \in Executors : new[f] \cap all = {}
        /\ \A f, g \in Executors : f # g => new[f] \cap new[g] = {}
    BY <2>1, <2>2 DEF Shares, all
  <2>8. /\ \A f \in Executors : \A j \in new[f] : invoked'[j] = 1
        /\ \A j \in all : invoked'[j] = 1
    BY <1>1, <2>1, <2>2 DEF Shares, all
  <2>9. Shares(new, all)'
    BY <2>5, <2>6, <2>7, <2>8 DEF Shares
  <2>10. QED
    BY <1>2, <2>2, <2>9 DEF SharesExist
<1>7. OneSignal'
  <2>1. Sent' = Sent /\ Sent = 0 /\ \A f \in Executors : step[f] # "signal"
    BY <1>1, <1>2, <1>3 DEF Sent, Waited, OneSignal, Parallel
  <2>2. QED
    BY <1>1, <1>2, <2>1 DEF OneSignal, Parallel
<1>8. UsersCounted'
  BY <1>1, <1>2, SameUsers DEF Parallel, Gone
<1>9. QED
  BY <1>4, <1>5, <1>6, <1>7, <1>8 DEF IndexInv, Parallel

\* The event is signalled, or waited for
LEMMA MovesEvent ==
    ASSUME IndexTypeOK, Parallel, NEW e \in Executors,
           Signal(e) \/ (e = Caller /\ WaitEvent)
    PROVE  IndexInv'
<1> USE DEF Executors
<1>1. PICK s \in {"out", "wake", "drop", "check"}, d \in {1, -1} :
         /\ step' = [step EXCEPT ![e] = s] /\ UNCHANGED <<freed, loop>>
         /\ da' = [da EXCEPT !.event = da.event + d]
         /\ d = 1 => step[e] = "signal" /\ s \in {"out", "wake"}
         /\ d = -1 => /\ step[e] = "out" /\ s \in {"drop", "check"} /\ e = Caller
                      /\ s = "drop" => da'.event = 0
  BY DEF Signal, WaitEvent, Go, IndexTypeOK
<1>2. /\ da'.index = da.index /\ da'.todo = da.todo /\ da'.iterations = da.iterations
      /\ da'.thr = da.thr /\ da'.event = da.event + d /\ Indices' = Indices /\ da.event \in Int
      /\ \A f \in Executors : f # e => step'[f] = step[f]
      /\ step'[e] = s
  BY <1>1 DEF IndexTypeOK, Indices
<1>3. IndexTypeOK' /\ step'[Caller] \notin Before \cup {"queued"}
  <2>1. IndexTypeOK'
    BY <1>1, <1>2 DEF IndexTypeOK, Steps, Working, Parallel, Before, loop
  <2>2. QED
    BY <1>1, <1>2, <2>1 DEF Parallel, Before
<1>4. OneHolder' /\ DoneCounts'
  BY <1>1, <1>2 DEF OneHolder, Holding, DoneCounts, Parallel, loop
<1>5. SharesExist'
  <2>1. \A f \in Executors : Pending(f)' = Pending(f)
    BY <1>1, <1>2 DEF Pending, loop
  <2>2. QED
    BY <1>1, <1>2, <2>1, SameShares DEF Parallel, loop
<1>6. OneSignal'
  <2>1. CASE d = 1
    <3>1. Sent = 0 /\ Sent' = 1 /\ da.todo = 0
      BY <1>1, <1>2, <2>1 DEF Sent, Waited, OneSignal, Parallel
    <3>2. \A f \in Executors : step'[f] # "signal"
      BY <1>1, <1>2, <2>1 DEF OneSignal, Parallel
    <3>3. QED
      BY <1>1, <1>2, <2>1, <3>1, <3>2 DEF OneSignal, Parallel
  <2>2. CASE d = -1
    <3>1. Sent' = Sent
      BY <1>1, <1>2, <2>2 DEF Sent, Waited
    <3>2. s = "drop" => Sent' = 1
      BY <1>1, <1>2, <2>2 DEF Sent, Waited
    <3>3. QED
      BY <1>1, <1>2, <2>2, <3>1, <3>2 DEF OneSignal, Parallel
  <2>3. QED
    BY <2>1, <2>2
<1>7. UsersCounted'
  BY <1>1, <1>2, SameUsers DEF Parallel, Gone
<1>8. QED
  BY <1>3, <1>4, <1>5, <1>6, <1>7 DEF IndexInv, Parallel

\* The last user frees da
LEMMA DropsReference ==
    ASSUME IndexTypeOK, Parallel, NEW e \in Executors, DropReference(e)
    PROVE  IndexInv'
<1> USE DEF Executors
<1>1. PICK s \in {"relinquish", "idle"} :
         /\ step[e] = (IF e = Caller THEN "drop" ELSE "out") /\ s = (IF e = Caller THEN "relinquish" ELSE "idle")
         /\ step' = [step EXCEPT ![e] = s] /\ da' = [da EXCEPT !.thr = da.thr - 1]
         /\ freed' = (freed \/ da'.thr = 0) /\ UNCHANGED <<idx, done, invoked>>
  BY DEF DropReference, Go, loop
<1>2. /\ da'.index = da.index /\ da'.todo = da.todo /\ da'.iterations = da.iterations
      /\ da'.thr = da.thr - 1 /\ da'.event = da.event /\ Indices' = Indices
      /\ \A f \in Executors : f # e => step'[f] = step[f]
      /\ step'[e] = s
  BY <1>1 DEF IndexTypeOK, Indices
<1>3. IndexTypeOK' /\ step'[Caller] \notin Before \cup {"queued"}
  <2>1. IndexTypeOK'
    BY <1>1, <1>2 DEF IndexTypeOK, Steps, Parallel, Before
  <2>2. QED
    BY <1>1, <1>2, <2>1 DEF Parallel, Before
<1>4. OneHolder' /\ DoneCounts'
  BY <1>1, <1>2 DEF OneHolder, Holding, DoneCounts, Parallel
<1>5. SharesExist'
  <2>1. \A f \in Executors : Pending(f)' = Pending(f)
    BY <1>1, <1>2 DEF Pending
  <2>2. QED
    BY <1>1, <1>2, <2>1, SameShares DEF Parallel
<1>6. OneSignal'
  <2>1. Sent' = Sent
    BY <1>1, <1>2 DEF Sent, Waited
  <2>2. QED
    BY <1>1, <1>2, <2>1 DEF OneSignal, Parallel
<1>7. UsersCounted'
  <2>1. Users' = Users \ {e} /\ e \in Users
    BY <1>1, <1>2 DEF Users, Gone
  <2>2. Cardinality(Users') = Cardinality(Users) - 1 /\ Cardinality(Users) \in Nat
    BY <2>1, UsersFinite, FS_RemoveElement
  <2>3. da.thr # 0
    <3>1. Cardinality(Users) # 0
      BY <2>1, UsersFinite, FS_EmptySet
    <3>2. QED
      BY <3>1 DEF Parallel, UsersCounted
  <2>4. QED
    BY <1>1, <1>2, <2>2, <2>3 DEF UsersCounted, Parallel
<1>8. QED
  BY <1>3, <1>4, <1>5, <1>6, <1>7 DEF IndexInv, Parallel

\* The caller gives the width back and returns
LEMMA CallerReturns ==
    ASSUME IndexTypeOK, Parallel, Relinquish
    PROVE  IndexInv'
<1> USE DEF Executors
<1>1. /\ step[Caller] = "relinquish" /\ UNCHANGED <<da, freed, loop>>
      /\ step' = step \/ step' = [step EXCEPT ![Caller] = "returned"]
  BY DEF Relinquish, Go
<1>2. /\ step' \in [Executors -> Steps] /\ step'[Caller] \in {"relinquish", "returned"}
      /\ \A e \in Executors : e # Caller => step'[e] = step[e]
  BY <1>1 DEF IndexTypeOK, Steps
<1>3. Sent = 1
  BY <1>1 DEF OneSignal, Parallel
<1>4. QED
  BY <1>1, <1>2, <1>3, QuietMove DEF Before, Gone, Waited

\* Once the continuations are pushed.
LEMMA ParallelStep ==
    ASSUME IndexTypeOK, Parallel, ApplyNext
    PROVE  IndexInv'
<1> USE DEF Executors
<1>1. ASSUME NEW e \in Executors, FirstIndex(e) \/ NextIndex(e) PROVE IndexInv'
  BY <1>1, TakesIndex
<1>2. ASSUME NEW e \in Executors, Invoke(e) PROVE IndexInv'
  BY <1>2, InvokesOnce
<1>3. ASSUME NEW e \in Executors, Todo(e) PROVE IndexInv'
  BY <1>3, CountsTodo
<1>4. ASSUME NEW e \in Executors, Signal(e) PROVE IndexInv'
  BY <1>4, MovesEvent
<1>5. CASE WaitEvent
  BY <1>5, MovesEvent
<1>6. ASSUME NEW e \in Executors, DropReference(e) PROVE IndexInv'
  BY <1>6, DropsReference
<1>7. CASE Relinquish
  BY <1>7, CallerReturns
<1>8. ASSUME NEW h \in Helpers, Starts(h) PROVE IndexInv'
  <2>1. /\ step[h] = "queued" /\ step' = [step EXCEPT ![h] = "first"] /\ UNCHANGED <<da, freed, loop>>
        /\ h # Caller
    BY <1>8, ApplyAssumption DEF Starts, Go, Caller
  <2>2. /\ step' \in [Executors -> Steps] /\ step'[h] = "first"
        /\ \A e \in Executors : e # h => step'[e] = step[e]
    BY <2>1 DEF IndexTypeOK, Steps, Working
  <2>3. step'[Caller] = step[Caller] /\ step[Caller] \notin Before \cup {"queued"}
        /\ (step[Caller] \in {"drop", "relinquish", "returned"} => Sent = 1)
    BY <2>1, <2>2 DEF Parallel, OneSignal
  <2>4. QED
    BY <2>1, <2>2, <2>3, QuietMove DEF Gone
<1>9. ASSUME NEW e \in Executors, ReadContext(e) PROVE IndexInv'
  <2>1. /\ step[e] = "context" /\ step' = [step EXCEPT ![e] = "call"] /\ UNCHANGED <<da, freed, loop>>
    BY <1>9 DEF ReadContext, Go
  <2>2. /\ step' \in [Executors -> Steps] /\ step'[e] = "call"
        /\ \A f \in Executors : f # e => step'[f] = step[f]
    BY <2>1 DEF IndexTypeOK, Steps, Working
  <2>3. /\ step'[Caller] \notin Before \cup {"queued"}
        /\ step'[Caller] \in Waited <=> step[Caller] \in Waited
        /\ step'[Caller] \in {"drop", "relinquish", "returned"} => Sent = 1
    BY <2>1, <2>2 DEF Parallel, OneSignal, Before, Waited
  <2>4. QED
    BY <2>1, <2>2, <2>3, QuietMove DEF Gone
<1>10. ASSUME NEW e \in Executors, WakeCaller(e) PROVE IndexInv'
  <2>1. /\ step[e] = "wake" /\ UNCHANGED <<da, freed, loop>>
        /\ step' = [step EXCEPT ![e] = "out", ![Caller] = IF @ = "asleep" THEN "check" ELSE @]
    BY <1>10 DEF WakeCaller
  <2>2. /\ step' \in [Executors -> Steps] /\ step'[e] = "out"
        /\ \A f \in Executors : f # e => step'[f] = step[f] \/ (step[f] = "asleep" /\ step'[f] = "check")
    BY <2>1 DEF IndexTypeOK, Steps, Working
  <2>3. /\ step'[Caller] \notin Before \cup {"queued"}
        /\ step'[Caller] \in Waited <=> step[Caller] \in Waited
        /\ step'[Caller] \in {"drop", "relinquish", "returned"} => Sent = 1
    BY <2>1, <2>2 DEF Parallel, OneSignal, Before, Waited
  <2>4. QED
    BY <2>1, <2>2, <2>3, QuietMove DEF Gone
<1>11. CASE CheckEvent \/ SleepOnEvent \/ EventInterrupted
  <2>1. PICK s \in {"drop", "compare", "corrupt", "asleep", "check"} :
           /\ step[Caller] \in {"check", "compare", "asleep"} /\ step' = [step EXCEPT ![Caller] = s]
           /\ UNCHANGED <<da, freed, loop>>
           /\ s = "drop" => da.event = 0
    BY <1>11 DEF CheckEvent, SleepOnEvent, EventInterrupted, Go
  <2>2. /\ step' \in [Executors -> Steps] /\ step'[Caller] = s
        /\ \A f \in Executors : f # Caller => step'[f] = step[f]
    BY <2>1 DEF IndexTypeOK, Steps, Working
  <2>3. s = "drop" => Sent = 1
    BY <2>1 DEF Sent, Waited
  <2>4. QED
    BY <2>1, <2>2, <2>3, QuietMove DEF Gone, Before, Waited
<1>12. ASSUME NEW n \in Iterations, NEW nested \in Nesting, NEW root \in BOOLEAN, NEW same \in BOOLEAN,
              dispatch_apply_f(n, nested, root, same)
       PROVE  FALSE
  BY <1>12 DEF dispatch_apply_f, Parallel, Before
<1>13. CASE Serial \/ Reserve \/ GiveBack \/ Push
  BY <1>13 DEF Serial, Reserve, GiveBack, Push, Parallel, Before
<1>14. ASSUME NEW q \in Queues, OtherTakes(q) \/ OtherReturns(q) PROVE FALSE
  BY <1>14 DEF OtherTakes, OtherReturns, OthersMove, Parallel, Before
<1>15. QED
  BY <1>1, <1>2, <1>3, <1>4, <1>5, <1>6, <1>7, <1>8, <1>9, <1>10, <1>11, <1>12, <1>13, <1>14
     DEF ApplyNext, CallerStep, ApplyStep

\* After a serial call nothing moves.
LEMMA FinishedStep ==
    ASSUME Finished, ApplyNext
    PROVE  FALSE
<1> USE DEF Executors
<1>1. \A e \in Executors : ~ApplyStep(e)
  BY DEF Finished, Returned, ApplyStep, FirstIndex, ReadContext, Invoke, NextIndex, Todo, Signal,
         WakeCaller, DropReference
<1>2. ~CallerStep /\ ~EventInterrupted
  BY <1>1 DEF Finished, Returned, CallerStep, EventInterrupted, Serial, Reserve, GiveBack, Push,
              WaitEvent, CheckEvent, SleepOnEvent, Relinquish
<1>3. \A h \in Helpers : ~Starts(h)
  BY DEF Finished, Starts
<1>4. QED
  BY <1>1, <1>2, <1>3 DEF ApplyNext, dispatch_apply_f, OtherTakes, OtherReturns, OthersMove,
                          Finished, Returned

\* Every step preserves the invariant
LEMMA NextIndexInv == WidthInv' /\ IndexInv /\ [ApplyNext]_applyVars => IndexInv'
<1>1. ASSUME WidthInv', IndexInv, ApplyNext PROVE IndexInv'
  BY <1>1, SequentialStep, ParallelStep, FinishedStep DEF IndexInv
<1>2. ASSUME IndexInv, UNCHANGED applyVars PROVE IndexInv'
  <2>1. IndexTypeOK' /\ (Finished' <=> Finished) /\ (Sequential' <=> Sequential)
    BY <1>2 DEF applyVars, IndexInv, IndexTypeOK, Indices, Finished, Sequential, Returned
  <2>2. Parallel => Parallel'
    BY <1>2 DEF applyVars, Parallel, OneHolder, Holding, DoneCounts, SharesExist, Shares, Pending,
                Indices, OneSignal, Sent, UsersCounted, Users
  <2>3. QED
    BY <1>2, <2>1, <2>2 DEF IndexInv
<1>3. QED
  BY <1>1, <1>2

\* Before the call
LEMMA InitIndexInv == ApplyInit => IndexInv
<1> SUFFICES ASSUME ApplyInit PROVE IndexInv
  OBVIOUS
<1>1. Caller \in Executors /\ Helpers \subseteq Executors
  BY DEF Executors
<1>2. step[Caller] = "idle" /\ \A e \in Executors : step[e] = "idle" /\ idx[e] = 0 /\ done[e] = 0
  BY <1>1 DEF ApplyInit
<1>3. IndexTypeOK
  <2>1. step \in [Executors -> Steps]
    BY DEF ApplyInit, Steps, Working, Before
  <2>2. da \in [index : Nat, todo : Int, iterations : Nat, thr : Int, event : Int]
    BY DEF ApplyInit
  <2>3. idx \in [Executors -> Nat] /\ done \in [Executors -> Nat] /\ freed \in BOOLEAN
    BY DEF ApplyInit
  <2>4. QED
    BY <1>2, <2>1, <2>2, <2>3 DEF IndexTypeOK
<1>4. da.index = 0 /\ da.event = 0 /\ da.todo = da.iterations /\ ~freed
  BY DEF ApplyInit
<1>5. Sequential
  BY <1>1, <1>2, <1>4 DEF Sequential, Before
<1>6. QED
  BY <1>3, <1>5 DEF IndexInv

\* It holds in every state
LEMMA IndexInvAlways == ApplySpec => []IndexInv
<1>1. ApplySpec => []WidthInv
  BY InitWidthInv, NextWidthInv, PTL DEF ApplySpec
<1>2. QED
  BY <1>1, InitIndexInv, NextIndexInv, PTL DEF ApplySpec

\* dispatch_apply: whichever threads come to help, and whenever they come, the
\* function is called for no index twice and for each of them before the call
\* returns.
THEOREM ApplyEachOnce == ApplySpec => []EachIndexOnce
<1>1. IndexInv => EachIndexOnce
  <2> SUFFICES ASSUME IndexInv, Called, NEW i \in DOMAIN invoked
               PROVE  invoked[i] <= 1 /\ (Returned => invoked[i] = 1)
    BY DEF EachIndexOnce
  <2>1. i \in Indices
    BY DEF IndexInv, IndexTypeOK, Called
  <2>2. CASE Sequential
    BY <2>1, <2>2 DEF Sequential, Called, Returned, Before
  <2>3. CASE Finished
    BY <2>1, <2>3 DEF Finished
  <2>4. CASE Parallel
    <3>1. invoked[i] \in {0, 1}
      BY <2>1, <2>4 DEF Parallel, OneHolder
    <3>2. ASSUME Returned PROVE invoked[i] = 1
      <4>1. da.todo = 0
        BY <2>4, <3>2 DEF Parallel, OneSignal, Returned
      <4>2. QED
        BY <2>1, <2>4, <4>1, NothingLeft DEF IndexInv
    <3>3. QED
      BY <3>1, <3>2
  <2>5. QED
    BY <2>2, <2>3, <2>4 DEF IndexInv
<1>2. QED
  BY <1>1, IndexInvAlways, PTL

\* dispatch_apply: nobody uses the dispatch_apply_t after it was freed, nobody
\* reads the continuation on the caller's stack after the call returned, and
\* what was allocated is freed, however late a helper comes.
THEOREM ApplyMemory == ApplySpec => []UsedWhileAlive
<1>1. IndexInv => UsedWhileAlive
  <2> SUFFICES ASSUME IndexInv PROVE UsedWhileAlive
    OBVIOUS
  <2> USE DEF Executors
  <2>1. CASE Sequential
    BY <2>1 DEF Sequential, UsedWhileAlive, Returned, Before
  <2>2. CASE Finished
    BY <2>2 DEF Finished, UsedWhileAlive, Returned
  <2>3. CASE Parallel
    <3>1. ASSUME freed PROVE \A e \in Executors : step[e] \in Gone
      <4>1. Users = {}
        BY <2>3, <3>1, UsersFinite, FS_EmptySet DEF Parallel, UsersCounted
      <4>2. QED
        BY <4>1 DEF Users
    <3>2. ASSUME Returned PROVE \A h \in Helpers : step[h] \notin {"context", "call", "next", "todo"}
      <4>1. da.todo = 0
        BY <2>3, <3>2 DEF Parallel, OneSignal, Returned
      <4>2. QED
        BY <2>3, <4>1, NothingLeft DEF IndexInv
    <3>3. ASSUME Returned, \A h \in Helpers : step[h] = "idle" PROVE freed
      <4>1. Users = {}
        BY <3>3 DEF Users, Gone, Returned
      <4>2. QED
        BY <2>3, <4>1, FS_EmptySet DEF Parallel, UsersCounted
    <3>4. QED
      BY <3>1, <3>2, <3>3 DEF UsedWhileAlive, Gone
  <2>4. QED
    BY <2>1, <2>2, <2>3 DEF IndexInv
<1>2. QED
  BY <1>1, IndexInvAlways, PTL
=============================================================================
