------------------------- MODULE ObjcRefcountProofs -------------------------
(***************************************************************************)
(* The retain counts of the Objective-C runtime, for any number of threads  *)
(* and references and any range of the inline count.                        *)
(***************************************************************************)
EXTENDS ObjcRefcount, FiniteSetTheorems, TLAPS

-----------------------------------------------------------------------------
(* The invariant *)

Halves == {k * RC_HALF : k \in Nat}
Isas == [extra : 0 .. ExtraMax, side : BOOLEAN, weakly : BOOLEAN]
Retaining == {"retain", "addc", "storeRetain"}
Releasing == {"release", "subc", "storeRelease", "storeBorrow", "again"}
Ending == {"deallocate", "clear", "free"}
Owing == {"transcribe", "storeBorrow", "again"}
Places == {"out", "lockLoad", "loaded", "aborted"} \cup Retaining \cup Releasing \cup Ending \cup Owing
Locals == [at : Places, full : BOOLEAN, weak : BOOLEAN, sideTableLocked : BOOLEAN, old : Isas]

\* The side table counts in halves of the range, and the weak table knows the
\* variable just while it points to the object
RefcountTypeOK ==
    /\ isa \in Isas /\ refcnts \in Halves /\ slock \in Owners \cup {nobody}
    /\ weakVar \in BOOLEAN /\ registered = weakVar /\ disposed \in BOOLEAN /\ deallocs \in {0, 1}
    /\ strong \in [Owners -> 0 .. MaxStrong]
    /\ local \in [Owners -> Locals]

\* What the holder of the lock has taken from the isa and not yet put into the
\* side table, or from the side table and not yet into the isa
Owed == IF \E o \in Owners : local[o].at \in Owing THEN RC_HALF ELSE 0
Balance == isa.extra + refcnts + Owed = Strong
SideKnown == isa.side <=> refcnts + Owed > 0

\* What a thread knows where it is
ThreadOK(o) ==
    /\ local[o].at \in Owing => slock = o
    /\ local[o].at = "storeRetain" /\ local[o].old.extra = ExtraMax => slock = o
    /\ local[o].at = "storeRetain" => ~isDeallocating(local[o].old)
    /\ local[o].at = "subc" /\ slock = o => local[o].old.side = isa.side
    /\ local[o].at = "storeRelease" => local[o].old.extra > 0
    /\ local[o].at = "storeBorrow" => local[o].old.extra = 0
    /\ local[o].at \in Releasing \cup {"transcribe"} => strong[o] > 0
    /\ local[o].at \in Retaining => strong[o] > 0 \/ local[o].weak
    /\ local[o].at \in Retaining \cup {"lockLoad"} => strong[o] < MaxStrong
    /\ local[o].weak => local[o].at \in Retaining \cup {"transcribe", "loaded", "aborted"}
    /\ local[o].weak /\ local[o].at \in Retaining \cup {"transcribe"} => slock = o /\ weakVar
    /\ local[o].at \in {"loaded", "aborted"} => local[o].weak
    /\ local[o].sideTableLocked => local[o].at # "out"
    /\ local[o].sideTableLocked /\ local[o].at \in Retaining => slock = o

\* One thread deallocates the object, once
EndOK(o) ==
    local[o].at \in Ending =>
        /\ isDeallocating(isa) /\ ~disposed
        /\ deallocs = IF local[o].at = "deallocate" THEN 0 ELSE 1
        /\ \A p \in Owners : local[p].at \in Ending => p = o
        /\ local[o].at = "free" => ~weakVar

\* After the end nothing points to the object
Over ==
    /\ deallocs = 1 \/ disposed => isDeallocating(isa)
    /\ weakVar => isa.weakly /\ ~disposed

RefcountInv ==
    /\ RefcountTypeOK /\ Balance /\ SideKnown /\ Over
    /\ \A o \in Owners : ThreadOK(o) /\ EndOK(o)

-----------------------------------------------------------------------------
(* Counting references *)

\* The references are a finite set
LEMMA StrongIsNat == IsFiniteSet(References) /\ Strong \in Nat
<1>1. IsFiniteSet(1 .. MaxStrong)
  BY FS_Interval, RefcountAssumption
<1>2. IsFiniteSet(Owners \X (1 .. MaxStrong))
  BY <1>1, FS_Product, RefcountAssumption
<1>3. IsFiniteSet(References)
  BY <1>2, FS_Subset DEF References
<1>4. QED
  BY <1>3, FS_CardinalityType DEF Strong

\* A thread's retain adds one reference
LEMMA StrongUp ==
    ASSUME NEW o \in Owners, strong \in [Owners -> 0 .. MaxStrong], strong[o] < MaxStrong,
           strong' = [strong EXCEPT ![o] = @ + 1]
    PROVE  Strong' = Strong + 1
<1>1. PICK n : n = strong[o] + 1
  OBVIOUS
<1>2. n \in 1 .. MaxStrong /\ n = strong[o] + 1 /\ n = strong'[o] /\ strong[o] \in Nat
      /\ \A p \in Owners : strong[p] \in Nat /\ (p # o => strong'[p] = strong[p])
  BY <1>1, RefcountAssumption
<1>3. \A p \in Owners, k \in 1 .. MaxStrong :
        k <= strong'[p] <=> (k <= strong[p] \/ (p = o /\ k = n))
  BY <1>2
<1>4. References' = References \cup {<<o, n>>}
  BY <1>2, <1>3, RefcountAssumption DEF References
<1>5. <<o, n>> \notin References
  BY <1>2 DEF References
<1>6. Cardinality(References \cup {<<o, n>>}) = Cardinality(References) + 1
  BY <1>5, StrongIsNat, FS_AddElement
<1>7. QED
  BY <1>4, <1>6 DEF Strong

\* A thread's release takes one away
LEMMA StrongDown ==
    ASSUME NEW o \in Owners, strong \in [Owners -> 0 .. MaxStrong], strong[o] > 0,
           strong' = [strong EXCEPT ![o] = @ - 1]
    PROVE  Strong' = Strong - 1
<1>1. PICK n : n = strong[o]
  OBVIOUS
<1>2. n \in 1 .. MaxStrong /\ n = strong[o] /\ n - 1 = strong'[o] /\ strong[o] \in Nat
      /\ \A p \in Owners : strong[p] \in Nat /\ (p # o => strong'[p] = strong[p])
  BY <1>1, RefcountAssumption
<1>3. \A p \in Owners, k \in 1 .. MaxStrong :
        k <= strong'[p] <=> (k <= strong[p] /\ ~(p = o /\ k = n))
  BY <1>2
<1>4. References' = References \ {<<o, n>>}
  BY <1>2, <1>3, RefcountAssumption DEF References
<1>5. <<o, n>> \in References
  BY <1>2 DEF References
<1>6. Cardinality(References \ {<<o, n>>}) = Cardinality(References) - 1
  BY <1>5, StrongIsNat, FS_RemoveElement
<1>7. QED
  BY <1>4, <1>6 DEF Strong

\* Nothing else changes their number
LEMMA StrongSame ==
    ASSUME strong' = strong
    PROVE  Strong' = Strong
BY DEF Strong, References

\* A thread that holds a reference makes the number positive
LEMMA StrongPositive ==
    ASSUME NEW o \in Owners, strong \in [Owners -> 0 .. MaxStrong], strong[o] > 0
    PROVE  Strong > 0
<1>1. 1 \in 1 .. MaxStrong /\ 1 <= strong[o]
  BY RefcountAssumption
<1>2. <<o, 1>> \in References
  BY <1>1 DEF References
<1>3. Cardinality(References) # 0
  BY <1>2, StrongIsNat, FS_EmptySet
<1>4. QED
  BY <1>3, StrongIsNat DEF Strong

\* The side table's count stays a multiple of half the range
LEMMA HalvesFacts ==
    /\ 0 \in Halves
    /\ \A n \in Halves : n \in Nat /\ n + RC_HALF \in Halves
    /\ \A n \in Halves : n # 0 => n - RC_HALF \in Halves /\ n >= RC_HALF
<1> USE RefcountAssumption
<1>1. 0 = 0 * RC_HALF
  OBVIOUS
<1>2. 0 \in Halves
  BY <1>1 DEF Halves
<1>3. ASSUME NEW n \in Halves PROVE n \in Nat /\ n + RC_HALF \in Halves
  <2>1. PICK k \in Nat : n = k * RC_HALF
    BY DEF Halves
  <2>2. k * RC_HALF \in Nat /\ k * RC_HALF + RC_HALF = (k + 1) * RC_HALF
    OBVIOUS
  <2>3. QED
    BY <2>1, <2>2 DEF Halves
<1>4. ASSUME NEW n \in Halves, n # 0 PROVE n - RC_HALF \in Halves /\ n >= RC_HALF
  <2>1. PICK k \in Nat : n = k * RC_HALF
    BY DEF Halves
  <2>2. k # 0
    BY <2>1, <1>1, <1>4
  <2>3. k - 1 \in Nat /\ k * RC_HALF - RC_HALF = (k - 1) * RC_HALF
    BY <2>2
  <2>4. (k - 1) * RC_HALF \in Nat
    BY <2>3
  <2>5. QED
    BY <2>1, <2>3, <2>4 DEF Halves
<1>5. QED
  BY <1>2, <1>3, <1>4

-----------------------------------------------------------------------------
(* Steps *)

\* Only the thread that moves owes more or less than it did
LEMMA OwedOfMover ==
    ASSUME NEW o \in Owners, \A p \in Owners \ {o} : local'[p].at = local[p].at
    PROVE  /\ (local[o].at \in Owing <=> local'[o].at \in Owing) => Owed' = Owed
           /\ (\A p \in Owners \ {o} : local[p].at \notin Owing) =>
                /\ Owed = IF local[o].at \in Owing THEN RC_HALF ELSE 0
                /\ Owed' = IF local'[o].at \in Owing THEN RC_HALF ELSE 0
<1>1. (\E p \in Owners : local[p].at \in Owing)
        <=> (local[o].at \in Owing \/ \E p \in Owners \ {o} : local[p].at \in Owing)
  OBVIOUS
<1>2. (\E p \in Owners : local'[p].at \in Owing)
        <=> (local'[o].at \in Owing \/ \E p \in Owners \ {o} : local[p].at \in Owing)
  OBVIOUS
<1>3. Owed' = IF \E p \in Owners : local'[p].at \in Owing THEN RC_HALF ELSE 0
  BY DEF Owed, Owing
<1>4. Owed = IF \E p \in Owners : local[p].at \in Owing THEN RC_HALF ELSE 0
  BY DEF Owed
<1>5. QED
  BY <1>1, <1>2, <1>3, <1>4

\* What a step of one thread leaves the others
LEMMA OthersKeep ==
    ASSUME NEW o \in Owners, \A p \in Owners : ThreadOK(p) /\ EndOK(p),
           \A p \in Owners \ {o} :
              /\ local'[p] = local[p] /\ strong'[p] = strong[p]
              /\ slock = p <=> slock' = p
              /\ slock = p => isa'.side = isa.side /\ weakVar' = weakVar
              /\ local[p].at \in Ending =>
                   /\ isDeallocating(isa') /\ disposed' = disposed /\ deallocs' = deallocs
                   /\ local'[o].at \notin Ending
                   /\ local[p].at = "free" => ~weakVar',
           ThreadOK(o)', EndOK(o)'
    PROVE  \A p \in Owners : ThreadOK(p)' /\ EndOK(p)'
<1> SUFFICES ASSUME NEW p \in Owners, p # o PROVE ThreadOK(p)' /\ EndOK(p)'
  OBVIOUS
<1>1. ThreadOK(p)'
  BY DEF ThreadOK
<1>2. EndOK(p)'
  <2>1. ASSUME local[p].at \in Ending, NEW q \in Owners, local'[q].at \in Ending PROVE q = p
    BY <2>1 DEF EndOK
  <2>2. QED
    BY <2>1 DEF EndOK, Ending
<1>3. QED
  BY <1>1, <1>2

\* A thread moves: its local variables become l, and it takes or gives up the
\* lock, but nobody else's
Moves(o, l) ==
    /\ l \in Locals /\ local' = [local EXCEPT ![o] = l]
    /\ slock' \in Owners \cup {nobody} /\ \A p \in Owners \ {o} : slock = p <=> slock' = p

\* A step that moves neither a count nor the end of the object
LEMMA QuietStep ==
    ASSUME RefcountInv, NEW o \in Owners, NEW l, Moves(o, l),
           UNCHANGED <<isa, refcnts, weakState, strong, ends>>,
           local[o].at \in Owing <=> l.at \in Owing, local[o].at \notin Ending, l.at \notin Ending,
           ThreadOK(o)'
    PROVE  RefcountInv'
<1>1. /\ local'[o] = l /\ \A p \in Owners \ {o} : local'[p] = local[p]
      /\ isa' = isa /\ refcnts' = refcnts /\ weakVar' = weakVar /\ registered' = registered
      /\ strong' = strong /\ deallocs' = deallocs /\ disposed' = disposed
  BY DEF Moves, RefcountInv, RefcountTypeOK, weakState, ends
<1>2. RefcountTypeOK'
  BY <1>1 DEF Moves, RefcountInv, RefcountTypeOK
<1>3. Owed' = Owed /\ Strong' = Strong
  BY <1>1, OwedOfMover, StrongSame
<1>4. Balance' /\ SideKnown' /\ Over'
  BY <1>1, <1>3 DEF RefcountInv, Balance, SideKnown, Over
<1>5. EndOK(o)'
  BY <1>1 DEF EndOK
<1>6. \A p \in Owners : ThreadOK(p)' /\ EndOK(p)'
  <2>1. \A p \in Owners \ {o} : slock = p <=> slock' = p
    BY DEF Moves
  <2>2. \A p \in Owners \ {o} : local[p].at \in Ending =>
                   /\ isDeallocating(isa') /\ disposed' = disposed /\ deallocs' = deallocs
                   /\ local'[o].at \notin Ending
                   /\ local[p].at = "free" => ~weakVar'
    BY <1>1 DEF RefcountInv, EndOK
  <2>3. \A p \in Owners : ThreadOK(p) /\ EndOK(p)
    BY DEF RefcountInv
  <2>4. QED
    BY <1>1, <1>5, <2>1, <2>2, <2>3, OthersKeep
<1>7. QED
  BY <1>2, <1>4, <1>6 DEF RefcountInv

\* A thread goes to another place, or returns
LEMMA JumpMoves ==
    ASSUME RefcountTypeOK, NEW o \in Owners, NEW pc \in Places, Jump(o, pc), slock' = slock
    PROVE  \E l \in Locals :
              /\ Moves(o, l) /\ local'[o] = l /\ l.at = pc
              /\ l.full = local[o].full /\ l.weak = local[o].weak /\ l.old = local[o].old
              /\ l.sideTableLocked = local[o].sideTableLocked
<1>1. local[o] \in Locals /\ [local[o] EXCEPT !.at = pc] \in Locals
  BY DEF RefcountTypeOK, Locals
<1>2. Moves(o, [local[o] EXCEPT !.at = pc]) /\ local'[o] = [local[o] EXCEPT !.at = pc]
  BY <1>1 DEF Jump, Put, Moves, RefcountTypeOK
<1>3. QED
  BY <1>1, <1>2 DEF Locals

\* A function that returns unlocks, except on behalf of objc_loadWeakRetained
LEMMA FinishMoves ==
    ASSUME RefcountTypeOK, NEW o \in Owners, Finish(o)
    PROVE  \E l \in Locals :
              /\ Moves(o, l) /\ local'[o] = l
              /\ IF local[o].weak THEN l.at = "loaded" /\ l.weak /\ slock' = slock
                 ELSE l = Out /\ slock' # o
<1>1. CASE local[o].weak
  BY <1>1, JumpMoves DEF Finish, Places, Moves
<1>2. CASE ~local[o].weak
  <2>1. Out \in Locals
    BY RefcountAssumption DEF Out, Locals, Places, Isas, ExtraMax
  <2>2. local' = [local EXCEPT ![o] = Out] /\ slock' = (IF slock = o THEN nobody ELSE slock)
    BY <1>2 DEF Finish, Put, Locked
  <2>3. Moves(o, Out) /\ local'[o] = Out /\ slock' # o
    BY <2>1, <2>2, RefcountAssumption DEF Moves, RefcountTypeOK
  <2>4. QED
    BY <1>2, <2>1, <2>3
<1>3. QED
  BY <1>1, <1>2

\* The steps of a retain, a release and a weak load that only read, decide or
\* take the lock
LEMMA ReadingSteps ==
    ASSUME RefcountInv, NEW o \in Owners,
           retain(o) \/ RetainLoads(o) \/ release(o) \/ ReleaseLoads(o)
             \/ objc_loadWeakRetained(o) \/ LoadWeakLocks(o) \/ LoadWeakUnlocks(o)
    PROVE  RefcountInv'
<1>0. RefcountTypeOK /\ ThreadOK(o) /\ local[o] \in Locals /\ isa \in Isas
  BY DEF RefcountInv, RefcountTypeOK
<1>1. CASE retain(o)
  <2>1. PICK l \in Locals : Moves(o, l) /\ local'[o] = l /\ l.at = "retain"
           /\ l.weak = local[o].weak /\ l.sideTableLocked = local[o].sideTableLocked
    BY <1>0, <1>1, JumpMoves DEF retain, Places, Retaining
  <2>2. ThreadOK(o)'
    BY <1>0, <1>1, <2>1, RefcountAssumption DEF retain, On, ThreadOK, RefcountTypeOK, Owing, Retaining, Releasing, weakState
  <2>3. QED
    BY <1>1, <2>1, <2>2, QuietStep DEF retain, On, Owing, Ending
<1>2. CASE release(o)
  <2>1. PICK l \in Locals : Moves(o, l) /\ local'[o] = l /\ l.at = "release" /\ l.weak = local[o].weak
    BY <1>0, <1>2, JumpMoves DEF release, Places, Releasing
  <2>2. ThreadOK(o)'
    BY <1>0, <1>2, <2>1 DEF release, On, ThreadOK, Owing, Retaining, Releasing, weakState
  <2>3. QED
    BY <1>2, <2>1, <2>2, QuietStep DEF release, On, Owing, Ending
<1>3. CASE objc_loadWeakRetained(o)
  <2>1. PICK l \in Locals : Moves(o, l) /\ local'[o] = l /\ l.at = "lockLoad" /\ l.weak = local[o].weak
    BY <1>0, <1>3, JumpMoves DEF objc_loadWeakRetained, Places
  <2>2. ThreadOK(o)'
    BY <1>0, <1>3, <2>1 DEF objc_loadWeakRetained, On, ThreadOK, Owing, Retaining, Releasing, weakState
  <2>3. QED
    BY <1>3, <2>1, <2>2, QuietStep DEF objc_loadWeakRetained, On, Owing, Ending
<1>4. CASE RetainLoads(o)
  <2> DEFINE l == [local[o] EXCEPT !.old = isa, !.at = "addc"]
  <2>1. /\ Moves(o, l) /\ local'[o] = l /\ l.at = "addc"
        /\ l.weak = local[o].weak /\ l.sideTableLocked = local[o].sideTableLocked
    BY <1>0, <1>4 DEF RetainLoads, Put, Moves, RefcountTypeOK, Locals, Places, Retaining
  <2> HIDE DEF l
  <2>2. ThreadOK(o)'
    BY <1>0, <1>4, <2>1 DEF RetainLoads, On, ThreadOK, Owing, Retaining, Releasing, weakState
  <2>3. QED
    BY <1>4, <2>1, <2>2, QuietStep DEF RetainLoads, On, Owing, Ending
<1>5. CASE ReleaseLoads(o)
  <2> DEFINE l == [local[o] EXCEPT !.old = isa, !.at = "subc"]
  <2>1. Moves(o, l) /\ local'[o] = l /\ l.at = "subc" /\ l.weak = local[o].weak /\ l.old = isa
    BY <1>0, <1>5 DEF ReleaseLoads, Put, Moves, RefcountTypeOK, Locals, Places, Releasing
  <2> HIDE DEF l
  <2>2. ThreadOK(o)'
    BY <1>0, <1>5, <2>1 DEF ReleaseLoads, On, ThreadOK, Owing, Retaining, Releasing, weakState
  <2>3. QED
    BY <1>5, <2>1, <2>2, QuietStep DEF ReleaseLoads, On, Owing, Ending
<1>6. CASE LoadWeakUnlocks(o)
  <2>1. Out \in Locals
    BY RefcountAssumption DEF Out, Locals, Places, Isas, ExtraMax
  <2>2. PICK l \in Locals : /\ Moves(o, l) /\ local'[o] = l
                            /\ (l.at = "aborted" /\ l.weak) \/ l = Out
    <3>1. CASE slock = o
      BY <1>0, <1>6, <2>1, <3>1, RefcountAssumption DEF LoadWeakUnlocks, Locked, Put, Moves, RefcountTypeOK
    <3>2. CASE slock # o
      BY <1>0, <1>6, <3>2, JumpMoves DEF LoadWeakUnlocks, Locked, On, ThreadOK, Places
    <3>3. QED
      BY <3>1, <3>2
  <2>3. ThreadOK(o)'
    BY <2>2 DEF ThreadOK, Out, Owing, Retaining, Releasing
  <2>4. QED
    BY <1>6, <2>2, <2>3, QuietStep DEF LoadWeakUnlocks, On, Owing, Ending, Out
<1>7. CASE LoadWeakLocks(o)
  <2> DEFINE l == IF weakVar THEN [Out EXCEPT !.weak = TRUE, !.at = "retain"] ELSE Out
  <2>1. l \in Locals
    <3>1. Out \in Locals
      BY RefcountAssumption DEF Out, Locals, Places, Isas, ExtraMax
    <3>2. [Out EXCEPT !.weak = TRUE, !.at = "retain"] \in Locals
      BY <3>1 DEF Locals, Places, Retaining
    <3>3. QED
      BY <3>1, <3>2
  <2>2. Moves(o, l) /\ local'[o] = l /\ (weakVar => slock' = o)
    BY <1>0, <1>7, <2>1, RefcountAssumption DEF LoadWeakLocks, Put, Moves, RefcountTypeOK
  <2>3. l.at = (IF weakVar THEN "retain" ELSE "out") /\ l.weak = weakVar /\ ~l.sideTableLocked
    BY <1>0 DEF Out, RefcountTypeOK
  <2> HIDE DEF l
  <2>4. ThreadOK(o)'
    BY <1>0, <1>7, <2>2, <2>3 DEF LoadWeakLocks, On, ThreadOK, Owing, Retaining, Releasing, weakState
  <2>5. QED
    BY <1>7, <2>2, <2>3, <2>4, QuietStep DEF LoadWeakLocks, On, Owing, Ending
<1>8. QED
  BY <1>1, <1>2, <1>3, <1>4, <1>5, <1>6, <1>7

\* A retain decides what to store
LEMMA RetainAddsKeeps ==
    ASSUME RefcountInv, NEW o \in Owners, RetainAdds(o)
    PROVE  RefcountInv'
<1>0. RefcountTypeOK /\ ThreadOK(o) /\ local[o] \in Locals /\ isa \in Isas
  BY DEF RefcountInv, RefcountTypeOK
<1>1. /\ local[o].at = "addc" /\ isa' = isa /\ strong' = strong /\ weakVar' = weakVar
      /\ UNCHANGED <<isa, refcnts, weakState, strong, ends>>
  BY DEF RetainAdds, On, weakState
<1>2. CASE isDeallocating(local[o].old) /\ RetainGivesUp(o)
  <2> DEFINE l == IF local[o].weak THEN [local[o] EXCEPT !.at = "loaded"] ELSE Out
  <2>1. l \in Locals
    <3>1. Out \in Locals /\ [local[o] EXCEPT !.at = "loaded"] \in Locals
      BY <1>0, RefcountAssumption DEF Out, Locals, Places, Isas, ExtraMax
    <3>2. QED
      BY <3>1
  <2>2. local[o].sideTableLocked => slock = o
    BY <1>0, <1>1 DEF ThreadOK, Retaining
  <2>3. Moves(o, l) /\ local'[o] = l
    BY <1>0, <1>2, <2>1, <2>2, RefcountAssumption DEF RetainGivesUp, Put, Moves, RefcountTypeOK
  <2>4. l.at \in {"out", "loaded"} /\ (l.weak <=> l.at = "loaded") /\ (l.at = "out" => ~l.sideTableLocked)
    BY <1>0 DEF Locals, Out
  <2> HIDE DEF l
  <2>5. ThreadOK(o)'
    BY <2>3, <2>4 DEF ThreadOK, Owing, Retaining, Releasing
  <2>6. QED
    BY <1>1, <2>3, <2>4, <2>5, QuietStep DEF Owing, Ending
<1>3. CASE local[o].old.extra = ExtraMax /\ ~local[o].full
             /\ Put(o, [local[o] EXCEPT !.full = TRUE, !.at = "retain"]) /\ UNCHANGED slock
  <2> DEFINE l == [local[o] EXCEPT !.full = TRUE, !.at = "retain"]
  <2>1. /\ Moves(o, l) /\ local'[o] = l /\ l.at = "retain"
        /\ l.weak = local[o].weak /\ l.sideTableLocked = local[o].sideTableLocked
    BY <1>0, <1>3 DEF Put, Moves, RefcountTypeOK, Locals, Places, Retaining
  <2> HIDE DEF l
  <2>2. ThreadOK(o)'
    BY <1>0, <1>1, <1>3, <2>1 DEF ThreadOK, Owing, Retaining, Releasing
  <2>3. QED
    BY <1>1, <2>1, <2>2, QuietStep DEF Owing, Ending
<1>4. CASE Jump(o, "storeRetain") /\ ~isDeallocating(local[o].old) /\ local[o].old.extra < ExtraMax
           /\ UNCHANGED slock
  <2>1. PICK l \in Locals :
           /\ Moves(o, l) /\ local'[o] = l /\ l.at = "storeRetain" /\ l.old = local[o].old
           /\ l.weak = local[o].weak /\ l.sideTableLocked = local[o].sideTableLocked
    BY <1>0, <1>4, JumpMoves DEF Places, Retaining
  <2>2. local[o].old.extra # ExtraMax
    BY <1>0, <1>4, RefcountAssumption DEF Locals, Isas, ExtraMax
  <2>3. ThreadOK(o)'
    BY <1>0, <1>1, <1>4, <2>1, <2>2 DEF ThreadOK, Owing, Retaining, Releasing
  <2>4. QED
    BY <1>1, <2>1, <2>3, QuietStep DEF Owing, Ending
<1>5. CASE /\ local[o].old.extra = ExtraMax
           /\ IF local[o].weak \/ local[o].sideTableLocked THEN UNCHANGED slock ELSE Locks(o)
           /\ Put(o, [local[o] EXCEPT !.sideTableLocked = TRUE, !.at = "storeRetain"])
  <2> DEFINE l == [local[o] EXCEPT !.sideTableLocked = TRUE, !.at = "storeRetain"]
  <2>1. l \in Locals /\ l.at = "storeRetain" /\ l.weak = local[o].weak /\ l.old = local[o].old
    BY <1>0 DEF Locals, Places, Retaining
  <2>2. slock' = o /\ (slock # o => slock = nobody)
    BY <1>0, <1>1, <1>5 DEF Locks, ThreadOK, Retaining
  <2>3. Moves(o, l) /\ local'[o] = l
    BY <1>0, <1>5, <2>1, <2>2, RefcountAssumption DEF Put, Moves, RefcountTypeOK
  <2>4. ~isDeallocating(local[o].old)
    BY <1>5, RefcountAssumption DEF isDeallocating, ExtraMax
  <2> HIDE DEF l
  <2>5. ThreadOK(o)'
    BY <1>0, <1>1, <2>1, <2>2, <2>3, <2>4 DEF ThreadOK, Owing, Retaining, Releasing
  <2>6. QED
    BY <1>1, <2>1, <2>3, <2>5, QuietStep DEF Owing, Ending
<1>6. QED
  BY <1>2, <1>3, <1>4, <1>5 DEF RetainAdds

\* An object that somebody holds is not being deallocated
LEMMA HeldIsAlive ==
    ASSUME RefcountInv, NEW o \in Owners, strong[o] > 0
    PROVE  ~isDeallocating(isa)
<1>1. refcnts \in Nat /\ Owed \in Nat /\ Strong \in Nat /\ Strong > 0
  BY HalvesFacts, StrongIsNat, StrongPositive, RefcountAssumption DEF RefcountInv, RefcountTypeOK, Owed
<1>2. QED
  BY <1>1 DEF isDeallocating, RefcountInv, Balance, SideKnown

\* A step of a thread that moves a count of an object that is alive
LEMMA CountedStep ==
    ASSUME RefcountInv, NEW o \in Owners, NEW l, Moves(o, l), RefcountTypeOK', ~isDeallocating(isa),
           UNCHANGED <<weakState, ends>>, isa'.weakly = isa.weakly, isa'.side # isa.side => slock = o,
           \A p \in Owners \ {o} : strong'[p] = strong[p], Balance', SideKnown', ThreadOK(o)',
           l.at \in Ending => l.at = "deallocate" /\ isDeallocating(isa')
    PROVE  RefcountInv'
<1>1. /\ local'[o] = l /\ \A p \in Owners \ {o} : local'[p] = local[p] /\ (slock = p <=> slock' = p)
      /\ weakVar' = weakVar /\ deallocs' = deallocs /\ disposed' = disposed
  BY DEF Moves, RefcountInv, RefcountTypeOK, weakState, ends
<1>2. deallocs = 0 /\ ~disposed /\ \A p \in Owners : local[p].at \notin Ending
  BY DEF RefcountInv, RefcountTypeOK, Over, EndOK
<1>3. Over'
  BY <1>1, <1>2 DEF RefcountInv, Over
<1>4. EndOK(o)'
  <2>1. ASSUME NEW p \in Owners, local'[p].at \in Ending PROVE p = o
    BY <1>1, <1>2, <2>1
  <2>2. QED
    BY <1>1, <1>2, <2>1 DEF EndOK
<1>5. \A p \in Owners : ThreadOK(p)' /\ EndOK(p)'
  <2>1. \A p \in Owners : ThreadOK(p) /\ EndOK(p)
    BY DEF RefcountInv
  <2>2. QED
    BY <1>1, <1>2, <1>4, <2>1, OthersKeep
<1>6. QED
  BY <1>3, <1>5 DEF RefcountInv

\* Nobody but the holder of the lock owes anything
LEMMA OnlyHolderOwes ==
    ASSUME RefcountInv, NEW o \in Owners, NEW l, Moves(o, l)
    PROVE  /\ (local[o].at \in Owing <=> l.at \in Owing) => Owed' = Owed
           /\ slock = o => /\ Owed = IF local[o].at \in Owing THEN RC_HALF ELSE 0
                           /\ Owed' = IF l.at \in Owing THEN RC_HALF ELSE 0
<1>1. local'[o] = l /\ \A p \in Owners \ {o} : local'[p].at = local[p].at
  BY DEF Moves, RefcountInv, RefcountTypeOK
<1>2. slock = o => \A p \in Owners \ {o} : local[p].at \notin Owing
  BY DEF RefcountInv, ThreadOK
<1>3. QED
  BY <1>1, <1>2, OwedOfMover

\* The compare-and-swap of a retain
LEMMA RetainStoresKeeps ==
    ASSUME RefcountInv, NEW o \in Owners, RetainStores(o)
    PROVE  RefcountInv'
<1>0. /\ RefcountTypeOK /\ ThreadOK(o) /\ local[o] \in Locals /\ isa \in Isas /\ local[o].at = "storeRetain"
      /\ refcnts' = refcnts /\ UNCHANGED <<weakState, ends>> /\ weakVar' = weakVar /\ registered' = registered
      /\ deallocs' = deallocs /\ disposed' = disposed
  BY DEF RefcountInv, RefcountTypeOK, RetainStores, On, weakState, ends
<1>1. CASE isa # local[o].old
  <2> DEFINE l == [local[o] EXCEPT !.old = isa, !.at = "addc"]
  <2>1. Moves(o, l) /\ local'[o] = l /\ l.at = "addc" /\ l.weak = local[o].weak
        /\ l.sideTableLocked = local[o].sideTableLocked /\ UNCHANGED <<isa, strong, slock>>
    BY <1>0, <1>1 DEF RetainStores, Put, Moves, RefcountTypeOK, Locals, Places, Retaining
  <2> HIDE DEF l
  <2>2. ThreadOK(o)'
    BY <1>0, <2>1 DEF ThreadOK, Owing, Retaining, Releasing
  <2>3. QED
    BY <1>0, <2>1, <2>2, QuietStep DEF Owing, Ending
<1>2. CASE isa = local[o].old
  <2>0. /\ ~isDeallocating(isa) /\ strong[o] < MaxStrong /\ strong' = [strong EXCEPT ![o] = @ + 1]
        /\ refcnts \in Nat /\ Strong \in Nat /\ Strong' = Strong + 1
        /\ strong' \in [Owners -> 0 .. MaxStrong] /\ \A p \in Owners \ {o} : strong'[p] = strong[p]
        /\ strong'[o] > 0
    <3>1. ~isDeallocating(isa) /\ strong[o] < MaxStrong /\ strong' = [strong EXCEPT ![o] = @ + 1]
      BY <1>0, <1>2 DEF RetainStores, ThreadOK, Retaining
    <3>2. Strong' = Strong + 1
      BY <1>0, <3>1, StrongUp DEF RefcountTypeOK
    <3>3. refcnts \in Nat /\ Strong \in Nat
      BY <1>0, HalvesFacts, StrongIsNat DEF RefcountTypeOK
    <3>4. QED
      BY <1>0, <3>1, <3>2, <3>3, RefcountAssumption DEF RefcountTypeOK
  <2>1. CASE isa.extra = ExtraMax
    <3>1. /\ Jump(o, "transcribe") /\ slock' = slock /\ slock = o
          /\ isa' = [isa EXCEPT !.extra = RC_HALF, !.side = TRUE]
      BY <1>0, <1>2, <2>1 DEF RetainStores, ThreadOK
    <3>2. isa' \in Isas /\ isa'.extra = RC_HALF /\ isa'.side /\ isa'.weakly = isa.weakly
      <4>1. isa'.extra = RC_HALF /\ isa'.side = TRUE /\ isa'.weakly = isa.weakly
        BY <1>0, <3>1 DEF Isas
      <4>2. RC_HALF \in 0 .. ExtraMax
        BY RefcountAssumption DEF ExtraMax
      <4>3. isa' \in Isas
        BY <1>0, <3>1, <4>2 DEF Isas
      <4>4. QED
        BY <4>1, <4>3
    <3>3. PICK l \in Locals : Moves(o, l) /\ local'[o] = l /\ l.at = "transcribe" /\ l.weak = local[o].weak
      BY <1>0, <3>1, JumpMoves DEF Places, Owing
    <3>4. Owed = 0 /\ Owed' = RC_HALF
      BY <1>0, <3>1, <3>3, OnlyHolderOwes DEF Owing
    <3>5. RefcountTypeOK'
      BY <1>0, <2>0, <3>2, <3>3 DEF RefcountTypeOK, Moves
    <3>6. Balance' /\ SideKnown'
      BY <1>0, <2>0, <2>1, <3>2, <3>4, RefcountAssumption DEF RefcountInv, Balance, SideKnown, ExtraMax
    <3>7. ThreadOK(o)'
      BY <1>0, <2>0, <3>1, <3>3 DEF ThreadOK, Owing, Retaining, Releasing
    <3>8. QED
      BY <1>0, <2>0, <3>1, <3>2, <3>3, <3>5, <3>6, <3>7, CountedStep DEF Ending
  <2>2. CASE isa.extra # ExtraMax
    <3>1. Finish(o) /\ isa' = [isa EXCEPT !.extra = @ + 1]
      BY <1>0, <1>2, <2>2 DEF RetainStores
    <3>2. isa' \in Isas /\ isa'.extra = isa.extra + 1 /\ isa'.side = isa.side /\ isa'.weakly = isa.weakly
      BY <1>0, <2>2, <3>1, RefcountAssumption DEF Isas, ExtraMax
    <3>3. PICK l \in Locals :
              /\ Moves(o, l) /\ local'[o] = l
              /\ IF local[o].weak THEN l.at = "loaded" /\ l.weak /\ slock' = slock
                 ELSE l = Out /\ slock' # o
      BY <1>0, <3>1, FinishMoves
    <3>4. l.at \in {"out", "loaded"} /\ (l.weak <=> l.at = "loaded") /\ (l.at = "out" => ~l.sideTableLocked)
          /\ (l.weak => local[o].weak /\ slock' = slock)
      BY <3>3 DEF Out
    <3>5. Owed' = Owed
      BY <1>0, <3>3, <3>4, OnlyHolderOwes DEF Owing
    <3>6. RefcountTypeOK'
      BY <1>0, <2>0, <3>2, <3>3 DEF RefcountTypeOK, Moves
    <3>7. Balance' /\ SideKnown'
      <4>1. Owed \in Nat /\ isa.extra \in Nat
        BY <1>0, RefcountAssumption DEF Owed, Isas, ExtraMax
      <4>2. QED
        BY <1>0, <2>0, <3>2, <3>5, <4>1 DEF RefcountInv, Balance, SideKnown
    <3>8. ThreadOK(o)'
      BY <1>0, <3>3, <3>4 DEF ThreadOK, Owing, Retaining, Releasing
    <3>9. QED
      BY <1>0, <2>0, <3>2, <3>3, <3>4, <3>6, <3>7, <3>8, CountedStep DEF Ending
  <2>3. QED
    BY <2>1, <2>2
<1>3. QED
  BY <1>1, <1>2

\* What was taken from the isa arrives in the side table
LEMMA TranscribeKeeps ==
    ASSUME RefcountInv, NEW o \in Owners, Transcribe(o)
    PROVE  RefcountInv'
<1>0. /\ RefcountTypeOK /\ ThreadOK(o) /\ isa \in Isas /\ local[o].at = "transcribe"
      /\ isa' = isa /\ strong' = strong /\ refcnts' = refcnts + RC_HALF /\ Finish(o)
      /\ UNCHANGED <<weakState, ends>> /\ weakVar' = weakVar /\ registered' = registered
      /\ deallocs' = deallocs /\ disposed' = disposed
  BY DEF RefcountInv, RefcountTypeOK, Transcribe, On, weakState, ends
<1>1. slock = o /\ strong[o] > 0
  BY <1>0 DEF ThreadOK, Owing
<1>2. PICK l \in Locals :
          /\ Moves(o, l) /\ local'[o] = l
          /\ IF local[o].weak THEN l.at = "loaded" /\ l.weak /\ slock' = slock
             ELSE l = Out /\ slock' # o
  BY <1>0, FinishMoves
<1>3. l.at \in {"out", "loaded"} /\ (l.weak <=> l.at = "loaded") /\ (l.at = "out" => ~l.sideTableLocked)
      /\ (l.weak => local[o].weak /\ slock' = slock)
  BY <1>2 DEF Out
<1>4. Owed = RC_HALF /\ Owed' = 0 /\ Strong' = Strong /\ refcnts \in Nat /\ refcnts' \in Halves
  BY <1>0, <1>1, <1>2, <1>3, OnlyHolderOwes, StrongSame, HalvesFacts DEF Owing, RefcountTypeOK
<1>5. RefcountTypeOK'
  BY <1>0, <1>2, <1>4 DEF RefcountTypeOK, Moves
<1>6. Balance' /\ SideKnown'
  BY <1>0, <1>4, RefcountAssumption DEF RefcountInv, Balance, SideKnown, Isas, ExtraMax
<1>7. ThreadOK(o)'
  BY <1>0, <1>2, <1>3 DEF ThreadOK, Owing, Retaining, Releasing
<1>8. ~isDeallocating(isa)
  BY <1>1, HeldIsAlive
<1>9. QED
  BY <1>0, <1>2, <1>3, <1>5, <1>6, <1>7, <1>8, CountedStep DEF Ending

\* A release decides, takes the lock or borrows from the side table
LEMMA ReleaseSubtractsKeeps ==
    ASSUME RefcountInv, NEW o \in Owners, ReleaseSubtracts(o)
    PROVE  RefcountInv'
<1>0. /\ RefcountTypeOK /\ ThreadOK(o) /\ local[o] \in Locals /\ isa \in Isas /\ local[o].at = "subc"
      /\ isa' = isa /\ strong' = strong
      /\ UNCHANGED <<isa, weakState, strong, ends>> /\ weakVar' = weakVar /\ registered' = registered
      /\ deallocs' = deallocs /\ disposed' = disposed
  BY DEF RefcountInv, RefcountTypeOK, ReleaseSubtracts, On, weakState, ends
<1>1. strong[o] > 0 /\ ~local[o].weak /\ ~isDeallocating(isa)
  BY <1>0, HeldIsAlive DEF ThreadOK, Releasing, Retaining
<1>2. CASE Finish(o) /\ UNCHANGED refcnts
  <2>1. PICK l \in Locals : Moves(o, l) /\ local'[o] = l /\ l = Out
    BY <1>0, <1>1, <1>2, FinishMoves
  <2>2. ThreadOK(o)'
    BY <2>1 DEF ThreadOK, Out, Owing, Retaining, Releasing
  <2>3. QED
    BY <1>0, <1>2, <2>1, <2>2, QuietStep DEF Owing, Ending, Out
<1>3. CASE local[o].old.extra > 0 /\ Jump(o, "storeRelease") /\ UNCHANGED <<slock, refcnts>>
  <2>1. PICK l \in Locals : /\ Moves(o, l) /\ local'[o] = l /\ l.at = "storeRelease"
                            /\ l.weak = local[o].weak /\ l.old = local[o].old
    BY <1>0, <1>3, JumpMoves DEF Places, Releasing
  <2>2. ThreadOK(o)'
    BY <1>0, <1>1, <1>3, <2>1 DEF ThreadOK, Owing, Retaining, Releasing
  <2>3. QED
    BY <1>0, <1>3, <2>1, <2>2, QuietStep DEF Owing, Ending
<1>4. CASE Put(o, [local[o] EXCEPT !.full = TRUE, !.at = "release"]) /\ UNCHANGED <<slock, refcnts>>
  <2> DEFINE l == [local[o] EXCEPT !.full = TRUE, !.at = "release"]
  <2>1. Moves(o, l) /\ local'[o] = l /\ l.at = "release" /\ l.weak = local[o].weak
    BY <1>0, <1>4 DEF Put, Moves, RefcountTypeOK, Locals, Places, Releasing
  <2> HIDE DEF l
  <2>2. ThreadOK(o)'
    BY <1>0, <1>1, <2>1 DEF ThreadOK, Owing, Retaining, Releasing
  <2>3. QED
    BY <1>0, <1>4, <2>1, <2>2, QuietStep DEF Owing, Ending
<1>5. CASE Locks(o) /\ Jump(o, "release") /\ UNCHANGED refcnts
  <2> DEFINE l == [local[o] EXCEPT !.at = "release"]
  <2>1. Moves(o, l) /\ local'[o] = l /\ l.at = "release" /\ l.weak = local[o].weak
    BY <1>0, <1>5, RefcountAssumption
       DEF Jump, Put, Locks, Moves, RefcountTypeOK, Locals, Places, Releasing
  <2> HIDE DEF l
  <2>2. ThreadOK(o)'
    BY <1>0, <1>1, <2>1 DEF ThreadOK, Owing, Retaining, Releasing
  <2>3. QED
    BY <1>0, <1>5, <2>1, <2>2, QuietStep DEF Owing, Ending
<1>6. CASE /\ local[o].old.extra = 0 /\ local[o].old.side /\ slock = o /\ UNCHANGED slock
           /\ IF refcnts = 0 THEN Jump(o, "deallocate") /\ UNCHANGED refcnts
              ELSE refcnts' = refcnts - RC_HALF /\ Jump(o, "storeBorrow")
  <2>1. Owed = 0
    BY <1>0, <1>6 DEF Owed, Owing, RefcountInv, ThreadOK
  <2>2. refcnts # 0
    BY <1>0, <1>6, <2>1 DEF RefcountInv, SideKnown, ThreadOK
  <2>3. refcnts' = refcnts - RC_HALF /\ refcnts \in Nat /\ refcnts' \in Halves /\ refcnts' \in Nat
    BY <1>0, <1>6, <2>2, HalvesFacts DEF RefcountTypeOK
  <2>4. PICK l \in Locals : /\ Moves(o, l) /\ local'[o] = l /\ l.at = "storeBorrow"
                            /\ l.weak = local[o].weak /\ l.old = local[o].old
    BY <1>0, <1>6, <2>2, JumpMoves DEF Places, Releasing
  <2>5. Owed' = RC_HALF /\ Strong' = Strong
    BY <1>0, <1>6, <2>4, OnlyHolderOwes, StrongSame DEF Owing
  <2>6. RefcountTypeOK'
    BY <1>0, <2>3, <2>4 DEF RefcountTypeOK, Moves
  <2>7. Balance' /\ SideKnown'
    BY <1>0, <2>1, <2>3, <2>5, RefcountAssumption DEF RefcountInv, Balance, SideKnown, Isas, ExtraMax
  <2>8. ThreadOK(o)'
    BY <1>0, <1>1, <1>6, <2>4 DEF ThreadOK, Owing, Retaining, Releasing
  <2>9. QED
    BY <1>0, <1>1, <2>4, <2>6, <2>7, <2>8, CountedStep DEF Ending
<1>7. \/ Finish(o) /\ UNCHANGED refcnts
      \/ local[o].old.extra > 0 /\ Jump(o, "storeRelease") /\ UNCHANGED <<slock, refcnts>>
      \/ Put(o, [local[o] EXCEPT !.full = TRUE, !.at = "release"]) /\ UNCHANGED <<slock, refcnts>>
      \/ Locks(o) /\ Jump(o, "release") /\ UNCHANGED refcnts
      \/ /\ local[o].old.extra = 0 /\ local[o].old.side /\ slock = o /\ UNCHANGED slock
         /\ IF refcnts = 0 THEN Jump(o, "deallocate") /\ UNCHANGED refcnts
            ELSE refcnts' = refcnts - RC_HALF /\ Jump(o, "storeBorrow")
  BY DEF ReleaseSubtracts, Locked
<1>8. QED
  BY <1>2, <1>3, <1>4, <1>5, <1>6, <1>7

\* A thread that releases gives up one reference
LEMMA ReleasedOne ==
    ASSUME RefcountTypeOK, NEW o \in Owners, strong[o] > 0, strong' = [strong EXCEPT ![o] = @ - 1]
    PROVE  /\ strong' \in [Owners -> 0 .. MaxStrong] /\ \A p \in Owners \ {o} : strong'[p] = strong[p]
           /\ Strong' = Strong - 1 /\ Strong \in Nat /\ refcnts \in Nat
<1>1. Strong' = Strong - 1 /\ Strong \in Nat /\ refcnts \in Nat
  BY StrongDown, StrongIsNat, HalvesFacts DEF RefcountTypeOK
<1>2. QED
  BY <1>1, RefcountAssumption DEF RefcountTypeOK

\* The compare-and-swap of a release
LEMMA ReleaseStoresKeeps ==
    ASSUME RefcountInv, NEW o \in Owners, ReleaseStores(o)
    PROVE  RefcountInv'
<1>0. /\ RefcountTypeOK /\ ThreadOK(o) /\ local[o] \in Locals /\ isa \in Isas
      /\ local[o].at = "storeRelease" /\ refcnts' = refcnts
      /\ UNCHANGED <<weakState, ends>> /\ weakVar' = weakVar /\ registered' = registered
      /\ deallocs' = deallocs /\ disposed' = disposed
  BY DEF RefcountInv, RefcountTypeOK, ReleaseStores, On, weakState, ends
<1>1. strong[o] > 0 /\ ~local[o].weak /\ ~isDeallocating(isa) /\ local[o].old.extra > 0
  BY <1>0, HeldIsAlive DEF ThreadOK, Releasing, Retaining
<1>2. CASE isa # local[o].old
  <2> DEFINE l == [local[o] EXCEPT !.old = isa, !.at = "subc"]
  <2>1. Moves(o, l) /\ local'[o] = l /\ l.at = "subc" /\ l.weak = local[o].weak /\ l.old = isa
        /\ UNCHANGED <<isa, strong, slock>>
    BY <1>0, <1>2 DEF ReleaseStores, Put, Moves, RefcountTypeOK, Locals, Places, Releasing
  <2> HIDE DEF l
  <2>2. ThreadOK(o)'
    BY <1>0, <1>1, <2>1 DEF ThreadOK, Owing, Retaining, Releasing
  <2>3. QED
    BY <1>0, <2>1, <2>2, QuietStep DEF Owing, Ending
<1>3. CASE isa = local[o].old
  <2>1. /\ isa' = [isa EXCEPT !.extra = @ - 1] /\ strong' = [strong EXCEPT ![o] = @ - 1]
        /\ IF isDeallocating(isa') THEN Jump(o, "deallocate") /\ UNCHANGED slock ELSE Finish(o)
    BY <1>0, <1>3 DEF ReleaseStores
  <2>2. isa' \in Isas /\ isa'.extra = isa.extra - 1 /\ isa'.side = isa.side /\ isa'.weakly = isa.weakly
    BY <1>0, <1>1, <1>3, <2>1, RefcountAssumption DEF Isas, ExtraMax
  <2>3. PICK l \in Locals :
           /\ Moves(o, l) /\ local'[o] = l /\ ~l.weak /\ l.at \in {"out", "deallocate"}
           /\ l.at = "deallocate" => isDeallocating(isa')
           /\ l.at = "out" => ~l.sideTableLocked
    <3>1. CASE isDeallocating(isa')
      BY <1>0, <1>1, <2>1, <3>1, JumpMoves DEF Places, Ending
    <3>2. CASE ~isDeallocating(isa')
      BY <1>0, <1>1, <2>1, <3>2, FinishMoves DEF Out
    <3>3. QED
      BY <3>1, <3>2
  <2>4. /\ strong' \in [Owners -> 0 .. MaxStrong] /\ \A p \in Owners \ {o} : strong'[p] = strong[p]
        /\ Strong' = Strong - 1 /\ Strong \in Nat /\ refcnts \in Nat
    BY <1>0, <1>1, <2>1, ReleasedOne
  <2>5. Owed' = Owed /\ Owed \in Nat /\ isa.extra \in Nat
    BY <1>0, <2>3, OnlyHolderOwes, RefcountAssumption DEF Owing, Owed, Isas, ExtraMax
  <2>6. RefcountTypeOK'
    BY <1>0, <2>2, <2>3, <2>4 DEF RefcountTypeOK, Moves
  <2>7. Balance' /\ SideKnown'
    BY <1>0, <2>2, <2>4, <2>5 DEF RefcountInv, Balance, SideKnown
  <2>8. ThreadOK(o)'
    BY <2>3 DEF ThreadOK, Owing, Retaining, Releasing
  <2>9. QED
    BY <1>0, <1>1, <2>2, <2>3, <2>4, <2>6, <2>7, <2>8, CountedStep DEF Ending
<1>4. QED
  BY <1>2, <1>3

\* The compare-and-swap after a borrowing, and its second try
LEMMA BorrowKeeps ==
    ASSUME RefcountInv, NEW o \in Owners, BorrowStores(o) \/ BorrowStoresAgain(o)
    PROVE  RefcountInv'
<1>0. /\ RefcountTypeOK /\ ThreadOK(o) /\ local[o] \in Locals /\ isa \in Isas
      /\ local[o].at \in {"storeBorrow", "again"}
      /\ UNCHANGED <<weakState, ends>> /\ weakVar' = weakVar /\ registered' = registered
      /\ deallocs' = deallocs /\ disposed' = disposed
  BY DEF RefcountInv, RefcountTypeOK, BorrowStores, BorrowStoresAgain, On, weakState, ends
<1>1. strong[o] > 0 /\ ~local[o].weak /\ ~isDeallocating(isa) /\ slock = o /\ refcnts \in Nat
  BY <1>0, HeldIsAlive, HalvesFacts DEF ThreadOK, Releasing, Retaining, Owing, RefcountTypeOK
<1>2. CASE BorrowStores(o) /\ isa # local[o].old
  <2> DEFINE l == [local[o] EXCEPT !.old = isa, !.at = "again"]
  <2>1. Moves(o, l) /\ local'[o] = l /\ l.at = "again" /\ l.weak = local[o].weak
        /\ UNCHANGED <<isa, strong, slock, refcnts>>
    BY <1>0, <1>2 DEF BorrowStores, Put, Moves, RefcountTypeOK, Locals, Places, Releasing
  <2> HIDE DEF l
  <2>2. ThreadOK(o)'
    BY <1>0, <1>1, <2>1 DEF ThreadOK, Owing, Retaining, Releasing
  <2>3. QED
    BY <1>0, <2>1, <2>2, QuietStep DEF Owing, Ending
\* The store succeeds, with all that was borrowed but one
<1>3. ASSUME isa' = [isa EXCEPT !.extra = @ + RC_HALF - 1, !.side = refcnts > 0],
             isa.extra + RC_HALF - 1 <= ExtraMax, strong' = [strong EXCEPT ![o] = @ - 1],
             Finish(o), refcnts' = refcnts
      PROVE  RefcountInv'
  <2>1. /\ isa' \in Isas /\ isa'.extra = isa.extra + RC_HALF - 1 /\ isa'.side = (refcnts > 0)
        /\ isa'.weakly = isa.weakly /\ isa.extra \in Nat
    <3>1. isa.extra \in Nat /\ isa.extra + RC_HALF - 1 \in 0 .. ExtraMax /\ (refcnts > 0) \in BOOLEAN
      BY <1>0, <1>3, RefcountAssumption DEF Isas, ExtraMax
    <3>2. QED
      BY <1>0, <1>3, <3>1 DEF Isas
  <2>2. PICK l \in Locals : Moves(o, l) /\ local'[o] = l /\ l = Out
    BY <1>0, <1>1, <1>3, FinishMoves
  <2>3. /\ strong' \in [Owners -> 0 .. MaxStrong] /\ \A p \in Owners \ {o} : strong'[p] = strong[p]
        /\ Strong' = Strong - 1 /\ Strong \in Nat
    BY <1>0, <1>1, <1>3, ReleasedOne
  <2>4. Owed = RC_HALF /\ Owed' = 0
    BY <1>0, <1>1, <2>2, OnlyHolderOwes DEF Owing, Out
  <2>5. RefcountTypeOK'
    BY <1>0, <1>3, <2>1, <2>2, <2>3 DEF RefcountTypeOK, Moves
  <2>6. Balance'
    BY <1>0, <1>1, <1>3, <2>1, <2>3, <2>4, RefcountAssumption DEF RefcountInv, Balance
  <2>7. SideKnown'
    <3>1. (refcnts' + Owed' > 0) = (refcnts > 0)
      BY <1>1, <1>3, <2>4
    <3>2. isa'.side = (refcnts' + Owed' > 0)
      BY <2>1, <3>1
    <3>3. QED
      BY <3>2, Zenon DEF SideKnown
  <2>8. ThreadOK(o)'
    BY <2>2 DEF ThreadOK, Out, Owing, Retaining, Releasing
  <2>9. QED
    BY <1>0, <1>1, <2>1, <2>2, <2>3, <2>5, <2>6, <2>7, <2>8, CountedStep DEF Ending, Out
<1>4. CASE BorrowStores(o) /\ isa = local[o].old
  <2>1. isa.extra = 0
    BY <1>0, <1>4 DEF ThreadOK, BorrowStores, On
  <2>2. isa.extra + RC_HALF - 1 = RC_HALF - 1 /\ RC_HALF - 1 <= ExtraMax
    BY <2>1, RefcountAssumption DEF ExtraMax
  <2>3. isa' = [isa EXCEPT !.extra = @ + RC_HALF - 1, !.side = refcnts > 0]
    BY <1>0, <1>4, <2>2 DEF BorrowStores, Isas
  <2>4. QED
    BY <1>3, <1>4, <2>2, <2>3 DEF BorrowStores
<1>5. CASE BorrowStoresAgain(o)
  <2> DEFINE old == local[o].old
             new == [old EXCEPT !.extra = @ + RC_HALF - 1, !.side = refcnts > 0]
  <2>1. local[o].at = "again" /\ old \in Isas /\ new.extra = old.extra + RC_HALF - 1
        /\ old.extra \in Nat
    BY <1>0, <1>5, RefcountAssumption DEF BorrowStoresAgain, On, Locals, Isas, ExtraMax
  <2>2. CASE new.extra > ExtraMax \/ isa # old
    <3>1. refcnts' = refcnts + RC_HALF /\ Jump(o, "release") /\ UNCHANGED <<isa, slock, strong>>
      BY <1>5, <2>2 DEF BorrowStoresAgain
    <3>2. PICK l \in Locals : Moves(o, l) /\ local'[o] = l /\ l.at = "release" /\ l.weak = local[o].weak
      BY <1>0, <3>1, JumpMoves DEF Places, Releasing
    <3>3. Owed = RC_HALF /\ Owed' = 0 /\ Strong' = Strong /\ refcnts' \in Halves
      BY <1>0, <1>1, <3>1, <3>2, OnlyHolderOwes, StrongSame, HalvesFacts DEF Owing, RefcountTypeOK
    <3>4. RefcountTypeOK'
      BY <1>0, <3>1, <3>2, <3>3 DEF RefcountTypeOK, Moves
    <3>5. Balance' /\ SideKnown'
      BY <1>0, <1>1, <3>1, <3>3, RefcountAssumption DEF RefcountInv, Balance, SideKnown, Isas, ExtraMax
    <3>6. ThreadOK(o)'
      BY <1>1, <3>1, <3>2 DEF ThreadOK, Owing, Retaining, Releasing
    <3>7. QED
      BY <1>0, <1>1, <3>1, <3>2, <3>4, <3>5, <3>6, CountedStep DEF Ending
  <2>3. CASE ~(new.extra > ExtraMax \/ isa # old)
    <3>1. isa' = new /\ strong' = [strong EXCEPT ![o] = @ - 1] /\ refcnts' = refcnts
          /\ (IF isDeallocating(new) THEN Jump(o, "deallocate") /\ UNCHANGED slock ELSE Finish(o))
      BY <1>5, <2>3 DEF BorrowStoresAgain
    <3>2. new.extra > 0 /\ old.extra + RC_HALF - 1 <= ExtraMax
      BY <2>1, <2>3, RefcountAssumption DEF ExtraMax
    <3>3. ~isDeallocating(new)
      BY <3>2 DEF isDeallocating
    <3>4. QED
      BY <1>3, <2>3, <3>1, <3>2, <3>3
  <2>4. QED
    BY <2>2, <2>3
<1>6. QED
  BY <1>2, <1>4, <1>5

\* The last release calls dealloc, which clears the weak variable and frees the
\* object
LEMMA EndKeeps ==
    ASSUME RefcountInv, NEW o \in Owners, Deallocate(o) \/ ClearDeallocating(o) \/ Free(o)
    PROVE  RefcountInv'
<1>0. /\ RefcountTypeOK /\ ThreadOK(o) /\ EndOK(o) /\ local[o] \in Locals /\ local[o].at \in Ending
      /\ isa' = isa /\ strong' = strong
      /\ \A p \in Owners : ThreadOK(p) /\ EndOK(p)
  BY DEF RefcountInv, RefcountTypeOK, Deallocate, ClearDeallocating, Free, On, Ending
<1>1. /\ isDeallocating(isa) /\ ~disposed /\ ~isa.side /\ ~local[o].weak
      /\ \A p \in Owners \ {o} : local[p].at \notin Ending
      /\ Strong' = Strong
  BY <1>0, StrongSame DEF EndOK, isDeallocating, ThreadOK, Ending, Retaining
<1>2. CASE Deallocate(o)
  <2>1. /\ local[o].at = "deallocate" /\ deallocs' = 1
        /\ refcnts' = refcnts /\ weakVar' = weakVar /\ registered' = registered /\ disposed' = disposed
        /\ \A p \in Owners \ {o} : slock = p <=> slock' = p
        /\ slock' \in Owners \cup {nobody}
    BY <1>0, <1>2, RefcountAssumption DEF Deallocate, On, EndOK, weakState, Locked, RefcountTypeOK
  <2>2. PICK at \in {"clear", "free"} : Jump(o, at) /\ (at = "free" => ~isa.weakly)
    BY <1>2 DEF Deallocate
  <2>3. /\ local' \in [Owners -> Locals] /\ local'[o].at = at /\ local'[o].weak = local[o].weak
        /\ \A p \in Owners \ {o} : local'[p] = local[p]
    BY <1>0, <2>2 DEF Jump, Put, RefcountTypeOK, Locals, Places, Ending
  <2>4. Owed' = Owed
    BY <2>1, <2>2, <2>3, OwedOfMover DEF Owing
  <2>5. RefcountTypeOK' /\ Balance' /\ SideKnown' /\ Over'
    BY <1>0, <1>1, <2>1, <2>3, <2>4 DEF RefcountInv, RefcountTypeOK, Balance, SideKnown, Over
  <2>6. ThreadOK(o)'
    BY <1>1, <2>2, <2>3 DEF ThreadOK, Owing, Retaining, Releasing
  <2>7. EndOK(o)'
    <3>1. weakVar => isa.weakly
      BY DEF RefcountInv, Over
    <3>2. QED
      BY <1>0, <1>1, <2>1, <2>2, <2>3, <3>1 DEF EndOK
  <2>8. \A p \in Owners : ThreadOK(p)' /\ EndOK(p)'
    BY <1>0, <1>1, <2>1, <2>3, <2>6, <2>7, OthersKeep
  <2>9. QED
    BY <2>5, <2>8 DEF RefcountInv
<1>3. CASE ClearDeallocating(o)
  <2>1. /\ local[o].at = "clear" /\ slock = nobody /\ slock' = slock /\ ~weakVar' /\ ~registered'
        /\ weakVar' = FALSE /\ registered' = FALSE /\ refcnts' = refcnts
        /\ deallocs' = deallocs /\ disposed' = disposed /\ Jump(o, "free")
    BY <1>0, <1>1, <1>3 DEF ClearDeallocating, On, ends, RefcountTypeOK
  <2>2. /\ local' \in [Owners -> Locals] /\ local'[o].at = "free" /\ local'[o].weak = local[o].weak
        /\ \A p \in Owners \ {o} : local'[p] = local[p]
    BY <1>0, <2>1 DEF Jump, Put, RefcountTypeOK, Locals, Places, Ending
  <2>3. Owed' = Owed
    BY <2>1, <2>2, OwedOfMover DEF Owing
  <2>4. RefcountTypeOK' /\ Balance' /\ SideKnown' /\ Over'
    BY <1>0, <1>1, <2>1, <2>2, <2>3 DEF RefcountInv, RefcountTypeOK, Balance, SideKnown, Over
  <2>5. ThreadOK(o)'
    BY <1>1, <2>2 DEF ThreadOK, Owing, Retaining, Releasing
  <2>6. EndOK(o)'
    BY <1>0, <1>1, <2>1, <2>2 DEF EndOK
  <2>7. \A p \in Owners : slock # p
    BY <2>1, RefcountAssumption
  <2>8. \A p \in Owners : ThreadOK(p)' /\ EndOK(p)'
    BY <1>0, <1>1, <2>1, <2>2, <2>5, <2>6, <2>7, OthersKeep
  <2>9. QED
    BY <2>4, <2>8 DEF RefcountInv
<1>4. CASE Free(o)
  <2>1. /\ local[o].at = "free" /\ slock' = slock /\ ~weakVar /\ weakVar' = weakVar
        /\ registered' = registered /\ refcnts' = refcnts /\ deallocs' = deallocs /\ disposed' = TRUE
        /\ local' = [local EXCEPT ![o] = Out]
    BY <1>0, <1>4 DEF Free, On, Put, weakState, EndOK
  <2>2. Out \in Locals
    BY RefcountAssumption DEF Out, Locals, Places, Isas, ExtraMax
  <2>3. /\ local' \in [Owners -> Locals] /\ local'[o].at = "out" /\ local'[o].weak = FALSE
        /\ ~local'[o].sideTableLocked
        /\ \A p \in Owners \ {o} : local'[p] = local[p]
    BY <1>0, <2>1, <2>2 DEF RefcountTypeOK, Out
  <2>4. Owed' = Owed
    BY <2>1, <2>3, OwedOfMover DEF Owing
  <2>5. RefcountTypeOK' /\ Balance' /\ SideKnown' /\ Over'
    BY <1>0, <1>1, <2>1, <2>3, <2>4 DEF RefcountInv, RefcountTypeOK, Balance, SideKnown, Over
  <2>6. ThreadOK(o)' /\ EndOK(o)'
    BY <2>3 DEF ThreadOK, EndOK, Owing, Retaining, Releasing, Ending
  <2>7. \A p \in Owners : ThreadOK(p)' /\ EndOK(p)'
    BY <1>0, <1>1, <2>1, <2>3, <2>6, OthersKeep
  <2>8. QED
    BY <2>5, <2>7 DEF RefcountInv
<1>5. QED
  BY <1>2, <1>3, <1>4

\* The weak variable is made to point to the object, or to nil
LEMMA StoreWeakKeeps ==
    ASSUME RefcountInv, NEW o \in Owners, NEW object \in BOOLEAN, objc_storeWeak(o, object)
    PROVE  RefcountInv'
<1>0. /\ RefcountTypeOK /\ local[o].at = "out" /\ slock = nobody /\ slock' = slock
      /\ weakVar' = object /\ registered' = object /\ isa' = [isa EXCEPT !.weakly = @ \/ object]
      /\ refcnts' = refcnts /\ strong' = strong /\ local' = local
      /\ deallocs' = deallocs /\ disposed' = disposed
      /\ \A p \in Owners : ThreadOK(p) /\ EndOK(p)
  BY DEF objc_storeWeak, On, ends, RefcountInv
<1>1. object => ~isDeallocating(isa)
  BY HeldIsAlive DEF objc_storeWeak
<1>2. isa' \in Isas /\ isa'.extra = isa.extra /\ isa'.side = isa.side /\ (object => isa'.weakly = TRUE)
  BY <1>0 DEF RefcountTypeOK, Isas
<1>3. Owed' = Owed /\ Strong' = Strong
  BY <1>0, StrongSame DEF Owed
<1>4. isDeallocating(isa') <=> isDeallocating(isa)
  BY <1>2 DEF isDeallocating
<1>5. object => ~disposed /\ \A p \in Owners : local[p].at \notin Ending
  BY <1>0, <1>1 DEF RefcountInv, Over, EndOK
<1>6. RefcountTypeOK' /\ Balance' /\ SideKnown' /\ Over'
  BY <1>0, <1>2, <1>3, <1>4, <1>5 DEF RefcountInv, RefcountTypeOK, Balance, SideKnown, Over
<1>7. ThreadOK(o)' /\ EndOK(o)'
  BY <1>0, <1>2 DEF ThreadOK, EndOK, Owing, Retaining, Releasing, Ending
<1>8. \A p \in Owners : slock # p
  BY <1>0, RefcountAssumption
<1>9. \A p \in Owners \ {o} : local[p].at \in Ending =>
                   /\ isDeallocating(isa') /\ disposed' = disposed /\ deallocs' = deallocs
                   /\ local'[o].at \notin Ending
                   /\ local[p].at = "free" => ~weakVar'
  BY <1>0, <1>4, <1>5 DEF EndOK, Ending
<1>10. \A p \in Owners : ThreadOK(p)' /\ EndOK(p)'
  BY <1>0, <1>7, <1>8, <1>9, OthersKeep
<1>11. QED
  BY <1>6, <1>10 DEF RefcountInv

-----------------------------------------------------------------------------
(* Theorems *)

\* A new object, held by the thread that created it
LEMMA InitRefcountInv == RefcountInit => RefcountInv
<1> SUFFICES ASSUME RefcountInit PROVE RefcountInv
  OBVIOUS
<1>1. PICK o \in Owners : strong = [p \in Owners |-> IF p = o THEN 1 ELSE 0]
  BY DEF RefcountInit
<1>2. isa \in Isas /\ Out \in Locals
  BY RefcountAssumption DEF RefcountInit, Isas, ExtraMax, Out, Locals, Places
<1>3. \A p \in Owners : local[p] = Out
  BY DEF RefcountInit
<1>4. RefcountTypeOK
  <2>1. strong \in [Owners -> 0 .. MaxStrong]
    BY <1>1, RefcountAssumption
  <2>2. local \in [Owners -> Locals]
    BY <1>2 DEF RefcountInit
  <2>3. refcnts \in Halves
    BY HalvesFacts DEF RefcountInit
  <2>4. QED
    BY <1>2, <2>1, <2>2, <2>3 DEF RefcountInit, RefcountTypeOK
<1>5. Strong = 1
  <2>1. References = {<<o, 1>>}
    <3>1. \A p \in Owners, k \in 1 .. MaxStrong : k <= strong[p] <=> (p = o /\ k = 1)
      BY <1>1
    <3>2. 1 \in 1 .. MaxStrong
      BY RefcountAssumption
    <3>3. QED
      BY <3>1, <3>2 DEF References
  <2>2. QED
    BY <2>1, FS_Singleton DEF Strong
<1>6. Owed = 0
  BY <1>3 DEF Owed, Owing, Out
<1>7. Balance /\ SideKnown /\ Over
  BY <1>5, <1>6 DEF RefcountInit, Balance, SideKnown, Over
<1>8. \A p \in Owners : ThreadOK(p) /\ EndOK(p)
  BY <1>3 DEF ThreadOK, EndOK, Out, Owing, Retaining, Releasing, Ending
<1>9. QED
  BY <1>4, <1>7, <1>8 DEF RefcountInv

\* Every step of every thread keeps the invariant
LEMMA NextRefcountInv == RefcountInv /\ [RefcountNext]_rcVars => RefcountInv'
<1>1. ASSUME RefcountInv, RefcountNext PROVE RefcountInv'
  BY <1>1, ReadingSteps, RetainAddsKeeps, RetainStoresKeeps, TranscribeKeeps, ReleaseSubtractsKeeps,
     ReleaseStoresKeeps, BorrowKeeps, EndKeeps, StoreWeakKeeps DEF RefcountNext, RefcountStep
<1>2. ASSUME RefcountInv, UNCHANGED rcVars PROVE RefcountInv'
  BY <1>2, StrongSame DEF rcVars, RefcountInv, RefcountTypeOK, Balance, SideKnown, Over, Owed, ThreadOK, EndOK
<1>3. QED
  BY <1>1, <1>2

\* Objective-C retain counts: for any number of threads and references, and
\* whatever part of the count has overflowed into the side table, the two parts
\* add up to the references held while the side table's lock is free.
THEOREM RefcountExact == RefcountSpec => []CountExact
<1>1. RefcountInv => CountExact
  <2> SUFFICES ASSUME RefcountInv, slock = nobody PROVE isa.extra + refcnts = Strong
    BY DEF CountExact
  <2>1. Owed = 0
    BY RefcountAssumption DEF RefcountInv, Owed, ThreadOK
  <2>2. refcnts \in Nat /\ isa.extra \in Nat
    BY HalvesFacts, RefcountAssumption DEF RefcountInv, RefcountTypeOK, Isas, ExtraMax
  <2>3. QED
    BY <2>1, <2>2 DEF RefcountInv, Balance
<1>2. QED
  BY <1>1, InitRefcountInv, NextRefcountInv, PTL DEF RefcountSpec

\* Objective-C retain counts: dealloc is called at most once and with no strong
\* reference left, and when the object is freed nobody is about to use it, the
\* side table is empty and the weak variable is nil.  This holds although a load
\* of the weak variable may give up the lock early and abort the process.
THEOREM RefcountFreed == RefcountSpec => []FreedWhenUnused
<1>1. RefcountInv => FreedWhenUnused
  <2> SUFFICES ASSUME RefcountInv PROVE FreedWhenUnused
    OBVIOUS
  <2>1. deallocs \in {0, 1} /\ refcnts \in Nat /\ Owed \in Nat /\ isa.extra \in Nat
    BY HalvesFacts, RefcountAssumption DEF RefcountInv, RefcountTypeOK, Isas, ExtraMax, Owed
  <2>2. ASSUME isDeallocating(isa) PROVE Strong = 0 /\ refcnts = 0 /\ \A o \in Owners : ~(strong[o] > 0)
    BY <2>1, <2>2, HeldIsAlive DEF isDeallocating, RefcountInv, Balance, SideKnown
  <2>3. ASSUME disposed
        PROVE  /\ ~weakVar /\ refcnts = 0
               /\ \A o \in Owners : local[o].at \in {"out", "lockLoad", "loaded", "aborted"}
    <3>1. ~weakVar /\ isDeallocating(isa)
      BY <2>3 DEF RefcountInv, Over
    <3>2. ASSUME NEW o \in Owners PROVE local[o].at \in {"out", "lockLoad", "loaded", "aborted"}
      <4>1. local[o].at \in Places /\ local[o].at \notin Ending /\ ~(strong[o] > 0)
        BY <2>2, <2>3, <3>1 DEF RefcountInv, RefcountTypeOK, Locals, EndOK
      <4>2. local[o].at \notin Releasing \cup Retaining \cup {"transcribe"}
        BY <3>1, <4>1 DEF RefcountInv, ThreadOK
      <4>3. QED
        BY <4>1, <4>2 DEF Places, Owing, Releasing, Retaining, Ending
    <3>3. QED
      BY <2>2, <3>1, <3>2
  <2>4. QED
    BY <2>1, <2>2, <2>3 DEF FreedWhenUnused, RefcountInv, Over
<1>2. QED
  BY <1>1, InitRefcountInv, NextRefcountInv, PTL DEF RefcountSpec
=============================================================================
