---------------------------- MODULE ObjcRefcount ----------------------------
(***************************************************************************)
(* Retain counts of the Objective-C runtime (objc-object.h of objc4-818.2,  *)
(* with the side table and the weak references of NSObject.mm): one object  *)
(* with a non-pointer isa, whose count is partly in extra_rc and partly in  *)
(* the side table, one __weak variable, and threads that retain, release    *)
(* and go through the weak variable.  One step per access to the isa, to    *)
(* the variable or to the lock of the side table; LoadExclusive and         *)
(* StoreExclusive are a load and a compare-and-swap.  A thread retains and  *)
(* releases only what it holds.                                             *)
(***************************************************************************)
EXTENDS Integers, FiniteSets

CONSTANTS
    Owners,     \* threads
    RC_HALF,    \* half the range of extra_rc
    MaxStrong   \* bound: strong references a thread holds

nobody == "nobody"

ASSUME RefcountAssumption == /\ IsFiniteSet(Owners) /\ nobody \notin Owners
                             /\ RC_HALF \in Nat /\ RC_HALF > 1 /\ MaxStrong \in Nat \ {0}

ExtraMax == 2 * RC_HALF - 1

VARIABLES
    isa,       \* extra_rc, has_sidetable_rc, weakly_referenced
    refcnts,   \* the count in the side table
    slock,     \* who holds the side table's lock
    weakVar,   \* the __weak variable points to the object
    registered,\* the weak table knows the variable
    strong,    \* strong references of each thread
    local,     \* of each thread: where it is, and the local variables of the function
    deallocs,  \* how often dealloc was called
    disposed   \* the object has been freed

rcVars == <<isa, refcnts, slock, weakVar, registered, strong, local, deallocs, disposed>>

Out == [at |-> "out", full |-> FALSE, weak |-> FALSE, sideTableLocked |-> FALSE,
        old |-> [extra |-> 0, side |-> FALSE, weakly |-> FALSE]]

isDeallocating(i) == i.extra = 0 /\ ~i.side

\* One thread has just created the object
RefcountInit ==
    /\ isa = [extra |-> 1, side |-> FALSE, weakly |-> FALSE] /\ refcnts = 0 /\ slock = nobody
    /\ weakVar = FALSE /\ registered = FALSE
    /\ \E o \in Owners : strong = [p \in Owners |-> IF p = o THEN 1 ELSE 0]
    /\ local = [o \in Owners |-> Out] /\ deallocs = 0 /\ disposed = FALSE

weakState == <<weakVar, registered>>
ends == <<deallocs, disposed>>

Aborted == \E o \in Owners : local[o].at = "aborted"
On(o, pc) == local[o].at = pc /\ ~Aborted
Put(o, f) == local' = [local EXCEPT ![o] = f]
Jump(o, pc) == Put(o, [local[o] EXCEPT !.at = pc])
Locks(o) == slock = nobody /\ slock' = o
Locked(o) == slock = o

\* The function has done its work and gives up the lock if it had taken it; a
\* tryRetain leaves that to objc_loadWeakRetained, its caller
Finish(o) ==
    IF local[o].weak THEN Jump(o, "loaded") /\ UNCHANGED slock
    ELSE Put(o, Out) /\ slock' = (IF Locked(o) THEN nobody ELSE slock)

-----------------------------------------------------------------------------
(* objc_object::rootRetain *)

retain(o) ==
    /\ On(o, "out") /\ strong[o] \in 1 .. MaxStrong - 1
    /\ Jump(o, "retain")
    /\ UNCHANGED <<isa, refcnts, slock, weakState, strong, ends>>

RetainLoads(o) ==
    /\ On(o, "retain")
    /\ Put(o, [local[o] EXCEPT !.old = isa, !.at = "addc"])
    /\ UNCHANGED <<isa, refcnts, slock, weakState, strong, ends>>

\* The object is being deallocated.  sideTableLocked makes a tryRetain give up
\* the lock as well, which its caller has taken and is going to give up again.
RetainGivesUp(o) ==
    /\ Put(o, IF local[o].weak THEN [local[o] EXCEPT !.at = "loaded"] ELSE Out)
    /\ slock' = (IF local[o].sideTableLocked THEN nobody ELSE slock)

\* The body of the loop up to StoreExclusive.  An overflow starts over in
\* rootRetain_overflow; there only a retain takes the lock, if it has not in an
\* earlier round, and a tryRetain just notes that it is held.
RetainAdds(o) ==
    /\ On(o, "addc")
    /\ LET l == local[o]
       IN \/ isDeallocating(l.old) /\ RetainGivesUp(o)
          \/ ~isDeallocating(l.old) /\ l.old.extra < ExtraMax /\ Jump(o, "storeRetain") /\ UNCHANGED slock
          \/ l.old.extra = ExtraMax /\ ~l.full
             /\ Put(o, [l EXCEPT !.full = TRUE, !.at = "retain"]) /\ UNCHANGED slock
          \/ /\ l.old.extra = ExtraMax /\ l.full
             /\ IF l.weak \/ l.sideTableLocked THEN UNCHANGED slock ELSE Locks(o)
             /\ Put(o, [l EXCEPT !.sideTableLocked = TRUE, !.at = "storeRetain"])
    /\ UNCHANGED <<isa, refcnts, weakState, strong, ends>>

\* StoreExclusive: the count goes up, or half of it is to go to the side table
RetainStores(o) ==
    /\ On(o, "storeRetain")
    /\ LET old == local[o].old  overflow == old.extra = ExtraMax
       IN IF isa # old
          THEN /\ Put(o, [local[o] EXCEPT !.old = isa, !.at = "addc"])
               /\ UNCHANGED <<isa, slock, strong>>
          ELSE /\ isa' = IF overflow THEN [old EXCEPT !.extra = RC_HALF, !.side = TRUE]
                         ELSE [old EXCEPT !.extra = @ + 1]
               /\ strong' = [strong EXCEPT ![o] = @ + 1]
               /\ IF overflow THEN Jump(o, "transcribe") /\ UNCHANGED slock ELSE Finish(o)
    /\ UNCHANGED <<refcnts, weakState, ends>>

\* sidetable_addExtraRC_nolock
Transcribe(o) ==
    /\ On(o, "transcribe") /\ refcnts' = refcnts + RC_HALF /\ Finish(o)
    /\ UNCHANGED <<isa, weakState, strong, ends>>

-----------------------------------------------------------------------------
(* objc_object::rootRelease *)

release(o) ==
    /\ On(o, "out") /\ strong[o] > 0
    /\ Jump(o, "release")
    /\ UNCHANGED <<isa, refcnts, slock, weakState, strong, ends>>

ReleaseLoads(o) ==
    /\ On(o, "release")
    /\ Put(o, [local[o] EXCEPT !.old = isa, !.at = "subc"])
    /\ UNCHANGED <<isa, refcnts, slock, weakState, strong, ends>>

\* The body of the loop, and the underflow: start over in rootRelease_underflow,
\* take the lock and start over, or borrow from the side table
ReleaseSubtracts(o) ==
    /\ On(o, "subc")
    /\ LET l == local[o]
       IN \/ isDeallocating(l.old) /\ Finish(o) /\ UNCHANGED refcnts
          \/ l.old.extra > 0 /\ Jump(o, "storeRelease") /\ UNCHANGED <<slock, refcnts>>
          \/ l.old.extra = 0 /\ l.old.side /\ ~l.full
             /\ Put(o, [l EXCEPT !.full = TRUE, !.at = "release"]) /\ UNCHANGED <<slock, refcnts>>
          \/ l.old.extra = 0 /\ l.old.side /\ l.full /\ ~Locked(o)
             /\ Locks(o) /\ Jump(o, "release") /\ UNCHANGED refcnts
          \/ /\ l.old.extra = 0 /\ l.old.side /\ l.full /\ Locked(o) /\ UNCHANGED slock
             /\ IF refcnts = 0 THEN Jump(o, "deallocate") /\ UNCHANGED refcnts
                ELSE refcnts' = refcnts - RC_HALF /\ Jump(o, "storeBorrow")
    /\ UNCHANGED <<isa, weakState, strong, ends>>

ReleaseStores(o) ==
    /\ On(o, "storeRelease")
    /\ LET old == local[o].old  new == [old EXCEPT !.extra = @ - 1]
       IN IF isa # old
          THEN /\ Put(o, [local[o] EXCEPT !.old = isa, !.at = "subc"])
               /\ UNCHANGED <<isa, slock, strong>>
          ELSE /\ isa' = new /\ strong' = [strong EXCEPT ![o] = @ - 1]
               /\ IF isDeallocating(new) THEN Jump(o, "deallocate") /\ UNCHANGED slock ELSE Finish(o)
    /\ UNCHANGED <<refcnts, weakState, ends>>

\* Mutant: the store after the borrowing is tried again with the value that was
\* computed for the isa as it had been.
BorrowStoresStale(o) ==
    /\ On(o, "storeBorrow")
    /\ isa' = [local[o].old EXCEPT !.extra = RC_HALF - 1, !.side = refcnts > 0]
    /\ strong' = [strong EXCEPT ![o] = @ - 1] /\ Finish(o)
    /\ UNCHANGED <<refcnts, weakState, ends>>

\* The borrowed count, less the one released, goes inline
BorrowStores(o) ==
    /\ On(o, "storeBorrow")
    /\ IF isa # local[o].old
       THEN /\ Put(o, [local[o] EXCEPT !.old = isa, !.at = "again"]) /\ UNCHANGED <<isa, slock, strong>>
       ELSE /\ isa' = [isa EXCEPT !.extra = RC_HALF - 1, !.side = refcnts > 0]
            /\ strong' = [strong EXCEPT ![o] = @ - 1] /\ Finish(o)
    /\ UNCHANGED <<refcnts, weakState, ends>>

\* If the isa had changed: once more on top of what it is now; failing that the
\* count goes back to the side table and the release starts over
BorrowStoresAgain(o) ==
    /\ On(o, "again")
    /\ LET old == local[o].old
           new == [old EXCEPT !.extra = @ + RC_HALF - 1, !.side = refcnts > 0]
       IN IF new.extra > ExtraMax \/ isa # old
          THEN /\ refcnts' = refcnts + RC_HALF /\ Jump(o, "release")
               /\ UNCHANGED <<isa, slock, strong>>
          ELSE /\ isa' = new /\ strong' = [strong EXCEPT ![o] = @ - 1]
               /\ IF isDeallocating(new) THEN Jump(o, "deallocate") /\ UNCHANGED slock ELSE Finish(o)
               /\ UNCHANGED refcnts
    /\ UNCHANGED <<weakState, ends>>

-----------------------------------------------------------------------------
(* The last release *)

\* The lock is given up and dealloc called; rootDealloc looks at the isa
Deallocate(o) ==
    /\ On(o, "deallocate") /\ deallocs' = deallocs + 1
    /\ slock' = (IF Locked(o) THEN nobody ELSE slock)
    /\ Jump(o, IF isa.weakly \/ isa.side THEN "clear" ELSE "free")
    /\ UNCHANGED <<isa, refcnts, weakState, strong, disposed>>

\* clearDeallocating_slow, all of it under the lock: weak variables become nil
ClearDeallocating(o) ==
    /\ On(o, "clear") /\ slock = nobody
    /\ weakVar' = (weakVar /\ ~registered) /\ registered' = FALSE
    /\ refcnts' = (IF isa.side THEN 0 ELSE refcnts) /\ Jump(o, "free")
    /\ UNCHANGED <<isa, slock, strong, ends>>

Free(o) ==
    /\ On(o, "free") /\ disposed' = TRUE /\ Put(o, Out)
    /\ UNCHANGED <<isa, refcnts, slock, weakState, strong, deallocs>>

-----------------------------------------------------------------------------
(* The weak variable *)

\* objc_loadWeakRetained reads the variable, and again under the lock
objc_loadWeakRetained(o) ==
    /\ On(o, "out") /\ weakVar /\ strong[o] < MaxStrong /\ Jump(o, "lockLoad")
    /\ UNCHANGED <<isa, refcnts, slock, weakState, strong, ends>>

\* Mutant: the variable is not read again.
LoadWeakTrusts(o) ==
    /\ On(o, "lockLoad") /\ Locks(o)
    /\ Put(o, [Out EXCEPT !.weak = TRUE, !.at = "retain"])
    /\ UNCHANGED <<isa, refcnts, weakState, strong, ends>>

\* then calls rootTryRetain with the lock held; a variable that has changed, to
\* nil, ends it
LoadWeakLocks(o) ==
    /\ On(o, "lockLoad") /\ slock = nobody
    /\ IF weakVar THEN slock' = o /\ Put(o, [Out EXCEPT !.weak = TRUE, !.at = "retain"])
       ELSE Put(o, Out) /\ UNCHANGED slock
    /\ UNCHANGED <<isa, refcnts, weakState, strong, ends>>

\* Mutant: the lock is given up only with an object to return.
LoadWeakKeepsLock(o) ==
    /\ On(o, "loaded") /\ slock' = (IF isDeallocating(isa) THEN slock ELSE nobody) /\ Put(o, Out)
    /\ UNCHANGED <<isa, refcnts, weakState, strong, ends>>

\* The lock is given up; os_unfair_lock_unlock aborts the process if it is not
\* the caller's
LoadWeakUnlocks(o) ==
    /\ On(o, "loaded")
    /\ IF Locked(o) THEN slock' = nobody /\ Put(o, Out)
       ELSE Jump(o, "aborted") /\ UNCHANGED slock
    /\ UNCHANGED <<isa, refcnts, weakState, strong, ends>>

\* objc_storeWeak of the object, by a thread that holds it, or of nil
objc_storeWeak(o, object) ==
    /\ On(o, "out") /\ slock = nobody
    /\ IF object THEN strong[o] > 0 ELSE weakVar
    /\ weakVar' = object /\ registered' = object
    /\ isa' = [isa EXCEPT !.weakly = @ \/ object]
    /\ UNCHANGED <<refcnts, slock, strong, local, ends>>

RefcountStep(o) ==
    \/ RetainLoads(o) \/ RetainAdds(o) \/ RetainStores(o) \/ Transcribe(o)
    \/ ReleaseLoads(o) \/ ReleaseSubtracts(o) \/ ReleaseStores(o)
    \/ BorrowStores(o) \/ BorrowStoresAgain(o)
    \/ Deallocate(o) \/ ClearDeallocating(o) \/ Free(o)
    \/ LoadWeakLocks(o) \/ LoadWeakUnlocks(o)

RefcountNext ==
    \E o \in Owners :
        \/ retain(o) \/ release(o) \/ RefcountStep(o)
        \/ objc_loadWeakRetained(o) \/ \E object \in BOOLEAN : objc_storeWeak(o, object)

RefcountSpec == RefcountInit /\ [][RefcountNext]_rcVars

-----------------------------------------------------------------------------
\* The strong references there are, those of each thread numbered
References == {r \in Owners \X (1 .. MaxStrong) : r[2] <= strong[r[1]]}
Strong == Cardinality(References)

\* While nobody holds the side table's lock, the inline count and the one in the
\* side table add up to the strong references there are, through every overflow,
\* borrowing and lost compare-and-swap
CountExact == slock = nobody /\ ~disposed => isa.extra + refcnts = Strong

\* The object is deallocated at most once and with no strong reference left; no
\* weak variable points to it once it is freed, and no thread is about to use it:
\* a load of the variable has yet to look at it again or is only giving up the lock
FreedWhenUnused ==
    /\ deallocs <= 1 /\ (deallocs = 1 => Strong = 0)
    /\ disposed => /\ ~weakVar /\ refcnts = 0
                   /\ \A o \in Owners : local[o].at \in {"out", "lockLoad", "loaded", "aborted"}

\* When the last reference is gone the object is freed, unless threads keep the
\* side table's lock busy with loads of the weak variable for ever, or one of them
\* has aborted the process
Reclaimed ==
    <>[](\A o \in Owners : local[o].at # "lockLoad") => (Strong = 0 ~> (disposed \/ Aborted))

\* objc_loadWeakRetained unlocks the side table it has locked, and nobody has
\* unlocked it before: lockdebug_mutex_unlock's "unlocking unowned mutex".  The
\* code does not keep to it, when the retain of the load overflows, loses its
\* compare-and-swap, and then finds the object deallocating.
UnlocksWhatItLocked == \A o \in Owners : local[o].at = "loaded" => Locked(o)
=============================================================================
