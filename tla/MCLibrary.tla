------------------------------ MODULE MCLibrary ------------------------------
(***************************************************************************)
(* The units of libdispatch, the Objective-C runtime, CoreFoundation and    *)
(* SortDemo that work by themselves, one at a time: unit is the one that    *)
(* runs, and the others stay as they are created.                           *)
(***************************************************************************)
EXTENDS DispatchOnce, DispatchApply, ObjcRefcount, SortObject, CFBinaryHeap, CFTree

VARIABLE unit

UsesValue == (Callers \X Tokens) \ {<<"t3", "b">>}
NestsValue == {<<"a", "b">>, <<"b", "b">>}
QueueWidthValue == <<2, 3>>
RankValue == "n1" :> 2 @@ "n2" :> 1 @@ "n3" :> 3 @@ "n4" :> 2

Init ==
    /\ unit \in {"once", "apply", "refcount", "sort", "heap", "tree"}
    /\ OnceInit /\ (unit # "once" => quiescent)
    /\ RefcountInit /\ (unit # "refcount" => strong[CHOOSE o \in Owners : TRUE] = 1)
    /\ ApplyInit /\ SortInit /\ HeapInit /\ TreeInit

Once == unit = "once" /\ UNCHANGED <<unit, applyVars, rcVars, sortVars, heapVars, treeVars>>
Apply == unit = "apply" /\ UNCHANGED <<unit, onceVars, rcVars, sortVars, heapVars, treeVars>>
Refcount == unit = "refcount" /\ UNCHANGED <<unit, onceVars, applyVars, sortVars, heapVars, treeVars>>

Next ==
    \/ Once /\ OnceNext
    \/ Apply /\ ApplyNext
    \/ Refcount /\ RefcountNext
    \/ unit = "sort" /\ SortNext
       /\ UNCHANGED <<unit, onceVars, applyVars, rcVars, heapVars, treeVars>>
    \/ unit = "heap" /\ HeapNext
       /\ UNCHANGED <<unit, onceVars, applyVars, rcVars, sortVars, treeVars>>
    \/ unit = "tree" /\ TreeNext
       /\ UNCHANGED <<unit, onceVars, applyVars, rcVars, sortVars, heapVars>>

vars == <<unit, onceVars, applyVars, rcVars, sortVars, heapVars, treeVars>>

\* A thread inside a call goes on; no thread of the pool has to start one.  Only
\* one unit runs, so one condition for each thread serves all of them.
Step(t) ==
    \/ Once /\ OnceStep(t)
    \/ Apply /\ (IF t \in Helpers THEN ApplyStep(t) ELSE CallerStep)
    \/ t \in Owners /\ Refcount /\ RefcountStep(t)

Spec == Init /\ [][Next]_vars /\ \A t \in Callers : WF_vars(Step(t))
=============================================================================
