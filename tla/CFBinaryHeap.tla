---------------------------- MODULE CFBinaryHeap ----------------------------
(***************************************************************************)
(* CFBinaryHeap (CFBinaryHeap.c): the buckets, indexed from 0, and the      *)
(* loops that move a value up and down in them, one step for each round.    *)
(* Values are compared by the callback, here by <=; retain and release      *)
(* callbacks are left out.                                                  *)
(***************************************************************************)
EXTENDS Integers, FiniteSets

CONSTANTS Values, MaxHeap    \* what is put in; bound of the number of values

ASSUME HeapAssumption == Values \subseteq Int /\ MaxHeap \in Nat

VARIABLES
    cnt,       \* _count
    buckets,   \* _buckets, those in use
    capacity,  \* _capacity
    sifting,   \* the loop the call is in: "up", "down", or "none" between calls
    bucket,    \* its idx, the bucket to be written
    val,       \* and the value for it
    inHeap     \* of each value: how often it was put in and not yet removed

heapVars == <<cnt, buckets, capacity, sifting, bucket, val, inHeap>>

\* The powers of two up to 2 * MaxHeap: in every set with 1 and the doubles
PowersOfTwo ==
    {p \in 1 .. 2 * MaxHeap :
        \A S \in SUBSET (1 .. 2 * MaxHeap) :
            1 \in S /\ (\A x \in S : x <= MaxHeap => 2 * x \in S) => p \in S}

\* 1 << flsl(n)
RoundUpCapacity(n) == IF n < 4 THEN 4 ELSE CHOOSE p \in PowersOfTwo : n < p /\ p <= 2 * n

HeapInit ==
    /\ cnt = 0 /\ buckets = <<>> /\ capacity = RoundUpCapacity(1)
    /\ sifting = "none" /\ bucket = 0 /\ val = 0
    /\ inHeap = [v \in Values |-> 0]

Parent(i) == (i - 1) \div 2

\* Mutant: the left child is taken without a look at the right one.
LeftChild(i) == 2 * i + 1

SmallerChild(i) ==
    LET left == 2 * i + 1
    IN IF left + 1 < cnt /\ buckets[left] > buckets[left + 1] THEN left + 1 ELSE left

\* The conditions to go on with a round
GoesUp == sifting = "up" /\ bucket > 0 /\ buckets[Parent(bucket)] > val
GoesDown == sifting = "down" /\ SmallerChild(bucket) < cnt /\ buckets[SmallerChild(bucket)] <= val

\* What is in the new bucket before the value is written does not matter
CFBinaryHeapAddValue(value) ==
    /\ sifting = "none" /\ cnt < MaxHeap
    /\ capacity' = IF cnt = capacity THEN RoundUpCapacity(cnt + 1) ELSE capacity
    /\ cnt' = cnt + 1
    /\ buckets' = [i \in 0 .. cnt |-> IF i < cnt THEN buckets[i] ELSE value]
    /\ sifting' = "up" /\ bucket' = cnt /\ val' = value
    /\ inHeap' = [inHeap EXCEPT ![value] = @ + 1]

\* The last value takes the place of the first
CFBinaryHeapRemoveMinimumValue ==
    /\ sifting = "none" /\ cnt > 0
    /\ cnt' = cnt - 1
    /\ buckets' = [i \in 0 .. cnt - 2 |-> buckets[i]]
    /\ sifting' = "down" /\ bucket' = 0 /\ val' = buckets[cnt - 1]
    /\ inHeap' = [inHeap EXCEPT ![buckets[0]] = @ - 1]
    /\ UNCHANGED capacity

\* A round moves the parent down, or the smaller child up
MoveTo(i) ==
    /\ buckets' = [buckets EXCEPT ![bucket] = buckets[i]]
    /\ bucket' = i
    /\ UNCHANGED <<cnt, capacity, sifting, val, inHeap>>

Round == (GoesUp /\ MoveTo(Parent(bucket))) \/ (GoesDown /\ MoveTo(SmallerChild(bucket)))

\* After the last value was removed it is written to a bucket not in use
Write ==
    /\ sifting # "none" /\ ~GoesUp /\ ~GoesDown
    /\ buckets' = IF bucket < cnt THEN [buckets EXCEPT ![bucket] = val] ELSE buckets
    /\ sifting' = "none"
    /\ UNCHANGED <<cnt, capacity, bucket, val, inHeap>>

CFBinaryHeapRemoveAllValues ==
    /\ sifting = "none" /\ cnt' = 0 /\ buckets' = <<>> /\ inHeap' = [v \in Values |-> 0]
    /\ UNCHANGED <<capacity, sifting, bucket, val>>

HeapNext ==
    \/ \E v \in Values : CFBinaryHeapAddValue(v)
    \/ CFBinaryHeapRemoveMinimumValue \/ CFBinaryHeapRemoveAllValues
    \/ Round \/ Write

HeapSpec == HeapInit /\ [][HeapNext]_heapVars

-----------------------------------------------------------------------------
\* Whatever was added and removed, the buckets in use fit into the capacity,
\* and between two calls they hold the values that are in the heap, and
\* CFBinaryHeapGetMinimum, which looks at the first, returns the least of them
HeapServesLeast ==
    /\ cnt <= capacity
    /\ sifting = "none" =>
         /\ \A v \in Values : inHeap[v] = Cardinality({i \in DOMAIN buckets : buckets[i] = v})
         /\ cnt > 0 => \A v \in Values : inHeap[v] > 0 => buckets[0] <= v
=============================================================================
