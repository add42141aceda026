----------------------------- MODULE SortObject -----------------------------
(***************************************************************************)
(* The sorts of SortDemo (SortObject.m) as functions on arrays, indexed     *)
(* from 0 as NSMutableArray is.  Indices are NSUInteger, so that one less   *)
(* than 0 is out of the range of every array; reading there raises          *)
(* NSRangeException.  insertionSort compares by subtracting one int from    *)
(* another; the numbers are such that this does not overflow.               *)
(***************************************************************************)
EXTENDS Integers, Sequences, SequencesExt, FiniteSets, Functions

CONSTANTS MaxCount, Numbers    \* bound of the arrays' length; what they hold

INT_MAX == 2147483647

ASSUME SortAssumption == /\ MaxCount \in Nat /\ Numbers \subseteq Int
                         /\ \A m, n \in Numbers : m - n \in -INT_MAX - 1 .. INT_MAX

VARIABLES method, input, output

sortVars == <<method, input, output>>

raises == <<"NSRangeException">>   \* not an array, which starts at 0
Arrays == UNION {[0 .. n - 1 -> Numbers] : n \in 0 .. MaxCount}
count(a) == Cardinality(DOMAIN a)
Exchange(a, i, j) == [a EXCEPT ![i] = a[j], ![j] = a[i]]
Downwards(n) == Reverse([i \in 1 .. n |-> i])

-----------------------------------------------------------------------------
\* One run of the inner loop of the bubble sorts, begin from 1 to end
Bubble(a, end) ==
    FoldLeft(LAMBDA b, begin : IF b[begin] < b[begin - 1] THEN Exchange(b, begin, begin - 1) ELSE b,
             a, [i \in 1 .. end |-> i])

\* With count 0 end starts at NSUIntegerMax, and array[1] is not there
bubbleSort1(a) ==
    IF count(a) = 0 THEN raises
    ELSE FoldLeft(Bubble, a, Downwards(count(a) - 1))

\* Mutant: the flag says that nothing is left to do once something was exchanged.
bubbleSort2Early(a) ==
    IF count(a) = 0 THEN raises
    ELSE FoldLeft(LAMBDA s, end : IF s.isSorted THEN s
                                  ELSE [array |-> Bubble(s.array, end),
                                        isSorted |-> Bubble(s.array, end) # s.array],
                  [array |-> a, isSorted |-> FALSE], Downwards(count(a) - 1)).array

\* The outer loop ends after a run without an exchange
bubbleSort2(a) ==
    IF count(a) = 0 THEN raises
    ELSE FoldLeft(LAMBDA s, end : IF s.isSorted THEN s
                                  ELSE [array |-> Bubble(s.array, end),
                                        isSorted |-> Bubble(s.array, end) = s.array],
                  [array |-> a, isSorted |-> FALSE], Downwards(count(a) - 1)).array

\* sortIndex is assigned and never used: end goes down one by one
bubbleSort3(a) == bubbleSort1(a)

\* The last of the greatest among the first end + 1 goes to the end
selectionSort(a) ==
    LET maxIndex(b, end) == FoldLeft(LAMBDA m, begin : IF b[m] <= b[begin] THEN begin ELSE m,
                                     0, [i \in 1 .. end |-> i])
    IN IF count(a) = 0 THEN raises
       ELSE FoldLeft(LAMBDA b, end : Exchange(b, maxIndex(b, end), end), a, Downwards(count(a) - 1))

\* The inner loop moves the outer loop's index down with the element, has no
\* test for index 0, and the outer loop ends before the last element.
RECURSIVE Insertion(_, _)
Insertion(a, begin) ==
    IF begin = 0 THEN raises
    ELSE IF a[begin] < a[begin - 1] THEN Insertion(Exchange(a, begin, begin - 1), begin - 1)
    ELSE IF begin + 1 < count(a) - 1 THEN Insertion(a, begin + 1) ELSE a

insertionSort(a) ==
    IF count(a) = 0 THEN raises ELSE IF 1 < count(a) - 1 THEN Insertion(a, 1) ELSE a

-----------------------------------------------------------------------------
Sorts == {"bubbleSort1", "bubbleSort2", "bubbleSort3", "selectionSort", "insertionSort"}

SortInit == method = "none" /\ input = <<>> /\ output = <<>>

Sort(m, a) ==
    /\ method = "none" /\ method' = m /\ input' = a
    /\ output' = CASE m = "bubbleSort1" -> bubbleSort1(a) [] m = "bubbleSort2" -> bubbleSort2(a)
                   [] m = "bubbleSort3" -> bubbleSort3(a) [] m = "selectionSort" -> selectionSort(a)
                   [] m = "insertionSort" -> insertionSort(a)

SortNext == \E m \in Sorts, a \in Arrays : Sort(m, a)

SortSpec == SortInit /\ [][SortNext]_sortVars

-----------------------------------------------------------------------------
(* What is expected *)

Occurs(a, v) == Cardinality({i \in DOMAIN a : a[i] = v})
IsSortOf(b, a) ==
    /\ \A i, j \in DOMAIN b : i < j => b[i] <= b[j]
    /\ DOMAIN b = DOMAIN a /\ \A v \in Numbers : Occurs(a, v) = Occurs(b, v)

\* The bubble sorts and selectionSort sort every array that is not empty: also
\* when the outer loop ends early, and with equal elements.
BubbleAndSelectionSort ==
    method \notin {"none", "insertionSort"} /\ input # <<>> => IsSortOf(output, input)

\* insertionSort inserts every element it comes to where it belongs among those
\* before it, and so sorts every array that is not empty.  It does not: the last
\* element stays where it is, and a new least element before it raises.
InsertionSorts ==
    method = "insertionSort" /\ input # <<>> => IsSortOf(output, input)
=============================================================================
