CONSTANTS
    Callers = {"t1", "t2", "t3"}
    Tokens = {"a", "b"}
    Uses <- UsesValue
    Nests <- NestsValue
    SafeDelta = 1
    MaxGeneration = 1
    Helpers = {"t2", "t3"}
    Iterations = {1, 2, 3}
    Nesting = {0, 2}
    Parallelism = 3
    QueueWidth <- QueueWidthValue
    Owners = {"t1", "t2"}
    RC_HALF = 2
    MaxStrong = 3
    MaxCount = 5
    Numbers = {1, 2, 3}
    Values = {1, 2, 3, 4}
    MaxHeap = 7
    Nodes = {"n1", "n2", "n3", "n4"}
    Rank <- RankValue
SPECIFICATION Spec
INVARIANTS OnceAndBefore EachIndexOnce UsedWhileAlive WidthReturned CountExact FreedWhenUnused
           BubbleAndSelectionSort HeapServesLeast TreeIsSequences
PROPERTIES OnceReturns ApplyReturns Reclaimed
CHECK_DEADLOCK FALSE
