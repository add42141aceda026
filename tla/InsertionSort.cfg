CONSTANTS
    MaxCount = 3
    Numbers = {1, 2, 3}
SPECIFICATION SortSpec
INVARIANT InsertionSorts
CHECK_DEADLOCK FALSE
