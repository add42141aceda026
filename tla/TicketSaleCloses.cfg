SPECIFICATION FairSale
CONSTANTS
    Windows = {w1, w2}
    Tickets = 3
PROPERTY WindowsClose
CHECK_DEADLOCK FALSE
