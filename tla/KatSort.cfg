SPECIFICATION FairSpec
CONSTANTS
    NDealt = 7
    NRandom = 3
    FirstIds = {1, 5}
    NFiles = 4
    RowCounts = {0, 1, 2}
INVARIANTS AllRows DealtSorted
PROPERTY Ends
CHECK_DEADLOCK FALSE
