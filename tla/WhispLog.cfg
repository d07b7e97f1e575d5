SPECIFICATION FairSpec
CONSTANTS
    Thread = {t1, t2}
    Level = {6, 7}
    roll_size_ = 2
    Named = TRUE
    MayFail = TRUE
    MaxLines = 3
    MaxTime = 1
INVARIANTS
    OrderInv
    DrainInv
    FileInv
PROPERTIES
    EventuallyPrinted
    UninitReturns
CHECK_DEADLOCK FALSE
