SPECIFICATION FairSpec
CONSTANTS
    Clients = {1, 2, 3}
    pool_size = 1
    MaxNulls = 1
    Producers = {p1, p2}
    num_threads = 2
    Sizes = {0, 1, 3}
    MaxTasks = 2
    MaxResizes = 2
INVARIANTS
    OneOwner
    NoConnectionOverlooked
    RunOnce
    NoTaskOverlooked
PROPERTIES
    Served
    OwnerReturns
CHECK_DEADLOCK FALSE
