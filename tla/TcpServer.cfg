SPECIFICATION FairServerSpec
CONSTANTS
    num_threads_ = 2
    MaxConns = 3
    MaxPeers = 3
    MaxFds = 3
    MaxOthers = 2
INVARIANTS
    LoopsLive
    
PROPERTIES
    StopReturns
    Reclaimed
    PeerAnswered
CHECK_DEADLOCK FALSE
