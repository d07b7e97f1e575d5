SPECIFICATION PollerFairSpec
CONSTANTS
    Channel = {c1, c2, c3}
    Fd = {f1, f2}
    None = None
    init_event_list_size_ = 1
INVARIANT RegistrationInv
PROPERTY Served
