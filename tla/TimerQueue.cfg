SPECIFICATION TimerSpec
CONSTANTS
    Timer = {1, 2, 3}
    Interval = {1}
    Overload = {"rvalue"}
    MaxTime = 2
INVARIANTS
    DriftFree
PROPERTY
    NothingSkipped
CHECK_DEADLOCK FALSE
