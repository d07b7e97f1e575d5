SPECIFICATION DrainSpec
CONSTANTS
    BaseIsIo = FALSE
    Reactions = {"send", "shutdown", "force"}
    WorkerOps = {"send"}
    MayStop = FALSE
    write_complete_callback_ = TRUE
    MaxBytes = 4
    MsgLen = {1, 2}
    MaxIn = 1
    MaxOps = 1
INVARIANTS
    NoStaleEntry
    NoWildRun
PROPERTIES
    LifecycleSpec
    Released
    ShutdownDelivers
