SPECIFICATION Spec
CONSTANTS
    BaseIsIo = FALSE
    Reactions = {}
    WorkerOps = {"force"}
    MayStop = FALSE
    write_complete_callback_ = FALSE
    MaxBytes = 0
    MsgLen = {1}
    MaxIn = 0
    MaxOps = 1
INVARIANT
    DownOnce
