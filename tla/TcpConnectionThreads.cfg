SPECIFICATION Spec
CONSTANTS
    BaseIsIo = FALSE
    Reactions = {"send", "shutdown", "force"}
    WorkerOps = {"send", "shutdown", "force"}
    MayStop = TRUE
    write_complete_callback_ = FALSE
    MaxBytes = 3
    MsgLen = {1, 2}
    MaxIn = 1
    MaxOps = 2
INVARIANTS
    StreamInv
    WritingInv
    FinAfterFlush
CHECK_DEADLOCK FALSE
