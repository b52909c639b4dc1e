SPECIFICATION Spec
CONSTANTS
    Transfers = {t1, t2}
    UnplugsAt <- WhileStreaming
    SubmitFails = FALSE
    TransferErrors = FALSE
    DamagedFrames = FALSE
    MaxSeq = 2
    MaxOpens = 1
INVARIANTS HandleAlive
CHECK_DEADLOCK FALSE
