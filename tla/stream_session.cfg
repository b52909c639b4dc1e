SPECIFICATION Spec
CONSTANTS
    Transfers = {t1, t2, t3}
    UnplugsAt <- Nowhere
    SubmitFails = FALSE
    TransferErrors = TRUE
    DamagedFrames = TRUE
    MaxSeq = 4
    MaxOpens = 2
INVARIANTS TypeOK HandleAlive
PROPERTIES SourceSpec
SYMMETRY TransferSymmetry
CHECK_DEADLOCK FALSE
