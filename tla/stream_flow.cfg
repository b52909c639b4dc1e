SPECIFICATION FairSpec
CONSTANTS
    Transfers = {t1, t2, t3}
    UnplugsAt <- Anywhere
    SubmitFails = FALSE
    TransferErrors = TRUE
    DamagedFrames = TRUE
    MaxSeq = 3
    MaxOpens = 2
PROPERTIES StopEnds FrameSeen NoDeviceEnds
CHECK_DEADLOCK FALSE
