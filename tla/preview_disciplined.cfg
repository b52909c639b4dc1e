SPECIFICATION Spec
CONSTANTS
    Clients = {c1}
    CapThreads = {k1, k2}
    Frames = {f1, f2, f3, f4, f5, f6, f7, f8}
    Callbacks = {cb1}
    Converting = {cb1}
    PreviewSurfaces = {}
    CaptureSurfaces = {w2}
    NULL = NULL
    MaxFrame = 2
    Mjpeg = TRUE
    EarlyStop = FALSE
    SwapLive = FALSE
    MaxCalls = 5
    MaxStamp = 2
INVARIANTS TargetsAlive StoppedQuiet StoppedClean WindowsReferenced
PROPERTIES DeliveredThisSession DeliveredInOrder
SYMMETRY ThreadSymmetry
CHECK_DEADLOCK FALSE
