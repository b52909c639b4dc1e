SPECIFICATION FairSpec
CONSTANTS
    Clients = {c1}
    CapThreads = {k1, k2}
    Frames = {f1, f2, f3, f4, f5}
    Callbacks = {cb1}
    Converting = {cb1}
    PreviewSurfaces = {}
    CaptureSurfaces = {}
    NULL = NULL
    MaxFrame = 1
    Mjpeg = FALSE
    EarlyStop = FALSE
    SwapLive = FALSE
    MaxCalls = 2
    MaxStamp = 0

PROPERTIES StopReturns
CHECK_DEADLOCK FALSE
