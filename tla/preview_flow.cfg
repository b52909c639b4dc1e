SPECIFICATION FairSpec
CONSTANTS
    Clients = {c1}
    CapThreads = {k1, k2}
    Frames = {f1, f2, f3, f4}
    Callbacks = {cb1}
    Converting = {cb1}
    PreviewSurfaces = {}
    CaptureSurfaces = {}
    NULL = NULL
    MaxFrame = 1
    Mjpeg = FALSE
    EarlyStop = TRUE
    SwapLive = TRUE
    MaxCalls = 3
    MaxStamp = 2

PROPERTIES PreviewFrameTaken CaptureFrameTaken
CHECK_DEADLOCK FALSE
