SPECIFICATION Spec
CONSTANTS
    Clients = {c1, c2}
    CapThreads = {k1, k2}
    Frames = {f1, f2, f3, f4, f5}
    Callbacks = {cb1}
    Converting = {cb1}
    PreviewSurfaces = {w1}
    CaptureSurfaces = {w2}
    NULL = NULL
    MaxFrame = 1
    Mjpeg = FALSE
    EarlyStop = TRUE
    SwapLive = TRUE
    MaxCalls = 4
    MaxStamp = 2
INVARIANTS TypeOK FramesExclusive NoFrameLeak LocalFrames OnePreviewThread

SYMMETRY ThreadSymmetry
CHECK_DEADLOCK FALSE
