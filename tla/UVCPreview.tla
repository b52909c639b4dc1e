----------------------------- MODULE UVCPreview -----------------------------
(***************************************************************************)
(* The preview engine of libcamera (UVCPreview.cpp) and the Java methods   *)
(* that drive it (UVCCamera.java): API threads, the preview thread, the    *)
(* capture thread, and libuvc's frame callback thread share a frame pool,  *)
(* a bounded queue of preview frames, a one-slot capture queue, the        *)
(* application's frame callback and two native windows.                    *)
(*                                                                         *)
(* A critical section under preview_mutex, capture_mutex or pool_mutex is  *)
(* one action; a pthread_cond_wait splits it in two.  Every unlocked read  *)
(* of mIsRunning, mIsCapturing, mFrameCallbackObj or mCaptureWindow that   *)
(* another thread can invalidate is an action of its own.                  *)
(***************************************************************************)
EXTENDS Integers, Sequences, FiniteSets

CONSTANTS
    Clients,         \* application threads calling into UVCCamera
    CapThreads,      \* identities a capture thread can have
    Frames,          \* uvc_frame_t buffers the heap can hold at once
    Callbacks,       \* IFrameCallback objects the application registers
    Converting,      \* the callbacks registered with a converted pixel format
    PreviewSurfaces, \* surfaces passed to setPreviewDisplay
    CaptureSurfaces, \* surfaces passed to startCapture
    NULL,            \* null pointer / no object
    MaxFrame,        \* MAX_FRAME
    Mjpeg,           \* requestMode: TRUE for MJPEG, FALSE for YUYV
    EarlyStop,       \* may stopPreview overtake the start of the session?
    SwapLive,        \* may a callback or capture surface in use be replaced
                     \* while the preview runs?
    MaxCalls,        \* bound: API calls in a behaviour
    MaxStamp         \* bound: frames the camera sends in a behaviour

ASSUME PreviewAssumption ==
    /\ IsFiniteSet(Frames)
    /\ MaxFrame \in Nat \ {0}
    /\ NULL \notin Frames \cup Callbacks \cup PreviewSurfaces
                   \cup CaptureSurfaces \cup CapThreads \cup Clients
    /\ Clients \cap CapThreads = {}
    /\ {"usb", "prev"} \cap CapThreads = {}
    /\ Converting \subseteq Callbacks
    /\ Mjpeg \in BOOLEAN /\ EarlyStop \in BOOLEAN /\ SwapLive \in BOOLEAN
    /\ MaxCalls \in Nat /\ MaxStamp \in Nat

PoolSize == MaxFrame + 2

Surfaces == PreviewSurfaces \cup CaptureSurfaces

\* The local variables of the threads that can own a frame.
Slots == {<<"usb", "copy">>, <<"prev", "mjpeg">>, <<"prev", "frame">>,
          <<"prev", "converted">>}
         \cup (CapThreads \X {"frame", "callback", "converted"})

VARIABLES
    \* ---- fields of UVCPreview
    mIsRunning, mIsCapturing,
    mFramePool,        \* set of free frames (their order carries no meaning)
    previewFrames,     \* queue of frames from the camera
    captureQueu,       \* latest frame for the capture thread, or NULL
    mFrameCallbackObj, mFrameCallbackFunc,
    mPreviewWindow, mCaptureWindow,
    capture_thread,    \* the pthread_t last stored, NULL when none can be joined
    \* ---- the heap
    live,              \* frames allocated and not freed
    hold,              \* hold[s]: the frame in local variable s, or NULL
    stamp,             \* stamp[f]: which camera frame f shows, 0 for none
    winRefs,           \* winRefs[w]: references the engine owns on window w
    \* ---- the threads
    usb,               \* libuvc's callback thread
    prev,              \* the preview thread
    cap,               \* cap[k]: capture thread k
    onSurface,         \* onSurface[k]: k is in do_capture_surface
    api,               \* api[c]: where client c is in its call
    arg,               \* arg[c]: the argument of that call
    monitor,           \* the client inside a synchronized method of UVCCamera
    \* ---- libuvc and history
    streaming,         \* uvc_start_streaming succeeded, stream not stopped yet
    captured,          \* number of camera frames so far
    sessionStart,      \* captured when this stream was started
    delivered,         \* stamp of the frame last passed to onFrame
    calls              \* API calls so far

frameVars  == <<mFramePool, live, stamp>>
queueVars  == <<previewFrames, captureQueu>>
targetVars == <<mFrameCallbackObj, mFrameCallbackFunc>>
windowVars == <<mPreviewWindow, mCaptureWindow, winRefs>>
apiVars    == <<api, arg, monitor, calls>>
capVars    == <<cap, onSurface, capture_thread>>
streamVars == <<streaming, captured, sessionStart>>
runVars    == <<mIsRunning, mIsCapturing>>

vars == <<frameVars, queueVars, targetVars, windowVars, apiVars, capVars,
          streamVars, runVars, hold, usb, prev, delivered>>

Init ==
    /\ mIsRunning = FALSE /\ mIsCapturing = FALSE
    /\ mFramePool = {} /\ live = {} /\ stamp = [f \in Frames |-> 0]
    /\ previewFrames = <<>> /\ captureQueu = NULL
    /\ mFrameCallbackObj = NULL /\ mFrameCallbackFunc = FALSE
    /\ mPreviewWindow = NULL /\ mCaptureWindow = NULL
    /\ winRefs = [w \in Surfaces |-> 0]
    /\ capture_thread = NULL
    /\ hold = [s \in Slots |-> NULL]
    /\ usb = "idle" /\ prev = "none"
    /\ cap = [k \in CapThreads |-> "none"]
    /\ onSurface = [k \in CapThreads |-> FALSE]
    /\ api = [c \in Clients |-> "idle"] /\ arg = [c \in Clients |-> NULL]
    /\ monitor = NULL /\ calls = 0
    /\ streaming = FALSE /\ captured = 0 /\ sessionStart = 0 /\ delivered = 0

-----------------------------------------------------------------------------
(* The frame pool.                                                         *)

\* The frame get_frame returns: one from the pool, else a new one, else NULL
\* when the heap is exhausted.
NextFrame == IF mFramePool # {} THEN CHOOSE f \in mFramePool : TRUE
             ELSE IF live # Frames THEN CHOOSE f \in Frames \ live : TRUE
             ELSE NULL

\* get_frame into local variable s, then filled with camera frame n.
GetFrame(s, n) ==
    /\ hold' = [hold EXCEPT ![s] = NextFrame]
    /\ mFramePool' = mFramePool \ {NextFrame}
    /\ live' = live \cup ({NextFrame} \ {NULL})
    /\ stamp' = [f \in Frames |-> IF f = NextFrame THEN n ELSE stamp[f]]

\* recycle_frame for each frame of Q: kept while the pool has room, freed
\* otherwise.  A NULL frame is ignored.
Recycle(Q) ==
    LET back == Q \ {NULL}
        room == PoolSize - Cardinality(mFramePool)
    IN  \E kept \in SUBSET back :
          /\ Cardinality(kept) =
               IF Cardinality(back) < room THEN Cardinality(back) ELSE room
          /\ mFramePool' = mFramePool \cup kept
          /\ live' = live \ (back \ kept)
          /\ stamp' = [f \in Frames |-> IF f \in back THEN 0 ELSE stamp[f]]

\* Mutant: the local variable is still used after recycle_frame.
RecycleSlotKept(s) == Recycle({hold[s]}) /\ UNCHANGED hold

\* recycle_frame of local variable s.
RecycleSlot(s) == Recycle({hold[s]}) /\ hold' = [hold EXCEPT ![s] = NULL]

\* Mutants: a queue is not emptied, or emptied without recycling its frame.
KeepQueues == UNCHANGED <<frameVars, queueVars>>
ForgetCaptureFrame ==
    captureQueu' = NULL /\ UNCHANGED <<frameVars, previewFrames>>

\* clearPreviewFrame and clearCaptureFrame.
ClearPreviewFrame ==
    /\ Recycle({previewFrames[i] : i \in DOMAIN previewFrames})
    /\ previewFrames' = <<>> /\ UNCHANGED captureQueu
ClearCaptureFrame ==
    Recycle({captureQueu}) /\ captureQueu' = NULL /\ UNCHANGED previewFrames

-----------------------------------------------------------------------------
(* Condition variables.  The waiters on preview_sync are the preview       *)
(* thread in "waiting"; those on capture_sync are capture threads in       *)
(* "waiting" and clients in "cb_wait" or "win_wait".                       *)

CaptureWaiters == {k \in CapThreads : cap[k] = "waiting"}
                  \cup {c \in Clients : api[c] \in {"cb_wait", "win_wait"}}

\* The sets of threads a pthread_cond_signal on capture_sync may wake.
SignalCapture == IF CaptureWaiters = {} THEN {{}} ELSE {{t} : t \in CaptureWaiters}

\* Mutants: the wakeup is lost.
CapNotWoken(W) == cap
PrevNotWoken == prev

\* The program counters once the threads of W are woken.
CapAfter(W) == [k \in CapThreads |-> IF k \in W THEN "woken" ELSE cap[k]]
ApiAfter(W) == [c \in Clients |->
                  IF c \notin W THEN api[c]
                  ELSE IF api[c] = "cb_wait" THEN "cb_swap" ELSE "win_swap"]

\* pthread_cond_signal on preview_sync.
PrevAfterSignal == IF prev = "waiting" THEN "woken" ELSE prev

-----------------------------------------------------------------------------
(* API threads: startPreview and stopPreview.  Both are synchronized in    *)
(* Java: the client stays in the monitor until the method returns.         *)

ApiGoto(c, from, to) == api[c] = from /\ api' = [api EXCEPT ![c] = to]
\* Mutant: the method is not synchronized.
EnterUnsynchronized(c) == monitor' = c

Enter(c)  == monitor = NULL /\ monitor' = c
Return(c) == monitor' = IF monitor = c THEN NULL ELSE monitor

\* startPreview: refused while running, else mIsRunning is set first.
StartPreview(c) ==
    /\ ApiGoto(c, "idle", "create") /\ Enter(c)
    /\ ~mIsRunning /\ mIsRunning' = TRUE
    /\ UNCHANGED <<cap, capture_thread, prev>>

\* ... then the thread is created under preview_mutex, or the flag reset.
CreatePreviewThread(c) ==
    /\ ApiGoto(c, "create", "idle") /\ Return(c)
    /\ \/ prev' = "prepare" /\ UNCHANGED mIsRunning
       \/ mIsRunning' = FALSE /\ prev' = PrevAfterSignal
    /\ UNCHANGED <<cap, capture_thread>>

\* stopPreview: clears mIsRunning when it was set.
StopPreview(c) ==
    /\ EarlyStop \/ prev \notin {"prepare", "clear", "create"}
    /\ ApiGoto(c, "idle", IF mIsRunning THEN "stop_signal" ELSE "stop_clear")
    /\ Enter(c)
    /\ mIsRunning' = FALSE
    /\ UNCHANGED <<cap, capture_thread, prev>>

\* Signals preview_sync while holding preview_mutex.
StopSignalPreview(c) ==
    /\ ApiGoto(c, "stop_signal", "stop_sigcap")
    /\ prev' = PrevAfterSignal
    /\ UNCHANGED <<monitor, mIsRunning, cap, capture_thread>>

\* Signals capture_sync without holding capture_mutex.
StopSignalCapture(c) ==
    /\ api[c] = "stop_sigcap"
    /\ \E W \in SignalCapture :
         cap' = CapAfter(W) /\ api' = [ApiAfter(W) EXCEPT ![c] = "join_cap"]
    /\ UNCHANGED <<monitor, mIsRunning, capture_thread, prev>>

\* Mutant: the capture thread is not waited for.
ForgetCapture(c) ==
    ApiGoto(c, "join_cap", "join_prev")
    /\ UNCHANGED <<monitor, mIsRunning, prev, cap, capture_thread>>

\* pthread_join(capture_thread): returns at once, with an error that is only
\* logged, when the handle names no thread that can be joined.
JoinCapture(c) ==
    /\ ApiGoto(c, "join_cap", "join_prev")
    /\ capture_thread # NULL => cap[capture_thread] = "exited"
    /\ cap' = [k \in CapThreads |-> IF k = capture_thread THEN "none" ELSE cap[k]]
    /\ capture_thread' = NULL
    /\ UNCHANGED <<monitor, mIsRunning, prev>>

\* pthread_join(preview_thread), then clearDisplay (pixels only).
JoinPreview(c) ==
    /\ ApiGoto(c, "join_prev", "stop_clear")
    /\ prev = "exited" /\ prev' = "none"
    /\ UNCHANGED <<monitor, mIsRunning, cap, capture_thread>>

\* stopPreview empties both queues ...
StopClearPreview(c) ==
    ApiGoto(c, "stop_clear", "stop_clearcap") /\ ClearPreviewFrame
StopClearCapture(c) ==
    ApiGoto(c, "stop_clearcap", "stop_prevwin") /\ ClearCaptureFrame

\* winRefs after the engine drops a reference to w and acquires one to v.
Swapped(w, v) == [x \in Surfaces |-> winRefs[x] - (IF x = w THEN 1 ELSE 0)
                                                + (IF x = v THEN 1 ELSE 0)]

\* ... and releases both windows; Java then calls setFrameCallback(null, 0).
StopReleasePreviewWindow(c) ==
    /\ ApiGoto(c, "stop_prevwin", "stop_capwin")
    /\ winRefs' = Swapped(mPreviewWindow, NULL) /\ mPreviewWindow' = NULL
    /\ UNCHANGED <<targetVars, mCaptureWindow, arg, monitor, mIsCapturing, cap>>
StopReleaseCaptureWindow(c) ==
    /\ ApiGoto(c, "stop_capwin", "cb_enter")
    /\ winRefs' = Swapped(mCaptureWindow, NULL) /\ mCaptureWindow' = NULL
    /\ UNCHANGED <<targetVars, mPreviewWindow, arg, monitor, mIsCapturing, cap>>

-----------------------------------------------------------------------------
(* API threads: setFrameCallback, startCapture and stopCapture, which are  *)
(* not synchronized in Java, and setPreviewDisplay, which is.              *)

\* While the capture thread runs with the target in use, it is told to
\* pause, capture_sync is signalled, and client c waits on it, once.
Pause(c, place) ==
    /\ \E W \in SignalCapture :
         cap' = CapAfter(W) /\ api' = [ApiAfter(W) EXCEPT ![c] = place]
    /\ mIsCapturing' = FALSE
    /\ UNCHANGED <<targetVars, windowVars, arg, monitor>>

\* setFrameCallback(cb, format) is called.
CallSetFrameCallback(c, cb) ==
    /\ SwapLive \/ ~mIsRunning \/ mFrameCallbackObj \in {NULL, cb}
    /\ ApiGoto(c, "idle", "cb_enter")
    /\ arg' = [arg EXCEPT ![c] = cb]
    /\ UNCHANGED windowVars

\* The rest of setFrameCallback: the callback is replaced, and its
\* conversion chosen when one is set.
SwapCallback(c, from) ==
    /\ ApiGoto(c, from, "idle") /\ Return(c)
    /\ mFrameCallbackObj' = arg[c]
    /\ mFrameCallbackFunc' = IF arg[c] = NULL THEN mFrameCallbackFunc
                             ELSE arg[c] \in Converting
    /\ arg' = [arg EXCEPT ![c] = NULL]
    /\ UNCHANGED <<windowVars, cap>>

\* setFrameCallback under capture_mutex, up to its wait or its end.
EnterSetFrameCallback(c) ==
    /\ api[c] = "cb_enter"
    /\ IF mIsRunning /\ mIsCapturing /\ mFrameCallbackObj # NULL
       THEN Pause(c, "cb_wait")
       ELSE SwapCallback(c, "cb_enter")
            /\ mIsCapturing' = (mIsCapturing /\ ~mIsRunning)

FinishSetFrameCallback(c) ==
    SwapCallback(c, "cb_swap") /\ UNCHANGED mIsCapturing

\* startCapture(w) or stopCapture() is called; ANativeWindow_fromSurface
\* acquires the new window first.
CallSetCaptureDisplay(c, w) ==
    /\ SwapLive \/ ~mIsRunning \/ mCaptureWindow = NULL
    /\ ApiGoto(c, "idle", "win_enter")
    /\ arg' = [arg EXCEPT ![c] = w]
    /\ winRefs' = Swapped(NULL, w)
    /\ UNCHANGED <<mPreviewWindow, mCaptureWindow>>

\* The rest of setCaptureDisplay.  The reference acquired for a window that
\* is already set is not given back.
SwapWindow(c, from) ==
    /\ ApiGoto(c, from, "idle")
    /\ mCaptureWindow' = arg[c]
    /\ winRefs' = IF arg[c] = mCaptureWindow THEN winRefs
                  ELSE Swapped(mCaptureWindow, NULL)
    /\ arg' = [arg EXCEPT ![c] = NULL]
    /\ UNCHANGED <<targetVars, mPreviewWindow, monitor, cap>>

\* setCaptureDisplay under capture_mutex, up to its wait or its end.
EnterSetCaptureDisplay(c) ==
    /\ api[c] = "win_enter"
    /\ IF mIsRunning /\ mIsCapturing /\ mCaptureWindow # NULL
       THEN Pause(c, "win_wait")
       ELSE SwapWindow(c, "win_enter")
            /\ mIsCapturing' = (mIsCapturing /\ ~mIsRunning)

FinishSetCaptureDisplay(c) ==
    SwapWindow(c, "win_swap") /\ UNCHANGED mIsCapturing

\* setPreviewDisplay(w): one critical section of preview_mutex.  As above,
\* the reference acquired for the window already set is not given back.
SetPreviewDisplay(c, w) ==
    /\ ApiGoto(c, "idle", "idle") /\ monitor = NULL
    /\ mPreviewWindow' = w
    /\ winRefs' = IF w = mPreviewWindow THEN Swapped(NULL, w)
                  ELSE Swapped(mPreviewWindow, w)
    /\ UNCHANGED <<mCaptureWindow, arg>>

-----------------------------------------------------------------------------
(* libuvc's callback thread: uvc_preview_frame_callback.                   *)

\* A frame of the negotiated size arrives; while running, it is duplicated
\* into a buffer, which may fail for want of memory.
FrameCallback ==
    /\ usb = "idle" /\ streaming /\ captured < MaxStamp
    /\ captured' = captured + 1
    /\ IF mIsRunning
       THEN /\ GetFrame(<<"usb", "copy">>, captured + 1)
            /\ usb' \in IF NextFrame = NULL THEN {"idle"} ELSE {"add", "drop"}
       ELSE UNCHANGED <<frameVars, hold, usb>>
    /\ UNCHANGED <<previewFrames, prev>>

\* Mutant: one frame too many.
PreviewFrameFits == mIsRunning /\ Len(previewFrames) <= MaxFrame

\* The condition under which addPreviewFrame queues a frame.
PreviewFrameWanted == mIsRunning /\ Len(previewFrames) < MaxFrame

\* addPreviewFrame: queued and signalled while running and not full.
AddPreviewFrame ==
    /\ usb = "add"
    /\ IF PreviewFrameWanted
       THEN /\ previewFrames' = Append(previewFrames, hold[<<"usb", "copy">>])
            /\ hold' = [hold EXCEPT ![<<"usb", "copy">>] = NULL]
            /\ prev' = PrevAfterSignal
            /\ usb' = "idle"
       ELSE usb' = "drop" /\ UNCHANGED <<previewFrames, hold, prev>>
    /\ UNCHANGED <<frameVars, captured>>

\* A frame that could not be filled or queued goes back to the pool.
DropPreviewFrame ==
    /\ usb = "drop" /\ usb' = "idle"
    /\ RecycleSlot(<<"usb", "copy">>)
    /\ UNCHANGED <<previewFrames, prev, captured>>

-----------------------------------------------------------------------------
(* The preview thread: preview_thread_func, prepare_preview, do_preview.   *)

PrevGoto(from, to) == prev = from /\ prev' = to

\* prepare_preview and uvc_start_streaming_bandwidth; when either fails the
\* thread ends and mIsRunning keeps its value.
StartStreaming ==
    /\ \/ PrevGoto("prepare", "clear") /\ streaming' = TRUE
       \/ PrevGoto("prepare", "exited") /\ UNCHANGED streaming
    /\ sessionStart' = captured
    /\ UNCHANGED <<frameVars, queueVars, hold, cap, capture_thread, api>>

\* clearPreviewFrame once the stream runs.
ClearAtStart ==
    /\ PrevGoto("clear", "create") /\ ClearPreviewFrame
    /\ UNCHANGED <<hold, cap, capture_thread, api, streaming, sessionStart>>

\* pthread_create of the capture thread; its failure is only logged.
CreateCaptureThread ==
    /\ PrevGoto("create", "loop")
    /\ \/ \E k \in CapThreads :
            /\ cap[k] = "none" /\ cap' = [cap EXCEPT ![k] = "clear"]
            /\ capture_thread' = k
       \/ UNCHANGED <<cap, capture_thread>>
    /\ UNCHANGED <<frameVars, queueVars, hold, api, streaming, sessionStart>>

\* The condition of the preview loop.
PreviewLoop ==
    /\ PrevGoto("loop", IF mIsRunning THEN "wait" ELSE "signal")
    /\ UNCHANGED <<frameVars, queueVars, hold, cap, capture_thread, api, streaming,
                   sessionStart>>

\* Mutant: the newest frame is taken first.
TakeNewestFrame ==
    LET n == Len(previewFrames)
        s == <<"prev", IF Mjpeg THEN "mjpeg" ELSE "frame">>
    IN  /\ hold' = IF mIsRunning /\ n > 0 THEN [hold EXCEPT ![s] = previewFrames[n]] ELSE hold
        /\ previewFrames' = IF mIsRunning /\ n > 0 THEN SubSeq(previewFrames, 1, n - 1)
                            ELSE previewFrames
        /\ prev' = IF mIsRunning /\ n > 0 THEN (IF Mjpeg THEN "decode" ELSE "draw") ELSE "loop"

\* The end of waitPreviewFrame: the oldest frame, or NULL when stopped or
\* when there is none.
TakePreviewFrame ==
    IF mIsRunning /\ previewFrames # <<>>
    THEN /\ hold' = [hold EXCEPT ![<<"prev", IF Mjpeg THEN "mjpeg" ELSE "frame">>]
                                 = Head(previewFrames)]
         /\ previewFrames' = Tail(previewFrames)
         /\ prev' = IF Mjpeg THEN "decode" ELSE "draw"
    ELSE prev' = "loop" /\ UNCHANGED <<hold, previewFrames>>

\* waitPreviewFrame takes preview_mutex and waits, once, if the queue is
\* empty; mIsRunning is not looked at before the wait.
WaitPreviewFrame ==
    /\ \/ prev = "wait" /\ previewFrames # <<>> /\ TakePreviewFrame
       \/ PrevGoto("wait", "waiting") /\ previewFrames = <<>>
          /\ UNCHANGED <<hold, previewFrames>>
       \/ prev = "woken" /\ TakePreviewFrame
    /\ UNCHANGED <<frameVars, captureQueu, cap, capture_thread, api, streaming,
                   sessionStart>>

\* MJPEG: a frame is decoded into a second buffer.  The code does not handle
\* the NULL of an exhausted heap here, so the heap is large enough (a bound).
DecodeFrame ==
    /\ PrevGoto("decode", "decoded") /\ NextFrame # NULL
    /\ GetFrame(<<"prev", "frame">>, stamp[hold[<<"prev", "mjpeg">>]])
    /\ UNCHANGED <<queueVars, cap, capture_thread, api, streaming, sessionStart>>

\* The MJPEG frame is recycled; after a decoding error so is the other.
RecycleDecoded ==
    /\ \/ PrevGoto("decoded", "draw") /\ RecycleSlot(<<"prev", "mjpeg">>)
       \/ /\ PrevGoto("decoded", "loop")
          /\ Recycle({hold[<<"prev", "mjpeg">>], hold[<<"prev", "frame">>]})
          /\ hold' = [hold EXCEPT ![<<"prev", "mjpeg">>] = NULL,
                                  ![<<"prev", "frame">>] = NULL]
    /\ UNCHANGED <<queueVars, cap, capture_thread, api, streaming, sessionStart>>

\* draw_preview_one: with a window set, a buffer for the ARGB picture ...
DrawPreview ==
    /\ prev = "draw"
    /\ IF mPreviewWindow # NULL
       THEN /\ GetFrame(<<"prev", "converted">>, 0)
            /\ PrevGoto("draw", IF NextFrame = NULL THEN "add" ELSE "drawn")
       ELSE PrevGoto("draw", "add") /\ UNCHANGED <<frameVars, hold>>
    /\ UNCHANGED <<queueVars, cap, capture_thread, api, streaming, sessionStart>>

\* ... which is converted, copied to the window and recycled.
RecycleDrawn ==
    /\ PrevGoto("drawn", "add") /\ RecycleSlot(<<"prev", "converted">>)
    /\ UNCHANGED <<queueVars, cap, capture_thread, api, streaming, sessionStart>>

\* addCaptureFrame: only the latest frame is kept for the capture thread.
AddCaptureFrame ==
    /\ PrevGoto("add", "loop")
    /\ IF mIsRunning
       THEN /\ Recycle({captureQueu})
            /\ captureQueu' = hold[<<"prev", "frame">>]
            /\ cap' = CapAfter(CaptureWaiters) /\ api' = ApiAfter(CaptureWaiters)
       ELSE /\ Recycle({hold[<<"prev", "frame">>]})
            /\ UNCHANGED <<captureQueu, cap, api>>
    /\ hold' = [hold EXCEPT ![<<"prev", "frame">>] = NULL]
    /\ UNCHANGED <<previewFrames, capture_thread, streaming, sessionStart>>

\* After the loop: capture_sync is signalled without holding capture_mutex.
SignalCaptureThread ==
    /\ PrevGoto("signal", "stop")
    /\ \E W \in SignalCapture : cap' = CapAfter(W) /\ api' = ApiAfter(W)
    /\ UNCHANGED <<frameVars, queueVars, hold, capture_thread, streaming,
                   sessionStart>>

\* uvc_stop_streaming returns once the callback thread has ended.
StopStreaming ==
    /\ PrevGoto("stop", "exited")
    /\ usb = "idle" /\ streaming' = FALSE
    /\ UNCHANGED <<frameVars, queueVars, hold, cap, capture_thread, api,
                   sessionStart>>

-----------------------------------------------------------------------------
(* A capture thread k: do_capture and the functions it calls.              *)

CapGoto(k, from, to) == cap[k] = from /\ cap' = [cap EXCEPT ![k] = to]

\* What most steps of the capture thread leave alone.
surfaceVars == <<mCaptureWindow, winRefs, onSurface, mIsCapturing>>

ClearBeforeCapture(k) ==
    /\ CapGoto(k, "clear", "outer") /\ ClearCaptureFrame
    /\ UNCHANGED <<surfaceVars, hold, api, delivered>>

\* The condition of do_capture's loop, and mIsCapturing set in its body.
CaptureOuter(k) ==
    /\ CapGoto(k, "outer", IF mIsRunning THEN "mark" ELSE "exited")
    /\ UNCHANGED <<frameVars, queueVars, surfaceVars, hold, api, delivered>>
MarkCapturing(k) ==
    /\ CapGoto(k, "mark", "branch")
    /\ mIsCapturing' = TRUE
    /\ UNCHANGED <<frameVars, queueVars, mCaptureWindow, winRefs, onSurface, hold,
                   api, delivered>>

\* do_capture_surface when a window is set, do_capture_idle_loop otherwise.
CaptureBranch(k) ==
    /\ CapGoto(k, "branch", "loop")
    /\ onSurface' = [onSurface EXCEPT ![k] = mCaptureWindow # NULL]
    /\ UNCHANGED <<frameVars, queueVars, mCaptureWindow, winRefs, mIsCapturing,
                   hold, api, delivered>>

\* The condition of either inner loop.
CaptureLoop(k) ==
    /\ CapGoto(k, "loop", IF mIsRunning /\ mIsCapturing THEN "wait"
                          ELSE IF onSurface[k] THEN "unsurface" ELSE "broadcast")
    /\ UNCHANGED <<frameVars, queueVars, surfaceVars, hold, api, delivered>>

\* The end of waitCaptureFrame: the queued frame, or NULL.
TakeCaptureFrame(k, from) ==
    IF mIsRunning /\ captureQueu # NULL
    THEN /\ hold' = [hold EXCEPT ![<<k, "frame">>] = captureQueu]
         /\ captureQueu' = NULL
         /\ CapGoto(k, from, IF onSurface[k] THEN "surface" ELSE "callback")
    ELSE CapGoto(k, from, "loop") /\ UNCHANGED <<hold, captureQueu>>

\* waitCaptureFrame takes capture_mutex and waits, once, if there is no frame.
WaitCaptureFrame(k) ==
    /\ \/ captureQueu # NULL /\ TakeCaptureFrame(k, "wait")
       \/ captureQueu = NULL /\ CapGoto(k, "wait", "waiting")
          /\ UNCHANGED <<hold, captureQueu>>
       \/ TakeCaptureFrame(k, "woken")
    /\ UNCHANGED <<frameVars, previewFrames, surfaceVars, api, delivered>>

\* do_capture_surface: while capturing, a buffer (kept for the whole loop)
\* receives the RGBX picture ...
ConvertForSurface(k) ==
    /\ cap[k] = "surface"
    /\ IF mIsCapturing /\ hold[<<k, "converted">>] = NULL
       THEN GetFrame(<<k, "converted">>, 0)
       ELSE UNCHANGED <<frameVars, hold>>
    /\ CapGoto(k, "surface", IF mIsCapturing /\ hold'[<<k, "converted">>] # NULL
                                /\ mCaptureWindow # NULL
                             THEN "copy" ELSE "callback")
    /\ UNCHANGED <<queueVars, surfaceVars, api, delivered>>

\* ... which is copied to mCaptureWindow, read again without a lock.
CopyToSurface(k) ==
    /\ CapGoto(k, "copy", "callback")
    /\ UNCHANGED <<frameVars, queueVars, surfaceVars, hold, api, delivered>>

\* do_capture_callback: without a callback the frame is recycled; a callback
\* that wants a converted picture gets it in a second buffer.
BeginCallback(k) ==
    /\ cap[k] = "callback"
    /\ IF mFrameCallbackObj # NULL /\ mFrameCallbackFunc
       THEN /\ GetFrame(<<k, "callback">>, stamp[hold[<<k, "frame">>]])
            /\ CapGoto(k, "callback", IF NextFrame = NULL THEN "recycle" ELSE "convert")
       ELSE /\ CapGoto(k, "callback", IF mFrameCallbackObj = NULL THEN "recycle" ELSE "call")
            /\ UNCHANGED <<frameVars, hold>>
    /\ UNCHANGED <<queueVars, surfaceVars, api, delivered>>

\* The source frame is recycled and callback_frame replaces it; after a
\* failed conversion that is not delivered.
ConvertForCallback(k) ==
    /\ \E ok \in BOOLEAN : CapGoto(k, "convert", IF ok THEN "call" ELSE "recycle")
    /\ Recycle({hold[<<k, "frame">>]})
    /\ hold' = [hold EXCEPT ![<<k, "frame">>] = hold[<<k, "callback">>],
                            ![<<k, "callback">>] = NULL]
    /\ UNCHANGED <<queueVars, surfaceVars, api, delivered>>

\* CallVoidMethod on mFrameCallbackObj, read again without a lock.
CallOnFrame(k) ==
    /\ CapGoto(k, "call", "recycle")
    /\ delivered' = stamp[hold[<<k, "frame">>]]
    /\ UNCHANGED <<frameVars, queueVars, surfaceVars, hold, api>>

RecycleCallbackFrame(k) ==
    /\ CapGoto(k, "recycle", "loop") /\ RecycleSlot(<<k, "frame">>)
    /\ UNCHANGED <<queueVars, surfaceVars, api, delivered>>

\* The end of do_capture_surface: the RGBX buffer goes back to the pool; then,
\* with no lock held, the window is tested ...
LeaveSurface(k) ==
    /\ CapGoto(k, "unsurface", IF mCaptureWindow # NULL THEN "release" ELSE "broadcast")
    /\ RecycleSlot(<<k, "converted">>)
    /\ onSurface' = [onSurface EXCEPT ![k] = FALSE]
    /\ UNCHANGED <<queueVars, mCaptureWindow, winRefs, mIsCapturing, api, delivered>>

\* ... released ...
ReleaseSurface(k) ==
    /\ CapGoto(k, "release", "forget")
    /\ winRefs' = Swapped(mCaptureWindow, NULL)
    /\ UNCHANGED <<frameVars, queueVars, mCaptureWindow, onSurface, mIsCapturing,
                   hold, api, delivered>>

\* Mutant: the pointer is kept after the release.
ForgetSurfaceNot(k) ==
    /\ CapGoto(k, "forget", "broadcast")
    /\ UNCHANGED <<frameVars, queueVars, surfaceVars, hold, api, delivered>>

\* ... and forgotten.
ForgetSurface(k) ==
    /\ CapGoto(k, "forget", "broadcast") /\ mCaptureWindow' = NULL
    /\ UNCHANGED <<frameVars, queueVars, winRefs, onSurface, mIsCapturing, hold, api,
                   delivered>>

\* pthread_cond_broadcast at the end of each round of do_capture.
BroadcastCapture(k) ==
    /\ cap[k] = "broadcast"
    /\ cap' = [CapAfter(CaptureWaiters) EXCEPT ![k] = "outer"]
    /\ api' = ApiAfter(CaptureWaiters)
    /\ UNCHANGED <<frameVars, queueVars, surfaceVars, hold, delivered>>

-----------------------------------------------------------------------------
\* What each kind of thread never assigns.
ClientRest  == <<usb, hold, onSurface, streamVars, delivered>>
UsbRest     == <<captureQueu, targetVars, windowVars, apiVars, capVars, runVars,
                 streaming, sessionStart, delivered>>
PreviewRest == <<targetVars, windowVars, arg, monitor, calls, onSurface,
                 captured, runVars, usb, delivered>>
CaptureRest == <<previewFrames, targetVars, mPreviewWindow, arg, monitor, calls,
                 capture_thread, streamVars, mIsRunning, usb, prev>>

\* startPreview and stopPreview up to the two joins.
Lifecycle(c) ==
    /\ \/ CreatePreviewThread(c) \/ StopSignalPreview(c) \/ StopSignalCapture(c)
       \/ JoinCapture(c) \/ JoinPreview(c)
    /\ UNCHANGED <<frameVars, queueVars, targetVars, windowVars, arg, mIsCapturing>>

Clearing(c) ==
    /\ StopClearPreview(c) \/ StopClearCapture(c)
    /\ UNCHANGED <<targetVars, windowVars, arg, monitor, runVars, cap,
                   capture_thread, prev>>

Targets(c) ==
    /\ \/ StopReleasePreviewWindow(c) \/ StopReleaseCaptureWindow(c)
       \/ EnterSetFrameCallback(c) \/ FinishSetFrameCallback(c)
       \/ EnterSetCaptureDisplay(c) \/ FinishSetCaptureDisplay(c)
    /\ UNCHANGED <<frameVars, queueVars, mIsRunning, capture_thread, prev>>

ClientStep(c) ==
    /\ Lifecycle(c) \/ Clearing(c) \/ Targets(c)
    /\ UNCHANGED <<calls, ClientRest>>

\* The application makes a call.
Call(c) ==
    /\ calls < MaxCalls /\ calls' = calls + 1
    /\ \/ /\ StartPreview(c) \/ StopPreview(c)
          /\ UNCHANGED <<windowVars, arg>>
       \/ /\ \/ \E cb \in Callbacks \cup {NULL} : CallSetFrameCallback(c, cb)
             \/ \E w \in CaptureSurfaces \cup {NULL} : CallSetCaptureDisplay(c, w)
             \/ \E w \in PreviewSurfaces \cup {NULL} : SetPreviewDisplay(c, w)
          /\ UNCHANGED <<monitor, mIsRunning, cap, capture_thread, prev>>
    /\ UNCHANGED <<frameVars, queueVars, targetVars, mIsCapturing, ClientRest>>

UsbStep ==
    (AddPreviewFrame \/ DropPreviewFrame) /\ UNCHANGED UsbRest

PreviewStep ==
    /\ \/ StartStreaming \/ ClearAtStart \/ CreateCaptureThread \/ PreviewLoop
       \/ WaitPreviewFrame \/ DecodeFrame \/ RecycleDecoded \/ DrawPreview
       \/ RecycleDrawn \/ AddCaptureFrame \/ SignalCaptureThread \/ StopStreaming
    /\ UNCHANGED PreviewRest

CaptureStep(k) ==
    /\ \/ ClearBeforeCapture(k) \/ CaptureOuter(k) \/ MarkCapturing(k)
       \/ CaptureBranch(k) \/ CaptureLoop(k) \/ WaitCaptureFrame(k)
       \/ ConvertForSurface(k) \/ CopyToSurface(k) \/ BeginCallback(k)
       \/ ConvertForCallback(k) \/ CallOnFrame(k) \/ RecycleCallbackFrame(k)
       \/ LeaveSurface(k) \/ ReleaseSurface(k) \/ ForgetSurface(k)
       \/ BroadcastCapture(k)
    /\ UNCHANGED CaptureRest

\* POSIX: a waiter may return from pthread_cond_wait without a signal.
SpuriousWakeup ==
    /\ \/ PrevGoto("waiting", "woken") /\ UNCHANGED <<cap, api>>
       \/ \E t \in CaptureWaiters :
            cap' = CapAfter({t}) /\ api' = ApiAfter({t}) /\ UNCHANGED prev
    /\ UNCHANGED <<frameVars, queueVars, targetVars, windowVars, arg, monitor,
                   calls, onSurface, capture_thread, streamVars, runVars, hold,
                   usb, delivered>>

Next ==
    \/ \E c \in Clients : Call(c) \/ ClientStep(c)
    \/ FrameCallback /\ UNCHANGED UsbRest
    \/ UsbStep
    \/ PreviewStep
    \/ \E k \in CapThreads : CaptureStep(k)
    \/ SpuriousWakeup

Spec == Init /\ [][Next]_vars

\* The scheduler runs every thread that can run; onFrame and the USB driver
\* return.  Nothing obliges the application to call, the camera to send a
\* frame, or a wait to end spuriously.
Fairness ==
    /\ \A c \in Clients : WF_vars(ClientStep(c))
    /\ WF_vars(UsbStep) /\ WF_vars(PreviewStep)
    /\ \A k \in CapThreads : WF_vars(CaptureStep(k))

FairSpec == Spec /\ Fairness

=============================================================================
