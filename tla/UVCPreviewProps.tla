-------------------------- MODULE UVCPreviewProps ---------------------------
(***************************************************************************)
(* What the preview engine promises, stated over module UVCPreview.        *)
(***************************************************************************)
EXTENDS UVCPreview

QueuedFrames == {previewFrames[i] : i \in DOMAIN previewFrames}

ClientPlaces == {"idle", "create", "stop_signal", "stop_sigcap", "join_cap",
                 "join_prev", "stop_clear", "stop_clearcap", "stop_prevwin",
                 "stop_capwin", "cb_enter", "cb_wait", "cb_swap", "win_enter",
                 "win_wait", "win_swap"}
PreviewPlaces == {"none", "prepare", "clear", "create", "loop", "wait", "waiting",
                  "woken", "decode", "decoded", "draw", "drawn", "add", "signal",
                  "stop", "exited"}
CapturePlaces == {"none", "clear", "outer", "mark", "branch", "loop", "wait",
                  "waiting", "woken", "surface", "copy", "callback", "convert",
                  "call", "recycle", "unsurface", "release", "forget", "broadcast",
                  "exited"}

\* Every variable has its type, and the preview queue never holds more than
\* MAX_FRAME frames (UVCPreview::addPreviewFrame).
TypeOK ==
    /\ mIsRunning \in BOOLEAN /\ mIsCapturing \in BOOLEAN
    /\ mFramePool \subseteq Frames /\ live \subseteq Frames
    /\ stamp \in [Frames -> 0..MaxStamp]
    /\ previewFrames \in Seq(Frames) /\ Len(previewFrames) <= MaxFrame
    /\ captureQueu \in Frames \cup {NULL}
    /\ mFrameCallbackObj \in Callbacks \cup {NULL} /\ mFrameCallbackFunc \in BOOLEAN
    /\ mPreviewWindow \in PreviewSurfaces \cup {NULL}
    /\ mCaptureWindow \in CaptureSurfaces \cup {NULL}
    /\ winRefs \in [Surfaces -> Int]
    /\ capture_thread \in CapThreads \cup {NULL}
    /\ hold \in [Slots -> Frames \cup {NULL}]
    /\ usb \in {"idle", "add", "drop"} /\ prev \in PreviewPlaces
    /\ cap \in [CapThreads -> CapturePlaces]
    /\ onSurface \in [CapThreads -> BOOLEAN]
    /\ api \in [Clients -> ClientPlaces]
    /\ arg \in [Clients -> Callbacks \cup CaptureSurfaces \cup {NULL}]
    /\ monitor \in Clients \cup {NULL}
    /\ streaming \in BOOLEAN
    /\ captured \in 0..MaxStamp /\ sessionStart \in 0..MaxStamp
    /\ delivered \in 0..MaxStamp /\ calls \in 0..MaxCalls

\* No frame buffer is in two places at once: never two threads own it, and
\* never a thread owns it while it is free in the pool or waits in a queue.
\* A frame recycled twice, or used after recycle_frame, would break this.
FramesExclusive ==
    /\ \A s, t \in Slots : s # t /\ hold[s] # NULL => hold[s] # hold[t]
    /\ \A s \in Slots : hold[s] # NULL =>
          hold[s] \notin mFramePool \cup QueuedFrames \cup {captureQueu}
    /\ mFramePool \cap QueuedFrames = {}
    /\ captureQueu \notin mFramePool \cup QueuedFrames
    /\ \A i, j \in DOMAIN previewFrames : i # j => previewFrames[i] # previewFrames[j]

\* No frame buffer leaks: every allocated frame is in the pool, in a queue or
\* owned by a thread.  The fork's fix of addCaptureFrame (README, fix 1) is
\* about this.
NoFrameLeak ==
    live = mFramePool \cup QueuedFrames
           \cup (({captureQueu} \cup {hold[s] : s \in Slots}) \ {NULL})

\* A frame is in a local variable of a thread only while the thread is in the
\* code that uses it: none is lost when a thread leaves a function or ends
\* (the `converted` buffer of do_capture_surface lives for its whole loop).
LocalFrames ==
    /\ (hold[<<"usb", "copy">>] = NULL) = (usb = "idle")
    /\ (hold[<<"prev", "mjpeg">>] # NULL) = (prev \in {"decode", "decoded"})
    /\ (hold[<<"prev", "frame">>] # NULL) = (prev \in {"decoded", "draw", "drawn", "add"})
    /\ (hold[<<"prev", "converted">>] # NULL) = (prev = "drawn")
    /\ \A k \in CapThreads :
          /\ (hold[<<k, "frame">>] # NULL) =
               (cap[k] \in {"surface", "copy", "callback", "convert", "call", "recycle"})
          /\ (hold[<<k, "callback">>] # NULL) = (cap[k] = "convert")
          /\ hold[<<k, "converted">>] # NULL => onSurface[k]
          /\ onSurface[k] => cap[k] \notin
               {"none", "clear", "outer", "mark", "branch", "release", "forget",
                "broadcast", "exited"}
          /\ cap[k] \in {"surface", "copy", "unsurface"} => onSurface[k]

\* startPreview never creates a preview thread while an old one still exists,
\* whose handle it would overwrite: mIsRunning is tested without a lock, but
\* stopPreview leaves the Java monitor only after pthread_join.
OnePreviewThread == \A c \in Clients : api[c] = "create" => prev = "none"

\* Each call of onFrame gets a frame that libuvc passed to the engine later than
\* every one before: no call of uvc_preview_frame_callback reaches onFrame out of
\* order or twice, although frames pass two queues, the second of which drops all
\* but the latest.  (A camera frame that libuvc itself passes twice, which
\* FrameSource allows, is two calls and has two stamps.)
DeliveredInOrder ==
    [][\A k \in CapThreads : CallOnFrame(k) => delivered' > delivered]_vars

\* No call of onFrame gets a frame of an earlier session: the queues are emptied
\* between sessions and the capture thread of the old session is gone.
DeliveredThisSession ==
    [][\A k \in CapThreads : CallOnFrame(k) => delivered' > sessionStart]_vars

\* What stopPreview relies on after its two joins: no thread of the engine
\* and no frame callback runs any more, so the queues stay empty and release
\* may delete the object.
StoppedQuiet ==
    (\E c \in Clients : api[c] \in {"stop_clear", "stop_clearcap", "stop_prevwin", "stop_capwin"})
    => prev = "none" /\ usb = "idle" /\ ~streaming
       /\ \A k \in CapThreads : cap[k] = "none"

\* Between sessions both queues are empty and every buffer is back in the pool.
StoppedClean ==
    monitor = NULL /\ ~mIsRunning =>
       previewFrames = <<>> /\ captureQueu = NULL /\ live = mFramePool

\* The capture thread calls onFrame only on a callback that is still set, and
\* draws on, releases and forgets only a window that is still set:
\* do_capture_callback and do_capture_surface read mFrameCallbackObj and
\* mCaptureWindow several times without a lock.
TargetsAlive ==
    \A k \in CapThreads :
        /\ cap[k] = "call" => mFrameCallbackObj # NULL
        /\ cap[k] \in {"copy", "release", "forget"} => mCaptureWindow # NULL

\* The engine owns a reference on each window it can draw on: no window is
\* released once too often, whichever of stopPreview, setCaptureDisplay and
\* the end of do_capture_surface gives it back.  The last of these keeps the
\* pointer for a moment after the release.
WindowsReferenced ==
    \A w \in Surfaces :
        winRefs[w] >= (IF mPreviewWindow = w THEN 1 ELSE 0)
                      + (IF mCaptureWindow = w /\ \A k \in CapThreads : cap[k] # "forget"
                         THEN 1 ELSE 0)

\* A frame queued for the preview thread is taken, unless the preview stops:
\* the wakeup of addPreviewFrame is never lost.
PreviewFrameTaken == previewFrames # <<>> ~> (previewFrames = <<>> \/ ~mIsRunning)

\* While a capture thread runs, a frame queued for it is taken, unless the
\* preview stops: the wakeup of addCaptureFrame is never lost.
CaptureFrameTaken ==
    (captureQueu # NULL /\ \E k \in CapThreads : cap[k] \notin {"none", "exited"})
        ~> (captureQueu = NULL \/ ~mIsRunning)

\* stopPreview returns: the signal sent under preview_mutex, added so that
\* pthread_join ends (README, fix 2), reaches the preview thread.
StopReturns == \A c \in Clients : api[c] = "stop_signal" ~> api[c] = "idle"
=============================================================================
