------------------------- MODULE UVCPreviewStopProofs -------------------------
(***************************************************************************)
(* Proofs about the end of a preview session.  An application that lets a  *)
(* session start before it stops it (EarlyStop is FALSE) finds, whatever   *)
(* else it does from whatever threads: after the joins of stopPreview no   *)
(* thread of the engine runs, and after stopPreview no frame is left.  One *)
(* that has one thread and replaces the callback and the capture window    *)
(* only while stopped finds that neither is freed while it is in use.      *)
(***************************************************************************)
EXTENDS UVCPreviewProofs

\* Where the preview thread is before it has created a capture thread, and
\* where its stream is open.
EarlyPlaces == {"none", "prepare", "clear", "create"}
StreamPlaces == PreviewPlaces \ {"none", "prepare", "exited"}

\* Where stopPreview is after its joins.
ClearingPlaces == {"stop_clear", "stop_clearcap", "stop_prevwin", "stop_capwin"}

-----------------------------------------------------------------------------
(* The inductive invariant.                                                *)

\* The stream is open while the preview thread is in do_preview, and frames
\* come in only while it is open (uvc_stop_streaming waits for the callback).
StreamHeld ==
    /\ streaming <=> prev \in StreamPlaces
    /\ usb # "idle" => streaming

\* mIsRunning is FALSE throughout stopPreview, and TRUE only with a preview
\* thread or on the way to one.
RunningHeld ==
    /\ \A c \in Clients : api[c] \in StoppingPlaces \cup ClearingPlaces => ~mIsRunning
    /\ mIsRunning => prev # "none" \/ \E c \in Clients : api[c] = "create"

\* stopPreview joins a session that has started.
StartedFirst == \A c \in Clients : api[c] \in StoppingPlaces => prev \notin EarlyPlaces

\* There is at most one capture thread, its handle is stored, and it is joined
\* before the preview thread is.
OneCapture ==
    /\ \A k \in CapThreads :
         cap[k] # "none" => capture_thread = k /\ prev \notin EarlyPlaces
    /\ \A c \in Clients : api[c] = "join_prev" => \A k \in CapThreads : cap[k] = "none"

\* Without a stream the queues stay as stopPreview leaves them.
QueuesEmptied ==
    prev \in {"none", "prepare"} =>
        /\ previewFrames = <<>> \/ \E c \in Clients : api[c] = "stop_clear"
        /\ captureQueu = NULL \/ \E c \in Clients : api[c] \in {"stop_clear", "stop_clearcap"}

StopInv == StreamHeld /\ RunningHeld /\ StartedFirst /\ OneCapture /\ QueuesEmptied

\* The places in stopPreview and startPreview hold for client d as before.
PlaceStays(d) == \A x \in LockedPlaces : api'[d] = x <=> api[d] = x

\* What the theorems assume of types and of the heap's owners.
StopTypes ==
    /\ api \in [Clients -> ClientPlaces] /\ cap \in [CapThreads -> CapturePlaces]
    /\ prev \in PreviewPlaces /\ usb \in {"idle", "add", "drop"}
    /\ streaming \in BOOLEAN /\ mIsRunning \in BOOLEAN
    /\ capture_thread \in CapThreads \cup {NULL} /\ NULL \notin CapThreads \cup Clients

\* These are part of what UVCPreviewProofs proves.
LEMMA StopTyped == IInv => StopTypes
BY PreviewAssumption DEF IInv, ControlType, StopTypes

\* A thread that is woken was neither gone nor in one of those places.
LEMMA WokenPlaces ==
    ASSUME ClientsOnlyWoken, NEW c \in Clients
    PROVE  PlaceStays(c)
BY DEF ClientsOnlyWoken, PlaceStays, LockedPlaces, StoppingPlaces

\* Waking a capture thread neither starts nor ends it.
CapsStay == \A k \in CapThreads : cap'[k] = "none" <=> cap[k] = "none"

\* A capture thread that is woken was waiting, and stays one.
LEMMA WokenCaps ==
    ASSUME StopTypes, NEW W \in SUBSET CaptureWaiters, cap' = CapAfter(W)
    PROVE  CapsStay
<1>1. \A k \in CapThreads : cap'[k] = IF k \in W THEN "woken" ELSE cap[k]
  BY DEF CapAfter
<1>2. \A k \in CapThreads : k \in W => cap[k] = "waiting"
  BY PreviewAssumption DEF CaptureWaiters
<1> QED BY <1>1, <1>2 DEF CapsStay

\* A step that keeps all this keeps the invariant.
LEMMA StopStays ==
    ASSUME StopInv, \A c \in Clients : PlaceStays(c), CapsStay,
           UNCHANGED <<streaming, mIsRunning, capture_thread>>,
           usb' # "idle" => usb # "idle" \/ streaming,
           \A x \in EarlyPlaces \cup {"exited"} : prev' = x <=> prev = x,
           prev' \in PreviewPlaces, prev \in PreviewPlaces,
           prev \in {"none", "prepare"} =>
               /\ previewFrames' \in {previewFrames, <<>>}
               /\ captureQueu' \in {captureQueu, NULL}
    PROVE  StopInv'
<1> USE DEF StopInv, LockedPlaces, StoppingPlaces, ClearingPlaces, EarlyPlaces, PlaceStays,
            CapsStay
<1>1. StreamHeld'
  <2>1. prev' \in StreamPlaces <=> prev \in StreamPlaces BY DEF StreamPlaces
  <2> HIDE DEF EarlyPlaces
  <2> QED BY <2>1 DEF StreamHeld
<1>2. RunningHeld' BY DEF RunningHeld
<1>3. StartedFirst' BY DEF StartedFirst
<1>4. OneCapture' BY DEF OneCapture
<1>5. QueuesEmptied' BY DEF QueuesEmptied
<1> QED BY <1>1, <1>2, <1>3, <1>4, <1>5

-----------------------------------------------------------------------------
(* Steps.                                                                  *)

\* StopInv holds at first.
LEMMA StopInit == Init => StopInv
<1> SUFFICES ASSUME Init PROVE StopInv OBVIOUS
<1>1. StreamHeld BY DEF Init, StreamHeld, StreamPlaces
<1>2. RunningHeld BY DEF Init, RunningHeld
<1>3. StartedFirst BY DEF Init, StartedFirst, StoppingPlaces
<1>4. OneCapture BY DEF Init, OneCapture
<1>5. QueuesEmptied BY DEF Init, QueuesEmptied
<1> QED BY <1>1, <1>2, <1>3, <1>4, <1>5 DEF StopInv

\* A call leaves everything but the caller's place and mIsRunning alone; a stop
\* begins with a session that has started, or with none.
LEMMA StopOfCall ==
    ASSUME ~EarlyStop, IInv, StopInv, NEW c \in Clients, Call(c)
    PROVE  StopInv'
<1> USE DEF LockedPlaces, StoppingPlaces, ClearingPlaces, EarlyPlaces
<1>1. StopTypes /\ MonitorHeld BY StopTyped DEF IInv
<1>2. UNCHANGED <<queueVars, streaming, usb, cap, capture_thread, prev>>
  BY DEF Call, ClientRest, streamVars, StartPreview, StopPreview
<1>3. \A d \in Clients : d # c => api'[d] = api[d]
  BY <1>1 DEF Call, StartPreview, StopPreview, CallSetFrameCallback, CallSetCaptureDisplay,
              SetPreviewDisplay, ApiGoto, StopTypes
<1>4. StreamHeld' BY <1>2 DEF StopInv, StreamHeld, StreamPlaces, PreviewPlaces
<1>5. CASE StartPreview(c) \/ StopPreview(c)
  <2>1. monitor = NULL /\ \A d \in Clients : api[d] \notin LockedPlaces
    BY <1>1, <1>5 DEF StartPreview, StopPreview, Enter, MonitorHeld, StopTypes
  <2>2. api[c] = "idle" BY <1>5 DEF StartPreview, StopPreview, ApiGoto
  <2>3. \/ api'[c] = "create" /\ mIsRunning'
        \/ api'[c] = "stop_signal" /\ ~mIsRunning' /\ mIsRunning
           /\ prev \notin {"prepare", "clear", "create"}
        \/ api'[c] = "stop_clear" /\ ~mIsRunning' /\ ~mIsRunning
    BY <1>1, <1>5 DEF StartPreview, StopPreview, ApiGoto, StopTypes
  <2>4. RunningHeld' BY <1>3, <2>1, <2>3 DEF RunningHeld
  <2>5. StartedFirst' BY <1>2, <1>3, <2>1, <2>3 DEF StartedFirst, StopInv, RunningHeld
  <2>6. OneCapture' BY <1>2, <1>3, <2>1, <2>3 DEF OneCapture, StopInv
  <2>7. QueuesEmptied' BY <1>2, <1>3, <2>1, <2>3 DEF QueuesEmptied, StopInv, queueVars
  <2> QED BY <1>4, <2>4, <2>5, <2>6, <2>7 DEF StopInv
<1>6. CASE ~(StartPreview(c) \/ StopPreview(c))
  <2>1. /\ UNCHANGED mIsRunning
        /\ api[c] = "idle" /\ api'[c] \in {"idle", "cb_enter", "win_enter"}
    BY <1>1, <1>6 DEF Call, CallSetFrameCallback, CallSetCaptureDisplay, SetPreviewDisplay,
                      ApiGoto, StopTypes
  <2>2. \A d \in Clients : PlaceStays(d) BY <1>3, <2>1 DEF PlaceStays
  <2>3. CapsStay BY <1>2 DEF CapsStay
  <2> QED BY <1>1, <1>2, <2>1, <2>2, <2>3, StopStays DEF queueVars, StopTypes
<1> QED BY <1>5, <1>6

\* The other clients, when one that is in a call goes on.
LEMMA OthersStay ==
    ASSUME IInv, NEW c \in Clients, ClientStep(c), NEW d \in Clients, d # c
    PROVE  PlaceStays(d)
<1>1. StopTypes /\ ControlType BY StopTyped DEF IInv
<1>2. CASE \E y \in ClientPlaces, W \in SUBSET CaptureWaiters :
              api' = [ApiAfter(W) EXCEPT ![c] = y]
  <2>1. PICK y \in ClientPlaces, W \in SUBSET CaptureWaiters :
               api' = [ApiAfter(W) EXCEPT ![c] = y]
    BY <1>2
  <2>2. api'[d] = ApiAfter(W)[d] BY <1>1, <2>1, WokenClient
  <2> QED BY <1>1, <2>2, WokenClient DEF PlaceStays, LockedPlaces, StoppingPlaces
<1>3. CASE \E x, y : ApiGoto(c, x, y)
  BY <1>1, <1>3 DEF ApiGoto, StopTypes, PlaceStays
<1>4. CASE Lifecycle(c)
  BY <1>2, <1>3, <1>4, SignalledWait
  DEF Lifecycle, CreatePreviewThread, StopSignalPreview, StopSignalCapture, JoinCapture,
      JoinPreview, ClientPlaces
<1>5. CASE Clearing(c)
  BY <1>3, <1>5 DEF Clearing, StopClearPreview, StopClearCapture
<1>6. CASE Targets(c)
  BY <1>2, <1>3, <1>6, SignalledWait
  DEF Targets, StopReleasePreviewWindow, StopReleaseCaptureWindow, EnterSetFrameCallback,
      FinishSetFrameCallback, EnterSetCaptureDisplay, FinishSetCaptureDisplay, Pause,
      SwapCallback, SwapWindow, ClientPlaces
<1> QED BY <1>4, <1>5, <1>6 DEF ClientStep

\* A call goes on.
LEMMA StopOfClient ==
    ASSUME ~EarlyStop, IInv, StopInv, NEW c \in Clients, ClientStep(c)
    PROVE  StopInv'
<1> USE DEF LockedPlaces, StoppingPlaces, ClearingPlaces, EarlyPlaces
<1>1. StopTypes /\ MonitorHeld BY StopTyped DEF IInv
<1>2. UNCHANGED <<usb, streaming>> BY DEF ClientStep, ClientRest, streamVars
<1>3. \A d \in Clients : d # c => PlaceStays(d) BY OthersStay
<1>4. api[c] \in LockedPlaces => \A d \in Clients : d # c => api[d] \notin LockedPlaces
  BY <1>1 DEF MonitorHeld
<1>5. api[c] \in LockedPlaces => \A d \in Clients : d # c => api'[d] \notin LockedPlaces
  BY <1>3, <1>4 DEF PlaceStays
<1>6. CASE CreatePreviewThread(c) /\ ClientStep(c)
  <2>1. /\ UNCHANGED <<queueVars, cap, capture_thread>>
        /\ api[c] = "create" /\ api'[c] = "idle"
        /\ \/ prev' = "prepare" /\ UNCHANGED mIsRunning
           \/ ~mIsRunning' /\ prev' = PrevAfterSignal
    BY <1>1, <1>6 DEF CreatePreviewThread, ApiGoto, ClientStep, Lifecycle, Clearing, Targets,
                      StopTypes, queueVars, StopClearPreview, StopClearCapture,
                      StopReleasePreviewWindow, StopReleaseCaptureWindow,
                      EnterSetFrameCallback, EnterSetCaptureDisplay,
                      FinishSetFrameCallback, FinishSetCaptureDisplay, SwapCallback, SwapWindow
  <2>2. prev = "none" /\ prev' \in {"none", "prepare"}
    BY <1>1, <2>1 DEF MonitorHeld, PrevAfterSignal
  <2>3. StreamHeld' BY <1>2, <2>2 DEF StreamHeld, StopInv, StreamPlaces
  <2>4. RunningHeld' BY <1>5, <2>1, <2>2 DEF RunningHeld, StopInv, PrevAfterSignal
  <2>5. StartedFirst' BY <1>5, <2>1 DEF StartedFirst
  <2>6. OneCapture' BY <1>5, <2>1, <2>2 DEF OneCapture, StopInv
  <2>7. QueuesEmptied' BY <1>4, <2>1, <2>2 DEF QueuesEmptied, StopInv, queueVars
  <2> QED BY <2>3, <2>4, <2>5, <2>6, <2>7 DEF StopInv
<1>7. CASE JoinCapture(c) /\ UNCHANGED queueVars
  <2>1. /\ UNCHANGED <<prev, mIsRunning>>
        /\ api[c] = "join_cap" /\ api'[c] = "join_prev"
        /\ \A k \in CapThreads : cap'[k] = IF k = capture_thread THEN "none" ELSE cap[k]
    BY <1>1, <1>7 DEF JoinCapture, ApiGoto, StopTypes
  <2>2. \A k \in CapThreads : cap'[k] = "none"
    BY <2>1 DEF StopInv, OneCapture
  <2>3. StreamHeld' BY <1>2, <2>1 DEF StreamHeld, StopInv
  <2>4. RunningHeld' BY <1>5, <2>1 DEF RunningHeld, StopInv
  <2>5. StartedFirst' BY <1>5, <2>1 DEF StartedFirst, StopInv
  <2>6. OneCapture' BY <2>2 DEF OneCapture
  <2>7. QueuesEmptied' BY <1>4, <1>7, <2>1 DEF QueuesEmptied, StopInv, queueVars
  <2> QED BY <2>3, <2>4, <2>5, <2>6, <2>7 DEF StopInv
<1>8. CASE JoinPreview(c) /\ UNCHANGED queueVars
  <2>1. /\ UNCHANGED <<mIsRunning, cap, capture_thread>>
        /\ api[c] = "join_prev" /\ api'[c] = "stop_clear"
        /\ prev = "exited" /\ prev' = "none"
    BY <1>1, <1>8 DEF JoinPreview, ApiGoto, StopTypes
  <2>2. StreamHeld' BY <1>2, <2>1 DEF StreamHeld, StopInv, StreamPlaces
  <2>3. RunningHeld' BY <1>5, <2>1 DEF RunningHeld, StopInv
  <2>4. StartedFirst' BY <1>5, <2>1 DEF StartedFirst
  <2>5. OneCapture' BY <1>5, <2>1 DEF OneCapture, StopInv
  <2>6. QueuesEmptied' BY <2>1 DEF QueuesEmptied
  <2> QED BY <2>2, <2>3, <2>4, <2>5, <2>6 DEF StopInv
<1>9. CASE Clearing(c)
  <2>1. UNCHANGED <<mIsRunning, cap, capture_thread, prev>>
    BY <1>9 DEF Clearing, runVars
  <2>2. \/ /\ api[c] = "stop_clear" /\ api'[c] = "stop_clearcap"
           /\ previewFrames' = <<>> /\ UNCHANGED captureQueu
        \/ /\ api[c] = "stop_clearcap" /\ api'[c] = "stop_prevwin"
           /\ captureQueu' = NULL /\ UNCHANGED previewFrames
    BY <1>1, <1>9 DEF Clearing, StopClearPreview, StopClearCapture, ClearPreviewFrame,
                      ClearCaptureFrame, ApiGoto, StopTypes
  <2>3. StreamHeld' BY <1>2, <2>1 DEF StreamHeld, StopInv
  <2>4. RunningHeld' BY <1>5, <2>1, <2>2 DEF RunningHeld, StopInv
  <2>5. StartedFirst' BY <1>5, <2>2 DEF StartedFirst
  <2>6. OneCapture' BY <1>5, <2>1, <2>2 DEF OneCapture, StopInv
  <2>7. QueuesEmptied' BY <1>4, <2>1, <2>2 DEF QueuesEmptied, StopInv
  <2> QED BY <2>3, <2>4, <2>5, <2>6, <2>7 DEF StopInv
<1>10. CASE /\ StopSignalPreview(c) \/ StopSignalCapture(c)
            /\ UNCHANGED queueVars
  <2>1. UNCHANGED <<mIsRunning, capture_thread>>
    BY <1>10 DEF StopSignalPreview, StopSignalCapture
  <2>2. /\ prev' = prev \/ (prev = "waiting" /\ prev' = "woken")
        /\ CapsStay
    BY <1>1, <1>10, SignalledWait, WokenCaps
    DEF StopSignalPreview, StopSignalCapture, PrevAfterSignal, CapsStay
  <2>3. /\ api[c] \in {"stop_signal", "stop_sigcap"} /\ api'[c] \in {"stop_sigcap", "join_cap"}
    BY <1>1, <1>10, SignalledWait, WokenClient
    DEF StopSignalPreview, StopSignalCapture, ApiGoto, StopTypes, IInv
  <2>4. StreamHeld' BY <1>2, <2>2 DEF StreamHeld, StopInv, StreamPlaces, PreviewPlaces
  <2>5. RunningHeld' BY <1>5, <2>1, <2>2, <2>3 DEF RunningHeld, StopInv
  <2>6. StartedFirst' BY <1>5, <2>2, <2>3 DEF StartedFirst, StopInv
  <2>7. OneCapture' BY <1>5, <2>1, <2>2, <2>3 DEF OneCapture, StopInv, CapsStay
  <2>8. QueuesEmptied' BY <1>4, <1>10, <2>2, <2>3 DEF QueuesEmptied, StopInv, queueVars
  <2> QED BY <2>4, <2>5, <2>6, <2>7, <2>8 DEF StopInv
<1>11. CASE Targets(c)
  <2>1. UNCHANGED <<queueVars, mIsRunning, capture_thread, prev>> BY <1>11 DEF Targets
  <2>2. CapsStay
    BY <1>1, <1>11, SignalledWait, WokenCaps
    DEF Targets, StopReleasePreviewWindow, StopReleaseCaptureWindow, EnterSetFrameCallback,
        FinishSetFrameCallback, EnterSetCaptureDisplay, FinishSetCaptureDisplay, Pause,
        SwapCallback, SwapWindow, CapsStay
  <2>3. \/ PlaceStays(c)
        \/ api[c] = "stop_prevwin" /\ api'[c] = "stop_capwin"
        \/ api[c] = "stop_capwin" /\ api'[c] \notin LockedPlaces
    <3>1. CASE StopReleasePreviewWindow(c) \/ StopReleaseCaptureWindow(c)
      BY <1>1, <3>1 DEF StopReleasePreviewWindow, StopReleaseCaptureWindow, ApiGoto, StopTypes
    <3>2. CASE \E x, y \in CallbackPlaces \cup WindowPlaces \cup {"idle"} :
                  api[c] = x /\ api'[c] = y
      BY <3>2 DEF PlaceStays, CallbackPlaces, WindowPlaces
    <3>3. CASE \E place \in {"cb_wait", "win_wait"} :
                  Pause(c, place) /\ api[c] \in {"cb_enter", "win_enter"}
      BY <1>1, <3>2, <3>3, SignalledWait, WokenClient
      DEF Pause, CallbackPlaces, WindowPlaces, IInv
    <3>4. CASE \E x \in CallbackPlaces \cup WindowPlaces : ApiGoto(c, x, "idle")
      BY <1>1, <3>2, <3>4 DEF ApiGoto, StopTypes
    <3> QED
      BY <1>11, <3>1, <3>3, <3>4
      DEF Targets, EnterSetFrameCallback, FinishSetFrameCallback, EnterSetCaptureDisplay,
          FinishSetCaptureDisplay, SwapCallback, SwapWindow, CallbackPlaces, WindowPlaces
  <2>4. CASE PlaceStays(c)
    BY <1>1, <1>2, <1>3, <2>1, <2>2, <2>4, StopStays DEF StopTypes, queueVars
  <2>5. CASE api[c] = "stop_prevwin" /\ api'[c] = "stop_capwin"
    <3>1. StreamHeld' BY <1>2, <2>1 DEF StreamHeld, StopInv
    <3>2. RunningHeld' BY <1>5, <2>1, <2>5 DEF RunningHeld, StopInv
    <3>3. StartedFirst' BY <1>5, <2>1, <2>5 DEF StartedFirst
    <3>4. OneCapture' BY <1>5, <2>1, <2>2, <2>5 DEF OneCapture, StopInv, CapsStay
    <3>5. QueuesEmptied' BY <1>4, <2>1, <2>5 DEF QueuesEmptied, StopInv, queueVars
    <3> QED BY <3>1, <3>2, <3>3, <3>4, <3>5 DEF StopInv
  <2>6. CASE api[c] = "stop_capwin" /\ api'[c] \notin LockedPlaces
    <3>1. StreamHeld' BY <1>2, <2>1 DEF StreamHeld, StopInv
    <3>2. RunningHeld' BY <1>5, <2>1, <2>6 DEF RunningHeld, StopInv
    <3>3. StartedFirst' BY <1>5, <2>1, <2>6 DEF StartedFirst
    <3>4. OneCapture' BY <1>5, <2>1, <2>2, <2>6 DEF OneCapture, StopInv, CapsStay
    <3>5. QueuesEmptied' BY <1>4, <2>1, <2>6 DEF QueuesEmptied, StopInv, queueVars
    <3> QED BY <3>1, <3>2, <3>3, <3>4, <3>5 DEF StopInv
  <2> QED BY <2>3, <2>4, <2>5, <2>6
<1> QED BY <1>6, <1>7, <1>8, <1>9, <1>10, <1>11 DEF ClientStep, Lifecycle

\* A frame comes in, or libuvc's callback goes on.
LEMMA StopOfFrame ==
    ASSUME IInv, StopInv, FrameCallback \/ UsbStep, UNCHANGED UsbRest
    PROVE  StopInv'
<1>1. StopTypes BY StopTyped
<1>2. UNCHANGED <<api, cap, capture_thread, mIsRunning, streaming, captureQueu>>
  BY DEF UsbRest, apiVars, capVars, runVars
<1>3. /\ usb' # "idle" => usb # "idle" \/ streaming
      /\ prev' = prev \/ (prev = "waiting" /\ prev' = "woken")
      /\ previewFrames' = previewFrames \/ usb # "idle"
  BY DEF FrameCallback, UsbStep, AddPreviewFrame, DropPreviewFrame, PrevAfterSignal
<1>4. usb # "idle" => prev \in StreamPlaces BY DEF StopInv, StreamHeld
<1>5. prev \in {"none", "prepare"} => previewFrames' = previewFrames
  BY <1>3, <1>4 DEF StreamPlaces
<1>6. \A c \in Clients : PlaceStays(c) BY <1>2 DEF PlaceStays
<1>7. \A x \in EarlyPlaces \cup {"exited"} : prev' = x <=> prev = x
  BY <1>3 DEF EarlyPlaces
<1>8. prev' \in PreviewPlaces BY <1>1, <1>3 DEF StopTypes, PreviewPlaces
<1> QED
  BY <1>1, <1>2, <1>3, <1>5, <1>6, <1>7, <1>8, StopStays DEF StopTypes, CapsStay

\* The preview thread goes on.  It starts the stream only before it has a
\* capture thread, creates that only once, and stops the stream last.
LEMMA StopOfPreview ==
    ASSUME IInv, StopInv, PreviewStep
    PROVE  StopInv'
<1> USE DEF LockedPlaces, StoppingPlaces, ClearingPlaces, EarlyPlaces
<1>1. StopTypes /\ ControlType BY StopTyped DEF IInv
<1>2. UNCHANGED <<mIsRunning, usb>> BY DEF PreviewStep, PreviewRest, runVars
<1>3. \A c \in Clients : PlaceStays(c)
  BY <1>1, EngineStepsWake, WokenPlaces
<1>4. CASE StartStreaming
  <2>1. /\ prev = "prepare" /\ UNCHANGED <<queueVars, cap, capture_thread>>
        /\ \/ prev' = "clear" /\ streaming'
           \/ prev' = "exited" /\ UNCHANGED streaming
    BY <1>4 DEF StartStreaming, PrevGoto
  <2>2. ~streaming /\ usb = "idle" BY <2>1 DEF StopInv, StreamHeld, StreamPlaces
  <2>3. StreamHeld' BY <1>2, <2>1, <2>2 DEF StreamHeld, StreamPlaces, PreviewPlaces
  <2>4. RunningHeld' BY <1>2, <1>3, <2>1 DEF RunningHeld, StopInv, PlaceStays
  <2>5. StartedFirst' BY <1>3, <2>1 DEF StartedFirst, StopInv, PlaceStays
  <2>6. OneCapture' BY <1>3, <2>1 DEF OneCapture, StopInv, PlaceStays
  <2>7. QueuesEmptied' BY <2>1 DEF QueuesEmptied
  <2> QED BY <2>3, <2>4, <2>5, <2>6, <2>7 DEF StopInv
<1>5. CASE CreateCaptureThread
  <2>1. /\ prev = "create" /\ prev' = "loop" /\ UNCHANGED <<streaming, queueVars>>
        /\ \/ \E k \in CapThreads : cap' = [cap EXCEPT ![k] = "clear"] /\ capture_thread' = k
           \/ UNCHANGED <<cap, capture_thread>>
    BY <1>5 DEF CreateCaptureThread, PrevGoto
  <2>2. \A k \in CapThreads : cap[k] = "none" BY <2>1 DEF StopInv, OneCapture
  <2>3. \A k \in CapThreads : cap'[k] # "none" => capture_thread' = k
    BY <1>1, <2>1, <2>2 DEF StopTypes
  <2>4. \A c \in Clients : api[c] \notin StoppingPlaces
    BY <2>1 DEF StopInv, StartedFirst
  <2>5. StreamHeld' BY <1>2, <2>1 DEF StreamHeld, StopInv, StreamPlaces, PreviewPlaces
  <2>6. RunningHeld' BY <1>2, <1>3, <2>1 DEF RunningHeld, StopInv, PlaceStays
  <2>7. StartedFirst' BY <2>1 DEF StartedFirst
  <2>8. OneCapture' BY <1>3, <2>1, <2>3, <2>4 DEF OneCapture, PlaceStays
  <2>9. QueuesEmptied' BY <2>1 DEF QueuesEmptied
  <2> QED BY <2>5, <2>6, <2>7, <2>8, <2>9 DEF StopInv
<1>6. CASE StopStreaming
  <2>1. /\ prev = "stop" /\ prev' = "exited" /\ ~streaming' /\ usb = "idle"
        /\ UNCHANGED <<queueVars, cap, capture_thread>>
    BY <1>1, <1>6 DEF StopStreaming, PrevGoto, StopTypes
  <2>2. StreamHeld' BY <1>2, <2>1 DEF StreamHeld, StreamPlaces
  <2>3. RunningHeld' BY <1>2, <1>3, <2>1 DEF RunningHeld, StopInv, PlaceStays
  <2>4. StartedFirst' BY <2>1 DEF StartedFirst
  <2>5. OneCapture' BY <1>3, <2>1 DEF OneCapture, StopInv, PlaceStays
  <2>6. QueuesEmptied' BY <2>1 DEF QueuesEmptied
  <2> QED BY <2>2, <2>3, <2>4, <2>5, <2>6 DEF StopInv
<1>7. CASE \/ ClearAtStart \/ PreviewLoop \/ WaitPreviewFrame \/ DecodeFrame
           \/ RecycleDecoded \/ DrawPreview \/ RecycleDrawn \/ AddCaptureFrame
           \/ SignalCaptureThread
  <2>1. UNCHANGED <<streaming, capture_thread>>
    BY <1>7 DEF ClearAtStart, PreviewLoop, WaitPreviewFrame, DecodeFrame, RecycleDecoded,
                DrawPreview, RecycleDrawn, AddCaptureFrame, SignalCaptureThread
  <2>2. CapsStay
    BY <1>1, <1>7, SignalledWait, WokenCaps
    DEF ClearAtStart, PreviewLoop, WaitPreviewFrame, DecodeFrame, RecycleDecoded,
        DrawPreview, RecycleDrawn, AddCaptureFrame, SignalCaptureThread, CapsStay
  <2>3. CASE ClearAtStart
    <3>1. prev = "clear" /\ prev' = "create" BY <2>3 DEF ClearAtStart, PrevGoto
    <3>2. StreamHeld'
      BY <1>2, <2>1, <3>1 DEF StreamHeld, StopInv, StreamPlaces, PreviewPlaces
    <3>3. RunningHeld' BY <1>2, <1>3, <3>1 DEF RunningHeld, StopInv, PlaceStays
    <3>4. StartedFirst' BY <1>3, <3>1 DEF StartedFirst, StopInv, PlaceStays
    <3>5. OneCapture' BY <1>3, <2>1, <2>2, <3>1 DEF OneCapture, StopInv, PlaceStays, CapsStay
    <3>6. QueuesEmptied' BY <3>1 DEF QueuesEmptied
    <3> QED BY <3>2, <3>3, <3>4, <3>5, <3>6 DEF StopInv
  <2>4. CASE ~ClearAtStart
    <3>1. prev \in PreviewPlaces \ {"none", "prepare", "clear", "create", "exited"}
          /\ prev' \in PreviewPlaces \ {"none", "prepare", "clear", "create", "exited"}
      BY <1>7, <2>4
      DEF PreviewLoop, WaitPreviewFrame, TakePreviewFrame, DecodeFrame, RecycleDecoded,
          DrawPreview, RecycleDrawn, AddCaptureFrame, SignalCaptureThread, PrevGoto,
          PreviewPlaces
    <3>2. \A x \in EarlyPlaces \cup {"exited"} : prev' = x <=> prev = x BY <3>1
    <3>3. prev \notin {"none", "prepare"} BY <3>1
    <3> HIDE DEF EarlyPlaces
    <3> QED BY <1>2, <1>3, <2>1, <2>2, <3>1, <3>2, <3>3, StopStays
  <2> QED BY <2>3, <2>4
<1> QED BY <1>4, <1>5, <1>6, <1>7 DEF PreviewStep

\* A capture thread goes on, but does not end before it is joined; it leaves
\* the preview queue alone and only empties its own.
LEMMA StopOfCapture ==
    ASSUME IInv, StopInv, NEW k \in CapThreads, CaptureStep(k)
    PROVE  StopInv'
<1>1. StopTypes /\ ControlType BY StopTyped DEF IInv
<1>2. UNCHANGED <<mIsRunning, usb, prev, streaming, capture_thread, previewFrames>>
  BY DEF CaptureStep, CaptureRest, streamVars
<1>3. \A c \in Clients : PlaceStays(c) BY <1>1, EngineStepsWake, WokenPlaces
<1>4. captureQueu' \in {captureQueu, NULL}
  BY DEF CaptureStep, ClearBeforeCapture, CaptureOuter, MarkCapturing, CaptureBranch,
         CaptureLoop, WaitCaptureFrame, TakeCaptureFrame, ConvertForSurface, CopyToSurface,
         BeginCallback, ConvertForCallback, CallOnFrame, RecycleCallbackFrame, LeaveSurface,
         ReleaseSurface, ForgetSurface, BroadcastCapture, ClearCaptureFrame, queueVars
<1>5. CapsStay
  <2>1. CASE BroadcastCapture(k)
    <3>1. /\ cap[k] = "broadcast"
          /\ \A j \in CapThreads : j # k => cap'[j] = CapAfter(CaptureWaiters)[j]
          /\ cap'[k] = "outer"
      BY <1>1, <2>1 DEF BroadcastCapture, CapAfter
    <3>2. \A j \in CapThreads : CapAfter(CaptureWaiters)[j] = "none" <=> cap[j] = "none"
      BY <1>1, WokenFromWait
    <3> QED BY <3>1, <3>2 DEF CapsStay
  <2>2. CASE ~BroadcastCapture(k)
    <3>1. \E x \in CapturePlaces \ {"none"}, y \in CapturePlaces \ {"none"} :
             cap[k] = x /\ cap' = [cap EXCEPT ![k] = y]
      BY <2>2
      DEF CaptureStep, ClearBeforeCapture, CaptureOuter, MarkCapturing, CaptureBranch,
         CaptureLoop, WaitCaptureFrame, TakeCaptureFrame, ConvertForSurface, CopyToSurface,
         BeginCallback, ConvertForCallback, CallOnFrame, RecycleCallbackFrame, LeaveSurface,
         ReleaseSurface, ForgetSurface, CapGoto, CapturePlaces
    <3> QED BY <1>1, <3>1 DEF CapsStay, StopTypes
  <2> QED BY <2>1, <2>2
<1> QED BY <1>1, <1>2, <1>3, <1>4, <1>5, StopStays DEF StopTypes

\* A wait ends spuriously.
LEMMA StopOfWakeup ==
    ASSUME IInv, StopInv, SpuriousWakeup
    PROVE  StopInv'
<1>1. StopTypes /\ ControlType BY StopTyped DEF IInv
<1>2. UNCHANGED <<mIsRunning, usb, streaming, capture_thread, queueVars>>
  BY DEF SpuriousWakeup, runVars, streamVars
<1>3. \A c \in Clients : PlaceStays(c) BY <1>1, EngineStepsWake, WokenPlaces
<1>4. prev' = prev \/ (prev = "waiting" /\ prev' = "woken")
  BY DEF SpuriousWakeup, PrevGoto
<1>5. CapsStay BY <1>1, WokenCaps DEF SpuriousWakeup, CapsStay
<1>6. \A x \in EarlyPlaces \cup {"exited"} : prev' = x <=> prev = x
  BY <1>4 DEF EarlyPlaces
<1>7. prev' \in PreviewPlaces BY <1>1, <1>4 DEF StopTypes, PreviewPlaces
<1> QED BY <1>1, <1>2, <1>3, <1>5, <1>6, <1>7, StopStays DEF StopTypes, queueVars

\* Every step keeps StopInv.
LEMMA StopStep == ~EarlyStop /\ IInv /\ StopInv /\ [Next]_vars => StopInv'
<1> SUFFICES ASSUME ~EarlyStop, IInv, StopInv, [Next]_vars PROVE StopInv'
  OBVIOUS
<1>1. CASE Next
  BY <1>1, StopOfCall, StopOfClient, StopOfFrame, StopOfPreview, StopOfCapture, StopOfWakeup
  DEF Next, UsbStep
<1>2. CASE UNCHANGED vars
  <2>1. UNCHANGED <<api, cap, capture_thread, mIsRunning, streaming, usb, prev, previewFrames,
                    captureQueu>>
    BY <1>2 DEF vars, apiVars, capVars, runVars, streamVars, queueVars
  <2>2. StreamHeld' /\ RunningHeld' /\ StartedFirst' /\ OneCapture' /\ QueuesEmptied'
    BY <2>1 DEF StopInv, StreamHeld, RunningHeld, StartedFirst, OneCapture, QueuesEmptied
  <2> QED BY <2>2 DEF StopInv
<1> QED BY <1>1, <1>2

\* StopInv holds in every reachable state, if no session is stopped before it
\* has started.
THEOREM StopInductive == ASSUME ~EarlyStop PROVE Spec => [](IInv /\ StopInv)
<1>1. Init => StopInv BY StopInit
<1>2. IInv /\ StopInv /\ [Next]_vars => StopInv' BY StopStep
<1> QED BY <1>1, <1>2, Inductive, PTL DEF Spec

-----------------------------------------------------------------------------
(* The theorems.                                                           *)

\* After its two joins stopPreview is alone: no thread of the engine and no
\* frame callback runs while it empties the queues and releases the windows.
THEOREM StoppedQuietHolds == ASSUME ~EarlyStop PROVE Spec => []StoppedQuiet
<1>1. IInv /\ StopInv => StoppedQuiet
  <2> SUFFICES ASSUME IInv, StopInv, NEW c \in Clients, api[c] \in ClearingPlaces
               PROVE  /\ prev = "none" /\ usb = "idle" /\ ~streaming
                      /\ \A k \in CapThreads : cap[k] = "none"
    BY DEF StoppedQuiet, ClearingPlaces
  <2>1. StopTypes /\ MonitorHeld BY StopTyped DEF IInv
  <2>2. monitor = c /\ \A d \in Clients : api[d] \in LockedPlaces => d = c
    BY <2>1 DEF MonitorHeld, LockedPlaces, ClearingPlaces
  <2>3. ~mIsRunning BY DEF StopInv, RunningHeld
  <2>4. prev = "none"
    BY <2>1, <2>2, <2>3 DEF MonitorHeld, LockedPlaces, StoppingPlaces, ClearingPlaces
  <2> QED
    BY <2>4 DEF StopInv, StreamHeld, OneCapture, StreamPlaces, EarlyPlaces
<1> QED BY <1>1, StopInductive, PTL

\* Between two sessions both queues are empty and every frame buffer is back
\* in the pool: stopPreview, run to its end, leaves nothing behind.
THEOREM StoppedCleanHolds == ASSUME ~EarlyStop PROVE Spec => []StoppedClean
<1>1. IInv /\ StopInv => StoppedClean
  <2> SUFFICES ASSUME IInv, StopInv, monitor = NULL, ~mIsRunning
               PROVE  previewFrames = <<>> /\ captureQueu = NULL /\ live = mFramePool
    BY DEF StoppedClean
  <2>1. StopTypes /\ MonitorHeld /\ LocalFrames /\ Heap BY StopTyped DEF IInv
  <2>2. \A c \in Clients : api[c] \notin LockedPlaces BY <2>1 DEF MonitorHeld, StopTypes
  <2>3. prev = "none" BY <2>1, <2>2 DEF MonitorHeld, LockedPlaces
  <2>4. previewFrames = <<>> /\ captureQueu = NULL
    BY <2>2, <2>3 DEF StopInv, QueuesEmptied, LockedPlaces
  <2>5. usb = "idle" /\ \A k \in CapThreads : cap[k] = "none"
    BY <2>3 DEF StopInv, StreamHeld, OneCapture, StreamPlaces, EarlyPlaces
  <2>6. /\ hold[<<"usb", "copy">>] = NULL
        /\ hold[<<"prev", "mjpeg">>] = NULL /\ hold[<<"prev", "frame">>] = NULL
        /\ hold[<<"prev", "converted">>] = NULL
    BY <2>1, <2>3, <2>5 DEF LocalFrames
  <2>7. \A k \in CapThreads : /\ hold[<<k, "frame">>] = NULL
                              /\ hold[<<k, "callback">>] = NULL
                              /\ hold[<<k, "converted">>] = NULL
    BY <2>1, <2>5 DEF LocalFrames
  <2>8. \A s \in Slots : hold[s] = NULL
    <3>1. ASSUME NEW s \in CapThreads \X {"frame", "callback", "converted"}
          PROVE  hold[s] = NULL
      <4>1. PICK k \in CapThreads, x \in {"frame", "callback", "converted"} : s = <<k, x>>
        OBVIOUS
      <4>2. x = "frame" \/ x = "callback" \/ x = "converted" OBVIOUS
      <4> QED BY <2>7, <4>1, <4>2
    <3> QED BY <2>6, <3>1 DEF Slots
  <2>9. Owned = {} BY <2>4, <2>8 DEF Owned, QueuedFrames
  <2> QED BY <2>1, <2>4, <2>9 DEF Heap
<1> QED BY <1>1, StopInductive, PTL

-----------------------------------------------------------------------------
(* The callback and the capture window of an application with one thread   *)
(* that replaces neither while the preview runs.                           *)

Disciplined == ~EarlyStop /\ ~SwapLive /\ \A c, d \in Clients : c = d

\* While a preview thread lives, a call that is under way leaves a callback and
\* a window that are set as they are.
TargetsKept ==
    \A c \in Clients :
        /\ api[c] \in CallbackPlaces => prev = "none" \/ mFrameCallbackObj \in {NULL, arg[c]}
        /\ api[c] \in WindowPlaces => prev = "none" \/ mCaptureWindow = NULL

\* The capture thread that is about to use the callback or the window has one.
CallingPlaces == {"convert", "call"}
DrawingPlaces == {"copy", "release", "forget"}
TargetsSet ==
    \A k \in CapThreads :
        /\ cap[k] \in CallingPlaces => mFrameCallbackObj # NULL
        /\ cap[k] \in DrawingPlaces => mCaptureWindow # NULL

\* The references the engine must own on window w: those of its two fields,
\* and the one a call under way has acquired for its argument.
Forgetting == \E k \in CapThreads : cap[k] = "forget"
ByPreview(w) == IF mPreviewWindow = w THEN 1 ELSE 0
ByCapture(w) == IF mCaptureWindow = w /\ ~Forgetting THEN 1 ELSE 0
ByCall(w) == IF \E c \in Clients : api[c] \in WindowPlaces /\ arg[c] = w THEN 1 ELSE 0
RefsHeld == \A w \in Surfaces : winRefs[w] >= ByPreview(w) + ByCapture(w) + ByCall(w)

TargetInv == TargetsKept /\ TargetsSet /\ RefsHeld

\* A client's call is about the callback, or about the window, as before.
CallStays(c) ==
    /\ api'[c] \in CallbackPlaces <=> api[c] \in CallbackPlaces
    /\ api'[c] \in WindowPlaces <=> api[c] \in WindowPlaces

\* No capture thread comes to use the callback or the window.
NoNewUse ==
    \A k \in CapThreads :
        /\ cap'[k] \in CallingPlaces => cap[k] \in CallingPlaces
        /\ cap'[k] \in DrawingPlaces => cap[k] \in DrawingPlaces
        /\ cap'[k] = "forget" <=> cap[k] = "forget"

\* A wakeup is no change of either kind.
LEMMA WokenCalls ==
    ASSUME ClientsOnlyWoken, NEW c \in Clients
    PROVE  CallStays(c)
BY DEF ClientsOnlyWoken, CallStays, CallbackPlaces, WindowPlaces

\* Nor does a capture thread that is woken come to use them.
LEMMA WokenUse ==
    ASSUME StopTypes, NEW W \in SUBSET CaptureWaiters, cap' = CapAfter(W)
    PROVE  NoNewUse
<1>1. \A k \in CapThreads : cap'[k] = IF k \in W THEN "woken" ELSE cap[k]
  BY DEF CapAfter
<1>2. \A k \in CapThreads : k \in W => cap[k] = "waiting"
  BY PreviewAssumption DEF CaptureWaiters
<1> QED BY <1>1, <1>2 DEF NoNewUse, CallingPlaces, DrawingPlaces

\* A step that keeps all this keeps the invariant.
LEMMA TargetStays ==
    ASSUME TargetInv, \A c \in Clients : CallStays(c), NoNewUse,
           UNCHANGED <<mFrameCallbackObj, mPreviewWindow, mCaptureWindow, winRefs, arg>>,
           prev = "none" => prev' = "none"
    PROVE  TargetInv'
<1>1. TargetsKept' BY DEF TargetInv, TargetsKept, CallStays
<1>2. TargetsSet' BY DEF TargetInv, TargetsSet, NoNewUse
<1>3. Forgetting' <=> Forgetting BY DEF Forgetting, NoNewUse
<1>4. \A w \in Surfaces : /\ ByPreview(w)' = ByPreview(w)
                          /\ ByCapture(w)' = ByCapture(w)
                          /\ ByCall(w)' = ByCall(w)
  BY <1>3 DEF ByPreview, ByCapture, ByCall, CallStays
<1>5. RefsHeld' BY <1>4 DEF TargetInv, RefsHeld
<1> QED BY <1>1, <1>2, <1>5 DEF TargetInv

\* A capture thread exists only while the preview thread does.
LEMMA CaptureWithPreview ==
    ASSUME StopInv, NEW k \in CapThreads, cap[k] # "none"
    PROVE  prev # "none"
BY DEF StopInv, OneCapture, EarlyPlaces

\* TargetInv holds at first.
LEMMA TargetInit == Init => TargetInv
<1> SUFFICES ASSUME Init PROVE TargetInv OBVIOUS
<1>1. TargetsKept BY DEF Init, TargetsKept, CallbackPlaces, WindowPlaces
<1>2. TargetsSet BY DEF Init, TargetsSet, CallingPlaces, DrawingPlaces
<1>3. RefsHeld
  <2> SUFFICES ASSUME NEW w \in Surfaces
               PROVE  winRefs[w] >= ByPreview(w) + ByCapture(w) + ByCall(w)
    BY DEF RefsHeld
  <2>1. w # NULL BY PreviewAssumption DEF Surfaces
  <2>2. ByPreview(w) = 0 /\ ByCapture(w) = 0 BY <2>1 DEF Init, ByPreview, ByCapture
  <2>3. ByCall(w) = 0 BY DEF Init, ByCall, WindowPlaces
  <2>4. winRefs[w] = 0 BY DEF Init
  <2> QED BY <2>2, <2>3, <2>4
<1> QED BY <1>1, <1>2, <1>3 DEF TargetInv

\* What the steps of the application need: c is alone, and idle it knows that a
\* preview thread lives only while mIsRunning holds.
LEMMA AloneIdle ==
    ASSUME Disciplined, IInv, NEW c \in Clients, api[c] = "idle", ~mIsRunning
    PROVE  prev = "none"
BY DEF Disciplined, IInv, MonitorHeld, StoppingPlaces

\* The application calls: a callback or a window for a preview that runs is one
\* that is not set yet.
LEMMA TargetOfCall ==
    ASSUME Disciplined, IInv, StopInv, TargetInv, NEW c \in Clients, Call(c)
    PROVE  TargetInv'
<1> USE DEF CallbackPlaces, WindowPlaces
<1>1. StopTypes /\ ControlType /\ ArgumentType BY StopTyped DEF IInv
<1>2. \A d \in Clients : d = c BY DEF Disciplined
<1>3. UNCHANGED <<cap, prev, mFrameCallbackObj>>
  BY DEF Call, StartPreview, StopPreview, targetVars
<1>4. TargetsSet' <=> (\A k \in CapThreads : cap[k] \in DrawingPlaces => mCaptureWindow' # NULL)
  BY <1>3 DEF TargetInv, TargetsSet
<1>5. Forgetting' <=> Forgetting BY <1>3 DEF Forgetting
<1>6. CASE /\ StartPreview(c) \/ StopPreview(c)
           /\ UNCHANGED <<windowVars, arg>>
  <2>1. api[c] = "idle" /\ api'[c] \notin CallbackPlaces \cup WindowPlaces
    BY <1>1, <1>6 DEF StartPreview, StopPreview, ApiGoto, StopTypes
  <2>2. \A d \in Clients : CallStays(d) BY <1>2, <2>1 DEF CallStays
  <2>3. NoNewUse BY <1>3 DEF NoNewUse
  <2> QED BY <1>3, <1>6, <2>2, <2>3, TargetStays DEF windowVars
<1>7. CASE \E cb \in Callbacks \cup {NULL} : CallSetFrameCallback(c, cb)
  <2>1. PICK cb \in Callbacks \cup {NULL} : CallSetFrameCallback(c, cb) BY <1>7
  <2>2. /\ api[c] = "idle" /\ api'[c] = "cb_enter" /\ arg'[c] = cb
        /\ UNCHANGED <<mPreviewWindow, mCaptureWindow, winRefs>>
        /\ ~mIsRunning \/ mFrameCallbackObj \in {NULL, cb}
    BY <1>1, <2>1 DEF CallSetFrameCallback, ApiGoto, StopTypes, ControlType, Disciplined,
                      windowVars
  <2>3. TargetsKept' BY <1>2, <1>3, <2>2, AloneIdle DEF TargetsKept
  <2>4. TargetsSet' BY <1>4, <2>2 DEF TargetInv, TargetsSet
  <2>5. \A w \in Surfaces : /\ ByPreview(w)' = ByPreview(w)
                            /\ ByCapture(w)' = ByCapture(w)
                            /\ ByCall(w)' = 0 /\ ByCall(w) = 0
    BY <1>2, <1>5, <2>2 DEF ByPreview, ByCapture, ByCall
  <2>6. RefsHeld' BY <2>2, <2>5 DEF TargetInv, RefsHeld
  <2> QED BY <2>3, <2>4, <2>6 DEF TargetInv
<1>8. CASE \E w \in CaptureSurfaces \cup {NULL} : CallSetCaptureDisplay(c, w)
  <2>1. PICK v \in CaptureSurfaces \cup {NULL} : CallSetCaptureDisplay(c, v) BY <1>8
  <2>2. /\ api[c] = "idle" /\ api'[c] = "win_enter" /\ arg'[c] = v
        /\ UNCHANGED <<mPreviewWindow, mCaptureWindow>>
        /\ ~mIsRunning \/ mCaptureWindow = NULL
        /\ winRefs' = Swapped(NULL, v)
    BY <1>1, <2>1 DEF CallSetCaptureDisplay, ApiGoto, StopTypes, ControlType, Disciplined
  <2>3. TargetsKept' BY <1>2, <1>3, <2>2, AloneIdle DEF TargetsKept
  <2>4. TargetsSet' BY <1>4, <2>2 DEF TargetInv, TargetsSet
  <2>5. \A w \in Surfaces : /\ ByPreview(w)' = ByPreview(w)
                            /\ ByCapture(w)' = ByCapture(w)
                            /\ ByCall(w)' = IF w = v THEN 1 ELSE 0
                            /\ ByCall(w) = 0
    BY <1>2, <1>5, <2>2 DEF ByPreview, ByCapture, ByCall
  <2>6. \A w \in Surfaces : winRefs'[w] = winRefs[w] + (IF w = v THEN 1 ELSE 0)
    BY <1>1, <2>2, PreviewAssumption DEF Swapped, Surfaces, ControlType
  <2>7. RefsHeld'
    <3> SUFFICES ASSUME NEW w \in Surfaces
                 PROVE  winRefs'[w] >= ByPreview(w)' + ByCapture(w)' + ByCall(w)'
      BY DEF RefsHeld
    <3>1. winRefs[w] >= ByPreview(w) + ByCapture(w) + ByCall(w) BY DEF TargetInv, RefsHeld
    <3>2. ByPreview(w) \in Int /\ ByCapture(w) \in Int BY DEF ByPreview, ByCapture
    <3>3. winRefs[w] \in Int BY <1>1 DEF ControlType
    <3> QED BY <2>5, <2>6, <3>1, <3>2, <3>3
  <2> QED BY <2>3, <2>4, <2>7 DEF TargetInv
<1>9. CASE \E w \in PreviewSurfaces \cup {NULL} : SetPreviewDisplay(c, w)
  <2>1. PICK v \in PreviewSurfaces \cup {NULL} : SetPreviewDisplay(c, v) BY <1>9
  <2>2. /\ api[c] = "idle" /\ api'[c] = "idle" /\ mPreviewWindow' = v
        /\ UNCHANGED <<mCaptureWindow, arg>>
        /\ winRefs' = IF v = mPreviewWindow THEN Swapped(NULL, v)
                      ELSE Swapped(mPreviewWindow, v)
    BY <1>1, <2>1 DEF SetPreviewDisplay, ApiGoto, StopTypes
  <2>3. TargetsKept' BY <1>2, <2>2 DEF TargetsKept
  <2>4. TargetsSet' BY <1>4, <2>2 DEF TargetInv, TargetsSet
  <2>5. \A w \in Surfaces : /\ ByPreview(w)' = IF w = v THEN 1 ELSE 0
                            /\ ByCapture(w)' = ByCapture(w)
                            /\ ByCall(w)' = 0 /\ ByCall(w) = 0
    BY <1>2, <1>5, <2>2 DEF ByPreview, ByCapture, ByCall
  <2>6. \A w \in Surfaces : winRefs'[w] >= winRefs[w] - ByPreview(w) + ByPreview(w)'
    BY <1>1, <2>2, <2>5, PreviewAssumption DEF Swapped, Surfaces, ControlType, ByPreview
  <2>7. RefsHeld'
    <3> SUFFICES ASSUME NEW w \in Surfaces
                 PROVE  winRefs'[w] >= ByPreview(w)' + ByCapture(w)' + ByCall(w)'
      BY DEF RefsHeld
    <3>1. winRefs[w] >= ByPreview(w) + ByCapture(w) + ByCall(w) BY DEF TargetInv, RefsHeld
    <3>2. ByPreview(w) \in Int /\ ByPreview(w)' \in Int /\ ByCapture(w) \in Int
      BY DEF ByPreview, ByCapture
    <3>3. winRefs[w] \in Int /\ winRefs'[w] \in Int
      BY <1>1, <2>2 DEF ControlType, Swapped
    <3> QED BY <2>5, <2>6, <3>1, <3>2, <3>3
  <2> QED BY <2>3, <2>4, <2>7 DEF TargetInv
<1> QED BY <1>6, <1>7, <1>8, <1>9 DEF Call

\* startPreview and stopPreview up to the emptied queues keep away from both.
LEMMA TargetOfLifecycle ==
    ASSUME Disciplined, IInv, StopInv, TargetInv, NEW c \in Clients,
           Lifecycle(c) \/ (Clearing(c) /\ UNCHANGED calls)
    PROVE  TargetInv'
<1> USE DEF CallbackPlaces, WindowPlaces
<1>1. StopTypes /\ ControlType BY StopTyped DEF IInv
<1>2. \A d \in Clients : d = c BY DEF Disciplined
<1>3. UNCHANGED <<mFrameCallbackObj, mPreviewWindow, mCaptureWindow, winRefs, arg>>
  BY DEF Lifecycle, Clearing, targetVars, windowVars
<1>4. api[c] \notin CallbackPlaces \cup WindowPlaces
  BY DEF Lifecycle, Clearing, CreatePreviewThread, StopSignalPreview, StopSignalCapture,
         JoinCapture, JoinPreview, StopClearPreview, StopClearCapture, ApiGoto
<1>5. api'[c] \notin CallbackPlaces \cup WindowPlaces
  BY <1>1, SignalledWait, WokenClient
  DEF Lifecycle, Clearing, CreatePreviewThread, StopSignalPreview, StopSignalCapture,
      JoinCapture, JoinPreview, StopClearPreview, StopClearCapture, ApiGoto, StopTypes
<1>6. NoNewUse
  <2>1. CASE StopSignalCapture(c)
    BY <1>1, <2>1, SignalledWait, WokenUse DEF StopSignalCapture
  <2>2. CASE JoinCapture(c)
    <3>1. \A k \in CapThreads : cap'[k] = IF k = capture_thread THEN "none" ELSE cap[k]
      BY <2>2 DEF JoinCapture
    <3>2. capture_thread \in CapThreads => cap[capture_thread] = "exited"
      BY <1>1, <2>2 DEF JoinCapture, StopTypes
    <3> QED BY <3>1, <3>2 DEF NoNewUse, CallingPlaces, DrawingPlaces
  <2>3. CASE ~StopSignalCapture(c) /\ ~JoinCapture(c)
    BY <2>3 DEF Lifecycle, Clearing, CreatePreviewThread, StopSignalPreview, JoinPreview,
                NoNewUse
  <2> QED BY <2>1, <2>2, <2>3
<1>7. \A d \in Clients : CallStays(d) BY <1>2, <1>4, <1>5 DEF CallStays
<1>8. CASE prev = "none" => prev' = "none" BY <1>3, <1>6, <1>7, <1>8, TargetStays
<1>9. CASE prev = "none" /\ prev' # "none"
  <2>1. TargetsKept' BY <1>2, <1>5 DEF TargetsKept
  <2>2. TargetsSet' BY <1>3, <1>6 DEF TargetInv, TargetsSet, NoNewUse
  <2>3. Forgetting' <=> Forgetting BY <1>6 DEF Forgetting, NoNewUse
  <2>4. \A w \in Surfaces : /\ ByPreview(w)' = ByPreview(w)
                            /\ ByCapture(w)' = ByCapture(w)
                            /\ ByCall(w)' = ByCall(w)
    BY <1>3, <1>7, <2>3 DEF ByPreview, ByCapture, ByCall, CallStays
  <2>5. RefsHeld' BY <1>3, <2>4 DEF TargetInv, RefsHeld
  <2> QED BY <2>1, <2>2, <2>5 DEF TargetInv
<1> QED BY <1>8, <1>9

\* The callback and the windows are replaced: by then no capture thread exists,
\* or none uses what it replaces.
LEMMA TargetOfTargets ==
    ASSUME Disciplined, IInv, StopInv, TargetInv, NEW c \in Clients, Targets(c)
    PROVE  TargetInv'
<1> USE DEF CallbackPlaces, WindowPlaces
<1>1. StopTypes /\ ControlType /\ ArgumentType /\ MonitorHeld BY StopTyped DEF IInv
<1>2. \A d \in Clients : d = c BY DEF Disciplined
<1>3. prev' = prev BY DEF Targets
<1>4. \A w \in Surfaces : /\ ByPreview(w) \in Int /\ ByCapture(w) \in Int
                          /\ ByCall(w) \in Int /\ winRefs[w] \in Int
                          /\ winRefs[w] >= ByPreview(w) + ByCapture(w) + ByCall(w)
  BY <1>1 DEF ByPreview, ByCapture, ByCall, ControlType, TargetInv, RefsHeld
<1>5. CASE StopReleasePreviewWindow(c)
  <2>1. /\ api[c] = "stop_prevwin" /\ api'[c] = "stop_capwin"
        /\ winRefs' = Swapped(mPreviewWindow, NULL) /\ mPreviewWindow' = NULL
        /\ UNCHANGED <<mFrameCallbackObj, mCaptureWindow, arg, cap>>
    BY <1>1, <1>5 DEF StopReleasePreviewWindow, ApiGoto, StopTypes, targetVars
  <2>2. TargetsKept' BY <1>2, <2>1 DEF TargetsKept
  <2>3. TargetsSet' BY <2>1 DEF TargetsSet, TargetInv
  <2>4. Forgetting' <=> Forgetting BY <2>1 DEF Forgetting
  <2>5. \A w \in Surfaces : /\ ByPreview(w)' = 0 /\ ByCapture(w)' = ByCapture(w)
                            /\ ByCall(w)' = 0 /\ ByCall(w) = 0
                            /\ winRefs'[w] = winRefs[w] - ByPreview(w)
    BY <1>1, <1>2, <2>1, <2>4, PreviewAssumption
    DEF ByPreview, ByCapture, ByCall, Swapped, Surfaces, ControlType
  <2>6. RefsHeld' BY <1>4, <2>5 DEF RefsHeld
  <2> QED BY <2>2, <2>3, <2>6 DEF TargetInv
<1>6. CASE StopReleaseCaptureWindow(c)
  <2>1. /\ api[c] = "stop_capwin" /\ api'[c] = "cb_enter"
        /\ winRefs' = Swapped(mCaptureWindow, NULL) /\ mCaptureWindow' = NULL
        /\ UNCHANGED <<mFrameCallbackObj, mPreviewWindow, arg, cap>>
    BY <1>1, <1>6 DEF StopReleaseCaptureWindow, ApiGoto, StopTypes, targetVars
  <2>2. prev = "none"
    BY <1>1, <1>2, <2>1
    DEF MonitorHeld, StopInv, RunningHeld, StoppingPlaces, ClearingPlaces, LockedPlaces
  <2>3. \A k \in CapThreads : cap[k] = "none" BY <2>2, CaptureWithPreview
  <2>4. TargetsKept' BY <1>2, <1>3, <2>1, <2>2 DEF TargetsKept
  <2>5. TargetsSet' BY <2>1, <2>3 DEF TargetsSet, CallingPlaces, DrawingPlaces
  <2>6. ~Forgetting BY <2>3 DEF Forgetting
  <2>7. \A w \in Surfaces : /\ ByPreview(w)' = ByPreview(w) /\ ByCapture(w)' = 0
                            /\ ByCall(w)' = 0 /\ ByCall(w) = 0
                            /\ winRefs'[w] = winRefs[w] - ByCapture(w)
    BY <1>1, <1>2, <2>1, <2>6, PreviewAssumption
    DEF ByPreview, ByCapture, ByCall, Swapped, Surfaces, ControlType
  <2>8. RefsHeld' BY <1>4, <2>7 DEF RefsHeld
  <2> QED BY <2>4, <2>5, <2>8 DEF TargetInv
<1>7. CASE \/ api[c] = "cb_enter" /\ Pause(c, "cb_wait")
           \/ api[c] = "win_enter" /\ Pause(c, "win_wait")
  <2>1. UNCHANGED <<mFrameCallbackObj, mPreviewWindow, mCaptureWindow, winRefs, arg>>
    BY <1>7 DEF Pause, targetVars, windowVars
  <2>2. NoNewUse BY <1>1, <1>7, SignalledWait, WokenUse DEF Pause
  <2>3. CallStays(c)
    BY <1>1, <1>7, SignalledWait, WokenClient DEF Pause, CallStays
  <2> QED BY <1>2, <1>3, <2>1, <2>2, <2>3, TargetStays
<1>8. CASE \E from \in {"cb_enter", "cb_swap"} : SwapCallback(c, from)
  <2>1. /\ api[c] \in {"cb_enter", "cb_swap"} /\ api'[c] = "idle"
        /\ mFrameCallbackObj' = arg[c]
        /\ UNCHANGED <<mPreviewWindow, mCaptureWindow, winRefs, cap>>
    BY <1>1, <1>8 DEF SwapCallback, ApiGoto, StopTypes, windowVars
  <2>2. TargetsKept' BY <1>2, <2>1 DEF TargetsKept
  <2>3. TargetsSet'
    <3> SUFFICES ASSUME NEW k \in CapThreads, cap[k] \in CallingPlaces
                 PROVE  arg[c] # NULL
      BY <2>1 DEF TargetsSet, TargetInv
    <3>1. prev # "none" BY CaptureWithPreview DEF CallingPlaces
    <3>2. mFrameCallbackObj # NULL BY DEF TargetsSet, TargetInv
    <3> QED BY <2>1, <3>1, <3>2 DEF TargetInv, TargetsKept
  <2>4. Forgetting' <=> Forgetting BY <2>1 DEF Forgetting
  <2>5. \A w \in Surfaces : /\ ByPreview(w)' = ByPreview(w) /\ ByCapture(w)' = ByCapture(w)
                            /\ ByCall(w)' = 0 /\ ByCall(w) = 0
    BY <1>2, <2>1, <2>4 DEF ByPreview, ByCapture, ByCall
  <2>6. RefsHeld' BY <1>4, <2>1, <2>5 DEF RefsHeld
  <2> QED BY <2>2, <2>3, <2>6 DEF TargetInv
<1>9. CASE \E from \in {"win_enter", "win_swap"} : SwapWindow(c, from)
  <2>1. /\ api[c] \in {"win_enter", "win_swap"} /\ api'[c] = "idle"
        /\ mCaptureWindow' = arg[c]
        /\ winRefs' = IF arg[c] = mCaptureWindow THEN winRefs
                      ELSE Swapped(mCaptureWindow, NULL)
        /\ UNCHANGED <<mFrameCallbackObj, mPreviewWindow, cap>>
    BY <1>1, <1>9 DEF SwapWindow, ApiGoto, StopTypes, targetVars
  <2>2. prev = "none" \/ mCaptureWindow = NULL
    BY <2>1 DEF TargetInv, TargetsKept
  <2>3. \A k \in CapThreads : cap[k] \notin DrawingPlaces
    BY <2>2, CaptureWithPreview DEF TargetInv, TargetsSet, DrawingPlaces
  <2>4. TargetsKept' BY <1>2, <2>1 DEF TargetsKept
  <2>5. TargetsSet' BY <2>1, <2>3 DEF TargetsSet, TargetInv
  <2>6. ~Forgetting /\ ~Forgetting' BY <2>1, <2>3 DEF Forgetting, DrawingPlaces
  <2>7. \A w \in Surfaces :
           /\ ByPreview(w)' = ByPreview(w) /\ ByCapture(w)' = ByCall(w) /\ ByCall(w)' = 0
           /\ winRefs'[w] >= winRefs[w] - ByCapture(w)
    BY <1>1, <1>2, <2>1, <2>6, PreviewAssumption
    DEF ByPreview, ByCapture, ByCall, Swapped, Surfaces, ControlType
  <2>8. \A w \in Surfaces : winRefs'[w] \in Int
    BY <1>1, <2>1 DEF Swapped, ControlType
  <2>9. RefsHeld' BY <1>4, <2>7, <2>8 DEF RefsHeld
  <2> QED BY <2>4, <2>5, <2>9 DEF TargetInv
<1> QED
  BY <1>5, <1>6, <1>7, <1>8, <1>9
  DEF Targets, EnterSetFrameCallback, FinishSetFrameCallback, EnterSetCaptureDisplay,
      FinishSetCaptureDisplay

\* The preview thread, libuvc's callback and spurious wakeups touch neither.
LEMMA TargetOfEngine ==
    ASSUME StopTypes, ControlType, TargetInv, PreviewStep \/ UsbStep \/ SpuriousWakeup
    PROVE  TargetInv'
<1>1. UNCHANGED <<mFrameCallbackObj, mPreviewWindow, mCaptureWindow, winRefs, arg>>
  BY DEF PreviewStep, PreviewRest, UsbStep, UsbRest, SpuriousWakeup, targetVars, windowVars,
         apiVars
<1>2. \A c \in Clients : CallStays(c)
  BY EngineStepsWake, WokenCalls DEF UsbStep, UsbRest, apiVars, CallStays
<1>3. NoNewUse
  <2>1. CASE UNCHANGED cap BY <2>1 DEF NoNewUse
  <2>2. CASE \E W \in SUBSET CaptureWaiters : cap' = CapAfter(W) BY <2>2, WokenUse
  <2>3. CASE CreateCaptureThread
    BY <2>3 DEF CreateCaptureThread, NoNewUse, CallingPlaces, DrawingPlaces, StopTypes
  <2> QED
    BY <2>1, <2>2, <2>3, SignalledWait
    DEF PreviewStep, StartStreaming, ClearAtStart, PreviewLoop, WaitPreviewFrame,
        DecodeFrame, RecycleDecoded, DrawPreview, RecycleDrawn, AddCaptureFrame,
        SignalCaptureThread, StopStreaming, UsbStep, UsbRest, capVars, SpuriousWakeup
<1>4. prev = "none" => prev' = "none" BY PreviewThreadStays
<1> QED BY <1>1, <1>2, <1>3, <1>4, TargetStays

\* The capture thread looks before it goes on to use the callback or the
\* window, and is the only one to release that window.
LEMMA TargetOfCapture ==
    ASSUME IInv, StopInv, TargetInv, NEW k \in CapThreads, CaptureStep(k)
    PROVE  TargetInv'
<1> USE DEF CallingPlaces, DrawingPlaces
<1>1. StopTypes /\ ControlType BY StopTyped DEF IInv
<1>2. UNCHANGED <<mFrameCallbackObj, mPreviewWindow, arg, prev>>
  BY DEF CaptureStep, CaptureRest, targetVars
<1>3. \A c \in Clients : CallStays(c) BY <1>1, EngineStepsWake, WokenCalls
<1>4. cap[k] # "none"
  BY DEF CaptureStep, ClearBeforeCapture, CaptureOuter, MarkCapturing, CaptureBranch,
         CaptureLoop, WaitCaptureFrame, TakeCaptureFrame, ConvertForSurface, CopyToSurface,
         BeginCallback, ConvertForCallback, CallOnFrame, RecycleCallbackFrame, LeaveSurface,
         ReleaseSurface, ForgetSurface, CapGoto, BroadcastCapture
<1>5. \A j \in CapThreads : j # k => cap[j] = "none"
  BY <1>4 DEF StopInv, OneCapture
<1>6. prev # "none" BY <1>4, CaptureWithPreview
<1>7. ASSUME UNCHANGED <<mCaptureWindow, winRefs>>, cap'[k] # "forget", cap[k] # "forget",
             \A j \in CapThreads : j # k => cap'[j] = "none",
             cap'[k] \in CallingPlaces => mFrameCallbackObj # NULL,
             cap'[k] \in DrawingPlaces => mCaptureWindow # NULL
      PROVE  TargetInv'
  <2>1. TargetsKept' BY <1>2, <1>3, <1>7 DEF TargetInv, TargetsKept, CallStays
  <2>2. TargetsSet' BY <1>2, <1>7 DEF TargetsSet
  <2>3. ~Forgetting /\ ~Forgetting' BY <1>5, <1>7 DEF Forgetting
  <2>4. \A w \in Surfaces : /\ ByPreview(w)' = ByPreview(w) /\ ByCapture(w)' = ByCapture(w)
                            /\ ByCall(w)' = ByCall(w)
    BY <1>2, <1>3, <1>7, <2>3 DEF ByPreview, ByCapture, ByCall, CallStays
  <2>5. RefsHeld' BY <1>7, <2>4 DEF TargetInv, RefsHeld
  <2> QED BY <2>1, <2>2, <2>5 DEF TargetInv
<1>8. CASE BroadcastCapture(k)
  <2>1. /\ cap[k] = "broadcast" /\ cap'[k] = "outer"
        /\ \A j \in CapThreads : j # k => cap'[j] = CapAfter(CaptureWaiters)[j]
        /\ UNCHANGED <<mCaptureWindow, winRefs>>
    BY <1>1, <1>8 DEF BroadcastCapture, CapAfter, surfaceVars
  <2>2. \A j \in CapThreads : j # k => cap'[j] = "none"
    BY <1>1, <1>5, <2>1, WokenFromWait
  <2> QED BY <1>7, <2>1, <2>2
<1>9. CASE ReleaseSurface(k)
  <2>1. /\ cap[k] = "release" /\ cap'[k] = "forget"
        /\ \A j \in CapThreads : j # k => cap'[j] = "none"
        /\ winRefs' = Swapped(mCaptureWindow, NULL) /\ mCaptureWindow' = mCaptureWindow
    BY <1>1, <1>5, <1>9 DEF ReleaseSurface, CapGoto, StopTypes
  <2>2. mCaptureWindow # NULL BY <2>1 DEF TargetInv, TargetsSet
  <2>3. TargetsKept' BY <1>2, <1>3, <2>1 DEF TargetInv, TargetsKept, CallStays
  <2>4. TargetsSet' BY <2>1, <2>2 DEF TargetsSet
  <2>5. ~Forgetting /\ Forgetting' BY <1>5, <2>1 DEF Forgetting
  <2>6. \A w \in Surfaces : /\ ByPreview(w)' = ByPreview(w) /\ ByCapture(w)' = 0
                            /\ ByCall(w)' = ByCall(w)
                            /\ winRefs'[w] = winRefs[w] - ByCapture(w)
    BY <1>1, <1>2, <1>3, <2>1, <2>5, PreviewAssumption
    DEF ByPreview, ByCapture, ByCall, CallStays, Swapped, Surfaces, ControlType
  <2>7. \A w \in Surfaces : /\ ByPreview(w) \in Int /\ ByCapture(w) \in Int
                            /\ ByCall(w) \in Int /\ winRefs[w] \in Int
                            /\ winRefs[w] >= ByPreview(w) + ByCapture(w) + ByCall(w)
    BY <1>1 DEF ByPreview, ByCapture, ByCall, ControlType, TargetInv, RefsHeld
  <2>8. RefsHeld' BY <2>6, <2>7 DEF RefsHeld
  <2> QED BY <2>3, <2>4, <2>8 DEF TargetInv
<1>10. CASE ForgetSurface(k)
  <2>1. /\ cap[k] = "forget" /\ cap'[k] = "broadcast"
        /\ \A j \in CapThreads : j # k => cap'[j] = "none"
        /\ winRefs' = winRefs /\ mCaptureWindow' = NULL
    BY <1>1, <1>5, <1>10 DEF ForgetSurface, CapGoto, StopTypes
  <2>2. TargetsKept' BY <1>2, <1>3, <2>1 DEF TargetInv, TargetsKept, CallStays
  <2>3. TargetsSet' BY <2>1 DEF TargetsSet
  <2>4. Forgetting BY <2>1 DEF Forgetting
  <2>5. \A w \in Surfaces : /\ ByPreview(w)' = ByPreview(w)
                            /\ ByCapture(w)' = 0 /\ ByCapture(w) = 0
                            /\ ByCall(w)' = ByCall(w)
    BY <1>2, <1>3, <2>1, <2>4, PreviewAssumption
    DEF ByPreview, ByCapture, ByCall, CallStays, Surfaces
  <2>6. RefsHeld' BY <2>1, <2>5 DEF TargetInv, RefsHeld
  <2> QED BY <2>2, <2>3, <2>6 DEF TargetInv
<1>11. CASE ~BroadcastCapture(k) /\ ~ReleaseSurface(k) /\ ~ForgetSurface(k)
  <2>1. UNCHANGED <<mCaptureWindow, winRefs>>
    BY <1>11
    DEF CaptureStep, ClearBeforeCapture, CaptureOuter, MarkCapturing, CaptureBranch,
        CaptureLoop, WaitCaptureFrame, ConvertForSurface, CopyToSurface, BeginCallback,
        ConvertForCallback, CallOnFrame, RecycleCallbackFrame, LeaveSurface, surfaceVars
  <2>2. \E x, y \in CapturePlaces :
           /\ CapGoto(k, x, y) /\ x # "forget" /\ y # "forget"
           /\ y \in CallingPlaces => x \in CallingPlaces \/ mFrameCallbackObj # NULL
           /\ y \in DrawingPlaces => x \in DrawingPlaces \/ mCaptureWindow # NULL
    BY <1>11
    DEF CaptureStep, ClearBeforeCapture, CaptureOuter, MarkCapturing, CaptureBranch,
        CaptureLoop, WaitCaptureFrame, TakeCaptureFrame, ConvertForSurface, CopyToSurface,
        BeginCallback, ConvertForCallback, CallOnFrame, RecycleCallbackFrame, LeaveSurface,
        CapGoto, CapturePlaces
  <2>3. PICK x \in CapturePlaces, y \in CapturePlaces :
           /\ CapGoto(k, x, y) /\ x # "forget" /\ y # "forget"
           /\ y \in CallingPlaces => x \in CallingPlaces \/ mFrameCallbackObj # NULL
           /\ y \in DrawingPlaces => x \in DrawingPlaces \/ mCaptureWindow # NULL
    BY <2>2
  <2>4. cap[k] = x /\ cap'[k] = y /\ \A j \in CapThreads : j # k => cap'[j] = "none"
    BY <1>1, <1>5, <2>3 DEF CapGoto, StopTypes
  <2>5. /\ x \in CallingPlaces => mFrameCallbackObj # NULL
        /\ x \in DrawingPlaces => mCaptureWindow # NULL
    BY <2>4 DEF TargetInv, TargetsSet
  <2> QED BY <1>7, <2>1, <2>3, <2>4, <2>5
<1> QED BY <1>8, <1>9, <1>10, <1>11

\* Every step keeps TargetInv.
LEMMA TargetStep ==
    Disciplined /\ IInv /\ StopInv /\ TargetInv /\ [Next]_vars => TargetInv'
<1> SUFFICES ASSUME Disciplined, IInv, StopInv, TargetInv, [Next]_vars PROVE TargetInv'
  OBVIOUS
<1>1. StopTypes /\ ControlType BY StopTyped DEF IInv
<1>2. CASE \E c \in Clients : Call(c) \/ ClientStep(c)
  BY <1>2, TargetOfCall, TargetOfLifecycle, TargetOfTargets DEF ClientStep
<1>3. CASE FrameCallback /\ UNCHANGED UsbRest
  <2>1. UNCHANGED <<mFrameCallbackObj, mPreviewWindow, mCaptureWindow, winRefs, api, arg,
                    cap, prev>>
    BY <1>3 DEF FrameCallback, UsbRest, targetVars, windowVars, apiVars, capVars
  <2> QED BY <2>1, TargetStays DEF CallStays, NoNewUse
<1>4. CASE PreviewStep \/ UsbStep \/ SpuriousWakeup
  BY <1>1, <1>4, TargetOfEngine
<1>5. CASE \E k \in CapThreads : CaptureStep(k)
  BY <1>5, TargetOfCapture
<1>6. CASE UNCHANGED vars
  <2>1. UNCHANGED <<mFrameCallbackObj, mPreviewWindow, mCaptureWindow, winRefs, api, arg,
                    cap, prev>>
    BY <1>6 DEF vars, targetVars, windowVars, apiVars, capVars
  <2> QED BY <2>1, TargetStays DEF CallStays, NoNewUse
<1> QED BY <1>2, <1>3, <1>4, <1>5, <1>6 DEF Next

\* TargetInv holds in every reachable state of such an application.
THEOREM TargetInductive == ASSUME Disciplined PROVE Spec => []TargetInv
<1>1. ~EarlyStop BY DEF Disciplined
<1>2. IInv /\ StopInv /\ TargetInv /\ [Next]_vars => TargetInv' BY TargetStep
<1> QED BY <1>1, <1>2, TargetInit, StopInductive, PTL DEF Spec

\* The capture thread calls no callback and draws on no window that was taken
\* away, although it reads mFrameCallbackObj and mCaptureWindow without a lock.
THEOREM TargetsAliveHolds == ASSUME Disciplined PROVE Spec => []TargetsAlive
<1>1. TargetInv => TargetsAlive
  BY DEF TargetInv, TargetsSet, TargetsAlive, CallingPlaces, DrawingPlaces
<1> QED BY <1>1, TargetInductive, PTL

\* No window is released once too often, by stopPreview, setCaptureDisplay,
\* setPreviewDisplay or the end of do_capture_surface.
THEOREM WindowsReferencedHolds == ASSUME Disciplined PROVE Spec => []WindowsReferenced
<1>1. IInv /\ TargetInv => WindowsReferenced
  <2> SUFFICES ASSUME IInv, TargetInv, NEW w \in Surfaces
               PROVE  winRefs[w] >= (IF mPreviewWindow = w THEN 1 ELSE 0)
                        + (IF mCaptureWindow = w /\ \A k \in CapThreads : cap[k] # "forget"
                           THEN 1 ELSE 0)
    BY DEF WindowsReferenced
  <2>1. ~Forgetting <=> \A k \in CapThreads : cap[k] # "forget" BY DEF Forgetting
  <2>2. winRefs[w] >= ByPreview(w) + ByCapture(w) + ByCall(w) BY DEF TargetInv, RefsHeld
  <2>3. winRefs[w] \in Int BY DEF IInv, ControlType
  <2>4. ByCall(w) \in {0, 1} BY DEF ByCall
  <2> QED BY <2>1, <2>2, <2>3, <2>4 DEF ByPreview, ByCapture
<1> QED BY <1>1, TargetInductive, Inductive, PTL

=============================================================================
