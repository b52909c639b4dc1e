------------------------ MODULE UVCPreviewOrderProofs ------------------------
(***************************************************************************)
(* Proofs about the order of the frames.  A camera frame passes libuvc's   *)
(* callback, the preview queue, the preview thread, the capture queue and  *)
(* the capture thread; each place holds older frames than the one before   *)
(* it, whatever is dropped on the way, and all of them come from the       *)
(* session that runs.                                                      *)
(***************************************************************************)
EXTENDS UVCPreviewStopProofs

-----------------------------------------------------------------------------
(* The inductive invariant.                                                *)

\* The frames on their way to onFrame, from the camera on.  In "recycle" the
\* capture thread is done with its frame.
Copied == {hold[<<"usb", "copy">>]} \ {NULL}
Queued == QueuedFrames
Previewed == {hold[<<"prev", "mjpeg">>], hold[<<"prev", "frame">>]} \ {NULL}
Waiting == {captureQueu} \ {NULL}
Presented ==
    {hold[s] : s \in {k \in CapThreads : cap[k] # "recycle"} \X {"frame", "callback"}} \ {NULL}
OnTheWay == Copied \cup Queued \cup Previewed \cup Waiting \cup Presented

\* Each frame of S was taken before each frame of T.
Precede(S, T) == \A f \in S, g \in T : stamp[f] < stamp[g]

Chained ==
    /\ Precede(Queued, Copied)
    /\ Precede(Previewed, Copied \cup Queued)
    /\ Precede(Waiting, Copied \cup Queued \cup Previewed)
    /\ Precede(Presented, Copied \cup Queued \cup Previewed \cup Waiting)
    /\ \A i, j \in DOMAIN previewFrames :
         i < j => stamp[previewFrames[i]] < stamp[previewFrames[j]]

\* No frame on the way is older than the session or than what onFrame has seen.
InSession ==
    /\ delivered <= captured /\ sessionStart <= captured
    /\ \A f \in OnTheWay :
         sessionStart < stamp[f] /\ delivered < stamp[f] /\ stamp[f] <= captured

OrderInv == Chained /\ InSession

-----------------------------------------------------------------------------
(* Frames keep their stamps while they have an owner.                      *)

StampsKept == \A f \in Owned \cap Owned' : stamp'[f] = stamp[f]

\* A frame on its way has an owner,
LEMMA OnTheWayOwned == OnTheWay \subseteq Owned
<1>1. Copied \cup Previewed \subseteq Owned
  BY SlotNames DEF Copied, Previewed, Owned
<1>2. Presented \subseteq Owned
  <2>1. {k \in CapThreads : cap[k] # "recycle"} \X {"frame", "callback"} \subseteq Slots
    BY DEF Slots
  <2> QED BY <2>1 DEF Presented, Owned
<1>3. Queued \cup Waiting \subseteq Owned BY DEF Queued, Waiting, Owned
<1> QED BY <1>1, <1>2, <1>3 DEF OnTheWay

\* and so after a step.
LEMMA OnTheWayOwnedNext == OnTheWay' \subseteq Owned'
<1>1. (Copied \cup Previewed)' \subseteq Owned'
  BY SlotNames DEF Copied, Previewed, Owned
<1>2. Presented' \subseteq Owned'
  <2>1. {k \in CapThreads : cap'[k] # "recycle"} \X {"frame", "callback"} \subseteq Slots
    BY DEF Slots
  <2> QED BY <2>1 DEF Presented, Owned
<1>3. (Queued \cup Waiting)' \subseteq Owned' BY DEF Queued, Waiting, Owned
<1> QED BY <1>1, <1>2, <1>3 DEF OnTheWay

\* An owned frame is a frame, and has a stamp.
LEMMA OwnedTyped ==
    ASSUME Heap
    PROVE  \A f \in Owned : f \in Frames /\ stamp[f] \in Int
BY PreviewAssumption DEF Heap, OwnerType, PoolType, Owned, QueuedFrames

\* get_frame returns no owned frame, ...
LEMMA GetKeepsStamps ==
    ASSUME Heap, NEW s, NEW n, GetFrame(s, n)
    PROVE  StampsKept
<1>1. NextFrame \notin Owned
  BY NextFrameCases, NullNoFrame DEF Heap, OwnerType, Owned, QueuedFrames
<1>2. \A f \in Frames : stamp'[f] = IF f = NextFrame THEN n ELSE stamp[f]
  BY DEF GetFrame
<1> QED BY <1>1, <1>2, OwnedTyped DEF StampsKept

\* ... and recycle_frame leaves no recycled one owned.
LEMMA RecycleKeepsStamps ==
    ASSUME Heap, Heap', NEW Q, Recycle(Q)
    PROVE  StampsKept
<1>1. PICK kept \in SUBSET (Q \ {NULL}) :
         /\ mFramePool' = mFramePool \cup kept
         /\ live' = live \ ((Q \ {NULL}) \ kept)
         /\ stamp' = [f \in Frames |-> IF f \in Q \ {NULL} THEN 0 ELSE stamp[f]]
  BY RecycleKept
<1>2. \A f \in Q \ {NULL} : f \notin Owned'
  BY <1>1 DEF Heap
<1> QED BY <1>1, <1>2, OwnedTyped DEF StampsKept

\* A step that stamps no frame keeps the stamps.
LEMMA SameStamps ==
    ASSUME UNCHANGED stamp
    PROVE  StampsKept
BY DEF StampsKept

-----------------------------------------------------------------------------
(* How frames move.                                                        *)

\* A frame on its way has a stamp.
LEMMA StampedOnTheWay ==
    ASSUME Heap
    PROVE  \A f \in OnTheWay : f \in Frames /\ stamp[f] \in Int
BY OwnedTyped, OnTheWayOwned

\* Each place holds frames of the same camera frames as before, or fewer.
LEMMA OrderShrinks ==
    ASSUME Heap, Heap', OrderInv, StampsKept,
           \A f \in Copied' : \E g \in Copied : stamp'[f] = stamp[g],
           \A f \in Previewed' : \E g \in Previewed : stamp'[f] = stamp[g],
           \A f \in Waiting' : \E g \in Waiting : stamp'[f] = stamp[g],
           \A f \in Presented' : \E g \in Presented : stamp'[f] = stamp[g],
           previewFrames' \in {previewFrames, <<>>},
           UNCHANGED <<delivered, sessionStart, captured>>
    PROVE  OrderInv'
<1>1. Queued' \subseteq Queued BY DEF Queued, QueuedFrames
<1>2. \A f \in Queued' : f \in Queued /\ stamp'[f] = stamp[f]
  BY <1>1, OnTheWayOwned, OnTheWayOwnedNext DEF OnTheWay, StampsKept
<1>3. \A f \in OnTheWay' : \E g \in OnTheWay : stamp'[f] = stamp[g]
  BY <1>2 DEF OnTheWay
<1>4. InSession' BY <1>3 DEF OrderInv, InSession
<1>5. Precede(Queued, Copied)'
  BY <1>2 DEF OrderInv, Chained, Precede
<1>6. Precede(Previewed, Copied \cup Queued)'
  BY <1>2 DEF OrderInv, Chained, Precede
<1>7. Precede(Waiting, Copied \cup Queued \cup Previewed)'
  BY <1>2 DEF OrderInv, Chained, Precede
<1>8. Precede(Presented, Copied \cup Queued \cup Previewed \cup Waiting)'
  BY <1>2 DEF OrderInv, Chained, Precede
<1>9. (\A i, j \in DOMAIN previewFrames :
         i < j => stamp[previewFrames[i]] < stamp[previewFrames[j]])'
  <2>1. CASE previewFrames' = <<>> BY <2>1
  <2>2. CASE previewFrames' = previewFrames
    <3>1. \A i \in DOMAIN previewFrames : stamp'[previewFrames[i]] = stamp[previewFrames[i]]
      BY <1>2, <2>2 DEF Queued, QueuedFrames
    <3> QED BY <2>2, <3>1 DEF OrderInv, Chained
  <2> QED BY <2>1, <2>2
<1> QED BY <1>4, <1>5, <1>6, <1>7, <1>8, <1>9 DEF OrderInv, Chained

\* The same, in terms of the local variables.
Unmoved(s) == hold'[s] \in {hold[s], NULL}
CaptureUnmoved(k) ==
    /\ Unmoved(<<k, "frame">>) /\ Unmoved(<<k, "callback">>)
    /\ cap[k] = "recycle" =>
         cap'[k] = "recycle" \/ (hold'[<<k, "frame">>] = NULL /\ hold'[<<k, "callback">>] = NULL)

\* A place whose slots do not change holds no new frame.
LEMMA UnmovedPlaces ==
    /\ Unmoved(<<"usb", "copy">>) => Copied' \subseteq Copied
    /\ Unmoved(<<"prev", "mjpeg">>) /\ Unmoved(<<"prev", "frame">>) =>
         Previewed' \subseteq Previewed
    /\ (\A k \in CapThreads : CaptureUnmoved(k)) => Presented' \subseteq Presented
    /\ captureQueu' \in {captureQueu, NULL} => Waiting' \subseteq Waiting
<1>1. ASSUME \A k \in CapThreads : CaptureUnmoved(k) PROVE Presented' \subseteq Presented
  <2> SUFFICES ASSUME NEW f \in Presented' PROVE f \in Presented OBVIOUS
  <2>1. PICK k \in CapThreads, x \in {"frame", "callback"} :
          cap'[k] # "recycle" /\ f = hold'[<<k, x>>] /\ f # NULL
    <3>1. PICK s \in {k \in CapThreads : cap'[k] # "recycle"} \X {"frame", "callback"} :
            f = hold'[s] /\ f # NULL
      BY DEF Presented
    <3> QED BY <3>1
  <2>2. Unmoved(<<k, x>>) BY <1>1, <2>1 DEF CaptureUnmoved
  <2>3. f = hold[<<k, x>>] BY <2>1, <2>2 DEF Unmoved
  <2>4. cap[k] # "recycle" BY <1>1, <2>1 DEF CaptureUnmoved
  <2>5. <<k, x>> \in {j \in CapThreads : cap[j] # "recycle"} \X {"frame", "callback"}
    BY <2>4
  <2> QED BY <2>1, <2>3, <2>5 DEF Presented
<1>2. Unmoved(<<"usb", "copy">>) => Copied' \subseteq Copied BY DEF Unmoved, Copied
<1>3. Unmoved(<<"prev", "mjpeg">>) /\ Unmoved(<<"prev", "frame">>) =>
         Previewed' \subseteq Previewed
  BY DEF Unmoved, Previewed
<1> QED BY <1>1, <1>2, <1>3 DEF Waiting

\* A step that moves no frame on, nor delivers one, keeps the order.
LEMMA OrderStays ==
    ASSUME Heap, Heap', OrderInv, StampsKept,
           Unmoved(<<"usb", "copy">>), Unmoved(<<"prev", "mjpeg">>),
           Unmoved(<<"prev", "frame">>), \A k \in CapThreads : CaptureUnmoved(k),
           captureQueu' \in {captureQueu, NULL}, previewFrames' \in {previewFrames, <<>>},
           UNCHANGED <<delivered, sessionStart, captured>>
    PROVE  OrderInv'
<1>1. /\ Copied' \subseteq Copied /\ Previewed' \subseteq Previewed
      /\ Waiting' \subseteq Waiting /\ Presented' \subseteq Presented
  BY UnmovedPlaces
<1>2. \A f \in Copied' \cup Previewed' \cup Waiting' \cup Presented' : stamp'[f] = stamp[f]
  BY <1>1, OnTheWayOwned, OnTheWayOwnedNext DEF OnTheWay, StampsKept
<1> QED BY <1>1, <1>2, OrderShrinks

-----------------------------------------------------------------------------
(* Steps of the application and of libuvc's callback.                      *)

\* No frame is on its way at first.
LEMMA OrderInit == Init => OrderInv
<1> SUFFICES ASSUME Init PROVE OrderInv OBVIOUS
<1>1. \A s \in Slots : hold[s] = NULL BY DEF Init
<1>2. OnTheWay = {}
  <2>1. Copied = {} /\ Previewed = {} BY <1>1, SlotNames DEF Copied, Previewed
  <2>2. Presented = {}
    <3>1. {k \in CapThreads : cap[k] # "recycle"} \X {"frame", "callback"} \subseteq Slots
      BY DEF Slots
    <3> QED BY <1>1, <3>1 DEF Presented
  <2>3. Queued = {} /\ Waiting = {} BY DEF Init, Queued, QueuedFrames, Waiting
  <2> QED BY <2>1, <2>2, <2>3 DEF OnTheWay
<1>3. Chained BY <1>2 DEF Init, Chained, Precede, OnTheWay
<1>4. InSession BY <1>2, PreviewAssumption DEF Init, InSession
<1> QED BY <1>3, <1>4 DEF OrderInv

\* Wakeups do not take a capture thread out of "recycle".
LEMMA WokenRecycle ==
    ASSUME StopTypes, NEW W \in SUBSET CaptureWaiters, cap' = CapAfter(W),
           NEW k \in CapThreads, cap[k] = "recycle"
    PROVE  cap'[k] = "recycle"
<1>1. k \notin W BY PreviewAssumption DEF CaptureWaiters
<1> QED BY <1>1 DEF CapAfter

\* The application only empties queues.
LEMMA OrderOfClient ==
    ASSUME IInv, IInv', OrderInv, NEW c \in Clients, Call(c) \/ ClientStep(c)
    PROVE  OrderInv'
<1>1. StopTypes /\ ControlType /\ Heap /\ Heap' BY StopTyped DEF IInv
<1>2. UNCHANGED <<hold, delivered, sessionStart, captured>>
  BY DEF Call, ClientStep, ClientRest, streamVars
<1>3. /\ captureQueu' \in {captureQueu, NULL} /\ previewFrames' \in {previewFrames, <<>>}
      /\ UNCHANGED stamp \/ \E Q : Recycle(Q)
  BY DEF Call, ClientStep, Lifecycle, Targets, Clearing, StopClearPreview, StopClearCapture,
         ClearPreviewFrame, ClearCaptureFrame, queueVars, frameVars
<1>4. StampsKept BY <1>1, <1>3, SameStamps, RecycleKeepsStamps
<1>5. ASSUME NEW k \in CapThreads, cap[k] = "recycle" PROVE cap'[k] = "recycle"
  <2>1. CASE UNCHANGED cap BY <1>5, <2>1
  <2>2. CASE \E W \in SUBSET CaptureWaiters : cap' = CapAfter(W)
    BY <1>1, <1>5, <2>2, WokenRecycle
  <2>3. CASE JoinCapture(c) BY <1>1, <1>5, <2>3 DEF JoinCapture, StopTypes
  <2> QED
    BY <2>1, <2>2, <2>3, SignalledWait
    DEF Call, StartPreview, StopPreview, ClientStep, Lifecycle, Clearing, Targets,
        CreatePreviewThread, StopSignalPreview, StopSignalCapture, JoinPreview,
        StopReleasePreviewWindow, StopReleaseCaptureWindow, EnterSetFrameCallback,
        FinishSetFrameCallback, EnterSetCaptureDisplay, FinishSetCaptureDisplay, Pause,
        SwapCallback, SwapWindow
<1> QED BY <1>1, <1>2, <1>3, <1>4, <1>5, OrderStays DEF Unmoved, CaptureUnmoved

\* What changes with the local variable of libuvc's callback alone.
LEMMA OthersUnmoved ==
    ASSUME Heap, NEW x, hold' = [hold EXCEPT ![<<"usb", "copy">>] = x], UNCHANGED cap
    PROVE  UNCHANGED <<Previewed, Presented>>
<1>1. \A s \in Slots : s # <<"usb", "copy">> => hold'[s] = hold[s]
  BY DEF Heap, OwnerType
<1>2. Previewed' = Previewed BY <1>1, SlotNames DEF Previewed
<1>3. {k \in CapThreads : cap[k] # "recycle"} \X {"frame", "callback"} \subseteq Slots
  BY DEF Slots
<1>4. \A s \in {k \in CapThreads : cap[k] # "recycle"} \X {"frame", "callback"} :
         hold'[s] = hold[s]
  <2>1. \A s \in {k \in CapThreads : cap[k] # "recycle"} \X {"frame", "callback"} :
           s # <<"usb", "copy">>
    BY PreviewAssumption
  <2> QED BY <1>1, <1>3, <2>1
<1>5. Presented' = Presented BY <1>4 DEF Presented
<1> QED BY <1>2, <1>5

\* The camera's next frame is the newest.
LEMMA OrderOfArrival ==
    ASSUME IInv, IInv', OrderInv, FrameCallback, UNCHANGED UsbRest
    PROVE  OrderInv'
<1>1. StopTypes /\ Heap /\ Heap' /\ LocalFrames BY StopTyped DEF IInv
<1>2. /\ captured \in Int /\ captured' = captured + 1
      /\ delivered \in Int /\ sessionStart \in Int
      /\ UNCHANGED <<delivered, sessionStart, previewFrames, captureQueu, cap>>
  BY PreviewAssumption DEF IInv, ControlType, FrameCallback, UsbRest, capVars
<1>3. Copied = {} BY <1>1 DEF FrameCallback, LocalFrames, Copied
<1>4. Queued' = Queued /\ Waiting' = Waiting BY <1>2 DEF Queued, QueuedFrames, Waiting
<1>5. /\ StampsKept
      /\ UNCHANGED <<Previewed, Presented>>
      /\ \A f \in Copied' : stamp'[f] = captured + 1
  <2>1. CASE mIsRunning
    <3>1. GetFrame(<<"usb", "copy">>, captured + 1) BY <2>1 DEF FrameCallback
    <3>2. hold' = [hold EXCEPT ![<<"usb", "copy">>] = NextFrame] BY <3>1 DEF GetFrame
    <3>3. hold'[<<"usb", "copy">>] = NextFrame
      BY <1>1, <3>2, SlotNames DEF Heap, OwnerType
    <3>4. NextFrame # NULL => NextFrame \in Frames
      BY <1>1, NextFrameCases DEF Heap, PoolType
    <3>5. \A f \in Copied' : stamp'[f] = captured + 1
      BY <3>1, <3>3, <3>4 DEF Copied, GetFrame
    <3> QED BY <1>1, <1>2, <3>1, <3>2, <3>5, GetKeepsStamps, OthersUnmoved
  <2>2. CASE ~mIsRunning
    <3>1. UNCHANGED <<hold, stamp>> BY <2>2 DEF FrameCallback, frameVars
    <3>2. Copied' = {} BY <1>3, <3>1 DEF Copied
    <3> QED BY <1>2, <3>1, <3>2, SameStamps DEF Previewed, Presented
  <2> QED BY <2>1, <2>2
<1>6. \A f \in Queued \cup Waiting \cup Previewed \cup Presented :
         stamp'[f] = stamp[f] /\ stamp[f] \in Int /\ stamp[f] <= captured
           /\ sessionStart < stamp[f] /\ delivered < stamp[f]
  <2>1. \A f \in Queued \cup Waiting \cup Previewed \cup Presented :
           f \in OnTheWay /\ f \in OnTheWay'
    BY <1>4, <1>5 DEF OnTheWay
  <2> QED
    BY <1>1, <1>5, <2>1, OnTheWayOwned, OnTheWayOwnedNext, StampedOnTheWay
    DEF OrderInv, InSession, StampsKept
<1>7. InSession'
  <2>1. delivered' <= captured' /\ sessionStart' <= captured'
    BY <1>2 DEF OrderInv, InSession
  <2>2. \A f \in OnTheWay' : \/ f \in Copied'
                             \/ f \in Queued \cup Waiting \cup Previewed \cup Presented
    BY <1>4, <1>5 DEF OnTheWay
  <2>3. delivered < captured + 1 /\ sessionStart < captured + 1
    BY <1>2 DEF OrderInv, InSession
  <2>4. \A f \in OnTheWay' : sessionStart < stamp'[f] /\ delivered < stamp'[f]
                             /\ stamp'[f] <= captured + 1
    BY <1>2, <1>5, <1>6, <2>2, <2>3
  <2> QED BY <1>2, <2>1, <2>4 DEF InSession
<1>8. \A f \in Queued \cup Waiting \cup Previewed \cup Presented, g \in Copied' :
         stamp'[f] < stamp'[g]
  BY <1>2, <1>5, <1>6
<1>9. Precede(Queued, Copied)' BY <1>4, <1>8 DEF Precede
<1>10. Precede(Previewed, Copied \cup Queued)'
  BY <1>4, <1>5, <1>6, <1>8 DEF OrderInv, Chained, Precede
<1>11. Precede(Waiting, Copied \cup Queued \cup Previewed)'
  BY <1>4, <1>5, <1>6, <1>8 DEF OrderInv, Chained, Precede
<1>12. Precede(Presented, Copied \cup Queued \cup Previewed \cup Waiting)'
  BY <1>4, <1>5, <1>6, <1>8 DEF OrderInv, Chained, Precede
<1>13. (\A i, j \in DOMAIN previewFrames :
         i < j => stamp[previewFrames[i]] < stamp[previewFrames[j]])'
  BY <1>2, <1>6 DEF OrderInv, Chained, Queued, QueuedFrames
<1> QED BY <1>7, <1>9, <1>10, <1>11, <1>12, <1>13 DEF OrderInv, Chained

\* The frame is queued behind all others, or dropped.
LEMMA OrderOfUsb ==
    ASSUME IInv, IInv', OrderInv, UsbStep
    PROVE  OrderInv'
<1>1. StopTypes /\ Heap /\ Heap' /\ LocalFrames BY StopTyped DEF IInv
<1>2. UNCHANGED <<delivered, sessionStart, captured, captureQueu, cap>>
  BY DEF UsbStep, UsbRest, capVars, AddPreviewFrame, DropPreviewFrame
<1>3. CASE AddPreviewFrame /\ PreviewFrameWanted
  <2>1. /\ previewFrames' = Append(previewFrames, hold[<<"usb", "copy">>])
        /\ hold' = [hold EXCEPT ![<<"usb", "copy">>] = NULL] /\ UNCHANGED stamp
    BY <1>3 DEF AddPreviewFrame, frameVars
  <2>2. hold[<<"usb", "copy">>] # NULL BY <1>1, <1>3 DEF LocalFrames, AddPreviewFrame
  <2> DEFINE f == hold[<<"usb", "copy">>]
             n == Len(previewFrames)
  <2>3. /\ previewFrames \in Seq(Frames) /\ f \in Frames /\ n \in Nat
        /\ DOMAIN previewFrames = 1..n /\ DOMAIN previewFrames' = 1..(n + 1)
        /\ previewFrames'[n + 1] = f
        /\ \A i \in 1..n : previewFrames'[i] = previewFrames[i]
    BY <1>1, <2>1, <2>2, SlotNames DEF Heap, OwnerType
  <2>4. Queued' = Queued \cup {f} BY <2>3 DEF Queued, QueuedFrames
  <2>5. Copied = {f} /\ Copied' = {}
    BY <1>1, <2>1, <2>2, SlotNames DEF Copied, Heap, OwnerType
  <2>6. UNCHANGED <<Previewed, Presented, Waiting>>
    BY <1>1, <1>2, <2>1, OthersUnmoved DEF Waiting
  <2>7. OnTheWay' = OnTheWay BY <2>4, <2>5, <2>6 DEF OnTheWay
  <2>8. InSession' BY <1>2, <2>1, <2>7 DEF OrderInv, InSession
  <2>9. Precede(Queued, Copied)' BY <2>5 DEF Precede
  <2>10. Precede(Previewed, Copied \cup Queued)'
    BY <2>1, <2>4, <2>5, <2>6 DEF OrderInv, Chained, Precede
  <2>11. Precede(Waiting, Copied \cup Queued \cup Previewed)'
    BY <2>1, <2>4, <2>5, <2>6 DEF OrderInv, Chained, Precede
  <2>12. Precede(Presented, Copied \cup Queued \cup Previewed \cup Waiting)'
    BY <2>1, <2>4, <2>5, <2>6 DEF OrderInv, Chained, Precede
  <2>13. \A i \in 1..n : stamp[previewFrames[i]] < stamp[f]
    BY <2>3, <2>5 DEF OrderInv, Chained, Precede, Queued, QueuedFrames
  <2>14. ASSUME NEW i \in 1..(n + 1), NEW j \in 1..(n + 1), i < j
         PROVE  stamp[previewFrames'[i]] < stamp[previewFrames'[j]]
    <3>1. i \in 1..n BY <2>3, <2>14
    <3>2. CASE j = n + 1 BY <2>3, <2>13, <3>1, <3>2
    <3>3. CASE j \in 1..n BY <2>3, <2>14, <3>1, <3>3 DEF OrderInv, Chained
    <3> QED BY <2>3, <3>2, <3>3
  <2>15. (\A i, j \in DOMAIN previewFrames :
            i < j => stamp[previewFrames[i]] < stamp[previewFrames[j]])'
    BY <2>1, <2>3, <2>14
  <2> QED BY <2>8, <2>9, <2>10, <2>11, <2>12, <2>15 DEF OrderInv, Chained
<1>4. CASE ~(AddPreviewFrame /\ PreviewFrameWanted)
  <2>1. /\ hold' \in {hold, [hold EXCEPT ![<<"usb", "copy">>] = NULL]}
        /\ UNCHANGED previewFrames
        /\ UNCHANGED stamp \/ \E Q : Recycle(Q)
    BY <1>4 DEF UsbStep, AddPreviewFrame, DropPreviewFrame, RecycleSlot, frameVars
  <2>2. StampsKept BY <1>1, <2>1, SameStamps, RecycleKeepsStamps
  <2>3. \A s \in Slots : Unmoved(s) BY <1>1, <2>1 DEF Unmoved, Heap, OwnerType
  <2> QED BY <1>1, <1>2, <2>1, <2>2, <2>3, SlotNames, OrderStays DEF CaptureUnmoved
<1> QED BY <1>3, <1>4

-----------------------------------------------------------------------------
(* Steps of the preview thread.                                            *)

\* What changes with the local variables of the preview thread alone.
LEMMA CaptureSideUnmoved ==
    ASSUME Heap, NEW x, NEW y \in {<<"prev", "mjpeg">>, <<"prev", "frame">>},
           hold' = [hold EXCEPT ![y] = x],
           \A k \in CapThreads : cap[k] = "recycle" <=> cap'[k] = "recycle"
    PROVE  UNCHANGED <<Copied, Presented>>
<1>1. \A s \in Slots : s # y => hold'[s] = hold[s]
  BY DEF Heap, OwnerType
<1>2. Copied' = Copied BY <1>1, SlotNames DEF Copied
<1>3. {k \in CapThreads : cap[k] # "recycle"} \X {"frame", "callback"} \subseteq Slots
  BY DEF Slots
<1>4. \A s \in {k \in CapThreads : cap[k] # "recycle"} \X {"frame", "callback"} :
         hold'[s] = hold[s]
  <2>1. \A s \in {k \in CapThreads : cap[k] # "recycle"} \X {"frame", "callback"} : s # y
    BY PreviewAssumption
  <2> QED BY <1>1, <1>3, <2>1
<1>5. {k \in CapThreads : cap'[k] # "recycle"} = {k \in CapThreads : cap[k] # "recycle"}
  OBVIOUS
<1>6. Presented' = Presented BY <1>4, <1>5 DEF Presented
<1> QED BY <1>2, <1>6

\* A session starts with nothing on the way.
LEMMA OrderOfStart ==
    ASSUME IInv, IInv', StopInv, OrderInv, StartStreaming, PreviewStep
    PROVE  OrderInv'
<1>1. StopTypes /\ MonitorHeld /\ LocalFrames BY StopTyped DEF IInv
<1>2. /\ prev = "prepare" /\ sessionStart' = captured
      /\ UNCHANGED <<delivered, captured, stamp, queueVars, hold, cap>>
  BY DEF StartStreaming, PrevGoto, PreviewStep, PreviewRest, frameVars
<1>3. usb = "idle" /\ \A k \in CapThreads : cap[k] = "none"
  BY <1>1, <1>2
  DEF StopInv, StreamHeld, OneCapture, StreamPlaces, EarlyPlaces, StopTypes
<1>4. previewFrames = <<>> /\ captureQueu = NULL
  <2>1. ASSUME NEW c \in Clients, api[c] \in {"stop_clear", "stop_clearcap"} PROVE FALSE
    <3>1. monitor = c /\ ~mIsRunning
      BY <1>1, <2>1 DEF MonitorHeld, LockedPlaces, StopInv, RunningHeld, ClearingPlaces
    <3>2. \A d \in Clients : api[d] \notin StoppingPlaces
      BY <1>1, <2>1, <3>1 DEF MonitorHeld, LockedPlaces, StoppingPlaces
    <3> QED BY <1>1, <1>2, <3>1, <3>2 DEF MonitorHeld
  <2> QED BY <1>2, <2>1 DEF StopInv, QueuesEmptied
<1>5. OnTheWay = {}
  <2>1. Copied = {} /\ Previewed = {}
    BY <1>1, <1>2, <1>3 DEF LocalFrames, Copied, Previewed
  <2>2. \A k \in CapThreads : hold[<<k, "frame">>] = NULL /\ hold[<<k, "callback">>] = NULL
    BY <1>1, <1>3 DEF LocalFrames
  <2>3. ASSUME NEW s \in {k \in CapThreads : cap[k] # "recycle"} \X {"frame", "callback"}
        PROVE  hold[s] = NULL
    <3>1. PICK k \in CapThreads, x \in {"frame", "callback"} : s = <<k, x>> OBVIOUS
    <3>2. x = "frame" \/ x = "callback" OBVIOUS
    <3> QED BY <2>2, <3>1, <3>2
  <2>4. Presented = {} BY <2>3 DEF Presented
  <2>5. Queued = {} /\ Waiting = {} BY <1>4 DEF Queued, QueuedFrames, Waiting
  <2> QED BY <2>1, <2>4, <2>5 DEF OnTheWay
<1>6. OnTheWay' = OnTheWay
  BY <1>2 DEF OnTheWay, Copied, Queued, QueuedFrames, Previewed, Waiting, Presented, queueVars
<1>7. InSession'
  BY <1>2, <1>5, <1>6 DEF OrderInv, InSession, IInv, ControlType
<1>8. Chained'
  BY <1>2, <1>4, <1>5, <1>6 DEF Chained, Precede, OnTheWay, queueVars
<1> QED BY <1>7, <1>8 DEF OrderInv

\* The preview thread takes the oldest frame of its queue, and has no other.
LEMMA OrderOfTake ==
    ASSUME IInv, IInv', OrderInv, WaitPreviewFrame, PreviewStep,
           mIsRunning, previewFrames # <<>>
    PROVE  OrderInv'
<1>1. StopTypes /\ Heap /\ Heap' /\ LocalFrames BY StopTyped DEF IInv
<1>2. UNCHANGED <<delivered, sessionStart, captured, captureQueu, cap, stamp>>
  BY DEF WaitPreviewFrame, PreviewStep, PreviewRest, frameVars
<1> DEFINE y == <<"prev", IF Mjpeg THEN "mjpeg" ELSE "frame">>
           f == Head(previewFrames)
           n == Len(previewFrames)
<1>3. /\ prev \in {"wait", "woken"}
      /\ hold' = [hold EXCEPT ![y] = f] /\ previewFrames' = Tail(previewFrames)
  BY DEF WaitPreviewFrame, TakePreviewFrame
<1>4. y \in {<<"prev", "mjpeg">>, <<"prev", "frame">>} OBVIOUS
<1>5. hold[<<"prev", "mjpeg">>] = NULL /\ hold[<<"prev", "frame">>] = NULL
  BY <1>1, <1>3 DEF LocalFrames
<1>6. /\ previewFrames \in Seq(Frames) /\ f \in Frames /\ n \in Nat \ {0}
      /\ f = previewFrames[1]
      /\ DOMAIN previewFrames = 1..n /\ DOMAIN previewFrames' = 1..(n - 1)
      /\ \A i \in 1..(n - 1) : previewFrames'[i] = previewFrames[i + 1]
  BY <1>1, <1>3 DEF Heap, OwnerType
<1>7. f \in Queued BY <1>6 DEF Queued, QueuedFrames
<1>8. ASSUME NEW g \in Queued' PROVE g \in Queued /\ stamp[f] < stamp[g]
  <2>1. PICK i \in 1..(n - 1) : g = previewFrames[i + 1]
    BY <1>6 DEF Queued, QueuedFrames
  <2>2. i + 1 \in DOMAIN previewFrames /\ 1 \in DOMAIN previewFrames /\ 1 < i + 1
    BY <1>6
  <2> QED BY <1>6, <2>1, <2>2 DEF OrderInv, Chained, Queued, QueuedFrames
<1>9. Previewed = {} /\ Previewed' = {f}
  <2>1. y \in Slots BY <1>4, SlotNames
  <2>2. hold'[y] = f /\ \A s \in Slots : s # y => hold'[s] = hold[s]
    BY <1>1, <1>3, <2>1 DEF Heap, OwnerType
  <2>3. f # NULL BY <1>6, NullNoFrame
  <2>4. {hold'[<<"prev", "mjpeg">>], hold'[<<"prev", "frame">>]} = {f, NULL}
    BY <1>4, <1>5, <2>2, SlotNames
  <2> QED BY <1>5, <2>3, <2>4 DEF Previewed
<1>10. UNCHANGED <<Copied, Presented, Waiting>>
  BY <1>1, <1>2, <1>3, <1>4, CaptureSideUnmoved DEF Waiting
<1>11. OnTheWay' \subseteq OnTheWay BY <1>7, <1>8, <1>9, <1>10 DEF OnTheWay
<1>12. InSession' BY <1>2, <1>11 DEF OrderInv, InSession
<1>13. Precede(Queued, Copied)'
  BY <1>2, <1>8, <1>10 DEF OrderInv, Chained, Precede
<1>14. Precede(Previewed, Copied \cup Queued)'
  BY <1>2, <1>7, <1>8, <1>9, <1>10 DEF OrderInv, Chained, Precede
<1>15. Precede(Waiting, Copied \cup Queued \cup Previewed)'
  BY <1>2, <1>7, <1>8, <1>9, <1>10 DEF OrderInv, Chained, Precede
<1>16. Precede(Presented, Copied \cup Queued \cup Previewed \cup Waiting)'
  BY <1>2, <1>7, <1>8, <1>9, <1>10 DEF OrderInv, Chained, Precede
<1>17. ASSUME NEW i \in 1..(n - 1), NEW j \in 1..(n - 1), i < j
       PROVE  stamp'[previewFrames'[i]] < stamp'[previewFrames'[j]]
  <2>1. i + 1 \in DOMAIN previewFrames /\ j + 1 \in DOMAIN previewFrames /\ i + 1 < j + 1
    BY <1>6, <1>17
  <2> QED BY <1>2, <1>6, <2>1 DEF OrderInv, Chained
<1>18. (\A i, j \in DOMAIN previewFrames :
          i < j => stamp[previewFrames[i]] < stamp[previewFrames[j]])'
  BY <1>6, <1>17
<1> QED BY <1>12, <1>13, <1>14, <1>15, <1>16, <1>18 DEF OrderInv, Chained

\* The decoded picture has the stamp of the MJPEG frame it is made from.
LEMMA OrderOfDecode ==
    ASSUME IInv, IInv', OrderInv, DecodeFrame, PreviewStep
    PROVE  OrderInv'
<1>1. StopTypes /\ Heap /\ Heap' /\ LocalFrames BY StopTyped DEF IInv
<1>2. UNCHANGED <<delivered, sessionStart, captured, captureQueu, previewFrames, cap>>
  BY DEF DecodeFrame, PreviewStep, PreviewRest, queueVars
<1> DEFINE m == hold[<<"prev", "mjpeg">>]
<1>3. /\ GetFrame(<<"prev", "frame">>, stamp[m])
      /\ hold' = [hold EXCEPT ![<<"prev", "frame">>] = NextFrame]
      /\ NextFrame \in Frames /\ prev = "decode"
  BY <1>1, NextFrameCases DEF DecodeFrame, GetFrame, PrevGoto, Heap, PoolType
<1>4. hold'[<<"prev", "frame">>] = NextFrame /\ hold'[<<"prev", "mjpeg">>] = m
  BY <1>1, <1>3, SlotNames DEF Heap, OwnerType
<1>5. m # NULL /\ m \in Previewed /\ m \in Previewed'
  BY <1>1, <1>3, <1>4 DEF LocalFrames, Previewed
<1>6. StampsKept BY <1>1, <1>3, GetKeepsStamps
<1>7. stamp'[NextFrame] = stamp[m] BY <1>3 DEF GetFrame
<1>8. stamp'[m] = stamp[m]
  BY <1>5, <1>6, OnTheWayOwned, OnTheWayOwnedNext DEF OnTheWay, StampsKept
<1>9. \A f \in Previewed' : \E g \in Previewed : stamp'[f] = stamp[g]
  BY <1>4, <1>5, <1>7, <1>8 DEF Previewed
<1>10. UNCHANGED <<Copied, Presented, Waiting>>
  BY <1>1, <1>2, <1>3, CaptureSideUnmoved DEF Waiting
<1>11. \A f \in Copied' \cup Waiting' \cup Presented' :
          f \in OnTheWay /\ stamp'[f] = stamp[f]
  BY <1>6, <1>10, OnTheWayOwned, OnTheWayOwnedNext DEF OnTheWay, StampsKept
<1> QED BY <1>1, <1>2, <1>6, <1>9, <1>10, <1>11, OrderShrinks

\* The frame the preview thread passes on is newer than all the capture thread
\* has seen, and the only one it has.
LEMMA OrderOfAdd ==
    ASSUME IInv, IInv', OrderInv, AddCaptureFrame, mIsRunning, PreviewStep
    PROVE  OrderInv'
<1>1. StopTypes /\ Heap /\ Heap' /\ LocalFrames BY StopTyped DEF IInv
<1>2. UNCHANGED <<delivered, sessionStart, captured, previewFrames>>
  BY DEF AddCaptureFrame, PreviewStep, PreviewRest
<1> DEFINE f == hold[<<"prev", "frame">>]
<1>3. /\ prev = "add" /\ captureQueu' = f /\ Recycle({captureQueu})
      /\ hold' = [hold EXCEPT ![<<"prev", "frame">>] = NULL]
      /\ cap' = CapAfter(CaptureWaiters)
  BY DEF AddCaptureFrame, PrevGoto
<1>4. hold'[<<"prev", "frame">>] = NULL /\ hold'[<<"prev", "mjpeg">>] = hold[<<"prev", "mjpeg">>]
  BY <1>1, <1>3, SlotNames DEF Heap, OwnerType
<1>5. hold[<<"prev", "mjpeg">>] = NULL /\ f # NULL BY <1>1, <1>3 DEF LocalFrames
<1>6. Previewed = {f} /\ Previewed' = {} /\ Waiting' = {f}
  BY <1>3, <1>4, <1>5 DEF Previewed, Waiting
<1>7. \A k \in CapThreads : cap[k] = "recycle" <=> cap'[k] = "recycle"
  BY <1>1, <1>3, WokenFromWait DEF IInv
<1>8. UNCHANGED <<Copied, Presented>> BY <1>1, <1>3, <1>7, CaptureSideUnmoved
<1>9. Queued' = Queued BY <1>2 DEF Queued, QueuedFrames
<1>10. StampsKept BY <1>1, <1>3, RecycleKeepsStamps
<1>11. OnTheWay' \subseteq OnTheWay BY <1>6, <1>8, <1>9 DEF OnTheWay
<1>12. \A g \in OnTheWay' : stamp'[g] = stamp[g]
  BY <1>10, <1>11, OnTheWayOwned, OnTheWayOwnedNext DEF StampsKept
<1>13. InSession' BY <1>2, <1>11, <1>12 DEF OrderInv, InSession
<1>14. \A g \in Copied' \cup Queued' \cup Previewed' \cup Waiting' \cup Presented' :
          stamp'[g] = stamp[g]
  BY <1>12 DEF OnTheWay
<1>15. Precede(Queued, Copied)'
  BY <1>8, <1>9, <1>14 DEF OrderInv, Chained, Precede
<1>16. Precede(Previewed, Copied \cup Queued)' BY <1>6 DEF Precede
<1>17. Precede(Waiting, Copied \cup Queued \cup Previewed)'
  BY <1>6, <1>8, <1>9, <1>14 DEF OrderInv, Chained, Precede
<1>18. Precede(Presented, Copied \cup Queued \cup Previewed \cup Waiting)'
  BY <1>6, <1>8, <1>9, <1>14 DEF OrderInv, Chained, Precede
<1>19. (\A i, j \in DOMAIN previewFrames :
          i < j => stamp[previewFrames[i]] < stamp[previewFrames[j]])'
  <2>1. \A i \in DOMAIN previewFrames : stamp'[previewFrames[i]] = stamp[previewFrames[i]]
    BY <1>9, <1>14 DEF Queued, QueuedFrames
  <2> QED BY <1>2, <2>1 DEF OrderInv, Chained
<1> QED BY <1>13, <1>15, <1>16, <1>17, <1>18, <1>19 DEF OrderInv, Chained

\* The preview thread keeps the order.
LEMMA OrderOfPreview ==
    ASSUME IInv, IInv', StopInv, OrderInv, PreviewStep
    PROVE  OrderInv'
<1>1. StopTypes /\ ControlType /\ Heap /\ Heap' BY StopTyped DEF IInv
<1>2. CASE StartStreaming BY <1>2, OrderOfStart
<1>3. CASE WaitPreviewFrame /\ mIsRunning /\ previewFrames # <<>>
  BY <1>3, OrderOfTake
<1>4. CASE DecodeFrame BY <1>4, OrderOfDecode
<1>5. CASE AddCaptureFrame /\ mIsRunning BY <1>5, OrderOfAdd
<1>6. CASE /\ ~StartStreaming /\ ~DecodeFrame /\ ~(AddCaptureFrame /\ mIsRunning)
           /\ ~(WaitPreviewFrame /\ mIsRunning /\ previewFrames # <<>>)
  <2>1. UNCHANGED <<delivered, captured, sessionStart, captureQueu>>
        /\ previewFrames' \in {previewFrames, <<>>}
    BY <1>6
    DEF PreviewStep, PreviewRest, ClearAtStart, CreateCaptureThread, PreviewLoop,
        WaitPreviewFrame, TakePreviewFrame, RecycleDecoded, DrawPreview, RecycleDrawn,
        AddCaptureFrame, SignalCaptureThread, StopStreaming, queueVars, ClearPreviewFrame
  <2>2. \/ UNCHANGED stamp
        \/ \E Q : Recycle(Q)
        \/ GetFrame(<<"prev", "converted">>, 0)
    BY <1>6
    DEF PreviewStep, ClearAtStart, CreateCaptureThread, PreviewLoop, WaitPreviewFrame,
        RecycleDecoded, RecycleSlot, DrawPreview, RecycleDrawn, AddCaptureFrame,
        SignalCaptureThread, StopStreaming, frameVars, ClearPreviewFrame
  <2>3. StampsKept
    BY <1>1, <2>2, SameStamps, RecycleKeepsStamps, GetKeepsStamps
  <2>4. \/ UNCHANGED hold
        \/ \E s \in Slots : hold' = [hold EXCEPT ![s] = NULL]
        \/ \E s \in Slots, t \in Slots : hold' = [hold EXCEPT ![s] = NULL, ![t] = NULL]
        \/ \E x : hold' = [hold EXCEPT ![<<"prev", "converted">>] = x]
    BY <1>6, SlotNames
    DEF PreviewStep, ClearAtStart, CreateCaptureThread, PreviewLoop, WaitPreviewFrame,
        TakePreviewFrame, RecycleDecoded, RecycleSlot, DrawPreview, RecycleDrawn, GetFrame,
        AddCaptureFrame, SignalCaptureThread, StopStreaming
  <2>5. \A s \in Slots : s # <<"prev", "converted">> => Unmoved(s)
    BY <1>1, <2>4 DEF Unmoved, Heap, OwnerType
  <2>6. \A k \in CapThreads : Unmoved(<<k, "frame">>) /\ Unmoved(<<k, "callback">>)
    BY <2>5, SlotNames
  <2>7. ASSUME NEW k \in CapThreads, cap[k] = "recycle" PROVE cap'[k] = "recycle"
    <3>1. CASE UNCHANGED cap BY <2>7, <3>1
    <3>2. CASE \E W \in SUBSET CaptureWaiters : cap' = CapAfter(W)
      BY <1>1, <2>7, <3>2, WokenRecycle
    <3>3. CASE CreateCaptureThread
      BY <1>1, <2>7, <3>3 DEF CreateCaptureThread, StopTypes
    <3> QED
      BY <1>6, <3>1, <3>2, <3>3, SignalledWait
      DEF PreviewStep, ClearAtStart, PreviewLoop, WaitPreviewFrame, RecycleDecoded,
          DrawPreview, RecycleDrawn, AddCaptureFrame, SignalCaptureThread, StopStreaming
  <2>8. /\ Unmoved(<<"usb", "copy">>) /\ Unmoved(<<"prev", "mjpeg">>)
        /\ Unmoved(<<"prev", "frame">>)
    BY <2>5, SlotNames
  <2> QED BY <1>1, <2>1, <2>3, <2>6, <2>7, <2>8, OrderStays DEF CaptureUnmoved
<1> QED BY <1>2, <1>3, <1>4, <1>5, <1>6

-----------------------------------------------------------------------------
(* Steps of the capture thread.                                            *)

\* The capture thread that runs is the only one to have frames.
Mine(k) == {hold[<<k, "frame">>], hold[<<k, "callback">>]} \ {NULL}

\* The frames presented are those of the one capture thread,
LEMMA PresentedByOne ==
    ASSUME IInv, StopInv, NEW k \in CapThreads, cap[k] # "none"
    PROVE  Presented = IF cap[k] = "recycle" THEN {} ELSE Mine(k)
<1>1. \A j \in CapThreads : j # k => cap[j] = "none" BY DEF StopInv, OneCapture
<1>2. \A j \in CapThreads : j # k => hold[<<j, "frame">>] = NULL /\ hold[<<j, "callback">>] = NULL
  BY <1>1 DEF IInv, LocalFrames
<1>3. \A j \in CapThreads, x \in {"frame", "callback"} :
         cap[j] # "recycle" /\ hold[<<j, x>>] # NULL =>
            j = k /\ hold[<<j, x>>] \in {hold[<<k, "frame">>], hold[<<k, "callback">>]}
  BY <1>2
<1>4. Presented \subseteq Mine(k)
  <2> SUFFICES ASSUME NEW f \in Presented PROVE f \in Mine(k) OBVIOUS
  <2>1. PICK s \in {j \in CapThreads : cap[j] # "recycle"} \X {"frame", "callback"} :
          f = hold[s] /\ f # NULL
    BY DEF Presented
  <2>2. PICK j \in CapThreads, x \in {"frame", "callback"} : s = <<j, x>> /\ cap[j] # "recycle"
    BY <2>1
  <2> QED BY <1>3, <2>1, <2>2 DEF Mine
<1>5. CASE cap[k] = "recycle"
  <2> SUFFICES ASSUME NEW f \in Presented PROVE FALSE BY <1>5
  <2>1. PICK s \in {j \in CapThreads : cap[j] # "recycle"} \X {"frame", "callback"} :
          f = hold[s] /\ f # NULL
    BY DEF Presented
  <2>2. PICK j \in CapThreads, x \in {"frame", "callback"} : s = <<j, x>> /\ cap[j] # "recycle"
    BY <2>1
  <2> QED BY <1>3, <1>5, <2>1, <2>2
<1>6. CASE cap[k] # "recycle"
  <2>1. /\ <<k, "frame">> \in {j \in CapThreads : cap[j] # "recycle"} \X {"frame", "callback"}
        /\ <<k, "callback">> \in {j \in CapThreads : cap[j] # "recycle"} \X {"frame", "callback"}
    BY <1>6
  <2>2. Mine(k) \subseteq Presented BY <2>1 DEF Presented, Mine
  <2> QED BY <1>4, <1>6, <2>2
<1> QED BY <1>5, <1>6

\* and so after a step.
LEMMA PresentedByOneNext ==
    ASSUME IInv', StopInv', NEW k \in CapThreads, cap'[k] # "none"
    PROVE  Presented' = IF cap'[k] = "recycle" THEN {} ELSE Mine(k)'
<1>1. \A j \in CapThreads : j # k => cap'[j] = "none" BY DEF StopInv, OneCapture
<1>2. \A j \in CapThreads :
         j # k => hold'[<<j, "frame">>] = NULL /\ hold'[<<j, "callback">>] = NULL
  BY <1>1 DEF IInv, LocalFrames
<1>3. \A j \in CapThreads, x \in {"frame", "callback"} :
         cap'[j] # "recycle" /\ hold'[<<j, x>>] # NULL =>
            j = k /\ hold'[<<j, x>>] \in {hold'[<<k, "frame">>], hold'[<<k, "callback">>]}
  BY <1>2
<1>4. Presented' \subseteq Mine(k)'
  <2> SUFFICES ASSUME NEW f \in Presented' PROVE f \in Mine(k)' OBVIOUS
  <2>1. PICK s \in {j \in CapThreads : cap'[j] # "recycle"} \X {"frame", "callback"} :
          f = hold'[s] /\ f # NULL
    BY DEF Presented
  <2>2. PICK j \in CapThreads, x \in {"frame", "callback"} : s = <<j, x>> /\ cap'[j] # "recycle"
    BY <2>1
  <2> QED BY <1>3, <2>1, <2>2 DEF Mine
<1>5. CASE cap'[k] = "recycle"
  <2> SUFFICES ASSUME NEW f \in Presented' PROVE FALSE BY <1>5
  <2>1. PICK s \in {j \in CapThreads : cap'[j] # "recycle"} \X {"frame", "callback"} :
          f = hold'[s] /\ f # NULL
    BY DEF Presented
  <2>2. PICK j \in CapThreads, x \in {"frame", "callback"} : s = <<j, x>> /\ cap'[j] # "recycle"
    BY <2>1
  <2> QED BY <1>3, <1>5, <2>1, <2>2
<1>6. CASE cap'[k] # "recycle"
  <2>1. /\ <<k, "frame">> \in {j \in CapThreads : cap'[j] # "recycle"} \X {"frame", "callback"}
        /\ <<k, "callback">> \in {j \in CapThreads : cap'[j] # "recycle"} \X {"frame", "callback"}
    BY <1>6
  <2>2. Mine(k)' \subseteq Presented' BY <2>1 DEF Presented, Mine
  <2> QED BY <1>4, <1>6, <2>2
<1> QED BY <1>5, <1>6

\* What changes with the local variables of a capture thread alone.
LEMMA PreviewSideUnmoved ==
    ASSUME Heap, NEW k \in CapThreads,
           \A s \in Slots : hold'[s] = hold[s] \/ s \in {<<k, "frame">>, <<k, "callback">>,
                                                        <<k, "converted">>}
    PROVE  UNCHANGED <<Copied, Previewed>>
<1>1. \A s \in {<<"usb", "copy">>, <<"prev", "mjpeg">>, <<"prev", "frame">>} :
         s \notin {<<k, "frame">>, <<k, "callback">>, <<k, "converted">>}
  BY PreviewAssumption
<1> QED BY <1>1, SlotNames DEF Copied, Previewed

\* The capture thread takes the latest frame, and has no other.
LEMMA OrderOfTakeCapture ==
    ASSUME IInv, IInv', StopInv, StopInv', OrderInv, NEW k \in CapThreads, CaptureStep(k),
           WaitCaptureFrame(k), hold' # hold
    PROVE  OrderInv'
<1>1. StopTypes /\ Heap /\ Heap' /\ LocalFrames BY StopTyped DEF IInv
<1>2. UNCHANGED <<delivered, sessionStart, captured, previewFrames, stamp>>
  BY DEF WaitCaptureFrame, CaptureStep, CaptureRest, streamVars, frameVars
<1>3. /\ cap[k] \in {"wait", "woken"} /\ cap'[k] \in {"surface", "callback"}
      /\ hold' = [hold EXCEPT ![<<k, "frame">>] = captureQueu]
      /\ captureQueu # NULL /\ captureQueu' = NULL
  BY <1>1 DEF WaitCaptureFrame, TakeCaptureFrame, CapGoto, StopTypes
<1>4. hold[<<k, "frame">>] = NULL /\ hold[<<k, "callback">>] = NULL
  BY <1>1, <1>3 DEF LocalFrames
<1>5. hold'[<<k, "frame">>] = captureQueu /\ hold'[<<k, "callback">>] = NULL
  BY <1>1, <1>3, <1>4, SlotNames DEF Heap, OwnerType
<1>6. Presented = {} BY <1>3, <1>4, PresentedByOne DEF Mine
<1>7. Presented' = {captureQueu} BY <1>3, <1>5, PresentedByOneNext DEF Mine
<1>8. Waiting = {captureQueu} /\ Waiting' = {} BY <1>3 DEF Waiting
<1>9. UNCHANGED <<Copied, Previewed>>
  <2>1. \A s \in Slots : hold'[s] = hold[s] \/ s = <<k, "frame">>
    BY <1>1, <1>3 DEF Heap, OwnerType
  <2> QED BY <1>1, <2>1, PreviewSideUnmoved
<1>10. Queued' = Queued BY <1>2 DEF Queued, QueuedFrames
<1>11. OnTheWay' = OnTheWay BY <1>6, <1>7, <1>8, <1>9, <1>10 DEF OnTheWay
<1>12. InSession' BY <1>2, <1>11 DEF OrderInv, InSession
<1>13. Precede(Queued, Copied)' /\ Precede(Previewed, Copied \cup Queued)'
  BY <1>2, <1>9, <1>10 DEF OrderInv, Chained, Precede
<1>14. Precede(Waiting, Copied \cup Queued \cup Previewed)' BY <1>8 DEF Precede
<1>15. Precede(Presented, Copied \cup Queued \cup Previewed \cup Waiting)'
  BY <1>2, <1>7, <1>8, <1>9, <1>10 DEF OrderInv, Chained, Precede
<1>16. (\A i, j \in DOMAIN previewFrames :
          i < j => stamp[previewFrames[i]] < stamp[previewFrames[j]])'
  BY <1>2 DEF OrderInv, Chained
<1> QED BY <1>12, <1>13, <1>14, <1>15, <1>16 DEF OrderInv, Chained

\* The converted picture has the stamp of its frame, which it then replaces.
LEMMA OrderOfConversion ==
    ASSUME IInv, IInv', StopInv, StopInv', OrderInv, NEW k \in CapThreads, CaptureStep(k),
           BeginCallback(k) \/ ConvertForCallback(k)
    PROVE  OrderInv'
<1>1. StopTypes /\ Heap /\ Heap' /\ LocalFrames BY StopTyped DEF IInv
<1>2. UNCHANGED <<delivered, sessionStart, captured, captureQueu, previewFrames>>
  BY DEF BeginCallback, ConvertForCallback, CaptureStep, CaptureRest, streamVars, queueVars
<1> DEFINE f == hold[<<k, "frame">>]
<1>3. /\ cap[k] \in {"callback", "convert"} /\ f # NULL
      /\ cap'[k] \in {"recycle", "convert", "call"}
  BY <1>1 DEF BeginCallback, ConvertForCallback, CapGoto, LocalFrames, StopTypes
<1>4. Presented = Mine(k) /\ Presented' \subseteq Mine(k)'
  BY <1>3, PresentedByOne, PresentedByOneNext
<1>5. /\ StampsKept
      /\ \A s \in Slots : hold'[s] = hold[s] \/ s \in {<<k, "frame">>, <<k, "callback">>}
      /\ \A g \in Presented' : \E h \in Mine(k) : stamp'[g] = stamp[h]
  <2>1. CASE BeginCallback(k) /\ mFrameCallbackObj # NULL /\ mFrameCallbackFunc
    <3>1. GetFrame(<<k, "callback">>, stamp[f])
      BY <2>1 DEF BeginCallback
    <3>2. /\ hold' = [hold EXCEPT ![<<k, "callback">>] = NextFrame]
          /\ hold'[<<k, "callback">>] = NextFrame /\ hold'[<<k, "frame">>] = f
      BY <1>1, <3>1, SlotNames DEF GetFrame, Heap, OwnerType
    <3>3. StampsKept BY <1>1, <3>1, GetKeepsStamps
    <3>4. NextFrame # NULL => NextFrame \in Frames /\ stamp'[NextFrame] = stamp[f]
      BY <1>1, <3>1, NextFrameCases DEF GetFrame, Heap, PoolType
    <3>5. f \in Owned /\ f \in Owned' BY <1>3, <3>2, SlotNames DEF Owned
    <3>6. stamp'[f] = stamp[f] BY <3>3, <3>5 DEF StampsKept
    <3>7. f \in Mine(k) BY <1>3 DEF Mine
    <3>8. \A g \in Mine(k)' : \E h \in Mine(k) : stamp'[g] = stamp[h]
      BY <3>2, <3>4, <3>6, <3>7 DEF Mine
    <3>9. \A s \in Slots : hold'[s] = hold[s] \/ s = <<k, "callback">>
      BY <1>1, <3>2 DEF Heap, OwnerType
    <3> QED BY <1>4, <3>3, <3>8, <3>9
  <2>2. CASE BeginCallback(k) /\ ~(mFrameCallbackObj # NULL /\ mFrameCallbackFunc)
    <3>1. UNCHANGED <<hold, stamp>> BY <2>2 DEF BeginCallback, frameVars
    <3> QED BY <1>4, <3>1, SameStamps DEF Mine
  <2>3. CASE ConvertForCallback(k)
    <3>1. /\ Recycle({f})
          /\ hold' = [hold EXCEPT ![<<k, "frame">>] = hold[<<k, "callback">>],
                                  ![<<k, "callback">>] = NULL]
      BY <2>3 DEF ConvertForCallback
    <3>2. StampsKept BY <1>1, <3>1, RecycleKeepsStamps
    <3>3. /\ hold'[<<k, "frame">>] = hold[<<k, "callback">>]
          /\ hold'[<<k, "callback">>] = NULL
          /\ \A s \in Slots : hold'[s] = hold[s] \/ s \in {<<k, "frame">>, <<k, "callback">>}
      BY <1>1, <3>1, SlotNames DEF Heap, OwnerType
    <3>4. Mine(k)' \subseteq Mine(k) BY <3>3 DEF Mine
    <3>5. \A g \in Presented' : g \in OnTheWay /\ g \in OnTheWay'
      BY <1>4, <3>4 DEF OnTheWay
    <3>6. \A g \in Presented' : stamp'[g] = stamp[g]
      BY <3>2, <3>5, OnTheWayOwned, OnTheWayOwnedNext DEF StampsKept
    <3> QED BY <1>4, <3>2, <3>3, <3>4, <3>6
  <2> QED BY <2>1, <2>2, <2>3
<1>6. UNCHANGED <<Copied, Previewed, Waiting>>
  BY <1>1, <1>2, <1>5, PreviewSideUnmoved DEF Waiting
<1>7. \A g \in Copied' \cup Previewed' \cup Waiting' : stamp'[g] = stamp[g]
  BY <1>5, <1>6, OnTheWayOwned, OnTheWayOwnedNext DEF OnTheWay, StampsKept
<1> QED BY <1>1, <1>2, <1>4, <1>5, <1>6, <1>7, OrderShrinks

\* onFrame gets a frame newer than all it has seen, and is done with it.
LEMMA NewToOnFrame ==
    ASSUME IInv, StopInv, OrderInv, NEW k \in CapThreads, CallOnFrame(k)
    PROVE  /\ hold[<<k, "frame">>] \in Presented
           /\ delivered' = stamp[hold[<<k, "frame">>]]
           /\ delivered' > delivered /\ delivered' > sessionStart /\ delivered' <= captured
<1>1. cap[k] = "call" /\ delivered' = stamp[hold[<<k, "frame">>]]
  BY DEF CallOnFrame, CapGoto
<1>2. hold[<<k, "frame">>] # NULL BY <1>1 DEF IInv, LocalFrames
<1>3. hold[<<k, "frame">>] \in Presented BY <1>1, <1>2, PresentedByOne DEF Mine
<1>4. /\ hold[<<k, "frame">>] \in OnTheWay
      /\ stamp[hold[<<k, "frame">>]] \in Int /\ delivered \in Int /\ sessionStart \in Int
  BY <1>3, StampedOnTheWay, PreviewAssumption DEF OnTheWay, IInv, ControlType
<1> QED BY <1>1, <1>3, <1>4 DEF OrderInv, InSession

\* onFrame sees the oldest frame on the way, the capture thread's own.
LEMMA OrderOfCall ==
    ASSUME IInv, IInv', StopInv, StopInv', OrderInv, NEW k \in CapThreads, CaptureStep(k),
           CallOnFrame(k)
    PROVE  OrderInv'
<1>1. StopTypes /\ Heap BY StopTyped DEF IInv
<1>2. /\ UNCHANGED <<sessionStart, captured, captureQueu, previewFrames, stamp, hold>>
      /\ cap'[k] = "recycle"
  BY <1>1 DEF CallOnFrame, CaptureStep, CaptureRest, CapGoto, streamVars, queueVars, frameVars,
              StopTypes
<1>3. /\ hold[<<k, "frame">>] \in Presented
      /\ delivered' = stamp[hold[<<k, "frame">>]] /\ delivered' <= captured
  BY NewToOnFrame
<1>4. Presented' = {} BY <1>2, PresentedByOneNext
<1>5. UNCHANGED <<Copied, Queued, Previewed, Waiting>>
  BY <1>2 DEF Copied, Queued, QueuedFrames, Previewed, Waiting
<1>6. \A g \in OnTheWay' : g \in OnTheWay /\ delivered' < stamp[g]
  BY <1>3, <1>4, <1>5 DEF OnTheWay, OrderInv, Chained, Precede
<1>7. InSession' BY <1>2, <1>3, <1>6 DEF OrderInv, InSession
<1>8. Chained' BY <1>2, <1>4, <1>5 DEF OrderInv, Chained, Precede
<1> QED BY <1>7, <1>8 DEF OrderInv

\* The capture thread keeps the order.
LEMMA OrderOfCapture ==
    ASSUME IInv, IInv', StopInv, StopInv', OrderInv, NEW k \in CapThreads, CaptureStep(k)
    PROVE  OrderInv'
<1>1. StopTypes /\ ControlType /\ Heap /\ Heap' /\ LocalFrames /\ LocalFrames'
  BY StopTyped DEF IInv
<1>2. CASE WaitCaptureFrame(k) /\ hold' # hold BY <1>2, OrderOfTakeCapture
<1>3. CASE BeginCallback(k) \/ ConvertForCallback(k) BY <1>3, OrderOfConversion
<1>4. CASE CallOnFrame(k) BY <1>4, OrderOfCall
<1>5. CASE /\ ~(WaitCaptureFrame(k) /\ hold' # hold)
           /\ ~BeginCallback(k) /\ ~ConvertForCallback(k) /\ ~CallOnFrame(k)
  <2>1. /\ UNCHANGED <<delivered, captured, sessionStart, previewFrames>>
        /\ captureQueu' \in {captureQueu, NULL}
    BY <1>5
    DEF CaptureStep, CaptureRest, ClearBeforeCapture, CaptureOuter, MarkCapturing,
        CaptureBranch, CaptureLoop, WaitCaptureFrame, TakeCaptureFrame, ConvertForSurface,
        CopyToSurface, RecycleCallbackFrame, LeaveSurface, ReleaseSurface, ForgetSurface,
        BroadcastCapture, ClearCaptureFrame, queueVars, streamVars
  <2>2. \/ UNCHANGED stamp
        \/ \E Q : Recycle(Q)
        \/ GetFrame(<<k, "converted">>, 0)
    BY <1>5
    DEF CaptureStep, ClearBeforeCapture, CaptureOuter, MarkCapturing, CaptureBranch,
        CaptureLoop, WaitCaptureFrame, ConvertForSurface, CopyToSurface,
        RecycleCallbackFrame, RecycleSlot, LeaveSurface, ReleaseSurface, ForgetSurface,
        BroadcastCapture, ClearCaptureFrame, frameVars
  <2>3. StampsKept BY <1>1, <2>2, SameStamps, RecycleKeepsStamps, GetKeepsStamps
  <2>4. \/ UNCHANGED hold
        \/ \E s \in Slots : hold' = [hold EXCEPT ![s] = NULL]
        \/ \E x : hold' = [hold EXCEPT ![<<k, "converted">>] = x]
    BY <1>5, SlotNames
    DEF CaptureStep, ClearBeforeCapture, CaptureOuter, MarkCapturing, CaptureBranch,
        CaptureLoop, WaitCaptureFrame, ConvertForSurface, CopyToSurface, GetFrame,
        RecycleCallbackFrame, RecycleSlot, LeaveSurface, ReleaseSurface, ForgetSurface,
        BroadcastCapture
  <2>5. \A s \in Slots : s # <<k, "converted">> => Unmoved(s)
    BY <1>1, <2>4 DEF Unmoved, Heap, OwnerType
  <2>6. /\ Unmoved(<<"usb", "copy">>) /\ Unmoved(<<"prev", "mjpeg">>)
        /\ Unmoved(<<"prev", "frame">>)
    BY <2>5, SlotNames, PreviewAssumption
  <2>7. \A j \in CapThreads : Unmoved(<<j, "frame">>) /\ Unmoved(<<j, "callback">>)
    BY <2>5, SlotNames
  <2>8. ASSUME NEW j \in CapThreads, cap[j] = "recycle"
        PROVE  \/ cap'[j] = "recycle"
               \/ hold'[<<j, "frame">>] = NULL /\ hold'[<<j, "callback">>] = NULL
    <3>1. CASE j # k
      <4>1. \/ \E x, y \in CapturePlaces : CapGoto(k, x, y)
            \/ cap' = [CapAfter(CaptureWaiters) EXCEPT ![k] = "outer"]
        BY <1>5
        DEF CaptureStep, ClearBeforeCapture, CaptureOuter, MarkCapturing, CaptureBranch,
            CaptureLoop, WaitCaptureFrame, TakeCaptureFrame, ConvertForSurface,
            CopyToSurface, RecycleCallbackFrame, LeaveSurface, ReleaseSurface,
            ForgetSurface, BroadcastCapture, CapturePlaces
      <4>2. CapAfter(CaptureWaiters)[j] = "recycle"
        BY <1>1, <2>8, WokenFromWait
      <4>3. CASE cap' = [CapAfter(CaptureWaiters) EXCEPT ![k] = "outer"]
        <5>1. cap'[j] = CapAfter(CaptureWaiters)[j] BY <3>1, <4>3 DEF CapAfter
        <5> QED BY <4>2, <5>1
      <4>4. CASE \E x, y \in CapturePlaces : CapGoto(k, x, y)
        BY <1>1, <2>8, <3>1, <4>4 DEF CapGoto, StopTypes
      <4> QED BY <4>1, <4>3, <4>4
    <3>2. CASE j = k
      <4>1. RecycleCallbackFrame(k)
        BY <1>5, <2>8, <3>2
        DEF CaptureStep, ClearBeforeCapture, CaptureOuter, MarkCapturing, CaptureBranch,
            CaptureLoop, WaitCaptureFrame, TakeCaptureFrame, ConvertForSurface,
            CopyToSurface, LeaveSurface, ReleaseSurface, ForgetSurface, BroadcastCapture,
            CapGoto
      <4>2. cap'[k] = "loop" BY <1>1, <4>1 DEF RecycleCallbackFrame, CapGoto, StopTypes
      <4> QED BY <1>1, <3>2, <4>2 DEF LocalFrames
    <3> QED BY <3>1, <3>2
  <2> QED BY <1>1, <2>1, <2>3, <2>6, <2>7, <2>8, OrderStays DEF CaptureUnmoved
<1> QED BY <1>2, <1>3, <1>4, <1>5

\* A spurious wakeup moves no frame.
LEMMA OrderOfWakeup ==
    ASSUME IInv, IInv', OrderInv, SpuriousWakeup
    PROVE  OrderInv'
<1>1. StopTypes /\ Heap /\ Heap' BY StopTyped DEF IInv
<1>2. UNCHANGED <<delivered, captured, sessionStart, captureQueu, previewFrames, hold, stamp>>
  BY DEF SpuriousWakeup, streamVars, queueVars, frameVars
<1>3. \A k \in CapThreads : cap[k] = "recycle" => cap'[k] = "recycle"
  BY <1>1, WokenRecycle DEF SpuriousWakeup
<1> QED BY <1>1, <1>2, <1>3, SameStamps, OrderStays DEF Unmoved, CaptureUnmoved

\* Every step keeps OrderInv.
LEMMA OrderStep ==
    IInv /\ IInv' /\ StopInv /\ StopInv' /\ OrderInv /\ [Next]_vars => OrderInv'
<1> SUFFICES ASSUME IInv, IInv', StopInv, StopInv', OrderInv, [Next]_vars PROVE OrderInv'
  OBVIOUS
<1>1. CASE Next
  BY <1>1, OrderOfClient, OrderOfArrival, OrderOfUsb, OrderOfPreview, OrderOfCapture,
     OrderOfWakeup
  DEF Next
<1>2. CASE UNCHANGED vars
  <2>1. UNCHANGED <<delivered, captured, sessionStart, captureQueu, previewFrames, hold, stamp,
                    cap>>
    BY <1>2 DEF vars, streamVars, queueVars, frameVars, capVars
  <2> QED BY <2>1, SameStamps, OrderStays DEF Unmoved, CaptureUnmoved, IInv
<1> QED BY <1>1, <1>2

-----------------------------------------------------------------------------
(* The theorems.                                                           *)

\* OrderInv holds in every reachable state, if no session is stopped before it
\* has started.
THEOREM OrderInductive == ASSUME ~EarlyStop PROVE Spec => []OrderInv
<1>1. IInv /\ [Next]_vars => IInv'
  BY TypeStep, HeapStep, LocalStep, MonitorStep, ArgumentStep DEF IInv
<1>2. IInv /\ StopInv /\ [Next]_vars => StopInv' BY StopStep
<1> QED
  BY <1>1, <1>2, InitIInv, StopInit, OrderInit, OrderStep, PTL DEF Spec

\* Each call of onFrame gets a frame newer than all the calls before it, whatever
\* frames the two queues drop: no frame passed to the engine is shown twice.
THEOREM DeliveredInOrderHolds == ASSUME ~EarlyStop PROVE Spec => DeliveredInOrder
<1>1. IInv /\ StopInv /\ OrderInv /\ [Next]_vars
        => [\A k \in CapThreads : CallOnFrame(k) => delivered' > delivered]_vars
  BY NewToOnFrame
<1> QED BY <1>1, StopInductive, OrderInductive, PTL DEF Spec, DeliveredInOrder

\* No call of onFrame gets a frame of an earlier session.
THEOREM DeliveredThisSessionHolds == ASSUME ~EarlyStop PROVE Spec => DeliveredThisSession
<1>1. IInv /\ StopInv /\ OrderInv /\ [Next]_vars
        => [\A k \in CapThreads : CallOnFrame(k) => delivered' > sessionStart]_vars
  BY NewToOnFrame
<1> QED BY <1>1, StopInductive, OrderInductive, PTL DEF Spec, DeliveredThisSession

=============================================================================
