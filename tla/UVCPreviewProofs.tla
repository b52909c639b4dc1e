-------------------------- MODULE UVCPreviewProofs --------------------------
(***************************************************************************)
(* Proofs that the preview engine conserves its frame buffers: for any     *)
(* number of application threads, capture threads, buffers and calls, with *)
(* every call at any moment, no buffer is shared and none leaks.           *)
(*                                                                         *)
(* The heap is seen as two sets: the free frames of mFramePool and the     *)
(* frames Owned by a thread or a queue.  Every step moves frames between   *)
(* owners, takes one from the pool (GetFrame) or gives some back (Recycle).*)
(***************************************************************************)
EXTENDS UVCPreviewProps, TLAPS

-----------------------------------------------------------------------------
(* The heap.                                                               *)

\* The frames that a thread or a queue owns.
Owned == QueuedFrames \cup (({captureQueu} \cup {hold[s] : s \in Slots}) \ {NULL})

\* No frame has two owners.
Distinct ==
    /\ \A s, t \in Slots : s # t /\ hold[s] # NULL => hold[s] # hold[t]
    /\ \A s \in Slots : hold[s] # NULL =>
          hold[s] \notin QueuedFrames /\ hold[s] # captureQueu
    /\ captureQueu \notin QueuedFrames
    /\ \A i, j \in DOMAIN previewFrames : i # j => previewFrames[i] # previewFrames[j]

\* The types of the owners of frames, and of the pool.
OwnerType ==
    /\ previewFrames \in Seq(Frames)
    /\ captureQueu \in Frames \cup {NULL}
    /\ hold \in [Slots -> Frames \cup {NULL}]
PoolType ==
    /\ mFramePool \subseteq Frames /\ live \subseteq Frames
    /\ stamp \in [Frames -> 0..MaxStamp]

\* The heap is partitioned into the pool and the owned frames.
Heap ==
    /\ OwnerType /\ PoolType /\ Distinct
    /\ mFramePool \cap Owned = {}
    /\ live = mFramePool \cup Owned

\* A NULL pointer is no frame.
LEMMA NullNoFrame == NULL \notin Frames
BY PreviewAssumption

\* Heap says what FramesExclusive and NoFrameLeak say.
LEMMA HeapMeaning ==
    ASSUME OwnerType, PoolType
    PROVE  Heap <=> FramesExclusive /\ NoFrameLeak
<1>1. NULL \notin QueuedFrames /\ NULL \notin mFramePool
  BY NullNoFrame DEF OwnerType, PoolType, QueuedFrames
<1>2. Heap => FramesExclusive /\ NoFrameLeak
  BY <1>1 DEF Heap, Distinct, FramesExclusive, NoFrameLeak, Owned
<1>3. FramesExclusive /\ NoFrameLeak => Heap
  BY <1>1 DEF Heap, Distinct, FramesExclusive, NoFrameLeak, Owned
<1> QED
  BY <1>2, <1>3

\* get_frame returns a free frame, a new one, or NULL.
LEMMA NextFrameCases ==
    ASSUME Heap
    PROVE  \/ NextFrame \in mFramePool
           \/ NextFrame \in Frames \ live
           \/ NextFrame = NULL
<1>1. CASE mFramePool # {}
  BY <1>1 DEF NextFrame
<1>2. CASE mFramePool = {} /\ live # Frames
  BY <1>2 DEF NextFrame, Heap, PoolType
<1>3. CASE mFramePool = {} /\ live = Frames
  BY <1>3 DEF NextFrame
<1> QED
  BY <1>1, <1>2, <1>3

\* get_frame into a local variable that holds no frame keeps the heap.
LEMMA GetFrameHeap ==
    ASSUME Heap, NEW s \in Slots, NEW n \in 0..MaxStamp, hold[s] = NULL,
           GetFrame(s, n), UNCHANGED queueVars
    PROVE  Heap'
<1> DEFINE f == NextFrame
<1>1. f \in Frames \cup {NULL} /\ f \notin Owned
  BY NextFrameCases, NullNoFrame DEF Heap, PoolType, OwnerType, Owned, QueuedFrames
<1>2. hold' = [hold EXCEPT ![s] = f] /\ hold'[s] = f
  BY DEF GetFrame, Heap, OwnerType
<1>3. \A t \in Slots : t # s => hold'[t] = hold[t]
  BY <1>2 DEF Heap, OwnerType
<1>4. previewFrames' = previewFrames /\ captureQueu' = captureQueu
      /\ QueuedFrames' = QueuedFrames
  BY DEF queueVars, QueuedFrames
<1>5. OwnerType'
  BY <1>1, <1>2, <1>4 DEF Heap, OwnerType
<1>6. PoolType'
  BY <1>1 DEF GetFrame, Heap, PoolType
<1>7. f # NULL => f \notin QueuedFrames /\ f # captureQueu /\ \A t \in Slots : f # hold[t]
  BY <1>1 DEF Owned
<1>8. Distinct'
  BY <1>2, <1>3, <1>4, <1>7 DEF Heap, Distinct
<1>9. Owned' = Owned \cup ({f} \ {NULL})
  BY <1>2, <1>3, <1>4 DEF Owned
<1>10. mFramePool' = mFramePool \ {f} /\ live' = live \cup ({f} \ {NULL})
  BY DEF GetFrame
<1>11. mFramePool' \cap Owned' = {}
  BY <1>1, <1>9, <1>10, NullNoFrame DEF Heap, PoolType
<1>12. live' = mFramePool' \cup Owned'
  BY <1>9, <1>10, NullNoFrame, NextFrameCases DEF Heap, PoolType
<1> QED
  BY <1>5, <1>6, <1>8, <1>11, <1>12 DEF Heap

\* recycle_frame moves some of the frames to the pool and frees the others.
LEMMA RecycleKept ==
    ASSUME NEW Q, Recycle(Q)
    PROVE  \E kept \in SUBSET (Q \ {NULL}) :
             /\ mFramePool' = mFramePool \cup kept
             /\ live' = live \ ((Q \ {NULL}) \ kept)
             /\ stamp' = [f \in Frames |-> IF f \in Q \ {NULL} THEN 0 ELSE stamp[f]]
BY DEF Recycle

\* A step that recycles the frames of Q keeps the heap when Q is exactly what
\* the owners give up.
LEMMA RecycleHeap ==
    ASSUME Heap, NEW Q \in SUBSET (Frames \cup {NULL}), Recycle(Q),
           OwnerType', Distinct',
           Q \ {NULL} \subseteq Owned, Owned' = Owned \ Q
    PROVE  Heap'
<1>1. PICK kept \in SUBSET (Q \ {NULL}) :
         /\ mFramePool' = mFramePool \cup kept
         /\ live' = live \ ((Q \ {NULL}) \ kept)
         /\ stamp' = [f \in Frames |-> IF f \in Q \ {NULL} THEN 0 ELSE stamp[f]]
  BY RecycleKept
<1>2. stamp' \in [Frames -> 0..MaxStamp]
  BY <1>1, PreviewAssumption DEF Heap, PoolType
<1>3. PoolType'
  BY <1>1, <1>2 DEF Heap, PoolType
<1>4. NULL \notin Owned
  BY NullNoFrame DEF Heap, OwnerType, Owned, QueuedFrames
<1>5. mFramePool' \cap Owned' = {} /\ live' = mFramePool' \cup Owned'
  BY <1>1, <1>4 DEF Heap
<1> QED
  BY <1>3, <1>5 DEF Heap

-----------------------------------------------------------------------------
(* The ways the code moves a frame from owner to owner.                    *)

\* recycle_frame of a local variable.
LEMMA RecycleSlotHeap ==
    ASSUME Heap, NEW s \in Slots, RecycleSlot(s), UNCHANGED queueVars
    PROVE  Heap'
<1>1. hold' = [hold EXCEPT ![s] = NULL] /\ hold'[s] = NULL
  BY DEF RecycleSlot, Heap, OwnerType
<1>2. \A t \in Slots : t # s => hold'[t] = hold[t]
  BY <1>1 DEF Heap, OwnerType
<1>3. previewFrames' = previewFrames /\ captureQueu' = captureQueu
      /\ QueuedFrames' = QueuedFrames
  BY DEF queueVars, QueuedFrames
<1>4. OwnerType' /\ Distinct'
  BY <1>1, <1>2, <1>3 DEF Heap, OwnerType, Distinct
<1>5. {hold[s]} \ {NULL} \subseteq Owned /\ {hold[s]} \subseteq Frames \cup {NULL}
  BY DEF Heap, OwnerType, Owned
<1>6. Owned' = Owned \ {hold[s]}
  BY <1>1, <1>2, <1>3, NullNoFrame DEF Heap, OwnerType, Distinct, Owned, QueuedFrames
<1> QED
  BY <1>4, <1>5, <1>6, RecycleHeap DEF RecycleSlot

\* recycle_frame of two local variables.
LEMMA RecycleTwoHeap ==
    ASSUME Heap, NEW s \in Slots, NEW t \in Slots, s # t,
           Recycle({hold[s], hold[t]}),
           hold' = [hold EXCEPT ![s] = NULL, ![t] = NULL], UNCHANGED queueVars
    PROVE  Heap'
<1>1. hold'[s] = NULL /\ hold'[t] = NULL
  BY DEF Heap, OwnerType
<1>2. \A u \in Slots \ {s, t} : hold'[u] = hold[u]
  BY DEF Heap, OwnerType
<1>3. previewFrames' = previewFrames /\ captureQueu' = captureQueu
      /\ QueuedFrames' = QueuedFrames
  BY DEF queueVars, QueuedFrames
<1>4. OwnerType' /\ Distinct'
  BY <1>1, <1>2, <1>3 DEF Heap, OwnerType, Distinct
<1>5. {hold[s], hold[t]} \ {NULL} \subseteq Owned
      /\ {hold[s], hold[t]} \subseteq Frames \cup {NULL}
  BY DEF Heap, OwnerType, Owned
<1>6. Owned' = Owned \ {hold[s], hold[t]}
  BY <1>1, <1>2, <1>3, NullNoFrame DEF Heap, OwnerType, Distinct, Owned, QueuedFrames
<1> QED
  BY <1>4, <1>5, <1>6, RecycleHeap

\* recycle_frame of one local variable, into which another one's frame moves.
LEMMA RecycleReplaceHeap ==
    ASSUME Heap, NEW s \in Slots, NEW t \in Slots, s # t, Recycle({hold[s]}),
           hold' = [hold EXCEPT ![s] = hold[t], ![t] = NULL], UNCHANGED queueVars
    PROVE  Heap'
<1>1. hold'[s] = hold[t] /\ hold'[t] = NULL
  BY DEF Heap, OwnerType
<1>2. \A u \in Slots \ {s, t} : hold'[u] = hold[u]
  BY DEF Heap, OwnerType
<1>3. previewFrames' = previewFrames /\ captureQueu' = captureQueu
      /\ QueuedFrames' = QueuedFrames
  BY DEF queueVars, QueuedFrames
<1>4. OwnerType' /\ Distinct'
  BY <1>1, <1>2, <1>3 DEF Heap, OwnerType, Distinct
<1>5. {hold[s]} \ {NULL} \subseteq Owned /\ {hold[s]} \subseteq Frames \cup {NULL}
  BY DEF Heap, OwnerType, Owned
<1>6. Owned' = Owned \ {hold[s]}
  BY <1>1, <1>2, <1>3, NullNoFrame DEF Heap, OwnerType, Distinct, Owned, QueuedFrames
<1> QED
  BY <1>4, <1>5, <1>6, RecycleHeap

\* clearPreviewFrame and clearCaptureFrame.
LEMMA ClearPreviewHeap ==
    ASSUME Heap, ClearPreviewFrame, hold' = hold
    PROVE  Heap'
<1>1. previewFrames' = <<>> /\ captureQueu' = captureQueu /\ QueuedFrames' = {}
  BY DEF ClearPreviewFrame, QueuedFrames
<1>2. OwnerType' /\ Distinct'
  BY <1>1 DEF Heap, OwnerType, Distinct
<1>3. QueuedFrames \ {NULL} \subseteq Owned /\ QueuedFrames \subseteq Frames \cup {NULL}
  BY DEF Heap, OwnerType, Owned, QueuedFrames
<1>4. Owned' = Owned \ QueuedFrames
  BY <1>1 DEF Heap, Distinct, Owned
<1> QED
  BY <1>2, <1>3, <1>4, RecycleHeap DEF ClearPreviewFrame, QueuedFrames

\* clearCaptureFrame recycles the frame of the capture slot.
LEMMA ClearCaptureHeap ==
    ASSUME Heap, ClearCaptureFrame, hold' = hold
    PROVE  Heap'
<1>1. previewFrames' = previewFrames /\ captureQueu' = NULL /\ QueuedFrames' = QueuedFrames
  BY DEF ClearCaptureFrame, QueuedFrames
<1>2. NULL \notin QueuedFrames
  BY NullNoFrame DEF Heap, OwnerType, QueuedFrames
<1>3. OwnerType' /\ Distinct'
  BY <1>1, <1>2 DEF Heap, OwnerType, Distinct
<1>4. {captureQueu} \ {NULL} \subseteq Owned /\ {captureQueu} \subseteq Frames \cup {NULL}
  BY DEF Heap, OwnerType, Owned
<1>5. Owned' = Owned \ {captureQueu}
  BY <1>1, <1>2 DEF Heap, Distinct, Owned
<1> QED
  BY <1>3, <1>4, <1>5, RecycleHeap DEF ClearCaptureFrame

\* A step that recycles nothing keeps the heap when it only changes owners.
LEMMA MoveHeap ==
    ASSUME Heap, UNCHANGED frameVars, OwnerType', Distinct', Owned' = Owned
    PROVE  Heap'
BY DEF Heap, PoolType, frameVars

\* addPreviewFrame appends the frame of a local variable to the queue.
LEMMA EnqueueHeap ==
    ASSUME Heap, NEW s \in Slots, hold[s] # NULL,
           previewFrames' = Append(previewFrames, hold[s]),
           hold' = [hold EXCEPT ![s] = NULL], UNCHANGED <<frameVars, captureQueu>>
    PROVE  Heap'
<1>1. hold'[s] = NULL /\ \A t \in Slots \ {s} : hold'[t] = hold[t]
  BY DEF Heap, OwnerType
<1>2. hold[s] \in Frames
  BY DEF Heap, OwnerType
<1>3. OwnerType'
  BY <1>2 DEF Heap, OwnerType
<1>4. /\ DOMAIN previewFrames' = DOMAIN previewFrames \cup {Len(previewFrames) + 1}
      /\ \A i \in DOMAIN previewFrames : previewFrames'[i] = previewFrames[i]
      /\ previewFrames'[Len(previewFrames) + 1] = hold[s]
      /\ Len(previewFrames) + 1 \notin DOMAIN previewFrames
  BY <1>2 DEF Heap, OwnerType
<1>5. QueuedFrames' = QueuedFrames \cup {hold[s]}
  BY <1>4 DEF QueuedFrames
<1>6. hold[s] \notin QueuedFrames /\ hold[s] # captureQueu
  BY DEF Heap, Distinct
<1>7. \A i \in DOMAIN previewFrames : previewFrames[i] # hold[s]
  BY <1>6 DEF QueuedFrames
<1>8. \A i, j \in DOMAIN previewFrames' : i # j => previewFrames'[i] # previewFrames'[j]
  BY <1>4, <1>7 DEF Heap, Distinct
<1>9. Distinct'
  BY <1>1, <1>5, <1>6, <1>8 DEF Heap, Distinct
<1>10. Owned' = Owned
  BY <1>1, <1>2, <1>5, NullNoFrame DEF Owned
<1> QED
  BY <1>3, <1>9, <1>10, MoveHeap DEF frameVars

\* waitPreviewFrame takes the oldest frame of the queue.
LEMMA DequeueHeap ==
    ASSUME Heap, NEW s \in Slots, hold[s] = NULL, previewFrames # <<>>,
           previewFrames' = Tail(previewFrames),
           hold' = [hold EXCEPT ![s] = Head(previewFrames)],
           UNCHANGED <<frameVars, captureQueu>>
    PROVE  Heap'
<1> DEFINE f == Head(previewFrames)
<1>1. hold'[s] = f /\ \A t \in Slots \ {s} : hold'[t] = hold[t]
  BY DEF Heap, OwnerType
<1>2. f \in Frames /\ Len(previewFrames) >= 1 /\ 1 \in DOMAIN previewFrames
      /\ f = previewFrames[1]
  BY DEF Heap, OwnerType
<1>3. OwnerType'
  BY <1>2 DEF Heap, OwnerType
<1>4. /\ \A i \in DOMAIN previewFrames' :
            i + 1 \in DOMAIN previewFrames /\ previewFrames'[i] = previewFrames[i + 1]
      /\ \A i \in DOMAIN previewFrames : i # 1 =>
            i - 1 \in DOMAIN previewFrames' /\ previewFrames'[i - 1] = previewFrames[i]
  BY <1>2 DEF Heap, OwnerType
<1>5. \A i, j \in DOMAIN previewFrames' :
         i # j => i + 1 # j + 1 /\ i + 1 # 1
  BY <1>2 DEF Heap, OwnerType
<1>6. \A i, j \in DOMAIN previewFrames' : i # j => previewFrames'[i] # previewFrames'[j]
  BY <1>4, <1>5 DEF Heap, Distinct
<1>7. \A i \in DOMAIN previewFrames' : previewFrames'[i] # f
  <2>1. \A i \in DOMAIN previewFrames' : i + 1 # 1
    BY <1>2 DEF Heap, OwnerType
  <2> QED
    BY <1>2, <1>4, <2>1 DEF Heap, Distinct
<1>8. QueuedFrames = QueuedFrames' \cup {f} /\ f \notin QueuedFrames'
  <2>1. \A x \in QueuedFrames : x = f \/ x \in QueuedFrames'
    <3>1. TAKE x \in QueuedFrames
    <3>2. PICK i \in DOMAIN previewFrames : x = previewFrames[i]
      BY DEF QueuedFrames
    <3> QED
      BY <1>2, <1>4, <3>2 DEF QueuedFrames
  <2>2. \A x \in QueuedFrames' : x \in QueuedFrames /\ x # f
    <3>1. TAKE x \in QueuedFrames'
    <3>2. PICK i \in DOMAIN previewFrames' : x = previewFrames'[i]
      BY DEF QueuedFrames
    <3> QED
      BY <1>4, <1>7, <3>2 DEF QueuedFrames
  <2> QED
    BY <1>2, <2>1, <2>2 DEF QueuedFrames
<1>9. Distinct'
  BY <1>1, <1>6, <1>8 DEF Heap, Distinct
<1>10. Owned' = Owned
  BY <1>1, <1>2, <1>8, NullNoFrame DEF Owned
<1> QED
  BY <1>3, <1>9, <1>10, MoveHeap DEF frameVars

\* addCaptureFrame recycles the frame in the capture queue and replaces it.
LEMMA ReplaceQueuedHeap ==
    ASSUME Heap, NEW s \in Slots, Recycle({captureQueu}),
           captureQueu' = hold[s], hold' = [hold EXCEPT ![s] = NULL],
           UNCHANGED previewFrames
    PROVE  Heap'
<1>1. hold'[s] = NULL /\ \A t \in Slots \ {s} : hold'[t] = hold[t]
  BY DEF Heap, OwnerType
<1>2. QueuedFrames' = QueuedFrames /\ NULL \notin QueuedFrames
  BY NullNoFrame DEF Heap, OwnerType, QueuedFrames
<1>3. OwnerType'
  BY DEF Heap, OwnerType
<1>4. Distinct'
  BY <1>1, <1>2 DEF Heap, Distinct
<1>5. {captureQueu} \ {NULL} \subseteq Owned /\ {captureQueu} \subseteq Frames \cup {NULL}
  BY DEF Heap, OwnerType, Owned
<1>6. Owned' = Owned \ {captureQueu}
  BY <1>1, <1>2 DEF Heap, Distinct, Owned
<1> QED
  BY <1>3, <1>4, <1>5, <1>6, RecycleHeap

\* waitCaptureFrame takes the frame of the capture queue.
LEMMA TakeQueuedHeap ==
    ASSUME Heap, NEW s \in Slots, hold[s] = NULL, captureQueu' = NULL,
           hold' = [hold EXCEPT ![s] = captureQueu],
           UNCHANGED <<frameVars, previewFrames>>
    PROVE  Heap'
<1>1. hold'[s] = captureQueu /\ \A t \in Slots \ {s} : hold'[t] = hold[t]
  BY DEF Heap, OwnerType
<1>2. QueuedFrames' = QueuedFrames /\ NULL \notin QueuedFrames
  BY NullNoFrame DEF Heap, OwnerType, QueuedFrames
<1>3. OwnerType'
  BY DEF Heap, OwnerType
<1>4. Distinct'
  BY <1>1, <1>2 DEF Heap, Distinct
<1>5. Owned' = Owned
  BY <1>1, <1>2 DEF Owned
<1> QED
  BY <1>3, <1>4, <1>5, MoveHeap DEF frameVars

-----------------------------------------------------------------------------
(* The inductive invariant.  MonitorHeld and ArgumentType are needed beside *)
(* the properties themselves: the first says who may still be inside        *)
(* stopPreview while mIsRunning is false, the second which calls carry an   *)
(* argument and of which type.                                              *)

StoppingPlaces == {"stop_signal", "stop_sigcap", "join_cap", "join_prev"}
LockedPlaces == StoppingPlaces
    \cup {"create", "stop_clear", "stop_clearcap", "stop_prevwin", "stop_capwin"}

\* startPreview and stopPreview run inside the monitor of UVCCamera, and the
\* preview thread outlives mIsRunning only until stopPreview has joined it.
MonitorHeld ==
    /\ \A c \in Clients : api[c] \in LockedPlaces => monitor = c
    /\ \A c \in Clients : api[c] = "create" => prev = "none" /\ mIsRunning
    /\ prev = "none" \/ mIsRunning \/ \E c \in Clients : api[c] \in StoppingPlaces

\* What a call has for an argument.
CallbackPlaces == {"cb_enter", "cb_wait", "cb_swap"}
WindowPlaces == {"win_enter", "win_wait", "win_swap"}
ArgumentType ==
    \A c \in Clients :
      /\ api[c] \in CallbackPlaces => arg[c] \in Callbacks \cup {NULL}
      /\ api[c] \in WindowPlaces => arg[c] \in CaptureSurfaces \cup {NULL}
      /\ api[c] \notin CallbackPlaces \cup WindowPlaces => arg[c] = NULL

\* The part of TypeOK that is not about the heap.
ControlType ==
    /\ mIsRunning \in BOOLEAN /\ mIsCapturing \in BOOLEAN
    /\ Len(previewFrames) <= MaxFrame
    /\ mFrameCallbackObj \in Callbacks \cup {NULL} /\ mFrameCallbackFunc \in BOOLEAN
    /\ mPreviewWindow \in PreviewSurfaces \cup {NULL}
    /\ mCaptureWindow \in CaptureSurfaces \cup {NULL}
    /\ winRefs \in [Surfaces -> Int]
    /\ capture_thread \in CapThreads \cup {NULL}
    /\ usb \in {"idle", "add", "drop"} /\ prev \in PreviewPlaces
    /\ cap \in [CapThreads -> CapturePlaces]
    /\ onSurface \in [CapThreads -> BOOLEAN]
    /\ api \in [Clients -> ClientPlaces]
    /\ arg \in [Clients -> Callbacks \cup CaptureSurfaces \cup {NULL}]
    /\ monitor \in Clients \cup {NULL}
    /\ streaming \in BOOLEAN
    /\ captured \in 0..MaxStamp /\ sessionStart \in 0..MaxStamp
    /\ delivered \in 0..MaxStamp /\ calls \in 0..MaxCalls

IInv == ControlType /\ Heap /\ LocalFrames /\ MonitorHeld /\ ArgumentType

\* The inductive invariant gives the invariants of the runs.
LEMMA IInvMeaning ==
    IInv <=> TypeOK /\ FramesExclusive /\ NoFrameLeak /\ LocalFrames
             /\ MonitorHeld /\ ArgumentType
<1>1. ControlType /\ OwnerType /\ PoolType <=> TypeOK
  BY DEF ControlType, OwnerType, PoolType, TypeOK
<1> QED
  BY <1>1, HeapMeaning DEF IInv, Heap

\* The local variables, by name.
LEMMA SlotNames ==
    /\ <<"usb", "copy">> \in Slots
    /\ <<"prev", "mjpeg">> \in Slots /\ <<"prev", "frame">> \in Slots
    /\ <<"prev", "converted">> \in Slots
    /\ \A k \in CapThreads : <<k, "frame">> \in Slots /\ <<k, "callback">> \in Slots
                             /\ <<k, "converted">> \in Slots
BY DEF Slots

\* A step that touches no frame keeps the heap.
LEMMA StutterHeap ==
    ASSUME Heap, UNCHANGED <<frameVars, queueVars, hold>>
    PROVE  Heap'
<1>1. UNCHANGED <<OwnerType, Distinct, Owned>>
  BY DEF OwnerType, Distinct, Owned, QueuedFrames, queueVars
<1> QED
  BY <1>1, MoveHeap DEF Heap

\* Every step of the engine keeps the heap.
LEMMA HeapStep == IInv /\ [Next]_vars => Heap'
<1> SUFFICES ASSUME IInv, [Next]_vars PROVE Heap'
  OBVIOUS
<1> USE SlotNames DEF IInv
<1>1. ASSUME NEW c \in Clients, Call(c) PROVE Heap'
  BY <1>1, StutterHeap DEF Call, ClientRest
<1>2. ASSUME NEW c \in Clients, ClientStep(c) PROVE Heap'
  <2>1. CASE Lifecycle(c) \/ Targets(c)
    BY <1>2, <2>1, StutterHeap DEF ClientStep, Lifecycle, Targets, ClientRest
  <2>2. CASE Clearing(c)
    BY <1>2, <2>2, ClearPreviewHeap, ClearCaptureHeap
    DEF ClientStep, Clearing, StopClearPreview, StopClearCapture, ClientRest
  <2> QED
    BY <1>2, <2>1, <2>2 DEF ClientStep
<1>3. ASSUME FrameCallback, UNCHANGED UsbRest PROVE Heap'
  <2>1. hold[<<"usb", "copy">>] = NULL /\ captured + 1 \in 0..MaxStamp
    BY <1>3, PreviewAssumption DEF FrameCallback, LocalFrames, ControlType
  <2>2. UNCHANGED queueVars
    BY <1>3 DEF FrameCallback, UsbRest, queueVars
  <2> QED
    BY <1>3, <2>1, <2>2, GetFrameHeap, StutterHeap DEF FrameCallback
<1>4. ASSUME UsbStep PROVE Heap'
  <2>1. hold[<<"usb", "copy">>] # NULL /\ captureQueu' = captureQueu
    BY <1>4 DEF UsbStep, AddPreviewFrame, DropPreviewFrame, LocalFrames, UsbRest
  <2>2. CASE AddPreviewFrame /\ PreviewFrameWanted
    BY <2>1, <2>2, EnqueueHeap DEF AddPreviewFrame
  <2>3. CASE AddPreviewFrame /\ ~PreviewFrameWanted
    BY <2>1, <2>3, StutterHeap DEF AddPreviewFrame, queueVars
  <2>4. CASE DropPreviewFrame
    BY <2>1, <2>4, RecycleSlotHeap DEF DropPreviewFrame, queueVars
  <2> QED
    BY <1>4, <2>2, <2>3, <2>4 DEF UsbStep
<1>5. ASSUME PreviewStep PROVE Heap'
  <2>1. CASE StartStreaming \/ CreateCaptureThread \/ PreviewLoop
             \/ SignalCaptureThread \/ StopStreaming
    BY <2>1, StutterHeap DEF StartStreaming, CreateCaptureThread, PreviewLoop,
                             SignalCaptureThread, StopStreaming
  <2>2. CASE ClearAtStart
    BY <2>2, ClearPreviewHeap DEF ClearAtStart
  <2>3. CASE WaitPreviewFrame
    <3>1. CASE UNCHANGED <<hold, previewFrames>>
      BY <2>3, <3>1, StutterHeap DEF WaitPreviewFrame, queueVars
    <3>2. CASE TakePreviewFrame /\ previewFrames # <<>> /\ mIsRunning
      <4> DEFINE s == <<"prev", IF Mjpeg THEN "mjpeg" ELSE "frame">>
      <4>1. prev \in {"wait", "woken"}
        BY <2>3, <3>2 DEF WaitPreviewFrame, PrevGoto
      <4>2. s \in Slots /\ hold[s] = NULL
        BY <4>1 DEF LocalFrames
      <4> QED
        BY <2>3, <3>2, <4>2, DequeueHeap DEF WaitPreviewFrame, TakePreviewFrame
    <3> QED
      BY <2>3, <3>1, <3>2 DEF WaitPreviewFrame, TakePreviewFrame
  <2>4. CASE DecodeFrame
    <3>1. hold[<<"prev", "frame">>] = NULL /\ hold[<<"prev", "mjpeg">>] \in Frames
      BY <2>4 DEF DecodeFrame, PrevGoto, LocalFrames, Heap, OwnerType
    <3>2. stamp[hold[<<"prev", "mjpeg">>]] \in 0..MaxStamp
      BY <3>1 DEF Heap, PoolType
    <3> QED
      BY <2>4, <3>1, <3>2, GetFrameHeap DEF DecodeFrame
  <2>5. CASE RecycleDecoded
    <3>1. <<"prev", "mjpeg">> # <<"prev", "frame">>
      OBVIOUS
    <3> QED
      BY <2>5, <3>1, RecycleSlotHeap, RecycleTwoHeap DEF RecycleDecoded
  <2>6. CASE DrawPreview
    <3>1. hold[<<"prev", "converted">>] = NULL /\ 0 \in 0..MaxStamp
      BY <2>6, PreviewAssumption DEF DrawPreview, LocalFrames
    <3> QED
      BY <2>6, <3>1, GetFrameHeap, StutterHeap DEF DrawPreview
  <2>7. CASE RecycleDrawn
    BY <2>7, RecycleSlotHeap DEF RecycleDrawn
  <2>8. CASE AddCaptureFrame
    <3>1. CASE mIsRunning
      BY <2>8, <3>1, ReplaceQueuedHeap DEF AddCaptureFrame
    <3>2. CASE ~mIsRunning
      BY <2>8, <3>2, RecycleSlotHeap DEF AddCaptureFrame, RecycleSlot, queueVars
    <3> QED
      BY <3>1, <3>2
  <2> QED
    BY <1>5, <2>1, <2>2, <2>3, <2>4, <2>5, <2>6, <2>7, <2>8 DEF PreviewStep
<1>6. ASSUME NEW k \in CapThreads, CaptureStep(k) PROVE Heap'
  <2>1. CASE CaptureOuter(k) \/ MarkCapturing(k) \/ CaptureBranch(k) \/ CaptureLoop(k)
             \/ CopyToSurface(k) \/ CallOnFrame(k) \/ ReleaseSurface(k) \/ ForgetSurface(k)
             \/ BroadcastCapture(k)
    BY <2>1, StutterHeap DEF CaptureOuter, MarkCapturing, CaptureBranch, CaptureLoop,
                             CopyToSurface, CallOnFrame, ReleaseSurface, ForgetSurface,
                             BroadcastCapture
  <2>2. CASE ClearBeforeCapture(k)
    BY <2>2, ClearCaptureHeap DEF ClearBeforeCapture
  <2>3. CASE WaitCaptureFrame(k)
    <3>1. CASE UNCHANGED <<hold, captureQueu>>
      BY <1>6, <2>3, <3>1, StutterHeap DEF WaitCaptureFrame, queueVars
    <3>2. CASE /\ mIsRunning /\ captureQueu # NULL
               /\ \E from \in {"wait", "woken"} : TakeCaptureFrame(k, from)
      <4>1. hold[<<k, "frame">>] = NULL
        BY <3>2 DEF TakeCaptureFrame, CapGoto, LocalFrames
      <4> QED
        BY <2>3, <3>2, <4>1, TakeQueuedHeap DEF WaitCaptureFrame, TakeCaptureFrame
    <3> QED
      BY <2>3, <3>1, <3>2 DEF WaitCaptureFrame, TakeCaptureFrame
  <2>4. CASE ConvertForSurface(k)
    <3>1. 0 \in 0..MaxStamp
      BY PreviewAssumption
    <3> QED
      BY <2>4, <3>1, GetFrameHeap, StutterHeap DEF ConvertForSurface
  <2>5. CASE BeginCallback(k)
    <3>1. hold[<<k, "callback">>] = NULL /\ hold[<<k, "frame">>] \in Frames
      BY <2>5 DEF BeginCallback, LocalFrames, Heap, OwnerType
    <3>2. stamp[hold[<<k, "frame">>]] \in 0..MaxStamp
      BY <3>1 DEF Heap, PoolType
    <3> QED
      BY <2>5, <3>1, <3>2, GetFrameHeap, StutterHeap DEF BeginCallback
  <2>6. CASE ConvertForCallback(k)
    <3>1. <<k, "frame">> # <<k, "callback">>
      OBVIOUS
    <3> QED
      BY <2>6, <3>1, RecycleReplaceHeap DEF ConvertForCallback
  <2>7. CASE RecycleCallbackFrame(k) \/ LeaveSurface(k)
    BY <2>7, RecycleSlotHeap DEF RecycleCallbackFrame, LeaveSurface
  <2> QED
    BY <1>6, <2>1, <2>2, <2>3, <2>4, <2>5, <2>6, <2>7 DEF CaptureStep
<1>7. ASSUME SpuriousWakeup PROVE Heap'
  BY <1>7, StutterHeap DEF SpuriousWakeup
<1>8. ASSUME UNCHANGED vars PROVE Heap'
  BY <1>8, StutterHeap DEF vars, queueVars
<1> QED
  BY <1>1, <1>2, <1>3, <1>4, <1>5, <1>6, <1>7, <1>8 DEF Next

-----------------------------------------------------------------------------
(* The program counters agree with the local variables.                    *)

\* LocalFrames, thread by thread.
UsbLocal == (hold[<<"usb", "copy">>] = NULL) = (usb = "idle")
PrevLocal ==
    /\ (hold[<<"prev", "mjpeg">>] # NULL) = (prev \in {"decode", "decoded"})
    /\ (hold[<<"prev", "frame">>] # NULL) = (prev \in {"decoded", "draw", "drawn", "add"})
    /\ (hold[<<"prev", "converted">>] # NULL) = (prev = "drawn")
CapLocal(k) ==
    /\ (hold[<<k, "frame">>] # NULL) =
         (cap[k] \in {"surface", "copy", "callback", "convert", "call", "recycle"})
    /\ (hold[<<k, "callback">>] # NULL) = (cap[k] = "convert")
    /\ hold[<<k, "converted">>] # NULL => onSurface[k]
    /\ onSurface[k] => cap[k] \notin
         {"none", "clear", "outer", "mark", "branch", "release", "forget", "broadcast",
          "exited"}
    /\ cap[k] \in {"surface", "copy", "unsurface"} => onSurface[k]

\* LocalFrames by thread.
LEMMA LocalParts == LocalFrames <=> UsbLocal /\ PrevLocal /\ \A k \in CapThreads : CapLocal(k)
BY DEF LocalFrames, UsbLocal, PrevLocal, CapLocal

\* The same after a step.
LEMMA LocalPartsNext ==
    ASSUME UsbLocal', PrevLocal', \A k \in CapThreads : CapLocal(k)'
    PROVE  LocalFrames'
BY DEF LocalFrames, UsbLocal, PrevLocal, CapLocal

\* A signal or broadcast wakes waiters, and a waiter is only moved from its wait.
LEMMA SignalledWait == \A W \in SignalCapture : W \subseteq CaptureWaiters
BY DEF SignalCapture

\* A wakeup moves a thread out of its wait and nowhere else.
LEMMA WokenFromWait ==
    ASSUME ControlType, NEW W \in SUBSET CaptureWaiters, NEW k \in CapThreads
    PROVE  /\ CapAfter(W) \in [CapThreads -> CapturePlaces]
           /\ \/ CapAfter(W)[k] = cap[k]
              \/ cap[k] = "waiting" /\ CapAfter(W)[k] = "woken"
<1>1. CapAfter(W) \in [CapThreads -> CapturePlaces]
  BY DEF ControlType, CapAfter, CapturePlaces
<1>2. CapAfter(W)[k] = IF k \in W THEN "woken" ELSE cap[k]
  BY DEF CapAfter
<1>3. k \in W => cap[k] = "waiting"
  BY PreviewAssumption DEF CaptureWaiters
<1> QED
  BY <1>1, <1>2, <1>3

\* Waking changes no thread's frames.
LEMMA WakeLocal ==
    ASSUME IInv, NEW W \in SUBSET CaptureWaiters, NEW k \in CapThreads,
           cap'[k] = CapAfter(W)[k], hold'[<<k, "frame">>] = hold[<<k, "frame">>],
           hold'[<<k, "callback">>] = hold[<<k, "callback">>],
           hold'[<<k, "converted">>] = hold[<<k, "converted">>],
           onSurface'[k] = onSurface[k]
    PROVE  CapLocal(k)'
<1>1. cap'[k] = cap[k] \/ (cap[k] = "waiting" /\ cap'[k] = "woken")
  BY WokenFromWait DEF IInv
<1>2. CapLocal(k)
  BY LocalParts DEF IInv
<1> QED
  BY <1>1, <1>2 DEF CapLocal

\* Every step keeps program counters and local variables in agreement.
LEMMA LocalStep == IInv /\ [Next]_vars => LocalFrames'
<1> SUFFICES ASSUME IInv, [Next]_vars PROVE LocalFrames'
  OBVIOUS
<1> USE SlotNames
<1>a. UsbLocal /\ PrevLocal /\ \A k \in CapThreads : CapLocal(k)
  BY LocalParts DEF IInv
<1>b. /\ hold \in [Slots -> Frames \cup {NULL}] /\ NULL \notin Frames
      /\ cap \in [CapThreads -> CapturePlaces] /\ onSurface \in [CapThreads -> BOOLEAN]
  BY NullNoFrame DEF IInv, ControlType, Heap, OwnerType
<1>c. \A k \in CapThreads : k # "usb" /\ k # "prev"
  BY PreviewAssumption
<1>d. ASSUME UNCHANGED <<hold, usb, prev, cap, onSurface>> PROVE LocalFrames'
  BY <1>a, <1>d, LocalParts DEF UsbLocal, PrevLocal, CapLocal, LocalFrames
<1>1. ASSUME NEW c \in Clients, Call(c) PROVE LocalFrames'
  BY <1>1, <1>d DEF Call, ClientRest, StartPreview, StopPreview
<1>2. ASSUME NEW c \in Clients, ClientStep(c) PROVE LocalFrames'
  <2>1. UNCHANGED <<hold, usb, onSurface>>
    BY <1>2 DEF ClientStep, ClientRest
  <2>2. ASSUME NEW k \in CapThreads PROVE CapLocal(k)'
    <3>1. CASE cap' = cap
      BY <1>a, <2>1, <3>1 DEF CapLocal
    <3>2. CASE \E W \in SignalCapture : cap' = CapAfter(W)
      BY <2>1, <3>2, WakeLocal, SignalledWait
    <3>3. CASE JoinCapture(c)
      BY <1>a, <1>b, <2>1, <3>3, PreviewAssumption DEF CapLocal, JoinCapture
    <3>4. CASE CreatePreviewThread(c) \/ StopSignalPreview(c) \/ JoinPreview(c) \/ Clearing(c)
      BY <3>1, <3>4 DEF CreatePreviewThread, StopSignalPreview, JoinPreview, Clearing
    <3>6. CASE StopSignalCapture(c)
      BY <3>2, <3>6 DEF StopSignalCapture
    <3>5. CASE Targets(c)
      BY <3>1, <3>2, <3>5
      DEF Targets, StopReleasePreviewWindow, StopReleaseCaptureWindow,
          EnterSetFrameCallback, FinishSetFrameCallback, EnterSetCaptureDisplay,
          FinishSetCaptureDisplay, Pause, SwapCallback, SwapWindow
    <3> QED
      BY <1>2, <3>3, <3>4, <3>5, <3>6 DEF ClientStep, Lifecycle
  <2>3. \/ prev' = prev
        \/ prev = "waiting" /\ prev' = "woken"
        \/ prev = "none" /\ prev' = "prepare"
        \/ prev = "exited" /\ prev' = "none"
    <3>1. api[c] = "create" => prev = "none"
      BY DEF IInv, MonitorHeld
    <3> QED
      BY <1>2, <3>1
      DEF ClientStep, Lifecycle, Clearing, Targets, CreatePreviewThread, StopSignalPreview,
          StopSignalCapture, JoinCapture, JoinPreview, PrevAfterSignal, ApiGoto
  <2>4. PrevLocal' /\ UsbLocal'
    BY <1>a, <2>1, <2>3 DEF PrevLocal, UsbLocal
  <2> QED
    BY <2>2, <2>4, LocalPartsNext
<1>3. ASSUME FrameCallback, UNCHANGED UsbRest PROVE LocalFrames'
  <2>1. UNCHANGED <<prev, cap, onSurface>>
    BY <1>3 DEF FrameCallback, UsbRest, capVars
  <2>2. CASE ~mIsRunning
    BY <1>3, <1>d, <2>1, <2>2 DEF FrameCallback
  <2>3. CASE mIsRunning
    <3>1. hold' = [hold EXCEPT ![<<"usb", "copy">>] = NextFrame]
      BY <1>3, <2>3 DEF FrameCallback, GetFrame
    <3>2. UsbLocal'
      BY <1>3, <1>b, <2>3, <3>1 DEF FrameCallback, UsbLocal
    <3>3. PrevLocal'
      BY <1>a, <1>b, <2>1, <3>1 DEF PrevLocal
    <3>4. \A k \in CapThreads : CapLocal(k)'
      <4> SUFFICES ASSUME NEW k \in CapThreads PROVE CapLocal(k)'
        OBVIOUS
      <4>1. hold'[<<k, "frame">>] = hold[<<k, "frame">>]
        BY <1>b, <1>c, <3>1
      <4>2. hold'[<<k, "callback">>] = hold[<<k, "callback">>]
        BY <1>b, <1>c, <3>1
      <4>3. hold'[<<k, "converted">>] = hold[<<k, "converted">>]
        BY <1>b, <1>c, <3>1
      <4> QED
        BY <1>a, <2>1, <4>1, <4>2, <4>3 DEF CapLocal
    <3> QED
      BY <3>2, <3>3, <3>4, LocalPartsNext
  <2> QED
    BY <2>2, <2>3
<1>4. ASSUME UsbStep PROVE LocalFrames'
  <2>1. UNCHANGED <<cap, onSurface>>
    BY <1>4 DEF UsbStep, UsbRest, capVars
  <2>2. /\ hold' = hold \/ hold' = [hold EXCEPT ![<<"usb", "copy">>] = NULL]
        /\ prev' = prev \/ (prev = "waiting" /\ prev' = "woken")
    BY <1>4 DEF UsbStep, AddPreviewFrame, DropPreviewFrame, RecycleSlot, PrevAfterSignal
  <2>3. UsbLocal'
    BY <1>4, <1>a, <1>b
    DEF UsbStep, AddPreviewFrame, DropPreviewFrame, RecycleSlot, UsbLocal
  <2>4. PrevLocal'
    BY <1>a, <1>b, <2>2 DEF PrevLocal
  <2>5. \A k \in CapThreads : CapLocal(k)'
    <3> SUFFICES ASSUME NEW k \in CapThreads PROVE CapLocal(k)'
      OBVIOUS
    <3>1. hold'[<<k, "frame">>] = hold[<<k, "frame">>]
      BY <1>b, <1>c, <2>2
    <3>2. hold'[<<k, "callback">>] = hold[<<k, "callback">>]
      BY <1>b, <1>c, <2>2
    <3>3. hold'[<<k, "converted">>] = hold[<<k, "converted">>]
      BY <1>b, <1>c, <2>2
    <3> QED
      BY <1>a, <2>1, <3>1, <3>2, <3>3 DEF CapLocal
  <2> QED
    BY <2>3, <2>4, <2>5, LocalPartsNext
<1>5. ASSUME PreviewStep PROVE LocalFrames'
  <2>1. UNCHANGED <<usb, onSurface>>
    BY <1>5 DEF PreviewStep, PreviewRest
  <2>2. \A s \in Slots : s[1] # "prev" => hold'[s] = hold[s]
    BY <1>5, <1>b
    DEF PreviewStep, StartStreaming, ClearAtStart, CreateCaptureThread, PreviewLoop,
        WaitPreviewFrame, TakePreviewFrame, DecodeFrame, RecycleDecoded, DrawPreview,
        RecycleDrawn, AddCaptureFrame, SignalCaptureThread, StopStreaming, GetFrame,
        RecycleSlot
  <2>3. UsbLocal'
    BY <1>a, <2>1, <2>2 DEF UsbLocal
  <2>4. PrevLocal'
    <3>1. CASE StartStreaming \/ ClearAtStart \/ CreateCaptureThread \/ PreviewLoop
               \/ SignalCaptureThread \/ StopStreaming
      BY <1>a, <3>1
      DEF PrevLocal, StartStreaming, ClearAtStart, CreateCaptureThread, PreviewLoop,
          SignalCaptureThread, StopStreaming, PrevGoto
    <3>2. CASE WaitPreviewFrame
      <4>1. previewFrames # <<>> => Head(previewFrames) \in Frames
        BY DEF IInv, Heap, OwnerType
      <4>2. CASE UNCHANGED hold /\ prev \in {"wait", "woken"} /\ prev' \in {"waiting", "loop"}
        BY <1>a, <4>2 DEF PrevLocal
      <4>3. CASE TakePreviewFrame /\ previewFrames # <<>> /\ mIsRunning /\ Mjpeg
        BY <1>a, <1>b, <3>2, <4>1, <4>3
          DEF PrevLocal, WaitPreviewFrame, TakePreviewFrame, PrevGoto
      <4>4. CASE TakePreviewFrame /\ previewFrames # <<>> /\ mIsRunning /\ ~Mjpeg
        BY <1>a, <1>b, <3>2, <4>1, <4>4
          DEF PrevLocal, WaitPreviewFrame, TakePreviewFrame, PrevGoto
      <4> QED
        BY <3>2, <4>2, <4>3, <4>4 DEF WaitPreviewFrame, TakePreviewFrame, PrevGoto
    <3>3. CASE DecodeFrame \/ RecycleDecoded
      BY <1>a, <1>b, <3>3
      DEF PrevLocal, DecodeFrame, RecycleDecoded, GetFrame, RecycleSlot, PrevGoto
    <3>4. CASE DrawPreview \/ RecycleDrawn
      BY <1>a, <1>b, <3>4
        DEF PrevLocal, DrawPreview, RecycleDrawn, GetFrame, RecycleSlot, PrevGoto
    <3>5. CASE AddCaptureFrame
      BY <1>a, <1>b, <3>5 DEF PrevLocal, AddCaptureFrame, PrevGoto
    <3> QED
      BY <1>5, <3>1, <3>2, <3>3, <3>4, <3>5 DEF PreviewStep
  <2>5. ASSUME NEW k \in CapThreads PROVE CapLocal(k)'
    <3>1. /\ hold'[<<k, "frame">>] = hold[<<k, "frame">>]
          /\ hold'[<<k, "callback">>] = hold[<<k, "callback">>]
          /\ hold'[<<k, "converted">>] = hold[<<k, "converted">>]
      BY <1>c, <2>2
    <3>2. CASE cap' = cap
      BY <1>a, <2>1, <3>1, <3>2 DEF CapLocal
    <3>3. CASE \E W \in SUBSET CaptureWaiters : cap' = CapAfter(W)
      BY <2>1, <3>1, <3>3, WakeLocal
    <3>4. CASE CreateCaptureThread
      BY <1>a, <1>b, <2>1, <3>1, <3>4 DEF CapLocal, CreateCaptureThread
    <3> QED
      BY <1>5, <3>2, <3>3, <3>4, SignalledWait
      DEF PreviewStep, StartStreaming, ClearAtStart, PreviewLoop, WaitPreviewFrame,
          DecodeFrame, RecycleDecoded, DrawPreview, RecycleDrawn, AddCaptureFrame,
          SignalCaptureThread, StopStreaming
  <2> QED
    BY <2>3, <2>4, <2>5, LocalPartsNext
<1>6. ASSUME NEW k \in CapThreads, CaptureStep(k) PROVE LocalFrames'
  <2>1. UNCHANGED <<usb, prev>>
    BY <1>6 DEF CaptureStep, CaptureRest
  <2>2. \A s \in Slots : s[1] # k => hold'[s] = hold[s]
    BY <1>6, <1>b
    DEF CaptureStep, ClearBeforeCapture, CaptureOuter, MarkCapturing, CaptureBranch,
        CaptureLoop, WaitCaptureFrame, TakeCaptureFrame, ConvertForSurface, CopyToSurface,
        BeginCallback, ConvertForCallback, CallOnFrame, RecycleCallbackFrame, LeaveSurface,
        ReleaseSurface, ForgetSurface, BroadcastCapture, GetFrame, RecycleSlot, surfaceVars
  <2>3. UsbLocal' /\ PrevLocal'
    BY <1>a, <1>c, <2>1, <2>2 DEF UsbLocal, PrevLocal
  <2>4. CapLocal(k)'
    <3>1. CASE ClearBeforeCapture(k) \/ CaptureOuter(k) \/ MarkCapturing(k)
               \/ CaptureBranch(k) \/ CaptureLoop(k) \/ CopyToSurface(k) \/ CallOnFrame(k)
               \/ ReleaseSurface(k) \/ ForgetSurface(k)
      BY <1>a, <1>b, <3>1
      DEF CapLocal, ClearBeforeCapture, CaptureOuter, MarkCapturing, CaptureBranch,
          CaptureLoop, CopyToSurface, CallOnFrame, ReleaseSurface, ForgetSurface, CapGoto,
          surfaceVars
    <3>2. CASE WaitCaptureFrame(k)
      BY <1>a, <1>b, <3>2 DEF CapLocal, WaitCaptureFrame, TakeCaptureFrame, CapGoto, surfaceVars,
                              IInv, Heap, OwnerType
    <3>3. CASE ConvertForSurface(k)
      BY <1>a, <1>b, <3>3 DEF CapLocal, ConvertForSurface, GetFrame, CapGoto, surfaceVars
    <3>4. CASE BeginCallback(k)
      BY <1>a, <1>b, <3>4 DEF CapLocal, BeginCallback, GetFrame, CapGoto, surfaceVars
    <3>5. CASE ConvertForCallback(k)
      BY <1>a, <1>b, <3>5 DEF CapLocal, ConvertForCallback, CapGoto, surfaceVars
    <3>6. CASE RecycleCallbackFrame(k) \/ LeaveSurface(k)
      BY <1>a, <1>b, <3>6
      DEF CapLocal, RecycleCallbackFrame, LeaveSurface, RecycleSlot, CapGoto, surfaceVars
    <3>7. CASE BroadcastCapture(k)
      <4>1. cap'[k] = "outer" /\ UNCHANGED <<hold, onSurface>>
        BY <1>b, <3>7 DEF BroadcastCapture, CapAfter, surfaceVars
      <4> QED
        BY <1>a, <3>7, <4>1 DEF CapLocal, BroadcastCapture
    <3> QED
      BY <1>6, <3>1, <3>2, <3>3, <3>4, <3>5, <3>6, <3>7 DEF CaptureStep
  <2>5. ASSUME NEW j \in CapThreads, j # k PROVE CapLocal(j)'
    <3>1. /\ hold'[<<j, "frame">>] = hold[<<j, "frame">>]
          /\ hold'[<<j, "callback">>] = hold[<<j, "callback">>]
          /\ hold'[<<j, "converted">>] = hold[<<j, "converted">>]
      BY <2>2, <2>5
    <3>2. onSurface'[j] = onSurface[j]
      BY <1>6, <1>b, <2>5
      DEF CaptureStep, ClearBeforeCapture, CaptureOuter, MarkCapturing, CaptureBranch,
          CaptureLoop, WaitCaptureFrame, ConvertForSurface, CopyToSurface,
          BeginCallback, ConvertForCallback, CallOnFrame, RecycleCallbackFrame, LeaveSurface,
          ReleaseSurface, ForgetSurface, BroadcastCapture, surfaceVars
    <3>3. CASE cap'[j] = cap[j]
      BY <1>a, <3>1, <3>2, <3>3 DEF CapLocal
    <3>4. CASE BroadcastCapture(k)
      <4>1. cap'[j] = CapAfter(CaptureWaiters)[j]
        BY <2>5, <3>4 DEF BroadcastCapture, CapAfter
      <4> QED
        BY <3>1, <3>2, <4>1, WakeLocal
    <3> QED
      BY <1>6, <1>b, <2>5, <3>3, <3>4
      DEF CaptureStep, ClearBeforeCapture, CaptureOuter, MarkCapturing, CaptureBranch,
          CaptureLoop, WaitCaptureFrame, TakeCaptureFrame, ConvertForSurface, CopyToSurface,
          BeginCallback, ConvertForCallback, CallOnFrame, RecycleCallbackFrame, LeaveSurface,
          ReleaseSurface, ForgetSurface, CapGoto
  <2> QED
    BY <2>3, <2>4, <2>5, LocalPartsNext
<1>7. ASSUME SpuriousWakeup PROVE LocalFrames'
  <2>1. UNCHANGED <<hold, usb, onSurface>>
    BY <1>7 DEF SpuriousWakeup
  <2>2. prev' = prev \/ (prev = "waiting" /\ prev' = "woken")
    BY <1>7 DEF SpuriousWakeup, PrevGoto
  <2>3. UsbLocal' /\ PrevLocal'
    BY <1>a, <2>1, <2>2 DEF UsbLocal, PrevLocal
  <2>4. ASSUME NEW k \in CapThreads PROVE CapLocal(k)'
    <3>1. CASE cap' = cap
      BY <1>a, <2>1, <3>1 DEF CapLocal
    <3>2. CASE \E W \in SUBSET CaptureWaiters : cap' = CapAfter(W)
      BY <2>1, <3>2, WakeLocal
    <3> QED
      BY <1>7, <3>1, <3>2 DEF SpuriousWakeup
  <2> QED
    BY <2>3, <2>4, LocalPartsNext
<1>8. ASSUME UNCHANGED vars PROVE LocalFrames'
  BY <1>8, <1>d DEF vars, capVars
<1> QED
  BY <1>1, <1>2, <1>3, <1>4, <1>5, <1>6, <1>7, <1>8 DEF Next

-----------------------------------------------------------------------------
(* Calls, the monitor and the types.                                       *)

\* The same of a client.
LEMMA WokenClient ==
    ASSUME ControlType, NEW W \in SUBSET CaptureWaiters
    PROVE  /\ ApiAfter(W) \in [Clients -> ClientPlaces]
           /\ \A c \in Clients : \/ ApiAfter(W)[c] = api[c]
                                 \/ api[c] = "cb_wait" /\ ApiAfter(W)[c] = "cb_swap"
                                 \/ api[c] = "win_wait" /\ ApiAfter(W)[c] = "win_swap"
<1>1. ApiAfter(W) \in [Clients -> ClientPlaces]
  BY DEF ControlType, ApiAfter, ClientPlaces
<1>2. ASSUME NEW c \in Clients
      PROVE  \/ ApiAfter(W)[c] = api[c]
             \/ api[c] = "cb_wait" /\ ApiAfter(W)[c] = "cb_swap"
             \/ api[c] = "win_wait" /\ ApiAfter(W)[c] = "win_swap"
  <2>1. c \in W => api[c] \in {"cb_wait", "win_wait"}
    BY PreviewAssumption DEF CaptureWaiters
  <2> QED
    BY <2>1 DEF ApiAfter
<1> QED
  BY <1>1, <1>2

\* What a step that runs outside the clients' own code may do to them: wake
\* one that waits.
ClientsOnlyWoken ==
    \A c \in Clients : \/ api'[c] = api[c]
                       \/ api[c] = "cb_wait" /\ api'[c] = "cb_swap"
                       \/ api[c] = "win_wait" /\ api'[c] = "win_swap"

\* The threads of the engine move a client only by waking it.
LEMMA EngineStepsWake ==
    ASSUME ControlType,
           PreviewStep \/ (\E k \in CapThreads : CaptureStep(k)) \/ SpuriousWakeup
    PROVE  ClientsOnlyWoken /\ api' \in [Clients -> ClientPlaces]
<1>1. api' = api \/ \E W \in SUBSET CaptureWaiters : api' = ApiAfter(W)
  <2>1. CASE PreviewStep
    BY <2>1, SignalledWait
    DEF PreviewStep, StartStreaming, ClearAtStart, CreateCaptureThread, PreviewLoop,
        WaitPreviewFrame, DecodeFrame, RecycleDecoded, DrawPreview, RecycleDrawn,
        AddCaptureFrame, SignalCaptureThread, StopStreaming
  <2>2. ASSUME NEW k \in CapThreads, CaptureStep(k)
        PROVE  api' = api \/ \E W \in SUBSET CaptureWaiters : api' = ApiAfter(W)
    BY <2>2
    DEF CaptureStep, ClearBeforeCapture, CaptureOuter, MarkCapturing, CaptureBranch,
        CaptureLoop, WaitCaptureFrame, ConvertForSurface, CopyToSurface, BeginCallback,
        ConvertForCallback, CallOnFrame, RecycleCallbackFrame, LeaveSurface,
        ReleaseSurface, ForgetSurface, BroadcastCapture
  <2>3. CASE SpuriousWakeup
    BY <2>3 DEF SpuriousWakeup
  <2> QED
    BY <2>1, <2>2, <2>3
<1> QED
  BY <1>1, WokenClient DEF ClientsOnlyWoken, ControlType

\* The preview thread neither appears nor vanishes by its own steps, by a
\* camera frame, or by a wakeup.
LEMMA PreviewThreadStays ==
    ASSUME PreviewStep \/ UsbStep \/ SpuriousWakeup
    PROVE  prev = "none" <=> prev' = "none"
<1>1. CASE PreviewStep
  BY <1>1
  DEF PreviewStep, StartStreaming, ClearAtStart, CreateCaptureThread, PreviewLoop,
      WaitPreviewFrame, TakePreviewFrame, DecodeFrame, RecycleDecoded, DrawPreview,
      RecycleDrawn, AddCaptureFrame, SignalCaptureThread, StopStreaming, PrevGoto
<1>2. CASE UsbStep
  BY <1>2 DEF UsbStep, AddPreviewFrame, DropPreviewFrame, PrevAfterSignal
<1>3. CASE SpuriousWakeup
  BY <1>3 DEF SpuriousWakeup, PrevGoto
<1> QED
  BY <1>1, <1>2, <1>3

\* Every step keeps to the monitor discipline.
LEMMA MonitorStep == IInv /\ [Next]_vars => MonitorHeld'
<1> SUFFICES ASSUME IInv, [Next]_vars PROVE MonitorHeld'
  OBVIOUS
<1> USE DEF IInv, LockedPlaces, StoppingPlaces
<1>a. /\ api \in [Clients -> ClientPlaces] /\ monitor \in Clients \cup {NULL}
      /\ NULL \notin Clients
  BY PreviewAssumption DEF ControlType
<1>1. ASSUME NEW c \in Clients, Call(c) PROVE MonitorHeld'
  <2>1. CASE StartPreview(c)
    BY <1>a, <2>1 DEF StartPreview, ApiGoto, Enter, MonitorHeld
  <2>2. CASE StopPreview(c)
    BY <1>a, <2>2 DEF StopPreview, ApiGoto, Enter, MonitorHeld
  <2>3. CASE /\ UNCHANGED <<monitor, mIsRunning, prev>> /\ api[c] = "idle"
             /\ \E x \in {"idle", "cb_enter", "win_enter"} : api' = [api EXCEPT ![c] = x]
    BY <1>a, <2>3 DEF MonitorHeld
  <2> QED
    BY <1>1, <2>1, <2>2, <2>3
    DEF Call, CallSetFrameCallback, CallSetCaptureDisplay, SetPreviewDisplay, ApiGoto
<1>2. ASSUME NEW c \in Clients, ClientStep(c) PROVE MonitorHeld'
  <2>1. CASE CreatePreviewThread(c)
    BY <1>a, <2>1 DEF CreatePreviewThread, ApiGoto, Return, MonitorHeld, PrevAfterSignal
  <2>2. CASE StopSignalPreview(c) \/ JoinCapture(c) \/ JoinPreview(c)
    BY <1>a, <2>2 DEF StopSignalPreview, JoinCapture, JoinPreview, ApiGoto, MonitorHeld,
                      PrevAfterSignal
  <2>3. CASE StopSignalCapture(c)
    <3>1. PICK W \in SUBSET CaptureWaiters : api' = [ApiAfter(W) EXCEPT ![c] = "join_cap"]
      BY <2>3, SignalledWait DEF StopSignalCapture
    <3>2. \A d \in Clients : d # c =>
             \/ api'[d] = api[d]
             \/ api[d] = "cb_wait" /\ api'[d] = "cb_swap"
             \/ api[d] = "win_wait" /\ api'[d] = "win_swap"
      BY <3>1, WokenClient
    <3>3. api'[c] = "join_cap" /\ api[c] = "stop_sigcap"
      BY <2>3, <3>1, WokenClient DEF StopSignalCapture
    <3>4. UNCHANGED <<monitor, mIsRunning, prev>>
      BY <2>3 DEF StopSignalCapture
    <3> QED
      BY <3>2, <3>3, <3>4 DEF MonitorHeld
  <2>4. CASE Clearing(c)
    BY <1>a, <2>4 DEF StopClearPreview, StopClearCapture, Clearing, ApiGoto, MonitorHeld,
                      runVars
  <2>5. CASE Targets(c)
    <3>1. UNCHANGED <<mIsRunning, prev>>
      BY <2>5 DEF Targets
    <3>2. CASE StopReleasePreviewWindow(c) \/ StopReleaseCaptureWindow(c)
      BY <1>a, <3>1, <3>2 DEF StopReleasePreviewWindow, StopReleaseCaptureWindow, ApiGoto,
                              MonitorHeld
    <3>3. CASE \E place \in {"cb_wait", "win_wait"} :
                  Pause(c, place) /\ api[c] \in {"cb_enter", "win_enter"}
      <4>1. PICK place \in {"cb_wait", "win_wait"} :
              Pause(c, place) /\ api[c] \in {"cb_enter", "win_enter"}
        BY <3>3
      <4>2. PICK W \in SUBSET CaptureWaiters : api' = [ApiAfter(W) EXCEPT ![c] = place]
        BY <4>1, SignalledWait DEF Pause
      <4>3. \A d \in Clients : d # c =>
               \/ api'[d] = api[d]
               \/ api[d] = "cb_wait" /\ api'[d] = "cb_swap"
               \/ api[d] = "win_wait" /\ api'[d] = "win_swap"
        BY <4>2, WokenClient
      <4>4. api'[c] = place /\ monitor' = monitor
        BY <4>1, <4>2, WokenClient DEF Pause
      <4> QED
        BY <3>1, <4>1, <4>3, <4>4 DEF MonitorHeld
    <3>4. CASE \E from \in {"cb_enter", "cb_swap"} : SwapCallback(c, from)
      BY <1>a, <3>1, <3>4 DEF SwapCallback, ApiGoto, Return, MonitorHeld
    <3>5. CASE \E from \in {"win_enter", "win_swap"} : SwapWindow(c, from)
      BY <1>a, <3>1, <3>5 DEF SwapWindow, ApiGoto, MonitorHeld
    <3> QED
      BY <2>5, <3>2, <3>3, <3>4, <3>5
      DEF Targets, EnterSetFrameCallback, FinishSetFrameCallback, EnterSetCaptureDisplay,
          FinishSetCaptureDisplay
  <2> QED
    BY <1>2, <2>1, <2>2, <2>3, <2>4, <2>5 DEF ClientStep, Lifecycle
<1>3. ASSUME FrameCallback \/ UsbStep, UNCHANGED UsbRest PROVE MonitorHeld'
  <2>1. prev = "none" <=> prev' = "none"
    BY <1>3, PreviewThreadStays DEF FrameCallback
  <2> QED
    BY <1>3, <2>1 DEF UsbRest, apiVars, runVars, MonitorHeld
<1>4. ASSUME PreviewStep \/ (\E k \in CapThreads : CaptureStep(k)) \/ SpuriousWakeup
      PROVE  MonitorHeld'
  <2>1. ClientsOnlyWoken
    BY <1>4, EngineStepsWake
  <2>2. UNCHANGED <<monitor, mIsRunning>>
    BY <1>4 DEF PreviewStep, PreviewRest, CaptureStep, CaptureRest, SpuriousWakeup, runVars
  <2>3. prev = "none" <=> prev' = "none"
    BY <1>4, PreviewThreadStays DEF CaptureStep, CaptureRest
  <2> QED
    BY <2>1, <2>2, <2>3 DEF ClientsOnlyWoken, MonitorHeld
<1>5. ASSUME UNCHANGED vars PROVE MonitorHeld'
  BY <1>5 DEF vars, apiVars, runVars, MonitorHeld
<1> QED
  BY <1>1, <1>2, <1>3, <1>4, <1>5 DEF Next, UsbStep

\* Every step keeps the calls and their arguments together.
LEMMA ArgumentStep == IInv /\ [Next]_vars => ArgumentType'
<1> SUFFICES ASSUME IInv, [Next]_vars PROVE ArgumentType'
  OBVIOUS
<1> USE DEF IInv, CallbackPlaces, WindowPlaces
<1>a. /\ api \in [Clients -> ClientPlaces]
      /\ arg \in [Clients -> Callbacks \cup CaptureSurfaces \cup {NULL}]
  BY DEF ControlType
<1>1. ASSUME NEW c \in Clients, Call(c) PROVE ArgumentType'
  <2>1. CASE StartPreview(c) \/ StopPreview(c)
    BY <1>1, <1>a, <2>1
    DEF Call, StartPreview, StopPreview, CallSetFrameCallback, CallSetCaptureDisplay,
        SetPreviewDisplay, ApiGoto, ArgumentType
  <2>2. CASE \E cb \in Callbacks \cup {NULL} : CallSetFrameCallback(c, cb)
    BY <1>a, <2>2 DEF CallSetFrameCallback, ApiGoto, ArgumentType
  <2>3. CASE \E w \in CaptureSurfaces \cup {NULL} : CallSetCaptureDisplay(c, w)
    BY <1>a, <2>3 DEF CallSetCaptureDisplay, ApiGoto, ArgumentType
  <2>4. CASE \E w \in PreviewSurfaces \cup {NULL} : SetPreviewDisplay(c, w)
    BY <1>a, <2>4 DEF SetPreviewDisplay, ApiGoto, ArgumentType
  <2> QED
    BY <1>1, <2>1, <2>2, <2>3, <2>4 DEF Call
<1>2. ASSUME NEW c \in Clients, ClientStep(c) PROVE ArgumentType'
  <2>1. CASE StopSignalCapture(c) /\ UNCHANGED arg
    <3>1. PICK W \in SUBSET CaptureWaiters : api' = [ApiAfter(W) EXCEPT ![c] = "join_cap"]
      BY <2>1, SignalledWait DEF StopSignalCapture
    <3>2. api'[c] = "join_cap" /\ api[c] = "stop_sigcap"
      BY <2>1, <3>1, WokenClient DEF StopSignalCapture
    <3>3. \A d \in Clients : d # c =>
             \/ api'[d] = api[d]
             \/ api[d] = "cb_wait" /\ api'[d] = "cb_swap"
             \/ api[d] = "win_wait" /\ api'[d] = "win_swap"
      BY <3>1, WokenClient
    <3> QED
      BY <2>1, <3>2, <3>3 DEF ArgumentType
  <2>2. CASE /\ UNCHANGED arg
             /\ \E x, y \in ClientPlaces \ (CallbackPlaces \cup WindowPlaces) : ApiGoto(c, x, y)
    BY <1>a, <2>2 DEF ApiGoto, ArgumentType
  <2>3. CASE Clearing(c)
    BY <2>2, <2>3 DEF Clearing, StopClearPreview, StopClearCapture, ClientPlaces
  <2>4. CASE Lifecycle(c)
    BY <2>1, <2>2, <2>4
    DEF Lifecycle, CreatePreviewThread, StopSignalPreview, JoinCapture, JoinPreview,
        ClientPlaces
  <2>5. CASE Targets(c)
    <3>1. CASE StopReleasePreviewWindow(c)
      BY <1>a, <3>1 DEF StopReleasePreviewWindow, ApiGoto, ArgumentType
    <3>2. CASE StopReleaseCaptureWindow(c)
      BY <1>a, <3>2 DEF StopReleaseCaptureWindow, ApiGoto, ArgumentType
    <3>3. ASSUME NEW from, NEW place,
                 <<from, place>> \in {<<"cb_enter", "cb_wait">>, <<"win_enter", "win_wait">>},
                 api[c] = from, Pause(c, place)
          PROVE  ArgumentType'
      <4>1. PICK W \in SUBSET CaptureWaiters : api' = [ApiAfter(W) EXCEPT ![c] = place]
        BY <3>3, SignalledWait DEF Pause
      <4>2. \A d \in Clients : d # c =>
               \/ api'[d] = api[d]
               \/ api[d] = "cb_wait" /\ api'[d] = "cb_swap"
               \/ api[d] = "win_wait" /\ api'[d] = "win_swap"
        BY <4>1, WokenClient
      <4>3. api'[c] = place /\ arg' = arg
        BY <3>3, <4>1, WokenClient DEF Pause
      <4> QED
        BY <3>3, <4>2, <4>3 DEF ArgumentType
    <3>4. CASE \E from \in {"cb_enter", "cb_swap"} : SwapCallback(c, from)
      BY <1>a, <3>4 DEF SwapCallback, ApiGoto, ArgumentType
    <3>5. CASE \E from \in {"win_enter", "win_swap"} : SwapWindow(c, from)
      BY <1>a, <3>5 DEF SwapWindow, ApiGoto, ArgumentType
    <3> QED
      BY <2>5, <3>1, <3>2, <3>3, <3>4, <3>5
      DEF Targets, EnterSetFrameCallback, FinishSetFrameCallback, EnterSetCaptureDisplay,
          FinishSetCaptureDisplay
  <2> QED
    BY <1>2, <2>3, <2>4, <2>5 DEF ClientStep
<1>3. ASSUME UNCHANGED UsbRest \/ UNCHANGED vars PROVE ArgumentType'
  BY <1>3 DEF UsbRest, vars, apiVars, ArgumentType
<1>4. ASSUME PreviewStep \/ (\E k \in CapThreads : CaptureStep(k)) \/ SpuriousWakeup
      PROVE  ArgumentType'
  <2>1. ClientsOnlyWoken /\ arg' = arg
    BY <1>4, EngineStepsWake
    DEF PreviewStep, PreviewRest, CaptureStep, CaptureRest, SpuriousWakeup
  <2> QED
    BY <2>1 DEF ClientsOnlyWoken, ArgumentType
<1> QED
  BY <1>1, <1>2, <1>3, <1>4 DEF Next, UsbStep

\* No step changes a variable's type.
LEMMA TypeStep == IInv /\ [Next]_vars => ControlType'
<1> SUFFICES ASSUME IInv, [Next]_vars PROVE ControlType'
  OBVIOUS
<1>a. ControlType /\ Heap /\ LocalFrames /\ ArgumentType
  BY DEF IInv
<1>b. \A w, v : Swapped(w, v) \in [Surfaces -> Int]
  BY <1>a DEF ControlType, Swapped
<1>c. ASSUME UNCHANGED previewFrames PROVE Len(previewFrames)' <= MaxFrame
  BY <1>a, <1>c DEF ControlType
<1> USE DEF frameVars, queueVars, targetVars, windowVars, apiVars, capVars, streamVars, runVars
<1>1. ASSUME NEW c \in Clients, Call(c) PROVE ControlType'
  <2>1. calls' \in 0..MaxCalls
    BY <1>1, <1>a, PreviewAssumption DEF Call, ControlType
  <2>2. /\ UNCHANGED <<previewFrames, captureQueu, mFrameCallbackObj, mFrameCallbackFunc>>
        /\ UNCHANGED <<mIsCapturing, usb, hold, onSurface, streamVars, delivered>>
    BY <1>1 DEF Call, ClientRest
  <2>3. UNCHANGED <<cap, capture_thread, prev>>
    BY <1>1 DEF Call, StartPreview, StopPreview
  <2>4. mIsRunning' \in BOOLEAN /\ monitor' \in Clients \cup {NULL}
    BY <1>1, <1>a DEF Call, StartPreview, StopPreview, Enter, ControlType
  <2>5. api' \in [Clients -> ClientPlaces]
    BY <1>1, <1>a
    DEF Call, StartPreview, StopPreview, CallSetFrameCallback, CallSetCaptureDisplay,
        SetPreviewDisplay, ApiGoto, ControlType, ClientPlaces
  <2>6. /\ arg' \in [Clients -> Callbacks \cup CaptureSurfaces \cup {NULL}]
        /\ mPreviewWindow' \in PreviewSurfaces \cup {NULL}
        /\ mCaptureWindow' \in CaptureSurfaces \cup {NULL}
    BY <1>1, <1>a
    DEF Call, CallSetFrameCallback, CallSetCaptureDisplay, SetPreviewDisplay, ControlType
  <2>7. winRefs' \in [Surfaces -> Int]
    BY <1>1, <1>a, <1>b
    DEF Call, CallSetFrameCallback, CallSetCaptureDisplay, SetPreviewDisplay, ControlType
  <2> QED
    BY <1>a, <1>c, <2>1, <2>2, <2>3, <2>4, <2>5, <2>6, <2>7 DEF ControlType
<1>2. ASSUME NEW c \in Clients, ClientStep(c) PROVE ControlType'
  <2>1. UNCHANGED <<calls, usb, onSurface, streamVars, delivered>>
    BY <1>2 DEF ClientStep, ClientRest
  <2>2. Len(previewFrames)' <= MaxFrame
    <3>1. CASE previewFrames' = <<>>
      BY <3>1, PreviewAssumption
    <3> QED
      BY <1>2, <1>c, <3>1
      DEF ClientStep, Lifecycle, Clearing, Targets, StopClearPreview, ClearPreviewFrame,
          StopClearCapture, ClearCaptureFrame
  <2>3. mIsRunning' \in BOOLEAN /\ mIsCapturing' \in BOOLEAN
    BY <1>2, <1>a
    DEF ClientStep, Lifecycle, Clearing, Targets, CreatePreviewThread, StopSignalPreview,
        StopSignalCapture, JoinCapture, JoinPreview, StopReleasePreviewWindow,
        StopReleaseCaptureWindow, EnterSetFrameCallback, FinishSetFrameCallback,
        EnterSetCaptureDisplay, FinishSetCaptureDisplay, Pause, ControlType
  <2>4. prev' \in PreviewPlaces
    BY <1>2, <1>a
    DEF ClientStep, Lifecycle, Clearing, Targets, CreatePreviewThread, StopSignalPreview,
        StopSignalCapture, JoinCapture, JoinPreview, PrevAfterSignal, ControlType, PreviewPlaces
  <2>5. cap' = cap \/ (\E W \in SignalCapture : cap' = CapAfter(W)) \/ JoinCapture(c)
    BY <1>2
    DEF ClientStep, Lifecycle, Clearing, Targets, CreatePreviewThread, StopSignalPreview,
        StopSignalCapture, JoinPreview, StopReleasePreviewWindow,
        StopReleaseCaptureWindow, EnterSetFrameCallback, FinishSetFrameCallback,
        EnterSetCaptureDisplay, FinishSetCaptureDisplay, Pause, SwapCallback, SwapWindow
  <2>6. cap' \in [CapThreads -> CapturePlaces] /\ capture_thread' \in CapThreads \cup {NULL}
    <3>1. ASSUME NEW W \in SUBSET CaptureWaiters
          PROVE  CapAfter(W) \in [CapThreads -> CapturePlaces]
      BY <1>a DEF CapAfter, ControlType, CapturePlaces
    <3>2. cap' \in [CapThreads -> CapturePlaces]
      BY <1>a, <2>5, <3>1, SignalledWait DEF JoinCapture, ControlType, CapturePlaces
    <3>3. capture_thread' \in {capture_thread, NULL}
      BY <1>2
      DEF ClientStep, Lifecycle, Clearing, Targets, CreatePreviewThread, StopSignalPreview,
          StopSignalCapture, JoinCapture, JoinPreview
    <3> QED
      BY <1>a, <3>2, <3>3 DEF ControlType
  <2>7. api' \in [Clients -> ClientPlaces]
    <3>1. \/ \E x, y \in ClientPlaces : ApiGoto(c, x, y)
          \/ \E W \in SUBSET CaptureWaiters, y \in ClientPlaces :
                api' = [ApiAfter(W) EXCEPT ![c] = y]
      <4>1. CASE Lifecycle(c)
        BY <4>1, SignalledWait
        DEF Lifecycle, CreatePreviewThread, StopSignalPreview, StopSignalCapture,
            JoinCapture, JoinPreview, ClientPlaces
      <4>2. CASE Clearing(c)
        BY <4>2 DEF Clearing, StopClearPreview, StopClearCapture, ClientPlaces
      <4>3. CASE StopReleasePreviewWindow(c) \/ StopReleaseCaptureWindow(c)
        BY <4>3 DEF StopReleasePreviewWindow, StopReleaseCaptureWindow, ClientPlaces
      <4>4. CASE EnterSetFrameCallback(c) \/ FinishSetFrameCallback(c)
        BY <4>4, SignalledWait
        DEF EnterSetFrameCallback, FinishSetFrameCallback, Pause, SwapCallback, ClientPlaces
      <4>5. CASE EnterSetCaptureDisplay(c) \/ FinishSetCaptureDisplay(c)
        BY <4>5, SignalledWait
        DEF EnterSetCaptureDisplay, FinishSetCaptureDisplay, Pause, SwapWindow, ClientPlaces
      <4> QED
        BY <1>2, <4>1, <4>2, <4>3, <4>4, <4>5 DEF ClientStep, Targets
    <3> QED
      BY <1>a, <3>1, WokenClient DEF ApiGoto, ControlType
  <2>8. monitor' \in Clients \cup {NULL}
    BY <1>2, <1>a
    DEF ClientStep, Lifecycle, Clearing, Targets, CreatePreviewThread, StopSignalPreview,
        StopSignalCapture, JoinCapture, JoinPreview, StopReleasePreviewWindow,
        StopReleaseCaptureWindow, EnterSetFrameCallback, FinishSetFrameCallback,
        EnterSetCaptureDisplay, FinishSetCaptureDisplay, Pause, SwapCallback, SwapWindow,
        Return, ControlType
  <2>9. CASE Targets(c)
    <3>1. /\ api[c] \in CallbackPlaces => arg[c] \in Callbacks \cup {NULL}
          /\ api[c] \in WindowPlaces => arg[c] \in CaptureSurfaces \cup {NULL}
      BY <1>a DEF ArgumentType
    <3>2. arg' \in [Clients -> Callbacks \cup CaptureSurfaces \cup {NULL}]
      BY <2>9, <1>a
      DEF Targets, StopReleasePreviewWindow, StopReleaseCaptureWindow, EnterSetFrameCallback,
          FinishSetFrameCallback, EnterSetCaptureDisplay, FinishSetCaptureDisplay, Pause,
          SwapCallback, SwapWindow, ControlType
    <3>3. mFrameCallbackObj' \in Callbacks \cup {NULL} /\ mFrameCallbackFunc' \in BOOLEAN
      <4>1. CASE UNCHANGED targetVars
        BY <1>a, <4>1 DEF ControlType
      <4>2. CASE \E from \in CallbackPlaces : SwapCallback(c, from)
        <5>1. mFrameCallbackObj' \in Callbacks \cup {NULL}
          BY <3>1, <4>2 DEF SwapCallback, ApiGoto
        <5>2. CASE arg[c] = NULL
          BY <1>a, <4>2, <5>1, <5>2 DEF SwapCallback, ControlType
        <5>3. CASE arg[c] # NULL
          <6>1. mFrameCallbackFunc' = (arg[c] \in Converting)
            BY <4>2, <5>3 DEF SwapCallback
          <6>2. (arg[c] \in Converting) = TRUE \/ (arg[c] \in Converting) = FALSE
            OBVIOUS
          <6>3. mFrameCallbackFunc' = TRUE \/ mFrameCallbackFunc' = FALSE
            BY <6>1, <6>2
          <6> QED
            BY <5>1, <6>3
        <5> QED
          BY <5>2, <5>3
      <4>3. CASE EnterSetFrameCallback(c) \/ FinishSetFrameCallback(c)
        BY <4>1, <4>2, <4>3
          DEF EnterSetFrameCallback, FinishSetFrameCallback, Pause, CallbackPlaces
      <4>4. CASE EnterSetCaptureDisplay(c) \/ FinishSetCaptureDisplay(c)
        BY <4>1, <4>4 DEF EnterSetCaptureDisplay, FinishSetCaptureDisplay, Pause, SwapWindow
      <4> QED
        BY <2>9, <4>1, <4>3, <4>4
        DEF Targets, StopReleasePreviewWindow, StopReleaseCaptureWindow
    <3>4. /\ mPreviewWindow' \in PreviewSurfaces \cup {NULL}
          /\ mCaptureWindow' \in CaptureSurfaces \cup {NULL}
      BY <2>9, <1>a, <3>1
      DEF Targets, StopReleasePreviewWindow, StopReleaseCaptureWindow, EnterSetFrameCallback,
          FinishSetFrameCallback, EnterSetCaptureDisplay, FinishSetCaptureDisplay, Pause,
          SwapCallback, SwapWindow, ControlType, ApiGoto, WindowPlaces
    <3>5. winRefs' \in [Surfaces -> Int]
      BY <2>9, <1>a, <1>b
      DEF Targets, StopReleasePreviewWindow, StopReleaseCaptureWindow, EnterSetFrameCallback,
          FinishSetFrameCallback, EnterSetCaptureDisplay, FinishSetCaptureDisplay, Pause,
          SwapCallback, SwapWindow, ControlType
    <3> QED
      BY <1>a, <2>1, <2>2, <2>3, <2>4, <2>6, <2>7, <2>8, <3>2, <3>3, <3>4, <3>5 DEF ControlType
  <2>10. CASE Lifecycle(c) \/ Clearing(c)
    <3>1. UNCHANGED <<targetVars, windowVars, arg>>
      BY <2>10 DEF Lifecycle, Clearing
    <3> QED
      BY <1>a, <2>1, <2>2, <2>3, <2>4, <2>6, <2>7, <2>8, <3>1 DEF ControlType
  <2> QED
    BY <1>2, <2>9, <2>10 DEF ClientStep
<1>3. ASSUME FrameCallback, UNCHANGED UsbRest PROVE ControlType'
  <2>1. usb' \in {"idle", "add", "drop"}
    BY <1>3, <1>a DEF FrameCallback, ControlType
  <2>2. captured' \in 0..MaxStamp
    BY <1>3, <1>a, PreviewAssumption DEF FrameCallback, ControlType
  <2> QED
    BY <1>3, <1>a, <1>c, <2>1, <2>2 DEF FrameCallback, UsbRest, ControlType
<1>4. ASSUME UsbStep PROVE ControlType'
  <2>1. usb' \in {"idle", "add", "drop"} /\ UNCHANGED captured
    BY <1>4, <1>a DEF UsbStep, AddPreviewFrame, DropPreviewFrame, ControlType
  <2>2. prev' \in PreviewPlaces
    BY <1>4, <1>a
    DEF UsbStep, AddPreviewFrame, DropPreviewFrame, PrevAfterSignal, ControlType, PreviewPlaces
  <2>3. Len(previewFrames)' <= MaxFrame
    <3>1. CASE AddPreviewFrame /\ PreviewFrameWanted
      BY <3>1, <1>a, PreviewAssumption
      DEF AddPreviewFrame, PreviewFrameWanted, Heap, OwnerType
    <3>2. CASE UNCHANGED previewFrames
      BY <1>c, <3>2
    <3> QED
      BY <1>4, <3>1, <3>2 DEF UsbStep, AddPreviewFrame, DropPreviewFrame
  <2> QED
    BY <1>4, <1>a, <2>1, <2>2, <2>3 DEF UsbStep, UsbRest, ControlType
<1>5. ASSUME PreviewStep PROVE ControlType'
  <2>1. api' \in [Clients -> ClientPlaces]
    BY <1>5, <1>a, EngineStepsWake
  <2>2. prev' \in PreviewPlaces
    BY <1>5, <1>a
    DEF PreviewStep, StartStreaming, ClearAtStart, CreateCaptureThread, PreviewLoop,
        WaitPreviewFrame, TakePreviewFrame, DecodeFrame, RecycleDecoded, DrawPreview,
        RecycleDrawn, AddCaptureFrame, SignalCaptureThread, StopStreaming, PrevGoto,
        ControlType, PreviewPlaces
  <2>3. streaming' \in BOOLEAN /\ sessionStart' \in 0..MaxStamp
    BY <1>5, <1>a
    DEF PreviewStep, StartStreaming, ClearAtStart, CreateCaptureThread, PreviewLoop,
        WaitPreviewFrame, TakePreviewFrame, DecodeFrame, RecycleDecoded, DrawPreview,
        RecycleDrawn, AddCaptureFrame, SignalCaptureThread, StopStreaming, ControlType
  <2>4. cap' \in [CapThreads -> CapturePlaces] /\ capture_thread' \in CapThreads \cup {NULL}
    <3>1. ASSUME NEW W \in SUBSET CaptureWaiters
          PROVE  CapAfter(W) \in [CapThreads -> CapturePlaces]
      BY <1>a DEF CapAfter, ControlType, CapturePlaces
    <3> QED
      BY <1>5, <1>a, <3>1, SignalledWait
      DEF PreviewStep, StartStreaming, ClearAtStart, CreateCaptureThread, PreviewLoop,
          WaitPreviewFrame, DecodeFrame, RecycleDecoded, DrawPreview,
          RecycleDrawn, AddCaptureFrame, SignalCaptureThread, StopStreaming, ControlType,
          CapturePlaces
  <2>5. Len(previewFrames)' <= MaxFrame
    <3>1. CASE ClearAtStart
      BY <3>1, PreviewAssumption DEF ClearAtStart, ClearPreviewFrame
    <3>2. CASE previewFrames # <<>> /\ previewFrames' = Tail(previewFrames)
      BY <1>a, <3>2, PreviewAssumption DEF ControlType, Heap, OwnerType
    <3> QED
      BY <1>5, <1>c, <3>1, <3>2
      DEF PreviewStep, StartStreaming, CreateCaptureThread, PreviewLoop,
          WaitPreviewFrame, TakePreviewFrame, DecodeFrame, RecycleDecoded, DrawPreview,
          RecycleDrawn, AddCaptureFrame, SignalCaptureThread, StopStreaming
  <2> QED
    BY <1>5, <1>a, <2>1, <2>2, <2>3, <2>4, <2>5 DEF PreviewStep, PreviewRest, ControlType
<1>6. ASSUME NEW k \in CapThreads, CaptureStep(k) PROVE ControlType'
  <2>1. api' \in [Clients -> ClientPlaces]
    BY <1>6, <1>a, EngineStepsWake
  <2>2. cap' \in [CapThreads -> CapturePlaces]
    <3>1. CASE \E x, y \in CapturePlaces : CapGoto(k, x, y)
      BY <1>a, <3>1 DEF CapGoto, ControlType
    <3>2. CASE BroadcastCapture(k)
      BY <1>a, <3>2 DEF BroadcastCapture, CapAfter, ControlType, CapturePlaces
    <3>3. CASE ConvertForSurface(k) \/ BeginCallback(k) \/ ConvertForCallback(k)
      BY <3>1, <3>3 DEF ConvertForSurface, BeginCallback, ConvertForCallback, CapturePlaces
    <3> QED
      BY <1>6, <3>1, <3>2, <3>3
      DEF CaptureStep, ClearBeforeCapture, CaptureOuter, MarkCapturing, CaptureBranch,
          CaptureLoop, WaitCaptureFrame, TakeCaptureFrame, CopyToSurface,
          CallOnFrame, RecycleCallbackFrame, LeaveSurface, ReleaseSurface, ForgetSurface,
          CapturePlaces
  <2>3. /\ mIsCapturing' \in BOOLEAN
        /\ mCaptureWindow' \in CaptureSurfaces \cup {NULL}
        /\ winRefs' \in [Surfaces -> Int]
    <3>1. CASE UNCHANGED <<mCaptureWindow, winRefs, mIsCapturing>>
      BY <1>a, <3>1 DEF ControlType
    <3>2. CASE MarkCapturing(k)
      BY <1>a, <3>2 DEF MarkCapturing, ControlType
    <3>3. CASE ReleaseSurface(k) \/ ForgetSurface(k)
      BY <1>a, <1>b, <3>3 DEF ReleaseSurface, ForgetSurface, ControlType
    <3> QED
      BY <1>6, <3>1, <3>2, <3>3
      DEF CaptureStep, ClearBeforeCapture, CaptureOuter, CaptureBranch, CaptureLoop,
          WaitCaptureFrame, ConvertForSurface, CopyToSurface, BeginCallback,
          ConvertForCallback, CallOnFrame, RecycleCallbackFrame, LeaveSurface,
          BroadcastCapture, surfaceVars
  <2>5. onSurface' \in [CapThreads -> BOOLEAN]
    <3>1. CASE CaptureBranch(k)
      <4> DEFINE b == mCaptureWindow # NULL
      <4>1. b \in BOOLEAN
        BY Zenon
      <4> HIDE DEF b
      <4> QED
        BY <1>a, <3>1, <4>1 DEF CaptureBranch, ControlType, b
    <3>2. CASE LeaveSurface(k)
      BY <1>a, <3>2 DEF LeaveSurface, ControlType
    <3> QED
      BY <1>6, <1>a, <3>1, <3>2
      DEF CaptureStep, ClearBeforeCapture, CaptureOuter, MarkCapturing, CaptureLoop,
          WaitCaptureFrame, ConvertForSurface, CopyToSurface, BeginCallback,
          ConvertForCallback, CallOnFrame, RecycleCallbackFrame, ReleaseSurface, ForgetSurface,
          BroadcastCapture, surfaceVars, ControlType
  <2>4. delivered' \in 0..MaxStamp
    <3>1. CASE CallOnFrame(k)
      <4>1. hold[<<k, "frame">>] \in Frames
        BY <1>a, <3>1, SlotNames DEF CallOnFrame, CapGoto, LocalFrames, Heap, OwnerType
      <4> QED
        BY <1>a, <3>1, <4>1 DEF CallOnFrame, Heap, PoolType
    <3> QED
      BY <1>6, <1>a, <3>1
      DEF CaptureStep, ClearBeforeCapture, CaptureOuter, MarkCapturing, CaptureBranch,
          CaptureLoop, WaitCaptureFrame, ConvertForSurface, CopyToSurface, BeginCallback,
          ConvertForCallback, RecycleCallbackFrame, LeaveSurface, ReleaseSurface, ForgetSurface,
          BroadcastCapture, ControlType
  <2> QED
    BY <1>6, <1>a, <1>c, <2>1, <2>2, <2>3, <2>4, <2>5 DEF CaptureStep, CaptureRest, ControlType
<1>7. ASSUME SpuriousWakeup PROVE ControlType'
  <2>1. api' \in [Clients -> ClientPlaces]
    BY <1>7, <1>a, EngineStepsWake
  <2>2. cap' \in [CapThreads -> CapturePlaces] /\ prev' \in PreviewPlaces
    BY <1>7, <1>a
      DEF SpuriousWakeup, PrevGoto, CapAfter, ControlType, CapturePlaces, PreviewPlaces
  <2> QED
    BY <1>7, <1>a, <1>c, <2>1, <2>2 DEF SpuriousWakeup, ControlType
<1>8. ASSUME UNCHANGED vars PROVE ControlType'
  BY <1>8, <1>a, <1>c DEF vars, ControlType
<1> QED
  BY <1>1, <1>2, <1>3, <1>4, <1>5, <1>6, <1>7, <1>8 DEF Next

-----------------------------------------------------------------------------
(* The theorems.                                                           *)

\* The invariant holds at first.
LEMMA InitIInv == Init => IInv
<1> SUFFICES ASSUME Init PROVE IInv
  OBVIOUS
<1>1. ControlType
  <2>1. winRefs \in [Surfaces -> Int] /\ Len(previewFrames) <= MaxFrame
    BY PreviewAssumption DEF Init
  <2>2. /\ cap \in [CapThreads -> CapturePlaces] /\ onSurface \in [CapThreads -> BOOLEAN]
        /\ api \in [Clients -> ClientPlaces]
        /\ arg \in [Clients -> Callbacks \cup CaptureSurfaces \cup {NULL}]
        /\ prev \in PreviewPlaces
    BY DEF Init, PreviewPlaces, CapturePlaces, ClientPlaces
  <2>3. captured \in 0..MaxStamp /\ sessionStart \in 0..MaxStamp
        /\ delivered \in 0..MaxStamp /\ calls \in 0..MaxCalls
    BY PreviewAssumption DEF Init
  <2> QED
    BY <2>1, <2>2, <2>3 DEF Init, ControlType
<1>2. OwnerType /\ PoolType
  BY PreviewAssumption DEF Init, OwnerType, PoolType
<1>3. QueuedFrames = {}
  BY DEF Init, QueuedFrames
<1>4. Heap
  BY <1>2, <1>3 DEF Init, Heap, Distinct, Owned
<1>5. LocalFrames
  BY SlotNames DEF Init, LocalFrames
<1>6. MonitorHeld /\ ArgumentType
  BY DEF Init, MonitorHeld, ArgumentType, LockedPlaces, StoppingPlaces, CallbackPlaces,
         WindowPlaces
<1> QED
  BY <1>1, <1>4, <1>5, <1>6 DEF IInv

\* IInv holds in every reachable state.
THEOREM Inductive == Spec => []IInv
<1>1. IInv /\ [Next]_vars => IInv'
  BY TypeStep, HeapStep, LocalStep, MonitorStep, ArgumentStep DEF IInv
<1> QED
  BY <1>1, InitIInv, PTL DEF Spec

\* Every variable of the engine keeps its type, and the preview queue its bound
\* MAX_FRAME (UVCPreview::addPreviewFrame).
THEOREM TypeCorrect == Spec => []TypeOK
<1>1. IInv => TypeOK
  BY IInvMeaning
<1> QED
  BY <1>1, Inductive, PTL

\* No frame buffer ever has two owners, whatever the threads' interleaving and
\* the application's calls (get_frame, recycle_frame and all their callers).
THEOREM FramesNeverShared == Spec => []FramesExclusive
<1>1. IInv => FramesExclusive
  BY IInvMeaning
<1> QED
  BY <1>1, Inductive, PTL

\* No frame buffer is ever lost: what get_frame allocated is in the pool, in a
\* queue or with a thread until recycle_frame frees it.
THEOREM FramesNeverLeak == Spec => []NoFrameLeak
<1>1. IInv => NoFrameLeak
  BY IInvMeaning
<1> QED
  BY <1>1, Inductive, PTL

\* A thread owns frames only in the code that uses them.
THEOREM FramesWithTheirUsers == Spec => []LocalFrames
<1>1. IInv => LocalFrames
  BY IInvMeaning
<1> QED
  BY <1>1, Inductive, PTL

\* startPreview never overwrites the handle of a living preview thread.
THEOREM NoSecondPreviewThread == Spec => []OnePreviewThread
<1>1. IInv => OnePreviewThread
  BY DEF IInv, MonitorHeld, OnePreviewThread
<1> QED
  BY <1>1, Inductive, PTL

-----------------------------------------------------------------------------
(* No thread sleeps beside a frame that waits for it: what the liveness    *)
(* properties PreviewFrameTaken and CaptureFrameTaken rest on.             *)

PreviewAwake == prev = "waiting" => previewFrames = <<>>
CaptureAwake == \A k \in CapThreads : cap[k] = "waiting" => captureQueu = NULL

\* Only WaitPreviewFrame puts the preview thread to sleep, on an empty queue, and
\* AddPreviewFrame wakes it.
LEMMA PreviewAwakeStep == PreviewAwake /\ [Next]_vars => PreviewAwake'
<1> SUFFICES ASSUME PreviewAwake, [Next]_vars PROVE PreviewAwake'
  OBVIOUS
<1> USE DEF PreviewAwake
<1>1. ASSUME NEW c \in Clients, Call(c) PROVE PreviewAwake'
  BY <1>1 DEF Call, StartPreview, StopPreview, queueVars
<1>2. ASSUME NEW c \in Clients, ClientStep(c) PROVE PreviewAwake'
  <2>1. CASE Lifecycle(c)
    BY <2>1 DEF Lifecycle, CreatePreviewThread, StopSignalPreview, StopSignalCapture,
                JoinCapture, JoinPreview, PrevAfterSignal, queueVars
  <2>2. CASE Clearing(c)
    BY <2>2 DEF Clearing, StopClearPreview, StopClearCapture, ClearPreviewFrame,
                ClearCaptureFrame
  <2>3. CASE Targets(c) BY <2>3 DEF Targets, queueVars
  <2> QED BY <1>2, <2>1, <2>2, <2>3 DEF ClientStep
<1>3. CASE FrameCallback BY <1>3 DEF FrameCallback
<1>4. CASE UsbStep
  BY <1>4 DEF UsbStep, AddPreviewFrame, DropPreviewFrame, PrevAfterSignal
<1>5. CASE PreviewStep
  <2>1. CASE WaitPreviewFrame
    BY <2>1 DEF WaitPreviewFrame, TakePreviewFrame, PrevGoto
  <2>2. CASE ~WaitPreviewFrame
    BY <1>5, <2>2 DEF PreviewStep, StartStreaming, ClearAtStart, CreateCaptureThread,
                      PreviewLoop, DecodeFrame, RecycleDecoded, DrawPreview, RecycleDrawn,
                      AddCaptureFrame, SignalCaptureThread, StopStreaming, PrevGoto
  <2> QED BY <2>1, <2>2
<1>6. ASSUME NEW k \in CapThreads, CaptureStep(k) PROVE PreviewAwake'
  BY <1>6 DEF CaptureStep, CaptureRest
<1>7. CASE SpuriousWakeup BY <1>7 DEF SpuriousWakeup, PrevGoto, queueVars
<1>8. CASE UNCHANGED vars BY <1>8 DEF vars, queueVars
<1> QED BY <1>1, <1>2, <1>3, <1>4, <1>5, <1>6, <1>7, <1>8 DEF Next

\* A step that fills no capture queue and puts no capture thread to sleep.
LEMMA CaptureAwakeStays ==
    ASSUME CaptureAwake, captureQueu' \in {captureQueu, NULL},
           \A k \in CapThreads : cap'[k] = "waiting" => cap[k] = "waiting"
    PROVE  CaptureAwake'
BY DEF CaptureAwake

\* A wakeup puts nobody to sleep.
LEMMA WakenedCaps ==
    ASSUME NEW W
    PROVE  \A k \in CapThreads : CapAfter(W)[k] = "waiting" => cap[k] = "waiting"
BY DEF CapAfter

\* Only WaitCaptureFrame puts a capture thread to sleep, with no frame queued, and
\* AddCaptureFrame wakes all of them.
LEMMA CaptureAwakeStep == IInv /\ CaptureAwake /\ [Next]_vars => CaptureAwake'
<1> SUFFICES ASSUME IInv, CaptureAwake, [Next]_vars PROVE CaptureAwake'
  OBVIOUS
<1>a. cap \in [CapThreads -> CapturePlaces] BY DEF IInv, ControlType
<1>1. ASSUME NEW c \in Clients, Call(c) PROVE CaptureAwake'
  <2>1. UNCHANGED <<cap, captureQueu>>
    BY <1>1 DEF Call, StartPreview, StopPreview, queueVars
  <2> QED BY <2>1, CaptureAwakeStays
<1>2. ASSUME NEW c \in Clients, ClientStep(c) PROVE CaptureAwake'
  <2>1. CASE Lifecycle(c)
    <3>1. captureQueu' = captureQueu BY <2>1 DEF Lifecycle, queueVars
    <3>2. \A k \in CapThreads : cap'[k] = "waiting" => cap[k] = "waiting"
      <4>1. CASE \E W : cap' = CapAfter(W) BY <4>1, WakenedCaps
      <4>2. CASE JoinCapture(c) BY <4>2 DEF JoinCapture
      <4>3. CASE UNCHANGED cap BY <4>3
      <4> QED BY <2>1, <4>1, <4>2, <4>3
            DEF Lifecycle, CreatePreviewThread, StopSignalPreview, StopSignalCapture,
                JoinPreview
    <3> QED BY <3>1, <3>2, CaptureAwakeStays
  <2>2. CASE Clearing(c)
    <3>1. UNCHANGED cap /\ captureQueu' \in {captureQueu, NULL}
      BY <2>2 DEF Clearing, StopClearPreview, StopClearCapture, ClearPreviewFrame,
                  ClearCaptureFrame
    <3> QED BY <3>1, CaptureAwakeStays
  <2>3. CASE Targets(c)
    <3>1. captureQueu' = captureQueu BY <2>3 DEF Targets, queueVars
    <3>2. UNCHANGED cap \/ \E W : cap' = CapAfter(W)
      BY <2>3 DEF Targets, StopReleasePreviewWindow, StopReleaseCaptureWindow,
                  EnterSetFrameCallback, FinishSetFrameCallback, EnterSetCaptureDisplay,
                  FinishSetCaptureDisplay, SwapCallback, SwapWindow, Pause
    <3> QED BY <3>1, <3>2, WakenedCaps, CaptureAwakeStays
  <2> QED BY <1>2, <2>1, <2>2, <2>3 DEF ClientStep
<1>3. CASE (FrameCallback /\ UNCHANGED UsbRest) \/ UsbStep
  BY <1>3, CaptureAwakeStays DEF UsbStep, UsbRest, capVars
<1>4. CASE PreviewStep
  <2>1. CASE AddCaptureFrame
    <3>1. CASE ~mIsRunning BY <2>1, <3>1, CaptureAwakeStays DEF AddCaptureFrame
    <3>2. CASE mIsRunning
      <4>1. \A k \in CapThreads : cap'[k] # "waiting"
        BY <2>1, <3>2 DEF AddCaptureFrame, CapAfter, CaptureWaiters
      <4> QED BY <4>1 DEF CaptureAwake
    <3> QED BY <3>1, <3>2
  <2>2. CASE CreateCaptureThread
    BY <1>a, <2>2, CaptureAwakeStays DEF CreateCaptureThread, queueVars
  <2>3. CASE SignalCaptureThread
    BY <2>3, WakenedCaps, CaptureAwakeStays DEF SignalCaptureThread, queueVars
  <2>4. CASE ClearAtStart
    BY <2>4, CaptureAwakeStays DEF ClearAtStart, ClearPreviewFrame
  <2>5. CASE \/ StartStreaming \/ PreviewLoop \/ WaitPreviewFrame \/ DecodeFrame
             \/ RecycleDecoded \/ DrawPreview \/ RecycleDrawn \/ StopStreaming
    BY <2>5, CaptureAwakeStays
      DEF StartStreaming, PreviewLoop, WaitPreviewFrame, DecodeFrame, RecycleDecoded,
          DrawPreview, RecycleDrawn, StopStreaming, queueVars
  <2> QED BY <1>4, <2>1, <2>2, <2>3, <2>4, <2>5 DEF PreviewStep
<1>5. ASSUME NEW k \in CapThreads, CaptureStep(k) PROVE CaptureAwake'
  <2>1. CASE WaitCaptureFrame(k)
    BY <1>a, <2>1 DEF WaitCaptureFrame, TakeCaptureFrame, CapGoto, CaptureAwake
  <2>2. CASE BroadcastCapture(k)
    <3>1. \A j \in CapThreads : cap'[j] # "waiting"
      BY <2>2 DEF BroadcastCapture, CapAfter, CaptureWaiters
    <3> QED BY <3>1 DEF CaptureAwake
  <2>3. CASE ClearBeforeCapture(k)
    BY <1>a, <2>3, CaptureAwakeStays DEF ClearBeforeCapture, ClearCaptureFrame, CapGoto
  <2>4. CASE ConvertForCallback(k)
    <3>1. \E to \in {"call", "recycle"} : CapGoto(k, "convert", to)
      BY <2>4 DEF ConvertForCallback
    <3> QED BY <1>a, <2>4, <3>1, CaptureAwakeStays DEF ConvertForCallback, CapGoto, queueVars
  <2>5. CASE \/ CaptureOuter(k) \/ MarkCapturing(k) \/ CaptureBranch(k) \/ CaptureLoop(k)
             \/ ConvertForSurface(k) \/ CopyToSurface(k) \/ BeginCallback(k)
             \/ CallOnFrame(k) \/ RecycleCallbackFrame(k) \/ LeaveSurface(k)
             \/ ReleaseSurface(k) \/ ForgetSurface(k)
    <3>1. captureQueu' = captureQueu
      BY <2>5 DEF CaptureOuter, MarkCapturing, CaptureBranch, CaptureLoop, ConvertForSurface,
                  CopyToSurface, BeginCallback, CallOnFrame, RecycleCallbackFrame,
                  LeaveSurface, ReleaseSurface, ForgetSurface, queueVars
    <3>2. cap'[k] # "waiting" /\ \A j \in CapThreads \ {k} : cap'[j] = cap[j]
      <4>1. CASE ConvertForSurface(k) \/ BeginCallback(k)
        BY <1>a, <4>1 DEF ConvertForSurface, BeginCallback, CapGoto
      <4>2. CASE ~(ConvertForSurface(k) \/ BeginCallback(k))
        BY <1>a, <2>5, <4>2
          DEF CaptureOuter, MarkCapturing, CaptureBranch, CaptureLoop, CopyToSurface,
              CallOnFrame, RecycleCallbackFrame, LeaveSurface, ReleaseSurface,
              ForgetSurface, CapGoto
      <4> QED BY <4>1, <4>2
    <3> QED BY <3>1, <3>2, CaptureAwakeStays
  <2> QED BY <1>5, <2>1, <2>2, <2>3, <2>4, <2>5 DEF CaptureStep
<1>6. CASE SpuriousWakeup
  <2>1. UNCHANGED cap \/ \E W : cap' = CapAfter(W) BY <1>6 DEF SpuriousWakeup
  <2>2. captureQueu' = captureQueu BY <1>6 DEF SpuriousWakeup, queueVars
  <2> QED BY <2>1, <2>2, WakenedCaps, CaptureAwakeStays
<1>7. CASE UNCHANGED vars
  BY <1>7, CaptureAwakeStays DEF vars, capVars, queueVars
<1> QED BY <1>1, <1>2, <1>3, <1>4, <1>5, <1>6, <1>7 DEF Next

\* No wakeup is lost: the preview thread never sleeps while a frame of addPreviewFrame
\* waits for it, nor a capture thread while addCaptureFrame has left one, although
\* API threads wait on the same condition variable.
THEOREM NobodySleepsBesideAFrame == Spec => [](PreviewAwake /\ CaptureAwake)
<1>1. Init => PreviewAwake /\ CaptureAwake BY DEF Init, PreviewAwake, CaptureAwake
<1> QED BY <1>1, PreviewAwakeStep, CaptureAwakeStep, Inductive, PTL DEF Spec

=============================================================================
