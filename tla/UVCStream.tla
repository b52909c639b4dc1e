------------------------------ MODULE UVCStream -------------------------------
(***************************************************************************)
(* A video stream of libuvc (stream.c) from uvc_start_streaming_bandwidth  *)
(* to uvc_stop_streaming, as three threads see it: the owner, which starts *)
(* and stops it (the preview thread of libcamera); libusb's event thread,  *)
(* which completes transfers and runs _uvc_stream_callback; and the        *)
(* callback thread _uvc_user_caller.                                       *)
(*                                                                         *)
(* The data of a payload is abstracted to whether it completes a frame and *)
(* whether that frame is flagged as damaged (module UVCPayload looks       *)
(* inside); a frame is its sequence number.  A critical section of         *)
(* cb_mutex is one action, split at pthread_cond_wait.  `running' and      *)
(* hold_bfh_err are also read without the mutex: those reads are actions   *)
(* of their own.  Polling (uvc_stream_get_frame) is not used by libcamera. *)
(***************************************************************************)
EXTENDS Naturals, FiniteSets

CONSTANTS
    Transfers,      \* the LIBUVC_NUM_TRANSFER_BUFS transfers of a stream
    UnplugsAt,      \* the owner's places at which the camera may be unplugged
    SubmitFails,    \* may libusb_submit_transfer fail while streaming starts?
    TransferErrors, \* may a transfer end with LIBUSB_TRANSFER_ERROR, or its
                    \* resubmission fail, while the camera is attached?
    DamagedFrames,  \* may frames be flagged with UVC_STREAM_ERR?
    MaxSeq,         \* bound: frames published in a session
    MaxOpens        \* bound: calls of uvc_start_streaming_bandwidth

\* Where the owner can be: between calls ("closed", "opened", "streaming"), in
\* uvc_start_streaming_bandwidth, in uvc_stream_stop or in uvc_stream_close.
OwnerPlaces == {"closed", "opened", "setup", "thread", "submit", "streaming", "stop",
                "cancel", "drain", "waiting", "join", "close", "close_failed"}

ASSUME StreamAssumption ==
    /\ IsFiniteSet(Transfers) /\ Transfers # {}
    /\ UnplugsAt \subseteq OwnerPlaces /\ SubmitFails \in BOOLEAN
    /\ TransferErrors \in BOOLEAN /\ DamagedFrames \in BOOLEAN
    /\ MaxSeq \in Nat \ {0} /\ MaxOpens \in Nat \ {0}

VARIABLES
    \* ---- uvc_stream_handle_t
    open,           \* the handle exists (it is freed by uvc_stream_close)
    running,
    transfers,      \* transfers[t]: "null", "idle", "flying", "cancelled"
                    \* (in flight, to be cancelled), "done" (in its callback)
                    \* or "lost" (its resubmission failed)
    seq,            \* number of the frame in outbuf
    hold_seq,       \* number of the frame in holdbuf
    hold_bfh_err,   \* that frame is flagged
    frame,          \* number of the frame copied for the user, 0 for none
    \* ---- the threads
    owner,          \* where the owner is
    event,          \* where the event thread is
    caller,         \* where the callback thread is
    last_seq,       \* its local variable
    \* ---- the camera and history
    plugged,        \* the camera is attached
    shown,          \* number of the frame last passed to the user's callback
    opens           \* streams opened so far

handleVars == <<open, running, seq, hold_seq, hold_bfh_err, frame>>
callerVars == <<caller, last_seq, shown>>

vars == <<handleVars, transfers, owner, event, callerVars, plugged, opens>>

Init ==
    /\ open = FALSE /\ running = FALSE
    /\ transfers = [t \in Transfers |-> "null"]
    /\ seq = 0 /\ hold_seq = 0 /\ hold_bfh_err = FALSE /\ frame = 0
    /\ owner = "closed" /\ event = "idle"
    /\ caller = "none" /\ last_seq = 0
    /\ plugged = TRUE /\ shown = 0 /\ opens = 0

-----------------------------------------------------------------------------
(* The condition variable cb_cond, on which the owner and the callback     *)
(* thread wait.                                                            *)

\* Mutants: the owner or the callback thread is not woken.
OwnerNotWoken == owner
CallerNotWoken == caller

\* The program counters after pthread_cond_broadcast.
OwnerAfterBroadcast == IF owner = "waiting" THEN "drain" ELSE owner
CallerAfterBroadcast == IF caller = "waiting" THEN "check" ELSE caller

-----------------------------------------------------------------------------
(* The owner.                                                              *)

OwnerGoto(from, to) == owner = from /\ owner' = to

\* uvc_stream_open_ctrl: a new handle, zeroed, or an error (the interface
\* cannot be claimed, the format is refused).  No thread of an earlier handle
\* may be left: what it would do to the freed handle is undefined.
OpenStream ==
    /\ opens < MaxOpens /\ opens' = opens + 1
    /\ caller \in {"none", "exited"} /\ event = "idle"
    /\ \A t \in Transfers : transfers[t] = "null"
    /\ \/ /\ plugged /\ OwnerGoto("closed", "opened")
          /\ open' = TRUE /\ running' = FALSE
          /\ hold_seq' = 0 /\ hold_bfh_err' = FALSE /\ frame' = 0
       \/ owner = "closed" /\ UNCHANGED <<owner, open, running, hold_seq, hold_bfh_err, frame>>
    /\ UNCHANGED <<seq, transfers, event, callerVars, plugged>>

\* uvc_stream_start_bandwidth up to the choice of the alternate setting.
BeginStart ==
    /\ OwnerGoto("opened", "setup")
    /\ running' = TRUE /\ seq' = 0
    /\ UNCHANGED <<open, hold_seq, hold_bfh_err, frame, transfers, event,
                   callerVars, plugged, opens>>

\* The failures before the transfers exist: no frame descriptor, an unknown
\* format, no usable alternate setting, libusb_set_interface_alt_setting.
FailSetup ==
    /\ OwnerGoto("setup", "close") /\ running' = FALSE
    /\ UNCHANGED <<open, seq, hold_seq, hold_bfh_err, frame, transfers, event,
                   callerVars, plugged, opens>>

\* The transfers are allocated and filled, ...
SetupTransfers ==
    /\ OwnerGoto("setup", "thread")
    /\ transfers' = [t \in Transfers |-> "idle"]
    /\ UNCHANGED <<handleVars, event, callerVars, plugged, opens>>

\* ... the callback thread is created (the result is not looked at) ...
CreateCaller ==
    /\ OwnerGoto("thread", "submit")
    /\ caller' \in {"check", "none"}
    /\ last_seq' = 0 /\ shown' = 0
    /\ UNCHANGED <<handleVars, transfers, event, plugged, opens>>

\* ... and the transfers are submitted, one after the other.
SubmitTransfer ==
    /\ owner = "submit" /\ plugged
    /\ \E t \in Transfers :
         /\ transfers[t] = "idle"
         /\ transfers' = [transfers EXCEPT ![t] = "flying"]
         /\ owner' = IF \A u \in Transfers \ {t} : transfers[u] # "idle"
                     THEN "streaming" ELSE "submit"
    /\ UNCHANGED <<handleVars, event, callerVars, plugged, opens>>

\* When one cannot be submitted, the others stay as they are and
\* uvc_start_streaming_bandwidth closes the stream.
FailSubmit ==
    /\ SubmitFails \/ ~plugged
    /\ OwnerGoto("submit", "close_failed") /\ running' = FALSE
    /\ UNCHANGED <<open, seq, hold_seq, hold_bfh_err, frame, transfers, event,
                   callerVars, plugged, opens>>

\* uvc_stop_streaming calls uvc_stream_close, which stops the stream only if
\* it is running.
StopStreaming ==
    /\ OwnerGoto("streaming", IF running THEN "stop" ELSE "close")
    /\ UNCHANGED <<handleVars, transfers, event, callerVars, plugged, opens>>

\* uvc_stream_stop looks again, then clears the flag.
StopRunning ==
    /\ OwnerGoto("stop", IF running THEN "cancel" ELSE "close")
    /\ running' = FALSE
    /\ UNCHANGED <<open, seq, hold_seq, hold_bfh_err, frame, transfers, event,
                   callerVars, plugged, opens>>

\* Mutant: the wait is left although transfers remain.
DrainNothing ==
    /\ owner' = "join" /\ caller' = CallerAfterBroadcast

\* The wait for the transfers: its condition is tested before each wait.
DrainTransfers ==
    IF \A t \in Transfers : transfers'[t] = "null"
    THEN owner' = "join" /\ caller' = CallerAfterBroadcast
    ELSE owner' = "waiting" /\ UNCHANGED caller

\* Under cb_mutex every transfer in flight is cancelled (the others answer
\* LIBUSB_ERROR_NOT_FOUND), and the wait begins ...
CancelTransfers ==
    /\ owner = "cancel"
    /\ transfers' = [t \in Transfers |->
                       IF transfers[t] = "flying" THEN "cancelled" ELSE transfers[t]]
    /\ DrainTransfers
    /\ UNCHANGED <<handleVars, event, last_seq, shown, plugged, opens>>

\* ... or goes on.
WaitForTransfers ==
    /\ owner = "drain"
    /\ UNCHANGED transfers /\ DrainTransfers
    /\ UNCHANGED <<handleVars, event, last_seq, shown, plugged, opens>>

\* Mutant: pthread_join is left out.
SkipJoin ==
    /\ OwnerGoto("join", "close")
    /\ UNCHANGED <<handleVars, transfers, event, callerVars, plugged, opens>>

\* pthread_join of the callback thread; it returns at once when the thread
\* could not be created.
JoinCaller ==
    /\ OwnerGoto("join", "close") /\ caller \in {"exited", "none"}
    /\ UNCHANGED <<handleVars, transfers, event, callerVars, plugged, opens>>

\* The rest of uvc_stream_close: the handle is freed.
CloseStream ==
    /\ owner \in {"close", "close_failed"} /\ owner' = "closed"
    /\ open' = FALSE
    /\ UNCHANGED <<running, seq, hold_seq, hold_bfh_err, frame, transfers, event,
                   callerVars, plugged, opens>>

-----------------------------------------------------------------------------
(* The event thread: libusb reports a transfer, and _uvc_stream_callback   *)
(* runs.  It stops at a freed handle, where its behaviour is undefined.    *)

Completes(t) ==
    /\ open /\ event = "idle" /\ transfers[t] \in {"flying", "cancelled"}
    /\ transfers' = [transfers EXCEPT ![t] = "done"]

\* The transfer whose callback runs gets a new state.
HandOver(state) ==
    transfers' = [t \in Transfers |-> IF transfers[t] = "done" THEN state ELSE transfers[t]]

\* LIBUSB_TRANSFER_COMPLETED: the payload is processed first.
TransferCompleted(t) ==
    /\ plugged /\ Completes(t) /\ event' = "payload"
    /\ UNCHANGED <<handleVars, owner, callerVars, plugged, opens>>

\* TIMED_OUT, STALL and OVERFLOW: to be submitted again.
TransferRetried(t) ==
    /\ plugged /\ Completes(t) /\ event' = "decide"
    /\ UNCHANGED <<handleVars, owner, callerVars, plugged, opens>>

\* CANCELLED and ERROR: not to be submitted again.
TransferEnded(t) ==
    /\ (plugged /\ TransferErrors) \/ transfers[t] = "cancelled"
    /\ Completes(t) /\ event' = "delete"
    /\ UNCHANGED <<handleVars, owner, callerVars, plugged, opens>>

\* Mutant: the stream stays marked as running when the camera has gone.
KeepRunning(t) ==
    /\ ~plugged /\ Completes(t) /\ event' = "delete"
    /\ UNCHANGED <<handleVars, owner, callerVars, plugged, opens>>

\* NO_DEVICE: the stream is no longer running.
TransferNoDevice(t) ==
    /\ ~plugged /\ Completes(t) /\ event' = "delete"
    /\ running' = FALSE
    /\ UNCHANGED <<open, seq, hold_seq, hold_bfh_err, frame, owner, callerVars,
                   plugged, opens>>

\* Mutant: the number is incremented before it is stored.
SwapAfterCount(bad) ==
    /\ hold_seq' = seq + 1 /\ hold_bfh_err' = bad
    /\ seq' = seq + 1

\* The assignments of _uvc_swap_buffers.
SwapBuffers(bad) ==
    /\ hold_seq' = seq /\ hold_bfh_err' = bad
    /\ seq' = seq + 1

\* The packets of a transfer may complete frames, each of which is published
\* under cb_mutex.
ProcessPayload ==
    /\ open /\ event = "payload"
    /\ \/ event' = "decide" /\ UNCHANGED <<seq, hold_seq, hold_bfh_err, owner, caller>>
       \/ /\ seq < MaxSeq /\ UNCHANGED event
          /\ \E bad \in {FALSE, DamagedFrames} : SwapBuffers(bad)
          /\ owner' = OwnerAfterBroadcast /\ caller' = CallerAfterBroadcast
    /\ UNCHANGED <<open, running, frame, transfers, last_seq, shown,
                   plugged, opens>>

\* `if (running && resubmit)', read without cb_mutex, ...
DecideResubmit ==
    /\ open /\ event = "decide"
    /\ event' = IF running THEN "resubmit" ELSE "delete"
    /\ UNCHANGED <<handleVars, transfers, owner, callerVars, plugged, opens>>

\* ... then libusb_submit_transfer, whose result is ignored.
Resubmit ==
    /\ open /\ event = "resubmit" /\ event' = "idle"
    /\ \/ plugged /\ HandOver("flying")
       \/ (~plugged \/ TransferErrors) /\ HandOver("lost")
    /\ UNCHANGED <<handleVars, owner, callerVars, plugged, opens>>

\* _uvc_delete_transfer.
DeleteTransfer ==
    /\ open /\ event = "delete" /\ event' = "idle"
    /\ HandOver("null")
    /\ owner' = OwnerAfterBroadcast /\ caller' = CallerAfterBroadcast
    /\ UNCHANGED <<handleVars, last_seq, shown, plugged, opens>>

-----------------------------------------------------------------------------
(* The callback thread: _uvc_user_caller.                                  *)

\* The frame in holdbuf becomes the one last seen.
TakeSeq == last_seq' = hold_seq

\* The critical section: it ends the thread, waits, or takes the frame in
\* holdbuf, which is copied unless it is flagged.
CheckFrame ==
    /\ open /\ caller = "check"
    /\ IF ~running THEN caller' = "exited" /\ UNCHANGED <<last_seq, frame>>
       ELSE IF last_seq = hold_seq THEN caller' = "waiting" /\ UNCHANGED <<last_seq, frame>>
       ELSE /\ caller' = "test" /\ TakeSeq
            /\ frame' = IF hold_bfh_err THEN frame ELSE hold_seq
    /\ UNCHANGED <<open, running, seq, hold_seq, hold_bfh_err, transfers, owner,
                   event, shown, plugged, opens>>

\* hold_bfh_err is read again, without cb_mutex, and the user's callback is
\* called unless it is set.
CallUser ==
    /\ open /\ caller = "test"
    /\ IF hold_bfh_err THEN caller' = "check" /\ UNCHANGED shown
       ELSE caller' = "callback" /\ shown' = frame
    /\ UNCHANGED <<handleVars, transfers, owner, event, last_seq, plugged, opens>>

\* The user's callback returns.
UserReturns ==
    /\ open /\ caller = "callback" /\ caller' = "check"
    /\ UNCHANGED <<handleVars, transfers, owner, event, last_seq, shown,
                   plugged, opens>>

-----------------------------------------------------------------------------
\* The camera is unplugged.
Unplug ==
    /\ owner \in UnplugsAt /\ plugged /\ plugged' = FALSE
    /\ UNCHANGED <<handleVars, transfers, owner, event, callerVars, opens>>

\* A spurious return from pthread_cond_wait.
SpuriousWakeup ==
    /\ \/ OwnerGoto("waiting", "drain") /\ UNCHANGED caller
       \/ caller = "waiting" /\ caller' = "check" /\ UNCHANGED owner
    /\ UNCHANGED <<handleVars, transfers, event, last_seq, shown, plugged, opens>>

\* uvc_start_streaming_bandwidth once called, and uvc_stop_streaming once
\* called, go on until they return.
OwnerStep ==
    \/ BeginStart \/ FailSetup \/ SetupTransfers \/ CreateCaller
    \/ SubmitTransfer \/ FailSubmit \/ StopRunning \/ CancelTransfers
    \/ WaitForTransfers \/ JoinCaller \/ CloseStream

\* libusb reports every transfer in flight sooner or later: data, a timeout
\* (5000 ms), the cancellation, or the loss of the camera.
Reported(t) ==
    TransferCompleted(t) \/ TransferRetried(t) \/ TransferEnded(t) \/ TransferNoDevice(t)

EventStep == ProcessPayload \/ DecideResubmit \/ Resubmit \/ DeleteTransfer

CallerStep == CheckFrame \/ CallUser \/ UserReturns

Next ==
    \/ OpenStream \/ OwnerStep \/ StopStreaming
    \/ \E t \in Transfers : Reported(t)
    \/ EventStep \/ CallerStep \/ Unplug \/ SpuriousWakeup

Spec == Init /\ [][Next]_vars

\* Threads run when they can, and libusb reports each transfer in flight.
\* Nothing obliges the owner to start or stop streaming, or the camera to
\* complete a frame.
Fairness ==
    /\ WF_vars(OwnerStep) /\ WF_vars(EventStep) /\ WF_vars(CallerStep)
    /\ \A t \in Transfers : SF_vars(Reported(t))

FairSpec == Spec /\ Fairness

-----------------------------------------------------------------------------
(* What the stream promises.                                               *)

\* Every variable has its type; a frame's number is below the next one's.
TypeOK ==
    /\ open \in BOOLEAN /\ running \in BOOLEAN /\ plugged \in BOOLEAN
    /\ hold_bfh_err \in BOOLEAN
    /\ transfers \in [Transfers -> {"null", "idle", "flying", "cancelled", "done", "lost"}]
    /\ seq \in 0..MaxSeq
    /\ hold_seq \in 0..MaxSeq - 1 /\ frame \in 0..MaxSeq - 1
    /\ last_seq \in 0..MaxSeq - 1 /\ shown \in 0..MaxSeq - 1
    /\ owner \in OwnerPlaces
    /\ event \in {"idle", "payload", "decide", "resubmit", "delete"}
    /\ caller \in {"none", "check", "waiting", "test", "callback", "exited"}
    /\ opens \in 0..MaxOpens

\* uvc_stop_streaming "closes all streams, ends threads and cancels pollers":
\* the handle is freed only when nobody uses it any more, no transfer refers to
\* it and its callback thread has ended.
HandleAlive ==
    ~open => /\ \A t \in Transfers : transfers[t] = "null"
             /\ event = "idle" /\ caller \in {"none", "exited"}

\* The stream implements the interface UVCPreview relies on.
Source == INSTANCE FrameSource WITH
    streaming  <- owner \in OwnerPlaces \ {"closed", "opened", "setup", "thread", "close"},
    inCallback <- caller = "callback",
    last       <- shown,
    Repeats    <- DamagedFrames
SourceSpec == Source!Spec

\* The places of uvc_stream_stop.
Stopping == owner \in {"stop", "cancel", "drain", "waiting", "join"}

\* uvc_stop_streaming returns ("Stops stream, ends threads and cancels
\* pollers"), whether transfers fail or the camera is unplugged: no wakeup of
\* _uvc_delete_transfer is lost.  It waits for ever only for a transfer whose
\* resubmission has failed, a failure that is ignored.
StopEnds == Stopping ~> (owner = "closed" \/ \E t \in Transfers : transfers[t] = "lost")

\* A frame in holdbuf is looked at by the callback thread while the stream
\* runs: the wakeup of _uvc_swap_buffers is never lost.
FrameSeen ==
    (running /\ last_seq # hold_seq /\ caller \notin {"none", "exited"})
        ~> (last_seq = hold_seq \/ ~running)

\* When the camera is unplugged, the stream is marked as stopped and the
\* callback thread ends ("this needs for unexpected disconnect of cable
\* otherwise hangup"), if only one transfer is in flight to report it.
NoDeviceEnds ==
    (~plugged /\ owner = "streaming" /\ \E t \in Transfers : transfers[t] = "flying")
        ~> (caller \in {"none", "exited"} \/ owner # "streaming")
=============================================================================
