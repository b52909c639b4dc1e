----------------------------- MODULE FrameSource ------------------------------
(***************************************************************************)
(* What libuvc's streaming interface promises to its user: frames reach    *)
(* the user's callback one at a time, each newer than the last, between    *)
(* uvc_start_streaming_bandwidth and the return of uvc_stop_streaming, and *)
(* never after.  UVCStream implements it; UVCPreview relies on it (there,  *)
(* `streaming', `usb # "idle"' and `captured' play these parts).           *)
(***************************************************************************)
EXTENDS Naturals

CONSTANTS
    MaxSeq,        \* bound: frames in a session
    Repeats        \* may a frame be passed twice?  (A camera whose frames can be
                   \* damaged makes libuvc do so.)

VARIABLES
    streaming,     \* a session is under way
    inCallback,    \* the user's callback is running
    last           \* number of the frame last passed to it, 0 for none

vars == <<streaming, inCallback, last>>

Init == streaming = FALSE /\ inCallback = FALSE /\ last = 0

Start == ~streaming /\ streaming' = TRUE /\ last' = 0 /\ UNCHANGED inCallback

Callback ==
    /\ streaming /\ ~inCallback
    /\ inCallback' = TRUE
    /\ \/ last' \in (last + 1)..MaxSeq
       \/ Repeats /\ last' = last
    /\ UNCHANGED streaming

Return == inCallback /\ inCallback' = FALSE /\ UNCHANGED <<streaming, last>>

Stop == streaming /\ ~inCallback /\ streaming' = FALSE /\ UNCHANGED <<inCallback, last>>

Next == Start \/ Callback \/ Return \/ Stop

Spec == Init /\ [][Next]_vars
=============================================================================
