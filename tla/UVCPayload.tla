------------------------------ MODULE UVCPayload ------------------------------
(***************************************************************************)
(* How libuvc cuts the packets of a video stream into frames (stream.c:    *)
(* _uvc_process_payload for bulk, _uvc_process_payload_iso for isochronous *)
(* transfers).  A camera numbers its frames and sends each as packets with *)
(* a header: the frame's parity as FID, EOF on the last packet if the      *)
(* camera uses it, and ERR.  On the way packets are lost or damaged.       *)
(* UVCStream abstracts all this to `a payload may complete frames'.        *)
(*                                                                         *)
(* The data of a packet is its frame and its place there.  The iSight      *)
(* header, the time stamps and buffers that overflow (16 MB hold several   *)
(* frames) are left out.  So are headers shorter than the two bytes that   *)
(* UVC asks for: bulk, such a packet is data without FID and EOF           *)
(* (stream.c:719); isochronous, its second byte is read all the same (866).*)
(***************************************************************************)
EXTENDS Naturals, Sequences, FiniteSets

CONSTANTS
    Parts,          \* packets with data in a frame
    MaxFrames,      \* bound: frames sent
    MaxFaults       \* bound: packets lost or damaged

ASSUME PayloadAssumption ==
    /\ Parts \in Nat \ {0} /\ MaxFrames \in Nat \ {0} /\ MaxFaults \in Nat

VARIABLES
    mode,       \* "iso" or "bulk"
    eof,        \* how the camera uses EOF: "last" (on the last packet with
                \* data), "alone" (on a packet of its own) or "none"
    frame,      \* the camera sends this frame next, ...
    part,       \* ... and this packet of it
    faults,     \* packets lost or damaged so far, as pairs <<kind, frame>>
    fid, got,   \* strmh->fid and the data in outbuf, of length got_bytes
    bfh_err,
    published   \* history: the frames swapped to holdbuf, with hold_bfh_err

camVars == <<mode, eof, frame, part>>
strmVars == <<fid, got, bfh_err, published>>
vars == <<camVars, faults, strmVars>>

Init ==
    /\ mode \in {"iso", "bulk"} /\ eof \in {"last", "alone", "none"}
    /\ frame = 0 /\ part = 1 /\ faults = <<>>
    /\ fid = 0 /\ got = <<>> /\ bfh_err = FALSE /\ published = <<>>

-----------------------------------------------------------------------------
(* The camera.                                                             *)

\* A packet: its frame, the data (none for a bare header) and the EOF bit.
LastPart == IF eof = "alone" THEN Parts + 1 ELSE Parts

Packet ==
    [frame |-> frame, data |-> IF part <= Parts THEN <<<<frame, part>>>> ELSE <<>>,
     eof |-> part = LastPart /\ eof # "none"]

\* A header without data or EOF, which cameras send when they have nothing else.
Filler == [frame |-> frame, data |-> <<>>, eof |-> FALSE]

Advance ==
    /\ frame < MaxFrames
    /\ IF part = LastPart THEN frame' = frame + 1 /\ part' = 1
       ELSE frame' = frame /\ part' = part + 1
    /\ UNCHANGED <<mode, eof>>

-----------------------------------------------------------------------------
(* The receiver: the state of a stream and what a packet does to it.       *)

Stream == [fid |-> fid, got |-> got, err |-> bfh_err, out |-> published]

SetStream(s) ==
    /\ fid' = s.fid /\ got' = s.got /\ bfh_err' = s.err /\ published' = s.out

\* _uvc_swap_buffers
Swap(s) ==
    [s EXCEPT !.out = Append(@, [data |-> s.got, err |-> s.err]),
              !.got = <<>>, !.err = FALSE]

\* Mutants: a flipped FID is not acted on, or not kept.
HeaderIgnored(s, p) == [s EXCEPT !.fid = p.frame % 2]
HeaderForgets(s, p) == IF s.fid # p.frame % 2 /\ s.got # <<>> THEN Swap(s) ELSE s

\* The FID bit was flipped while there is data: EOF was missed.
Header(s, p) ==
    [(IF s.fid # p.frame % 2 /\ s.got # <<>> THEN Swap(s) ELSE s)
     EXCEPT !.fid = p.frame % 2]

CopyData(s, p) == [s EXCEPT !.got = @ \o p.data]

Flag(s) == [s EXCEPT !.err = TRUE]

\* Mutant: as the bulk function does, EOF counts on packets with data only.
EndOfFrameData(s, p) == IF p.eof /\ p.data # <<>> THEN Swap(s) ELSE s

\* EOF publishes the frame: isochronous if there is data of it, bulk if the
\* packet has data.
EndOfFrame(s, p) ==
    IF p.eof /\ (IF mode = "iso" THEN s.got ELSE p.data) # <<>> THEN Swap(s) ELSE s

\* A payload with a header of at least two bytes.
Process(s, p) ==
    LET t == CopyData(Header(s, p), p) IN EndOfFrame(t, p)

-----------------------------------------------------------------------------
(* What happens to a packet.                                               *)

Receive(p) == SetStream(Process(Stream, p))

\* A packet of status 0 and a sound header.
Deliver == Advance /\ Receive(Packet) /\ UNCHANGED faults

Fill ==
    /\ frame < MaxFrames /\ Receive(Filler)
    /\ UNCHANGED <<camVars, faults>>

Fault(k) ==
    /\ Len(faults) < MaxFaults /\ Advance
    /\ faults' = Append(faults, <<k, frame>>)

\* Lost on the way: the host sees nothing, or a packet of length 0.
Lose == Fault("lost") /\ UNCHANGED strmVars

\* Mutant: a damaged packet is not remembered.
StatusIgnored == mode = "iso" /\ Fault("status") /\ UNCHANGED strmVars

\* pkt->status # 0: the packet is not looked at.
BadStatus == mode = "iso" /\ Fault("status") /\ SetStream(Flag(Stream))

\* The camera sets ERR: isochronous, the packet is dropped with its FID; bulk,
\* it is processed as usual.
ErrorBit ==
    /\ Fault("error")
    /\ IF mode = "iso" THEN UNCHANGED strmVars ELSE Receive(Packet)

\* The header is longer than the packet: isochronous, FID has its effect
\* before that is noticed; bulk, it is noticed first.
BogusHeader ==
    /\ Fault("bogus")
    /\ SetStream(Flag(IF mode = "iso" THEN Header(Stream, Packet) ELSE Stream))

Next == Deliver \/ Fill \/ Lose \/ BadStatus \/ ErrorBit \/ BogusHeader

Spec == Init /\ [][Next]_vars

-----------------------------------------------------------------------------
(* What the frames are worth.                                              *)

\* The data of frame f.
Whole(f) == [i \in 1..Parts |-> <<f, i>>]

FramesIn(data) == {data[i][1] : i \in DOMAIN data}

\* Every packet of frame f was lost or damaged.
FaultsOf(f) == {i \in DOMAIN faults : faults[i][2] = f}
Vanished(f) == Cardinality(FaultsOf(f)) = LastPart

\* Without a fault, the frames published are those the camera sent, each whole,
\* unflagged and in order, whichever way it marks their ends; and the receiver
\* is not behind: a frame whose EOF is on its data is published with it, and
\* any other when the next one begins.
Faultless ==
    faults = <<>> =>
        /\ \A i \in DOMAIN published : published[i] = [data |-> Whole(i - 1), err |-> FALSE]
        /\ Len(published) \in
              IF eof = "last" \/ (eof = "alone" /\ mode = "iso") THEN {frame} ELSE
              {frame, IF frame = 0 THEN 0 ELSE frame - 1}

\* Data of two camera frames end up in one published frame only when FID hides
\* it: they have the same parity, and every frame of the other parity between
\* them vanished (one of their own parity may have been cut short as well).
MixedOnlyByParity ==
    \A b \in DOMAIN published : \A f, g \in FramesIn(published[b].data) :
        f < g => /\ f % 2 = g % 2
                 /\ \A h \in f + 1..g - 1 : h % 2 # f % 2 => Vanished(h)

\* A camera frame's data is never split over two published frames.
NeverSplit ==
    \A a, b \in DOMAIN published :
        a # b => FramesIn(published[a].data) \cap FramesIn(published[b].data) = {}

\* A damaged packet is not overlooked: when packets are damaged but none is
\* lost or marked ERR, a published frame with a hole in it is flagged, or else
\* the frame published just before it is (its flag was used up there).
DamageFlagged ==
    (\A i \in DOMAIN faults : faults[i][1] \in {"status", "bogus"}) =>
        \A b \in DOMAIN published :
            \/ published[b].err \/ (b > 1 /\ published[b - 1].err)
            \/ \E f \in 0..frame : published[b].data = Whole(f)
=============================================================================
