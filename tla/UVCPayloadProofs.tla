--------------------------- MODULE UVCPayloadProofs ---------------------------
(***************************************************************************)
(* Proofs about the cutting of packets into frames, for any number of      *)
(* frames, of packets in a frame and of faults.  No assumption is made     *)
(* beyond the one on the constants.                                        *)
(*                                                                         *)
(* What a packet does to the stream is a chain of operators on records     *)
(* (Header, CopyData, EndOfFrame, Flag): each invariant is stated of a     *)
(* record, and preserved along the chain, one lemma for each operator.     *)
(***************************************************************************)
EXTENDS UVCPayload, SequenceTheorems, FiniteSetTheorems, TLAPS

USE PayloadAssumption DEF PayloadAssumption

Datum == Nat \X (1..Parts)
Kinds == {"lost", "status", "error", "bogus"}
Frames == [data : Seq(Datum), err : BOOLEAN]
Streams == [fid : {0, 1}, got : Seq(Datum), err : BOOLEAN, out : Seq(Frames)]
Packets == [frame : Nat, data : {<<>>} \cup {<<d>> : d \in Datum}, eof : BOOLEAN]

-----------------------------------------------------------------------------
(* Types.                                                                  *)

\* The fields of a stream and of a packet.
LEMMA StreamFields ==
    ASSUME NEW s \in Streams
    PROVE  /\ s.fid \in {0, 1} /\ s.got \in Seq(Datum) /\ s.err \in BOOLEAN
           /\ s.out \in Seq(Frames) /\ [data |-> s.got, err |-> s.err] \in Frames
  BY DEF Streams, Frames

\* The fields of a packet.
LEMMA PacketFields ==
    ASSUME NEW p \in Packets
    PROVE  /\ p.frame \in Nat /\ p.frame % 2 \in {0, 1} /\ p.eof \in BOOLEAN
           /\ p.data = <<>> \/ \E d \in Datum : p.data = <<d>>
           /\ p.data \in Seq(Datum)
<1>1. p.frame \in Nat /\ p.eof \in BOOLEAN /\ p.data \in {<<>>} \cup {<<d>> : d \in Datum}
  BY DEF Packets
<1>2. p.frame % 2 \in {0, 1} BY <1>1
<1>3. p.data = <<>> \/ \E d \in Datum : p.data = <<d>> BY <1>1
<1>4. \A d \in Datum : <<d>> \in Seq(Datum) OBVIOUS
<1>5. <<>> \in Seq(Datum) BY EmptySeq
<1>6. p.data \in Seq(Datum) BY <1>3, <1>4, <1>5
<1> QED BY <1>1, <1>2, <1>3, <1>6

\* What each operator does to the fields, and that it returns a stream.
LEMMA SwapFields ==
    ASSUME NEW s \in Streams
    PROVE  /\ Swap(s) \in Streams
           /\ Swap(s).fid = s.fid /\ Swap(s).got = <<>> /\ Swap(s).err = FALSE
           /\ Swap(s).out = Append(s.out, [data |-> s.got, err |-> s.err])
<1>1. Append(s.out, [data |-> s.got, err |-> s.err]) \in Seq(Frames)
  BY StreamFields, AppendProperties
<1>2. <<>> \in Seq(Datum) BY EmptySeq
<1>3. PICK o \in Seq(Frames), g \in Seq(Datum) :
        o = Append(s.out, [data |-> s.got, err |-> s.err]) /\ g = <<>>
  BY <1>1, <1>2
<1>4. Swap(s) = [s EXCEPT !.out = o, !.got = g, !.err = FALSE] BY <1>3 DEF Swap
<1>5. [s EXCEPT !.out = o, !.got = g, !.err = FALSE] \in Streams BY DEF Streams
<1> QED BY <1>3, <1>4, <1>5 DEF Streams

\* What reading a packet's header does: FID sets the parity, and a change of it
\* ends the frame before.
LEMMA HeaderFields ==
    ASSUME NEW s \in Streams, NEW p \in Packets
    PROVE  /\ Header(s, p) \in Streams /\ Header(s, p).fid = p.frame % 2
           /\ \/ /\ s.fid = p.frame % 2 \/ s.got = <<>>
                 /\ Header(s, p).got = s.got /\ Header(s, p).err = s.err
                 /\ Header(s, p).out = s.out
              \/ /\ s.fid # p.frame % 2 /\ s.got # <<>>
                 /\ Header(s, p).got = Swap(s).got /\ Header(s, p).err = Swap(s).err
                 /\ Header(s, p).out = Swap(s).out
<1>1. PICK q \in {0, 1} : q = p.frame % 2 BY PacketFields
<1>2. CASE s.fid # q /\ s.got # <<>>
  <2>1. PICK t \in Streams : t = Swap(s) BY SwapFields
  <2>2. PICK h : h = [t EXCEPT !.fid = q] OBVIOUS
  <2>3. h \in Streams /\ h.fid = q /\ h.got = t.got /\ h.err = t.err /\ h.out = t.out
    BY <2>2 DEF Streams
  <2>4. Header(s, p) = h BY <1>1, <1>2, <2>1, <2>2 DEF Header
  <2> QED BY <1>1, <1>2, <2>1, <2>3, <2>4, SwapFields
<1>3. CASE ~(s.fid # q /\ s.got # <<>>)
  <2>1. PICK h : h = [s EXCEPT !.fid = q] OBVIOUS
  <2>2. h \in Streams /\ h.fid = q /\ h.got = s.got /\ h.err = s.err /\ h.out = s.out
    BY <2>1 DEF Streams
  <2>3. Header(s, p) = h BY <1>1, <1>3, <2>1 DEF Header
  <2> QED BY <1>1, <1>3, <2>2, <2>3
<1> QED BY <1>2, <1>3

\* The receiver's parity is then that of the packet.
LEMMA HeaderFid ==
    ASSUME NEW s \in Streams, NEW p \in Packets
    PROVE  Header(s, p).fid = p.frame % 2
  BY HeaderFields

\* What copying a packet's data does.
LEMMA CopyFields ==
    ASSUME NEW s \in Streams, NEW p \in Packets
    PROVE  /\ CopyData(s, p) \in Streams
           /\ CopyData(s, p).fid = s.fid /\ CopyData(s, p).err = s.err
           /\ CopyData(s, p).out = s.out
           /\ p.data = <<>> => CopyData(s, p).got = s.got
           /\ \A d \in Datum : p.data = <<d>> => CopyData(s, p).got = Append(s.got, d)
<1>1. s.got \o p.data \in Seq(Datum) BY StreamFields, PacketFields, ConcatProperties
<1>2. PICK g \in Seq(Datum) : g = s.got \o p.data BY <1>1
<1>3. CopyData(s, p) = [s EXCEPT !.got = g] BY <1>2 DEF CopyData
<1>4. p.data = <<>> => g = s.got BY <1>2, StreamFields, ConcatEmptySeq
<1>5. ASSUME NEW d \in Datum, p.data = <<d>> PROVE g = Append(s.got, d)
  BY <1>2, <1>5, StreamFields, AppendIsConcat
<1>6. /\ [s EXCEPT !.got = g] \in Streams
      /\ [s EXCEPT !.got = g].fid = s.fid /\ [s EXCEPT !.got = g].got = g
      /\ [s EXCEPT !.got = g].err = s.err /\ [s EXCEPT !.got = g].out = s.out
  BY DEF Streams
<1> QED BY <1>3, <1>4, <1>5, <1>6

\* What flagging the frame at hand as damaged does.
LEMMA FlagFields ==
    ASSUME NEW s \in Streams
    PROVE  /\ Flag(s) \in Streams
           /\ Flag(s).fid = s.fid /\ Flag(s).got = s.got /\ Flag(s).err = TRUE
           /\ Flag(s).out = s.out
  BY DEF Flag, Streams

\* The packets the camera sends.
CameraType ==
    /\ mode \in {"iso", "bulk"} /\ eof \in {"last", "alone", "none"}
    /\ frame \in Nat /\ part \in 1..LastPart

\* What the camera sends next is a packet,
LEMMA PacketType == CameraType => Packet \in Packets /\ Filler \in Packets
<1> SUFFICES ASSUME CameraType PROVE Packet \in Packets /\ Filler \in Packets
  OBVIOUS
<1>1. (part = LastPart /\ eof # "none") \in BOOLEAN OBVIOUS
<1>2. part <= Parts => <<frame, part>> \in Datum BY DEF CameraType, Datum, LastPart
<1>3. (IF part <= Parts THEN <<<<frame, part>>>> ELSE <<>>) \in {<<>>} \cup {<<d>> : d \in Datum}
  BY <1>2
<1> QED BY <1>1, <1>3 DEF Packet, Filler, Packets, CameraType

\* with the frame and part it has come to.
LEMMA PacketIs ==
    ASSUME CameraType, NEW p, p = Packet, NEW q, q = Filler
    PROVE  /\ p.frame = frame /\ q.frame = frame /\ q.data = <<>> /\ ~q.eof
           /\ p.eof <=> (part = LastPart /\ eof # "none")
           /\ part <= Parts => p.data = <<<<frame, part>>>> /\ <<frame, part>> \in Datum
           /\ part > Parts => p.data = <<>>
           /\ \A d \in Datum : p.data = <<d>> => d = <<frame, part>>
<1>1. p.frame = frame /\ q.frame = frame /\ q.data = <<>> /\ ~q.eof BY DEF Packet, Filler
<1>2. p.eof <=> (part = LastPart /\ eof # "none") BY Zenon DEF Packet
<1>3. p.data = IF part <= Parts THEN <<<<frame, part>>>> ELSE <<>> BY Zenon DEF Packet
<1>4. part <= Parts => p.data = <<<<frame, part>>>> /\ <<frame, part>> \in Datum
  BY <1>3 DEF CameraType, LastPart, Datum
<1>5. part > Parts => p.data = <<>> BY <1>3 DEF CameraType, LastPart
<1>6. ASSUME NEW d \in Datum, p.data = <<d>> PROVE d = <<frame, part>>
  <2>1. <<>> # <<d>> OBVIOUS
  <2> QED BY <1>3, <1>6, <2>1
<1> QED BY <1>1, <1>2, <1>4, <1>5, <1>6

\* The types of all variables.
StreamTypeOK == Stream \in Streams
FaultsType == faults \in Seq(Kinds \X Nat)

PayloadType == CameraType /\ StreamTypeOK /\ FaultsType

\* After EOF has been looked at, the frame is published or not.
LEMMA EofFields ==
    ASSUME NEW s \in Streams, NEW p \in Packets
    PROVE  EndOfFrame(s, p) \in {s, Swap(s)}
  BY DEF EndOfFrame

\* Processing returns a stream.
LEMMA ProcessType ==
    ASSUME NEW s \in Streams, NEW p \in Packets
    PROVE  Process(s, p) \in Streams
<1>1. PICK h \in Streams : h = Header(s, p) BY HeaderFields
<1>2. PICK c \in Streams : c = CopyData(h, p) BY CopyFields
<1>3. Process(s, p) \in {c, Swap(c)} BY <1>1, <1>2, EofFields DEF Process
<1> QED BY <1>3, SwapFields

\* After a packet fid is the parity of its frame.
LEMMA ProcessFid ==
    ASSUME NEW s \in Streams, NEW p \in Packets
    PROVE  Process(s, p).fid = p.frame % 2
<1>1. PICK h \in Streams : h = Header(s, p) BY HeaderFields
<1>2. PICK c \in Streams : c = CopyData(h, p) BY CopyFields
<1>3. c.fid = p.frame % 2 BY <1>1, <1>2, HeaderFid, CopyFields
<1>4. PICK u \in Streams : u = Swap(c) BY SwapFields
<1>5. u.fid = c.fid BY <1>4, SwapFields
<1>6. Process(s, p) \in {c, u} BY <1>1, <1>2, <1>4, EofFields DEF Process
<1> QED BY <1>3, <1>5, <1>6

\* SetStream replaces the stream.
LEMMA SetStreamIs ==
    ASSUME NEW t \in Streams, SetStream(t)
    PROVE  Stream' = t
<1>1. t = [fid |-> t.fid, got |-> t.got, err |-> t.err, out |-> t.out] BY DEF Streams
<1> QED BY <1>1 DEF SetStream, Stream

\* What each action does to the stream.
LEMMA Steps ==
    ASSUME PayloadType, Next,
           NEW s, s = Stream, NEW t, t = Stream', NEW p, p = Packet, NEW q, q = Filler
    PROVE  /\ s \in Streams /\ t \in Streams /\ p \in Packets /\ q \in Packets
           /\ \/ Advance /\ UNCHANGED faults /\ t = Process(s, p)
              \/ UNCHANGED <<camVars, faults>> /\ t = Process(s, q)
              \/ Fault("lost") /\ t = s
              \/ Fault("status") /\ t = Flag(s)
              \/ Fault("error") /\ t \in {s, Process(s, p)}
              \/ Fault("bogus") /\ mode = "iso" /\ t = Flag(Header(s, p))
              \/ Fault("bogus") /\ mode # "iso" /\ t = Flag(s)
<1> USE DEF PayloadType, StreamTypeOK
<1>1. s \in Streams /\ p \in Packets /\ q \in Packets BY PacketType
<1>2. UNCHANGED strmVars => t = s BY DEF strmVars, Stream
<1>3. Receive(Packet) => t = Process(s, p) /\ t \in Streams
  BY <1>1, ProcessType, SetStreamIs DEF Receive
<1>4. Receive(Filler) => t = Process(s, q) /\ t \in Streams
  BY <1>1, ProcessType, SetStreamIs DEF Receive
<1>5. SetStream(Flag(Stream)) => t = Flag(s) /\ t \in Streams
  BY <1>1, FlagFields, SetStreamIs
<1>6. SetStream(Flag(Header(Stream, Packet))) => t = Flag(Header(s, p)) /\ t \in Streams
  <2>1. PICK h \in Streams : h = Header(s, p) BY <1>1, HeaderFields
  <2> QED BY <1>1, <2>1, FlagFields, SetStreamIs
<1>7. CASE Deliver BY <1>1, <1>3, <1>7 DEF Deliver
<1>8. CASE Fill BY <1>1, <1>4, <1>8 DEF Fill
<1>9. CASE Lose BY <1>1, <1>2, <1>9 DEF Lose
<1>10. CASE BadStatus BY <1>1, <1>5, <1>10 DEF BadStatus
<1>11. CASE ErrorBit BY <1>1, <1>2, <1>3, <1>11 DEF ErrorBit
<1>12. CASE BogusHeader BY <1>1, <1>5, <1>6, <1>12 DEF BogusHeader
<1> QED BY <1>7, <1>8, <1>9, <1>10, <1>11, <1>12 DEF Next

\* What each action does to the camera and the faults.
LEMMA CameraSteps ==
    ASSUME PayloadType, Next
    PROVE  /\ CameraType' /\ FaultsType' /\ eof' = eof /\ mode' = mode
           /\ \/ frame' = frame /\ part' = part
              \/ part < LastPart /\ frame' = frame /\ part' = part + 1
              \/ part = LastPart /\ frame' = frame + 1 /\ part' = 1
           /\ UNCHANGED faults \/ \E k \in Kinds : Fault(k)
<1> USE DEF PayloadType, CameraType, FaultsType, LastPart
<1>1. Advance \/ UNCHANGED camVars
  BY DEF Next, Deliver, Fill, Lose, BadStatus, ErrorBit, BogusHeader, Fault
<1>2. UNCHANGED faults \/ \E k \in Kinds : Fault(k)
  BY DEF Next, Deliver, Fill, Lose, BadStatus, ErrorBit, BogusHeader, Kinds
<1>3. ASSUME NEW k \in Kinds, Fault(k) PROVE FaultsType'
  BY <1>3 DEF Fault
<1> QED BY <1>1, <1>2, <1>3 DEF Advance, camVars

\* Every variable has its type.
LEMMA PayloadTypes == Spec => []PayloadType
<1>1. Init => PayloadType
  <2> SUFFICES ASSUME Init PROVE PayloadType OBVIOUS
  <2>1. CameraType BY DEF Init, CameraType, LastPart
  <2>2. FaultsType BY DEF Init, FaultsType
  <2>3. <<>> \in Seq(Datum) /\ <<>> \in Seq(Frames) BY EmptySeq
  <2>4. Stream = [fid |-> 0, got |-> <<>>, err |-> FALSE, out |-> <<>>] BY DEF Init, Stream
  <2>5. StreamTypeOK BY <2>3, <2>4 DEF StreamTypeOK, Streams
  <2> QED BY <2>1, <2>2, <2>5 DEF PayloadType
<1>2. PayloadType /\ [Next]_vars => PayloadType'
  <2> SUFFICES ASSUME PayloadType, [Next]_vars PROVE PayloadType' OBVIOUS
  <2>1. CASE UNCHANGED vars
    BY <2>1 DEF PayloadType, CameraType, FaultsType, StreamTypeOK, Stream, LastPart, vars,
                camVars, strmVars
  <2>2. CASE Next
    <3>1. Stream' \in Streams
      <4>1. PICK s, p, q : s = Stream /\ p = Packet /\ q = Filler OBVIOUS
      <4>2. PICK t : t = Stream' OBVIOUS
      <4> QED BY <2>2, <4>1, <4>2, Steps
    <3> QED BY <2>2, <3>1, CameraSteps DEF PayloadType, StreamTypeOK
  <2> QED BY <2>1, <2>2
<1> QED BY <1>1, <1>2, PTL DEF Spec

-----------------------------------------------------------------------------
(* A frame's data is not split.                                            *)

\* The data collected carries the parity of fid and is not of a later frame than
\* the camera's; ...
Collected(s, f) == \A h \in FramesIn(s.got) : h <= f /\ h % 2 = s.fid

\* ... that published is of earlier frames, ...
Earlier(s, f) == \A b \in DOMAIN s.out : \A h \in FramesIn(s.out[b].data) : h < f

\* ... and no frame is both published and collected, or published twice.
Apart(s) ==
    /\ \A b \in DOMAIN s.out : FramesIn(s.out[b].data) \cap FramesIn(s.got) = {}
    /\ \A a, b \in DOMAIN s.out :
         a # b => FramesIn(s.out[a].data) \cap FramesIn(s.out[b].data) = {}

CutOf(s, f) == Collected(s, f) /\ Earlier(s, f) /\ Apart(s)

\* The frames of sequences of data.
LEMMA FramesInFacts ==
    ASSUME NEW g \in Seq(Datum)
    PROVE  /\ FramesIn(<<>>) = {} /\ FramesIn(g) \subseteq Nat
           /\ \A d \in Datum : FramesIn(Append(g, d)) = FramesIn(g) \cup {d[1]}
<1>1. FramesIn(g) \subseteq Nat
  <2> SUFFICES ASSUME NEW i \in DOMAIN g PROVE g[i][1] \in Nat BY DEF FramesIn
  <2>1. g[i] \in Datum BY ElementOfSeq, LenProperties
  <2> QED BY <2>1 DEF Datum
<1>2. ASSUME NEW d \in Datum PROVE FramesIn(Append(g, d)) = FramesIn(g) \cup {d[1]}
  <2>1. PICK a : a = Append(g, d) OBVIOUS
  <2>2. /\ DOMAIN a = DOMAIN g \cup {Len(g) + 1} /\ a[Len(g) + 1] = d
        /\ \A i \in DOMAIN g : a[i] = g[i]
    BY <2>1
  <2>3. FramesIn(a) = FramesIn(g) \cup {d[1]} BY <2>2 DEF FramesIn
  <2> QED BY <2>1, <2>3
<1>3. FramesIn(<<>>) = {} BY DEF FramesIn
<1> QED BY <1>1, <1>2, <1>3

\* Publishing what is collected, of frames before f, ...
LEMMA SwapCut ==
    ASSUME NEW s \in Streams, NEW f \in Nat, CutOf(s, f), \A h \in FramesIn(s.got) : h < f
    PROVE  CutOf(Swap(s), f)
<1> DEFINE r == [data |-> s.got, err |-> s.err]
<1>1. s.out \in Seq(Frames) /\ r \in Frames /\ s.got \in Seq(Datum) /\ r.data = s.got
  BY StreamFields
<1>2. PICK t : t = Swap(s) OBVIOUS
<1>3. t.got = <<>> /\ t.out = Append(s.out, r) BY <1>2, SwapFields
<1>4. /\ \A b \in DOMAIN s.out : b \in DOMAIN t.out /\ t.out[b] = s.out[b]
      /\ t.out[Len(s.out) + 1] = r
      /\ \A b \in DOMAIN t.out : b \in DOMAIN s.out \/ b = Len(s.out) + 1
  BY <1>1, <1>3
<1>5. FramesIn(t.got) = {} BY <1>1, <1>3, FramesInFacts
<1> HIDE DEF r
<1>6. Collected(t, f) BY <1>5 DEF Collected
<1>7. Earlier(t, f) BY <1>1, <1>4 DEF CutOf, Earlier
<1>8. Apart(t) BY <1>1, <1>4, <1>5 DEF CutOf, Apart
<1>9. CutOf(t, f) BY <1>6, <1>7, <1>8 DEF CutOf
<1> QED BY <1>2, <1>9

\* ... reading a packet's header, ...
LEMMA HeaderCut ==
    ASSUME NEW s \in Streams, NEW p \in Packets, CutOf(s, p.frame)
    PROVE  CutOf(Header(s, p), p.frame)
<1>1. PICK t \in Streams : t = Header(s, p) BY HeaderFields
<1>2. PICK u \in Streams : u = Swap(s) BY SwapFields
<1>3. PICK f \in Nat : f = p.frame BY PacketFields
<1>4. CASE t.got = s.got /\ t.out = s.out /\ (s.fid = f % 2 \/ s.got = <<>>)
  <2>1. FramesIn(s.got) = {} \/ s.fid = f % 2 BY <1>4, StreamFields, FramesInFacts
  <2>2. t.fid = f % 2 BY <1>1, <1>3, HeaderFields
  <2>3. Collected(t, f) BY <1>3, <1>4, <2>1, <2>2 DEF CutOf, Collected
  <2>4. Earlier(t, f) /\ Apart(t) BY <1>3, <1>4 DEF CutOf, Earlier, Apart
  <2> QED BY <1>1, <1>3, <2>3, <2>4 DEF CutOf
<1>5. CASE t.got = u.got /\ t.out = u.out /\ s.fid # f % 2 /\ u.got = <<>>
  <2>1. ASSUME NEW h \in FramesIn(s.got) PROVE h < f
    <3>1. h \in Nat BY StreamFields, FramesInFacts
    <3>2. h <= f /\ h % 2 # f % 2 BY <1>3, <1>5 DEF CutOf, Collected
    <3> QED BY <3>1, <3>2
  <2>2. CutOf(u, f) BY <1>2, <1>3, <2>1, SwapCut
  <2>3. FramesIn(t.got) = {} BY <1>5, StreamFields, FramesInFacts
  <2>4. Collected(t, f) BY <2>3 DEF Collected
  <2>5. Earlier(t, f) /\ Apart(t) BY <1>5, <2>2 DEF CutOf, Earlier, Apart
  <2> QED BY <1>1, <1>3, <2>4, <2>5 DEF CutOf
<1>6. u.got = <<>> BY <1>2, SwapFields
<1> QED BY <1>1, <1>2, <1>3, <1>4, <1>5, <1>6, HeaderFields

\* ... copying its data, ...
LEMMA CopiedFrames ==
    ASSUME NEW s \in Streams, NEW p \in Packets,
           \A d \in Datum : p.data = <<d>> => d[1] = p.frame
    PROVE  FramesIn(CopyData(s, p).got) \subseteq FramesIn(s.got) \cup {p.frame}
<1>1. PICK t \in Streams : t = CopyData(s, p) BY CopyFields
<1>2. CASE p.data = <<>> BY <1>1, <1>2, CopyFields
<1>3. ASSUME NEW d \in Datum, p.data = <<d>>
      PROVE  FramesIn(t.got) = FramesIn(s.got) \cup {d[1]}
  <2>1. t.got = Append(s.got, d) BY <1>1, <1>3, CopyFields
  <2> QED BY <2>1, StreamFields, FramesInFacts
<1> QED BY <1>1, <1>2, <1>3, PacketFields

\* CutOf is kept when data of the frame at hand is copied,
LEMMA CopyCut ==
    ASSUME NEW s \in Streams, NEW p \in Packets, CutOf(s, p.frame), s.fid = p.frame % 2,
           \A d \in Datum : p.data = <<d>> => d[1] = p.frame
    PROVE  CutOf(CopyData(s, p), p.frame)
<1>1. PICK t \in Streams : t = CopyData(s, p) BY CopyFields
<1>2. t.out = s.out /\ t.fid = s.fid BY <1>1, CopyFields
<1>3. FramesIn(t.got) \subseteq FramesIn(s.got) \cup {p.frame} BY <1>1, CopiedFrames
<1>4. Collected(t, p.frame)
  BY <1>2, <1>3, PacketFields DEF CutOf, Collected
<1>5. Earlier(t, p.frame) BY <1>2 DEF CutOf, Earlier
<1>6. p.frame \in Nat BY PacketFields
<1>7. \A b \in DOMAIN s.out : p.frame \notin FramesIn(s.out[b].data)
  BY <1>6 DEF CutOf, Earlier
<1>8. Apart(t) BY <1>2, <1>3, <1>7 DEF CutOf, Apart
<1> QED BY <1>1, <1>4, <1>5, <1>8 DEF CutOf

\* ... the flag of an error, and the camera's going on to the next frame.
LEMMA FlagCut ==
    ASSUME NEW s \in Streams, NEW f \in Nat, CutOf(s, f)
    PROVE  CutOf(Flag(s), f)
<1>1. PICK t \in Streams : t = Flag(s) BY FlagFields
<1>2. t.got = s.got /\ t.fid = s.fid /\ t.out = s.out BY <1>1, FlagFields
<1>3. CutOf(t, f) BY <1>2 DEF CutOf, Collected, Earlier, Apart
<1> QED BY <1>1, <1>3

\* and when the camera goes on to the next frame.
LEMMA LaterCut ==
    ASSUME NEW s \in Streams, NEW f \in Nat, CutOf(s, f)
    PROVE  CutOf(s, f + 1) /\ \A h \in FramesIn(s.got) : h < f + 1
<1>1. \A h \in FramesIn(s.got) : h \in Nat BY StreamFields, FramesInFacts
<1>2. \A b \in DOMAIN s.out : \A h \in FramesIn(s.out[b].data) : h \in Nat
  <2> SUFFICES ASSUME NEW b \in DOMAIN s.out PROVE FramesIn(s.out[b].data) \subseteq Nat OBVIOUS
  <2>1. s.out[b] \in Frames BY StreamFields, ElementOfSeq, LenProperties
  <2> QED BY <2>1, FramesInFacts DEF Frames
<1>3. Collected(s, f + 1) BY <1>1 DEF CutOf, Collected
<1>4. Earlier(s, f + 1) BY <1>2 DEF CutOf, Earlier
<1> QED BY <1>1, <1>3, <1>4 DEF CutOf, Collected

\* The whole of a packet.
LEMMA ProcessCut ==
    ASSUME NEW s \in Streams, NEW p \in Packets, CutOf(s, p.frame),
           \A d \in Datum : p.data = <<d>> => d[1] = p.frame
    PROVE  /\ CutOf(Process(s, p), p.frame + 1)
           /\ ~p.eof => CutOf(Process(s, p), p.frame)
<1>1. PICK h \in Streams : h = Header(s, p) BY HeaderFields
<1>2. PICK c \in Streams : c = CopyData(h, p) BY CopyFields
<1>3. PICK f \in Nat : f = p.frame BY PacketFields
<1>4. CutOf(h, f) /\ h.fid = f % 2 BY <1>1, <1>3, HeaderCut, HeaderFields
<1>5. CutOf(c, f) BY <1>2, <1>3, <1>4, CopyCut
<1>6. CutOf(c, f + 1) /\ CutOf(Swap(c), f + 1) BY <1>5, LaterCut, SwapCut
<1>7. /\ Process(s, p) = c \/ Process(s, p) = Swap(c)
      /\ ~p.eof => Process(s, p) = c
  BY <1>1, <1>2 DEF Process, EndOfFrame
<1> QED BY <1>3, <1>5, <1>6, <1>7

\* The invariant about the cuts.
CutInv == CutOf(Stream, frame)

\* So every step keeps CutInv,
LEMMA CutStep == PayloadType /\ CutInv /\ [Next]_vars => CutInv'
<1> SUFFICES ASSUME PayloadType, CutInv, [Next]_vars PROVE CutInv'
  OBVIOUS
<1>1. PICK s, p, q : s = Stream /\ p = Packet /\ q = Filler OBVIOUS
<1>2. PICK t : t = Stream' OBVIOUS
<1>3. PICK f \in Nat : f = frame BY DEF PayloadType, CameraType
<1>4. CutOf(s, f) BY <1>1, <1>3 DEF CutInv
<1>5. CASE UNCHANGED vars
  <2>1. t = s /\ frame' = f BY <1>1, <1>2, <1>3, <1>5 DEF vars, camVars, strmVars, Stream
  <2> QED BY <1>2, <1>4, <2>1 DEF CutInv
<1>6. CASE Next
  <2>1. s \in Streams /\ t \in Streams /\ p \in Packets /\ q \in Packets
    BY <1>1, <1>2, <1>6, Steps
  <2>2. /\ p.frame = f /\ q.frame = f /\ q.data = <<>> /\ ~q.eof
        /\ \A d \in Datum : p.data = <<d>> => d[1] = p.frame
        /\ p.eof => part = LastPart
    BY <1>1, <1>3, PacketIs DEF PayloadType
  <2>3. CutOf(s, f + 1) BY <1>4, <2>1, LaterCut
  <2>4. CutOf(Process(s, p), f + 1) /\ (~p.eof => CutOf(Process(s, p), f))
    BY <1>4, <2>1, <2>2, ProcessCut
  <2>5. CutOf(Process(s, q), f)
    <3>1. \A d \in Datum : q.data # <<d>> BY <2>2
    <3> QED BY <1>4, <2>1, <2>2, <3>1, ProcessCut
  <2>6. PICK h \in Streams : h = Header(s, p) BY <2>1, HeaderFields
  <2>7. CutOf(h, f) BY <1>4, <2>1, <2>2, <2>6, HeaderCut
  <2>8. /\ CutOf(Flag(s), f) /\ CutOf(Flag(s), f + 1)
        /\ CutOf(Flag(h), f) /\ CutOf(Flag(h), f + 1)
    BY <1>3, <1>4, <2>1, <2>3, <2>6, <2>7, LaterCut, FlagCut
  <2>9. /\ CutOf(t, frame')
    <3>1. Advance => (frame' = f /\ ~p.eof) \/ frame' = f + 1
      BY <1>3, <2>2 DEF Advance
    <3>2. \/ Advance /\ t \in {s, Process(s, p), Flag(s), Flag(h)}
          \/ frame' = f /\ t = Process(s, q)
      <4>1. \A k : Fault(k) => Advance BY DEF Fault
      <4>2. UNCHANGED camVars => frame' = f BY <1>3 DEF camVars
      <4>3. UNCHANGED <<camVars, faults>> => UNCHANGED camVars OBVIOUS
      <4> QED BY <1>1, <1>2, <1>6, <2>6, <4>1, <4>2, <4>3, Steps
    <3> QED BY <1>4, <2>3, <2>4, <2>5, <2>8, <3>1, <3>2
  <2> QED BY <1>2, <2>9 DEF CutInv
<1> QED BY <1>5, <1>6

\* which therefore holds.
LEMMA CutHolds == Spec => []CutInv
<1>1. Init => CutInv
  <2> SUFFICES ASSUME Init PROVE CutInv OBVIOUS
  <2>1. PICK s : s = Stream OBVIOUS
  <2>2. DOMAIN s.got = {} /\ DOMAIN s.out = {} BY <2>1 DEF Init, Stream
  <2>3. FramesIn(s.got) = {} BY <2>2 DEF FramesIn
  <2>4. CutOf(s, frame) BY <2>2, <2>3 DEF CutOf, Collected, Earlier, Apart
  <2> QED BY <2>1, <2>4 DEF CutInv
<1> QED BY <1>1, CutStep, PayloadTypes, PTL DEF Spec

\* A camera frame's data is never split over two published frames.
THEOREM NeverSplitHolds == Spec => []NeverSplit
<1>1. CutInv => NeverSplit BY DEF CutInv, CutOf, Apart, NeverSplit, Stream
<1> QED BY <1>1, CutHolds, PTL


-----------------------------------------------------------------------------
(* What hides in the parity of FID.                                        *)

\* The faults of a frame in a sequence of faults, and their number, ...
Of(q, h) == {i \in DOMAIN q : q[i][2] = h}
Missed(q, h) == Cardinality(Of(q, h))

\* ... which grows with each fault of this frame and of no other.
LEMMA MissedFacts ==
    ASSUME NEW q \in Seq(Kinds \X Nat), NEW k \in Kinds, NEW f \in Nat
    PROVE  /\ \A h \in Nat : Missed(q, h) \in Nat
           /\ \A h \in Nat : h # f => Missed(Append(q, <<k, f>>), h) = Missed(q, h)
           /\ Missed(Append(q, <<k, f>>), f) = Missed(q, f) + 1
<1>1. PICK r : r = Append(q, <<k, f>>) OBVIOUS
<1>2. <<k, f>> \in Kinds \X Nat OBVIOUS
<1>3. /\ DOMAIN q = 1..Len(q) /\ Len(q) \in Nat
      /\ DOMAIN r = 1..Len(q) + 1 /\ r[Len(q) + 1] = <<k, f>>
      /\ \A i \in DOMAIN q : r[i] = q[i]
  BY <1>1, <1>2
<1>4. IsFiniteSet(1..Len(q)) BY <1>3, FS_Interval
<1>5. ASSUME NEW h \in Nat PROVE IsFiniteSet(Of(q, h)) /\ Missed(q, h) \in Nat
  <2>1. Of(q, h) \subseteq 1..Len(q) BY <1>3 DEF Of
  <2> QED BY <1>4, <2>1, FS_Subset, FS_CardinalityType DEF Missed
<1>6. ASSUME NEW h \in Nat, h # f PROVE Missed(r, h) = Missed(q, h)
  <2>1. Of(r, h) = Of(q, h) BY <1>3, <1>6 DEF Of
  <2> QED BY <2>1 DEF Missed
<1>7. Missed(r, f) = Missed(q, f) + 1
  <2>1. Of(r, f) = Of(q, f) \cup {Len(q) + 1} BY <1>3 DEF Of
  <2>2. Len(q) + 1 \notin Of(q, f) BY <1>3 DEF Of
  <2> QED BY <1>5, <2>1, <2>2, FS_AddElement DEF Missed
<1> QED BY <1>1, <1>5, <1>6, <1>7

\* With f the camera's frame and V the frames that vanished: data collected is
\* older than f only if every frame since, of the other parity, vanished, ...
Gaps(s, f, V) ==
    \A x \in FramesIn(s.got) : \A h \in x + 1..f - 1 : h % 2 # s.fid => h \in V

\* ... and what is published is as MixedOnlyByParity says.
Mixed(s, V) ==
    \A b \in DOMAIN s.out : \A x, y \in FramesIn(s.out[b].data) :
        x < y => /\ x % 2 = y % 2
                 /\ \A h \in x + 1..y - 1 : h % 2 # x % 2 => h \in V

SkipOf(s, f, V) == Gaps(s, f, V) /\ Mixed(s, V)

\* Publishing what is collected, ...
LEMMA SwapSkip ==
    ASSUME NEW s \in Streams, NEW f \in Nat, NEW V, Collected(s, f), SkipOf(s, f, V)
    PROVE  SkipOf(Swap(s), f, V) /\ SkipOf(Swap(s), f + 1, V)
<1> DEFINE r == [data |-> s.got, err |-> s.err]
<1>1. s.out \in Seq(Frames) /\ r \in Frames /\ s.got \in Seq(Datum) /\ r.data = s.got
  BY StreamFields
<1>2. PICK t : t = Swap(s) OBVIOUS
<1>3. t.got = <<>> /\ t.out = Append(s.out, r) BY <1>2, SwapFields
<1>4. /\ \A b \in DOMAIN s.out : b \in DOMAIN t.out /\ t.out[b] = s.out[b]
      /\ t.out[Len(s.out) + 1] = r
      /\ \A b \in DOMAIN t.out : b \in DOMAIN s.out \/ b = Len(s.out) + 1
  BY <1>1, <1>3
<1> HIDE DEF r
<1>5. FramesIn(t.got) = {} /\ FramesIn(s.got) \subseteq Nat BY <1>1, <1>3, FramesInFacts
<1>6. ASSUME NEW x \in FramesIn(s.got), NEW y \in FramesIn(s.got), x < y
      PROVE  x % 2 = y % 2 /\ \A h \in x + 1..y - 1 : h % 2 # x % 2 => h \in V
  <2>1. x \in Nat /\ y \in Nat /\ y <= f /\ x % 2 = s.fid /\ y % 2 = s.fid
    BY <1>5 DEF Collected
  <2>2. \A h \in x + 1..y - 1 : h \in x + 1..f - 1 BY <2>1
  <2> QED BY <2>1, <2>2 DEF SkipOf, Gaps
<1>7. Mixed(t, V)
  <2> SUFFICES ASSUME NEW b \in DOMAIN t.out, NEW x \in FramesIn(t.out[b].data),
                      NEW y \in FramesIn(t.out[b].data), x < y
               PROVE  x % 2 = y % 2 /\ \A h \in x + 1..y - 1 : h % 2 # x % 2 => h \in V
    BY DEF Mixed
  <2>1. CASE b \in DOMAIN s.out BY <1>4, <2>1 DEF SkipOf, Mixed
  <2>2. CASE b = Len(s.out) + 1 BY <1>1, <1>4, <1>6, <2>2
  <2> QED BY <1>4, <2>1, <2>2
<1>8. Gaps(t, f, V) /\ Gaps(t, f + 1, V) BY <1>5 DEF Gaps
<1> QED BY <1>2, <1>7, <1>8 DEF SkipOf


\* ... reading a packet's header, ...
LEMMA HeaderSkip ==
    ASSUME NEW s \in Streams, NEW p \in Packets, NEW V,
           Collected(s, p.frame), SkipOf(s, p.frame, V)
    PROVE  SkipOf(Header(s, p), p.frame, V)
<1>1. PICK t \in Streams : t = Header(s, p) BY HeaderFields
<1>2. PICK f \in Nat : f = p.frame BY PacketFields
<1>3. PICK u \in Streams : u = Swap(s) BY SwapFields
<1>4. t.fid = f % 2 BY <1>1, <1>2, HeaderFields
<1>5. CASE t.got = s.got /\ t.out = s.out /\ (s.fid = f % 2 \/ s.got = <<>>)
  <2>1. FramesIn(s.got) = {} \/ s.fid = t.fid BY <1>4, <1>5, StreamFields, FramesInFacts
  <2>2. Gaps(t, f, V) BY <1>2, <1>5, <2>1 DEF SkipOf, Gaps
  <2>3. Mixed(t, V) BY <1>2, <1>5 DEF SkipOf, Mixed
  <2> QED BY <1>1, <1>2, <2>2, <2>3 DEF SkipOf
<1>6. CASE t.got = u.got /\ t.out = u.out
  <2>1. SkipOf(u, f, V) BY <1>2, <1>3, SwapSkip
  <2>2. FramesIn(t.got) = {} BY <1>3, <1>6, SwapFields, StreamFields, FramesInFacts
  <2>3. Gaps(t, f, V) BY <2>2 DEF Gaps
  <2>4. Mixed(t, V) BY <1>6, <2>1 DEF SkipOf, Mixed
  <2> QED BY <1>1, <1>2, <2>3, <2>4 DEF SkipOf
<1> QED BY <1>1, <1>2, <1>3, <1>5, <1>6, HeaderFields

\* ... copying its data, ...
LEMMA CopySkip ==
    ASSUME NEW s \in Streams, NEW p \in Packets, NEW V,
           SkipOf(s, p.frame, V), s.fid = p.frame % 2,
           \A d \in Datum : p.data = <<d>> => d[1] = p.frame
    PROVE  SkipOf(CopyData(s, p), p.frame, V)
<1>1. PICK t \in Streams : t = CopyData(s, p) BY CopyFields
<1>2. PICK f \in Nat : f = p.frame BY PacketFields
<1>3. t.out = s.out /\ t.fid = s.fid BY <1>1, CopyFields
<1>4. FramesIn(t.got) \subseteq FramesIn(s.got) \cup {f}
  BY <1>1, <1>2, CopiedFrames
<1>5. Gaps(t, f, V) BY <1>2, <1>3, <1>4 DEF SkipOf, Gaps
<1>6. Mixed(t, V) BY <1>2, <1>3 DEF SkipOf, Mixed
<1> QED BY <1>1, <1>2, <1>5, <1>6 DEF SkipOf

\* ... and the camera's going on to the next frame.
LEMMA LaterSkip ==
    ASSUME NEW s \in Streams, NEW f \in Nat, NEW V, NEW W, V \subseteq W, SkipOf(s, f, V)
    PROVE  /\ SkipOf(s, f, W)
           /\ s.got = <<>> \/ s.fid = f % 2 \/ f \in W => SkipOf(s, f + 1, W)
<1>1. Mixed(s, W) BY DEF SkipOf, Mixed
<1>2. Gaps(s, f, W) BY DEF SkipOf, Gaps
<1>3. ASSUME s.got = <<>> \/ s.fid = f % 2 \/ f \in W PROVE Gaps(s, f + 1, W)
  <2> SUFFICES ASSUME NEW x \in FramesIn(s.got), NEW h \in x + 1..f + 1 - 1, h % 2 # s.fid
               PROVE  h \in W
    BY DEF Gaps
  <2>1. s.got # <<>> BY FramesInFacts, StreamFields
  <2>2. x \in Nat BY FramesInFacts, StreamFields
  <2>3. CASE h = f BY <1>3, <2>1, <2>3
  <2>4. CASE h # f
    <3>1. h \in x + 1..f - 1 BY <2>2, <2>4
    <3> QED BY <1>2, <3>1 DEF Gaps
  <2> QED BY <2>3, <2>4
<1> QED BY <1>1, <1>2, <1>3 DEF SkipOf

\* The whole of a packet.
LEMMA ProcessSkip ==
    ASSUME NEW s \in Streams, NEW p \in Packets, NEW V,
           CutOf(s, p.frame), SkipOf(s, p.frame, V),
           \A d \in Datum : p.data = <<d>> => d[1] = p.frame
    PROVE  SkipOf(Process(s, p), p.frame, V) /\ SkipOf(Process(s, p), p.frame + 1, V)
<1>1. PICK h \in Streams : h = Header(s, p) BY HeaderFields
<1>2. PICK c \in Streams : c = CopyData(h, p) BY CopyFields
<1>3. PICK f \in Nat : f = p.frame BY PacketFields
<1>4. SkipOf(h, f, V) /\ CutOf(h, f) /\ h.fid = f % 2
  BY <1>1, <1>3, HeaderSkip, HeaderCut, HeaderFields DEF CutOf
<1>5. SkipOf(c, f, V) /\ CutOf(c, f) /\ c.fid = f % 2
  BY <1>2, <1>3, <1>4, CopySkip, CopyCut, CopyFields
<1>6. PICK u \in Streams : u = Swap(c) BY SwapFields
<1>7. SkipOf(u, f, V) /\ SkipOf(u, f + 1, V) BY <1>5, <1>6, SwapSkip DEF CutOf
<1>8. SkipOf(c, f + 1, V) BY <1>5, LaterSkip
<1>9. Process(s, p) = c \/ Process(s, p) = u
  BY <1>1, <1>2, <1>6 DEF Process, EndOfFrame
<1> QED BY <1>3, <1>5, <1>7, <1>8, <1>9


\* The frames before f that vanished.
Gone(f) == {h \in 0..f - 1 : Vanished(h)}

\* The invariant.  Data collected of the other parity than the camera's frame tells
\* that nothing of this frame has arrived so far.
SkipInv ==
    /\ SkipOf(Stream, frame, Gone(frame))
    /\ \A h \in Nat : h > frame \/ (h = frame /\ part = 1) => Missed(faults, h) = 0
    /\ got # <<>> /\ fid # frame % 2 => Missed(faults, frame) = part - 1

\* What a step does to the counts of faults.
LEMMA MissedSteps ==
    ASSUME PayloadType, Next
    PROVE  /\ \A h \in Nat : h # frame => Missed(faults', h) = Missed(faults, h)
           /\ (\E k \in Kinds : Fault(k)) => Missed(faults', frame) = Missed(faults, frame) + 1
           /\ UNCHANGED faults => Missed(faults', frame) = Missed(faults, frame)
<1>1. CASE UNCHANGED faults /\ ~\E k \in Kinds : Fault(k) BY <1>1
<1>2. ASSUME NEW k \in Kinds, Fault(k)
      PROVE  /\ \A h \in Nat : h # frame => Missed(faults', h) = Missed(faults, h)
             /\ Missed(faults', frame) = Missed(faults, frame) + 1
             /\ faults' # faults
  <2>1. PICK q, f : q = faults /\ f = frame OBVIOUS
  <2>2. q \in Seq(Kinds \X Nat) /\ f \in Nat
    BY <2>1 DEF PayloadType, FaultsType, CameraType
  <2>3. PICK r : r = Append(q, <<k, f>>) OBVIOUS
  <2>4. faults' = r BY <1>2, <2>1, <2>3 DEF Fault
  <2>5. /\ \A h \in Nat : h # f => Missed(r, h) = Missed(q, h)
        /\ Missed(r, f) = Missed(q, f) + 1
        /\ Missed(q, f) \in Nat
    <3>1. Missed(q, f) \in Nat BY <1>2, <2>2, MissedFacts
    <3>2. Missed(Append(q, <<k, f>>), f) = Missed(q, f) + 1 BY <1>2, <2>2, MissedFacts
    <3>3. \A h \in Nat : h # f => Missed(Append(q, <<k, f>>), h) = Missed(q, h)
      BY <1>2, <2>2, MissedFacts
    <3> QED BY <2>3, <3>1, <3>2, <3>3
  <2>6. r # q BY <2>2, <2>5
  <2> QED BY <2>1, <2>4, <2>5, <2>6
<1> QED BY <1>1, <1>2, CameraSteps

\* Every step keeps SkipInv,
LEMMA SkipStep == PayloadType /\ CutInv /\ SkipInv /\ [Next]_vars => SkipInv'
<1> SUFFICES ASSUME PayloadType, CutInv, SkipInv, [Next]_vars PROVE SkipInv'
  OBVIOUS
<1>1. PICK s, p, q : s = Stream /\ p = Packet /\ q = Filler OBVIOUS
<1>2. PICK t : t = Stream' OBVIOUS
<1>3. PICK f \in Nat : f = frame BY DEF PayloadType, CameraType
<1>4. PICK V : V = Gone(frame) OBVIOUS
<1>5. PICK W : W = Gone(frame)' OBVIOUS
<1>6. CutOf(s, f) /\ SkipOf(s, f, V) BY <1>1, <1>3, <1>4 DEF CutInv, SkipInv
<1>7. s.got = got /\ s.fid = fid /\ t.got = got' /\ t.fid = fid' BY <1>1, <1>2 DEF Stream
<1>8. CASE UNCHANGED vars
  <2>1. t = s /\ W = V /\ frame' = frame /\ part' = part /\ faults' = faults
    BY <1>1, <1>2, <1>4, <1>5, <1>8
    DEF vars, camVars, strmVars, Stream, Gone, Vanished, FaultsOf, LastPart
  <2>2. SkipOf(t, frame', W) BY <1>3, <1>6, <2>1
  <2> QED BY <1>2, <1>5, <1>7, <2>1, <2>2 DEF SkipInv
<1>9. CASE Next
  <2>1. s \in Streams /\ t \in Streams /\ p \in Packets /\ q \in Packets
    BY <1>1, <1>2, <1>9, Steps
  <2>2. /\ p.frame = f /\ q.frame = f
        /\ \A d \in Datum : p.data = <<d>> => d[1] = p.frame
        /\ \A d \in Datum : q.data # <<d>>
    BY <1>1, <1>3, PacketIs DEF PayloadType
  <2>3. PICK h \in Streams : h = Header(s, p) BY <2>1, HeaderFields
  <2>4. PICK v \in Streams, w \in Streams, x \in Streams, y \in Streams :
          v = Process(s, p) /\ w = Process(s, q) /\ x = Flag(s) /\ y = Flag(h)
    BY <2>1, FlagFields, ProcessType
  <2>5. /\ h.fid = f % 2 /\ v.fid = f % 2 /\ w.fid = f % 2 /\ y.fid = f % 2
        /\ x.fid = s.fid /\ x.got = s.got
    <3>1. h.fid = f % 2 BY <2>1, <2>2, <2>3, HeaderFid
    <3>2. x.fid = s.fid /\ x.got = s.got /\ y.fid = h.fid BY <2>1, <2>4, FlagFields
    <3>3. v.fid = f % 2 BY <2>1, <2>2, <2>4, ProcessFid
    <3>4. w.fid = f % 2 BY <2>1, <2>2, <2>4, ProcessFid
    <3> QED BY <3>1, <3>2, <3>3, <3>4
  <2>6. /\ SkipOf(v, f, V) /\ SkipOf(w, f, V) /\ SkipOf(x, f, V) /\ SkipOf(y, f, V)
    <3>1. SkipOf(v, f, V) /\ SkipOf(w, f, V) BY <1>6, <2>1, <2>2, <2>4, ProcessSkip
    <3>2. SkipOf(h, f, V) BY <1>6, <2>1, <2>2, <2>3, HeaderSkip DEF CutOf
    <3>3. x.out = s.out /\ y.out = h.out /\ y.got = h.got /\ y.fid = h.fid
      BY <2>1, <2>4, FlagFields
    <3> QED BY <1>6, <2>5, <3>1, <3>2, <3>3 DEF SkipOf, Gaps, Mixed
  <2>7. \/ UNCHANGED camVars /\ UNCHANGED faults /\ t = w
        \/ Advance /\ UNCHANGED faults /\ t = v
        \/ Advance /\ (\E k \in Kinds : Fault(k)) /\ t \in {s, v, x, y}
    <3>1. \A k \in Kinds : Fault(k) => Advance BY DEF Fault
    <3>2. UNCHANGED <<camVars, faults>> => UNCHANGED camVars /\ UNCHANGED faults OBVIOUS
    <3> QED BY <1>1, <1>2, <1>9, <2>3, <2>4, <3>1, <3>2, Steps DEF Kinds
  <2>8. /\ \A i \in Nat : i # f => Missed(faults', i) = Missed(faults, i)
        /\ (\E k \in Kinds : Fault(k)) => Missed(faults', f) = Missed(faults, f) + 1
        /\ UNCHANGED faults => Missed(faults', f) = Missed(faults, f)
    BY <1>3, <1>9, MissedSteps
  <2>9. \A i \in 0..f - 1 : i \in V <=> Missed(faults, i) = LastPart
    BY <1>3, <1>4 DEF Gone, Vanished, FaultsOf, Missed, Of
  <2>10. \A i \in 0..frame' - 1 : i \in W <=> Missed(faults', i) = LastPart
    <3>1. LastPart' = LastPart BY <1>9, CameraSteps DEF LastPart
    <3> QED BY <1>5, <3>1 DEF Gone, Vanished, FaultsOf, Missed, Of
  <2>11. \/ Advance /\ frame' = f /\ part' = part + 1
         \/ Advance /\ frame' = f + 1 /\ part' = 1 /\ part = LastPart
         \/ UNCHANGED faults /\ frame' = f /\ part' = part
    BY <1>3, <2>7 DEF Advance, camVars
  <2>12. V \subseteq W
    <3>1. V \subseteq 0..f - 1 BY <1>3, <1>4 DEF Gone
    <3> QED BY <2>8, <2>9, <2>10, <2>11, <3>1
  <2>13. SkipOf(t, frame', W)
    <3>1. ASSUME NEW z \in Streams, SkipOf(z, f, V)
          PROVE  /\ SkipOf(z, f, W)
                 /\ z.got = <<>> \/ z.fid = f % 2 \/ f \in W => SkipOf(z, f + 1, W)
      BY <2>12, <3>1, LaterSkip
    <3>2. t \in {s, v, w, x, y} BY <2>7
    <3>3. CASE frame' = f BY <1>6, <2>1, <2>4, <2>6, <3>1, <3>2, <3>3
    <3>4. CASE part = LastPart /\ frame' = f + 1
      <4>1. t # w \/ t.fid = f % 2 BY <2>5
      <4>2. ASSUME \E k \in Kinds : Fault(k), s.got # <<>>, s.fid # f % 2 PROVE f \in W
        <5>1. Missed(faults, f) = part - 1 BY <1>3, <1>7, <4>2 DEF SkipInv
        <5>2. Missed(faults', f) = LastPart
          BY <2>8, <3>4, <4>2, <5>1 DEF PayloadType, CameraType, LastPart
        <5>3. f \in 0..frame' - 1 BY <3>4
        <5> QED BY <2>10, <5>2, <5>3
      <4>3. t.got = <<>> \/ t.fid = f % 2 \/ f \in W BY <2>5, <2>7, <4>2
      <4> QED BY <1>6, <2>1, <2>4, <2>6, <3>1, <3>2, <3>4, <4>3
    <3> QED BY <2>11, <3>3, <3>4
  <2>14. \A i \in Nat : i > frame' \/ (i = frame' /\ part' = 1) => Missed(faults', i) = 0
    BY <1>3, <2>8, <2>11 DEF SkipInv, PayloadType, CameraType, LastPart
  <2>15. got' # <<>> /\ fid' # frame' % 2 => Missed(faults', frame') = part' - 1
    <3>1. CASE t.fid = f % 2 /\ frame' = f BY <1>7, <3>1
    <3>2. CASE t \in {s, x} /\ (\E k \in Kinds : Fault(k)) /\ frame' = f
      <4>1. part' = part + 1 /\ part \in Nat
        BY <1>3, <3>2 DEF Fault, Advance, PayloadType, CameraType, LastPart
      <4>2. t.fid = s.fid /\ t.got = s.got BY <2>5, <3>2
      <4> QED BY <1>3, <1>7, <2>8, <3>2, <4>1, <4>2 DEF SkipInv
    <3>3. CASE frame' = f + 1 /\ part' = 1
      BY <1>3, <2>14, <3>3
    <3> QED BY <2>5, <2>7, <2>11, <3>1, <3>2, <3>3
  <2> QED BY <1>2, <1>5, <2>13, <2>14, <2>15 DEF SkipInv
<1> QED BY <1>8, <1>9

\* which therefore holds.
LEMMA SkipHolds == Spec => []SkipInv
<1>1. Init => SkipInv
  <2> SUFFICES ASSUME Init PROVE SkipInv OBVIOUS
  <2>1. PICK s, V : s = Stream /\ V = Gone(frame) OBVIOUS
  <2>2. DOMAIN s.got = {} /\ DOMAIN s.out = {} BY <2>1 DEF Init, Stream
  <2>3. FramesIn(s.got) = {} BY <2>2 DEF FramesIn
  <2>4. SkipOf(s, frame, V) BY <2>2, <2>3 DEF SkipOf, Gaps, Mixed
  <2>5. \A h \in Nat : Missed(faults, h) = 0
    <3>1. \A h \in Nat : Of(faults, h) = {} BY DEF Init, Of
    <3> QED BY <3>1, FS_EmptySet DEF Missed
  <2> QED BY <2>1, <2>4, <2>5 DEF SkipInv, Init
<1> QED BY <1>1, SkipStep, CutHolds, PayloadTypes, PTL DEF Spec

\* Data of two camera frames end up in one published frame only when FID hides it:
\* the frames have the same parity, and every frame of the other parity between
\* them vanished.
THEOREM MixedOnlyByParityHolds == Spec => []MixedOnlyByParity
<1>1. SkipInv => MixedOnlyByParity
  <2> SUFFICES ASSUME SkipInv PROVE MixedOnlyByParity OBVIOUS
  <2>1. PICK s, V : s = Stream /\ V = Gone(frame) OBVIOUS
  <2>2. Mixed(s, V) BY <2>1 DEF SkipInv, SkipOf
  <2>3. s.out = published /\ \A h \in V : Vanished(h) BY <2>1 DEF Stream, Gone
  <2> QED BY <2>2, <2>3 DEF Mixed, MixedOnlyByParity
<1> QED BY <1>1, SkipHolds, PTL


-----------------------------------------------------------------------------
(* What the frames published are made of.                                  *)

\* The first n packets of frame f; the number of packets with data before part n.
Prefix(f, n) == [i \in 1..n |-> <<f, i>>]
DataBefore(n) == IF n <= Parts THEN n - 1 ELSE Parts

\* A stream may have all of frame f sent before its part n, ...
Current(s, f, n) ==
    /\ s.got = Prefix(f, DataBefore(n))
    /\ n > 1 => s.fid = f % 2

\* ... or, when f begins, all of the frame before, whose end was not marked.
Previous(s, f, n) ==
    n = 1 /\ f > 0 /\ s.got = Whole(f - 1) /\ s.fid = (f - 1) % 2

\* Prefixes as sequences.
LEMMA PrefixFacts ==
    ASSUME NEW f \in Nat, NEW n \in 0..Parts
    PROVE  /\ Prefix(f, n) \in Seq(Datum) /\ Len(Prefix(f, n)) = n
           /\ Prefix(f, n) = <<>> <=> n = 0
           /\ Whole(f) = Prefix(f, Parts)
           /\ n < Parts => Append(Prefix(f, n), <<f, n + 1>>) = Prefix(f, n + 1)
<1>1. \A m \in 0..Parts : Prefix(f, m) \in Seq(Datum) /\ Len(Prefix(f, m)) = m
  <2> SUFFICES ASSUME NEW m \in 0..Parts
               PROVE  Prefix(f, m) \in Seq(Datum) /\ Len(Prefix(f, m)) = m
    OBVIOUS
  <2>1. \A i \in 1..m : <<f, i>> \in Datum BY DEF Datum
  <2> QED BY <2>1 DEF Prefix
<1>2. ASSUME n < Parts PROVE Append(Prefix(f, n), <<f, n + 1>>) = Prefix(f, n + 1)
  <2>1. PICK a, g : a = Prefix(f, n) /\ g = Prefix(f, n + 1) OBVIOUS
  <2>2. a \in Seq(Datum) /\ g \in Seq(Datum) /\ Len(a) = n /\ Len(g) = n + 1
    BY <1>1, <1>2, <2>1
  <2>3. <<f, n + 1>> \in Datum BY <1>2 DEF Datum
  <2>4. \A i \in 1..n + 1 : Append(a, <<f, n + 1>>)[i] = g[i]
    BY <2>1, <2>2, <2>3 DEF Prefix
  <2>5. Append(a, <<f, n + 1>>) \in Seq(Datum) /\ Len(Append(a, <<f, n + 1>>)) = n + 1
    BY <2>2, <2>3
  <2>6. Append(a, <<f, n + 1>>) = g BY <2>2, <2>4, <2>5, SeqEqual
  <2> QED BY <2>1, <2>6
<1>3. Prefix(f, n) = <<>> <=> n = 0
  <2>1. PICK a : a = Prefix(f, n) OBVIOUS
  <2>2. a \in Seq(Datum) /\ Len(a) = n BY <1>1, <2>1
  <2>3. a = <<>> <=> Len(a) = 0 BY <2>2, EmptySeq
  <2> QED BY <2>1, <2>2, <2>3
<1> QED BY <1>1, <1>2, <1>3 DEF Prefix, Whole

\* The header of a packet of frame f leaves a stream alone that has all of f so far,
\* and publishes the whole frame before if that is what the stream has.
LEMMA HeaderCurrent ==
    ASSUME NEW s \in Streams, NEW p \in Packets, NEW n \in 1..Parts + 1,
           Current(s, p.frame, n)
    PROVE  /\ Header(s, p).got = s.got /\ Header(s, p).err = s.err
           /\ Header(s, p).out = s.out /\ Current(Header(s, p), p.frame, n)
<1>1. PICK h \in Streams : h = Header(s, p) BY HeaderFields
<1>2. PICK f \in Nat : f = p.frame BY PacketFields
<1>3. s.fid = f % 2 \/ s.got = <<>> BY <1>2, PrefixFacts DEF Current, DataBefore
<1>4. h.got = s.got /\ h.err = s.err /\ h.out = s.out /\ h.fid = f % 2
  BY <1>1, <1>2, <1>3, HeaderFields
<1>5. Current(h, f, n) BY <1>2, <1>4 DEF Current
<1> QED BY <1>1, <1>2, <1>4, <1>5

\* The header of a frame's first packet ends the frame before it.
LEMMA HeaderPrevious ==
    ASSUME NEW s \in Streams, NEW p \in Packets, NEW n, Previous(s, p.frame, n)
    PROVE  /\ Header(s, p).got = Swap(s).got /\ Header(s, p).err = Swap(s).err
           /\ Header(s, p).out = Swap(s).out /\ Current(Header(s, p), p.frame, n)
<1>1. PICK h \in Streams : h = Header(s, p) BY HeaderFields
<1>2. PICK f \in Nat : f = p.frame BY PacketFields
<1>3. s.got # <<>> BY <1>2, PrefixFacts DEF Previous
<1>4. s.fid # f % 2 BY <1>2 DEF Previous
<1>5. h.got = Swap(s).got /\ h.err = Swap(s).err /\ h.out = Swap(s).out
  BY <1>1, <1>2, <1>3, <1>4, HeaderFields
<1>6. h.got = <<>> BY <1>5, SwapFields
<1>7. h.got = Prefix(f, 0) BY <1>6, PrefixFacts
<1>8. Current(h, f, n) BY <1>2, <1>7 DEF Current, Previous, DataBefore
<1> QED BY <1>1, <1>2, <1>5, <1>8

\* Copying the data of part n then yields all of f up to part n + 1.
LEMMA CopyCurrent ==
    ASSUME NEW s \in Streams, NEW p \in Packets, NEW n \in 1..Parts + 1,
           Current(s, p.frame, n),
           n <= Parts => p.data = <<<<p.frame, n>>>>, n > Parts => p.data = <<>>
    PROVE  CopyData(s, p).got = Prefix(p.frame, DataBefore(n + 1))
<1>1. PICK c \in Streams : c = CopyData(s, p) BY CopyFields
<1>2. PICK f \in Nat : f = p.frame BY PacketFields
<1>3. CASE n > Parts
  <2>1. c.got = s.got BY <1>1, <1>3, CopyFields
  <2> QED BY <1>1, <1>2, <1>3, <2>1 DEF Current, DataBefore
<1>4. CASE n <= Parts
  <2>1. <<f, n>> \in Datum BY <1>4 DEF Datum
  <2>2. c.got = Append(s.got, <<f, n>>) BY <1>1, <1>2, <1>4, <2>1, CopyFields
  <2>3. s.got = Prefix(f, n - 1) BY <1>2, <1>4 DEF Current, DataBefore
  <2>4. n - 1 \in 0..Parts /\ n - 1 < Parts /\ (n - 1) + 1 = n BY <1>4
  <2>5. Append(Prefix(f, n - 1), <<f, n>>) = Prefix(f, n) BY <2>4, PrefixFacts
  <2>6. DataBefore(n + 1) = n BY <1>4 DEF DataBefore
  <2> QED BY <1>1, <1>2, <2>2, <2>3, <2>5, <2>6
<1> QED BY <1>3, <1>4


\* The receiver knows of a hole in what it has: it will flag it, or flagged the
\* frame before it.
Flagged(s) == s.err \/ (s.out # <<>> /\ s.out[Len(s.out)].err)

\* What DamageFlagged says of the frames published.
Good(s, f) ==
    \A b \in DOMAIN s.out :
        \/ s.out[b].err \/ (b > 1 /\ s.out[b - 1].err)
        \/ \E g \in 0..f : s.out[b].data = Whole(g)

Watched(s, f, n) ==
    /\ Flagged(s) \/ Current(s, f, n) \/ Previous(s, f, n)
    /\ s.got # <<>> /\ s.fid # f % 2 /\ n > 1 => s.err
    /\ Good(s, f)

\* Publishing keeps the promise if the hole is known or there is none.
LEMMA SwapGood ==
    ASSUME NEW s \in Streams, NEW f \in Nat, Good(s, f),
           Flagged(s) \/ \E g \in 0..f : s.got = Whole(g)
    PROVE  Good(Swap(s), f) /\ (s.err => Flagged(Swap(s)))
<1> DEFINE r == [data |-> s.got, err |-> s.err]
<1>1. s.out \in Seq(Frames) /\ r \in Frames BY StreamFields
<1>2. r.data = s.got /\ r.err = s.err OBVIOUS
<1>3. PICK t : t = Swap(s) OBVIOUS
<1>4. t.out = Append(s.out, r) BY <1>3, SwapFields
<1> HIDE DEF r
<1>5. /\ DOMAIN s.out = 1..Len(s.out) /\ Len(s.out) \in Nat
      /\ DOMAIN t.out = 1..Len(s.out) + 1 /\ Len(t.out) = Len(s.out) + 1
      /\ \A b \in DOMAIN s.out : t.out[b] = s.out[b]
      /\ t.out[Len(s.out) + 1] = r
  BY <1>1, <1>4
<1>6. s.out # <<>> => Len(s.out) > 0 BY <1>1, EmptySeq
<1>7. ASSUME NEW b \in DOMAIN s.out
      PROVE  \/ t.out[b].err \/ (b > 1 /\ t.out[b - 1].err)
             \/ \E g \in 0..f : t.out[b].data = Whole(g)
  <2>1. b > 1 => b - 1 \in DOMAIN s.out BY <1>5
  <2> QED BY <1>5, <2>1 DEF Good
<1>8. LET b == Len(s.out) + 1
      IN  \/ t.out[b].err \/ (b > 1 /\ t.out[b - 1].err)
          \/ \E g \in 0..f : t.out[b].data = Whole(g)
  <2>1. CASE s.err BY <1>2, <1>5, <2>1
  <2>2. CASE s.out # <<>> /\ s.out[Len(s.out)].err
    <3>1. Len(s.out) \in DOMAIN s.out /\ (Len(s.out) + 1) - 1 = Len(s.out) BY <1>5, <1>6, <2>2
    <3> QED BY <1>5, <1>6, <2>2, <3>1
  <2>3. CASE \E g \in 0..f : s.got = Whole(g) BY <1>2, <1>5, <2>3
  <2> QED BY <2>1, <2>2, <2>3 DEF Flagged
<1>9. Good(t, f) BY <1>5, <1>7, <1>8 DEF Good
<1>10. s.err => Flagged(t)
  <2>1. t.out # <<>> BY <1>1, <1>4
  <2> QED BY <1>2, <1>5, <2>1 DEF Flagged
<1> QED BY <1>3, <1>9, <1>10

\* After a header, the stream has all of f so far unless the hole is known.
LEMMA HeaderWatched ==
    ASSUME NEW s \in Streams, NEW p \in Packets, NEW n \in 1..Parts + 1,
           Watched(s, p.frame, n)
    PROVE  /\ Flagged(Header(s, p)) \/ Current(Header(s, p), p.frame, n)
           /\ Good(Header(s, p), p.frame)
<1>1. PICK h \in Streams : h = Header(s, p) BY HeaderFields
<1>2. PICK f \in Nat : f = p.frame BY PacketFields
<1>3. PICK u \in Streams : u = Swap(s) BY SwapFields
<1>4. CASE Current(s, f, n)
  <2>1. h.out = s.out /\ Current(h, f, n) BY <1>1, <1>2, <1>4, HeaderCurrent
  <2>2. Good(h, f) BY <1>2, <2>1 DEF Watched, Good
  <2> QED BY <1>1, <1>2, <2>1, <2>2
<1>5. CASE Previous(s, f, n)
  <2>1. h.out = u.out /\ Current(h, f, n) BY <1>1, <1>2, <1>3, <1>5, HeaderPrevious
  <2>2. f - 1 \in 0..f /\ s.got = Whole(f - 1) BY <1>2, <1>5 DEF Previous
  <2>3. Good(u, f) BY <1>2, <1>3, <2>2, SwapGood DEF Watched
  <2>4. Good(h, f) BY <2>1, <2>3 DEF Good
  <2> QED BY <1>1, <1>2, <2>1, <2>4
<1>6. CASE Flagged(s) /\ h.got = s.got /\ h.err = s.err /\ h.out = s.out
  <2>1. Flagged(h) /\ Good(h, f) BY <1>2, <1>6 DEF Flagged, Watched, Good
  <2> QED BY <1>1, <1>2, <2>1
<1>7. CASE /\ Flagged(s) /\ s.fid # f % 2 /\ s.got # <<>>
           /\ h.got = u.got /\ h.err = u.err /\ h.out = u.out
  <2>1. Good(u, f) /\ (s.err => Flagged(u)) BY <1>2, <1>3, <1>7, SwapGood DEF Watched
  <2>2. Good(h, f) /\ (s.err => Flagged(h)) BY <1>7, <2>1 DEF Good, Flagged
  <2>3. ASSUME ~s.err PROVE Current(h, f, n)
    <3>1. n = 1 BY <1>2, <1>7, <2>3 DEF Watched
    <3>2. h.got = <<>> BY <1>3, <1>7, SwapFields
    <3>3. h.got = Prefix(f, 0) BY <3>2, PrefixFacts
    <3> QED BY <3>1, <3>3 DEF Current, DataBefore
  <2> QED BY <1>1, <1>2, <2>2, <2>3
<1> QED BY <1>1, <1>2, <1>3, <1>4, <1>5, <1>6, <1>7, HeaderFields DEF Watched


\* A damaged packet: the hole is known.
LEMMA FlagWatched ==
    ASSUME NEW s \in Streams, NEW f \in Nat, NEW n, NEW e \in Nat, Good(s, e), e <= f
    PROVE  Watched(Flag(s), f, n)
<1>1. PICK t \in Streams : t = Flag(s) BY FlagFields
<1>2. t.out = s.out /\ t.err = TRUE BY <1>1, FlagFields
<1>3. Good(t, f)
  <2>1. 0..e \subseteq 0..f OBVIOUS
  <2> QED BY <1>2, <2>1 DEF Good
<1>4. Watched(t, f, n) BY <1>2, <1>3 DEF Watched, Flagged
<1> QED BY <1>1, <1>4

\* A bare header, and a packet with data: the state of the stream at the camera's
\* next part.
LEMMA FillWatched ==
    ASSUME NEW s \in Streams, NEW q \in Packets, NEW n \in 1..Parts + 1,
           Watched(s, q.frame, n), q.data = <<>>, ~q.eof
    PROVE  Watched(Process(s, q), q.frame, n)
<1>1. PICK h \in Streams : h = Header(s, q) BY HeaderFields
<1>2. PICK f \in Nat : f = q.frame BY PacketFields
<1>3. PICK c \in Streams : c = CopyData(h, q) BY CopyFields
<1>4. c.got = h.got /\ c.err = h.err /\ c.out = h.out /\ c.fid = h.fid /\ h.fid = f % 2
  BY <1>1, <1>2, <1>3, CopyFields, HeaderFid
<1>5. (Flagged(h) \/ Current(h, f, n)) /\ Good(h, f) BY <1>1, <1>2, HeaderWatched
<1>6. Watched(c, f, n) BY <1>4, <1>5 DEF Watched, Flagged, Current, Good
<1>7. Process(s, q) = c BY <1>1, <1>3 DEF Process, EndOfFrame
<1> QED BY <1>2, <1>6, <1>7

\* A packet that arrives whole brings the receiver one packet further, with no hole
\* unflagged.
LEMMA ProcessWatched ==
    ASSUME NEW s \in Streams, NEW p \in Packets, NEW n \in 1..Parts + 1,
           Watched(s, p.frame, n),
           n <= Parts => p.data = <<<<p.frame, n>>>>, n > Parts => p.data = <<>>,
           NEW last \in {Parts, Parts + 1}, n <= last, p.eof => n = last
    PROVE  IF n = last THEN Watched(Process(s, p), p.frame + 1, 1)
           ELSE Watched(Process(s, p), p.frame, n + 1)
<1>1. PICK h \in Streams : h = Header(s, p) BY HeaderFields
<1>2. PICK f \in Nat : f = p.frame BY PacketFields
<1>3. PICK c \in Streams : c = CopyData(h, p) BY CopyFields
<1>4. c.err = h.err /\ c.out = h.out /\ c.fid = h.fid /\ h.fid = f % 2
  BY <1>1, <1>2, <1>3, CopyFields, HeaderFid
<1>5. (Flagged(h) \/ Current(h, f, n)) /\ Good(h, f) BY <1>1, <1>2, HeaderWatched
<1>6. Current(h, f, n) => c.got = Prefix(f, DataBefore(n + 1)) BY <1>2, <1>3, CopyCurrent
<1>7. (Flagged(c) \/ c.got = Prefix(f, DataBefore(n + 1))) /\ Good(c, f)
  BY <1>4, <1>5, <1>6 DEF Flagged, Good
<1>8. n = last => DataBefore(n + 1) = Parts BY DEF DataBefore
<1>9. Whole(f) = Prefix(f, Parts) BY PrefixFacts
<1>10. \A t : Good(t, f) => Good(t, f + 1)
  <2>1. 0..f \subseteq 0..f + 1 OBVIOUS
  <2> QED BY <2>1 DEF Good
<1>11. CASE Process(s, p) = c /\ n # last
  <2>1. Flagged(c) \/ Current(c, f, n + 1) BY <1>4, <1>7 DEF Current
  <2>2. Watched(c, f, n + 1) BY <1>4, <1>7, <2>1 DEF Watched
  <2> QED BY <1>2, <1>11, <2>2
<1>12. CASE Process(s, p) = c /\ n = last
  <2>1. Flagged(c) \/ Previous(c, f + 1, 1)
    BY <1>4, <1>7, <1>8, <1>9, <1>12 DEF Previous
  <2>2. Watched(c, f + 1, 1) BY <1>7, <1>10, <2>1 DEF Watched
  <2> QED BY <1>2, <1>12, <2>2
<1>13. CASE Process(s, p) = Swap(c) /\ n = last
  <2>1. PICK u \in Streams : u = Swap(c) BY SwapFields
  <2>2. Good(u, f) BY <1>7, <1>8, <1>9, <1>13, <2>1, SwapGood
  <2>3. u.got = Prefix(f + 1, 0)
    <3>1. PICK g \in Nat : g = f + 1 OBVIOUS
    <3>2. Prefix(g, 0) = <<>> BY PrefixFacts
    <3> QED BY <2>1, <3>1, <3>2, SwapFields
  <2>4. Current(u, f + 1, 1) BY <2>3 DEF Current, DataBefore
  <2>5. Watched(u, f + 1, 1) BY <1>10, <2>2, <2>4 DEF Watched
  <2> QED BY <1>2, <1>13, <2>1, <2>5
<1>14. Process(s, p) = c \/ (Process(s, p) = Swap(c) /\ p.eof)
  BY <1>1, <1>3 DEF Process, EndOfFrame
<1> QED BY <1>11, <1>12, <1>13, <1>14

\* The invariant, and the theorem.
OnlyDamage == \A i \in DOMAIN faults : faults[i][1] \in {"status", "bogus"}

WatchInv == OnlyDamage => Watched(Stream, frame, part)

\* A step on which a fault of another kind happens leaves this fault behind.
LEMMA OnlyDamageSteps ==
    ASSUME PayloadType, Next, OnlyDamage'
    PROVE  OnlyDamage /\ \A k \in Kinds : Fault(k) => k \in {"status", "bogus"}
<1>1. ASSUME NEW k \in Kinds, Fault(k) PROVE OnlyDamage /\ k \in {"status", "bogus"}
  <2>1. PICK q, f : q = faults /\ f = frame OBVIOUS
  <2>2. q \in Seq(Kinds \X Nat) /\ f \in Nat
    BY <2>1 DEF PayloadType, FaultsType, CameraType
  <2>3. PICK r : r = Append(q, <<k, f>>) OBVIOUS
  <2>4. faults' = r BY <1>1, <2>1, <2>3 DEF Fault
  <2>5. <<k, f>> \in Kinds \X Nat BY <1>1, <2>2
  <2>6. /\ DOMAIN q = 1..Len(q) /\ Len(q) \in Nat /\ DOMAIN r = 1..Len(q) + 1
        /\ \A i \in DOMAIN q : r[i] = q[i]
        /\ r[Len(q) + 1] = <<k, f>>
    BY <2>2, <2>3, <2>5
  <2>7. \A i \in DOMAIN r : r[i][1] \in {"status", "bogus"} BY <2>4 DEF OnlyDamage
  <2>8. \A i \in DOMAIN q : i \in DOMAIN r BY <2>6
  <2>9. OnlyDamage BY <2>1, <2>6, <2>7, <2>8 DEF OnlyDamage
  <2>10. Len(q) + 1 \in DOMAIN r BY <2>6
  <2> QED BY <2>6, <2>7, <2>9, <2>10
<1>2. UNCHANGED faults => OnlyDamage BY DEF OnlyDamage
<1> QED BY <1>1, <1>2, CameraSteps

\* Every step keeps WatchInv,
LEMMA WatchStep == PayloadType /\ WatchInv /\ [Next]_vars => WatchInv'
<1> SUFFICES ASSUME PayloadType, WatchInv, [Next]_vars, OnlyDamage'
             PROVE  Watched(Stream, frame, part)'
  BY DEF WatchInv
<1>1. PICK s, p, q : s = Stream /\ p = Packet /\ q = Filler OBVIOUS
<1>2. PICK t : t = Stream' OBVIOUS
<1>3. PICK f \in Nat, n \in 1..Parts + 1, last \in {Parts, Parts + 1} :
        f = frame /\ n = part /\ last = LastPart
  BY DEF PayloadType, CameraType, LastPart
<1>4. PICK g, m : g = frame' /\ m = part' OBVIOUS
<1>5. CASE UNCHANGED vars
  <2>1. OnlyDamage BY <1>5 DEF OnlyDamage, vars
  <2>2. Watched(s, f, n) BY <1>1, <1>3, <2>1 DEF WatchInv
  <2>3. t = s /\ frame' = f /\ part' = n
    BY <1>1, <1>2, <1>3, <1>5 DEF vars, camVars, strmVars, Stream
  <2> QED BY <1>2, <2>2, <2>3
<1>6. CASE Next
  <2>1. OnlyDamage /\ \A k \in Kinds : Fault(k) => k \in {"status", "bogus"}
    BY <1>6, OnlyDamageSteps
  <2>2. Watched(s, f, n) BY <1>1, <1>3, <2>1 DEF WatchInv
  <2>3. s \in Streams /\ t \in Streams /\ p \in Packets /\ q \in Packets
    BY <1>1, <1>2, <1>6, Steps
  <2>4. /\ p.frame = f /\ q.frame = f /\ q.data = <<>> /\ ~q.eof
        /\ p.eof => n = last
        /\ n <= Parts => p.data = <<<<f, n>>>>
        /\ n > Parts => p.data = <<>>
    BY <1>1, <1>3, PacketIs DEF PayloadType
  <2>5. PICK h \in Streams : h = Header(s, p) BY <2>3, HeaderFields
  <2>6. \/ g = f /\ m = n /\ t = Process(s, q)
        \/ /\ IF n = last THEN g = f + 1 /\ m = 1 ELSE g = f /\ m = n + 1
           /\ t \in {Process(s, p), Flag(s), Flag(h)}
    <3>1. Advance => IF n = last THEN g = f + 1 /\ m = 1 ELSE g = f /\ m = n + 1
      BY <1>3, <1>4 DEF Advance
    <3>2. \A k \in Kinds : Fault(k) => Advance BY DEF Fault
    <3>3. ~Fault("lost") /\ ~Fault("error") BY <2>1 DEF Kinds
    <3>4. UNCHANGED <<camVars, faults>> => g = f /\ m = n BY <1>3, <1>4 DEF camVars
    <3> QED BY <1>1, <1>2, <1>6, <2>5, <3>1, <3>2, <3>3, <3>4, Steps DEF Kinds
  <2>7. n <= last /\ g \in Nat /\ f <= g
    BY <1>3, <2>6 DEF PayloadType, CameraType
  <2>8. Watched(t, g, m)
    <3>1. CASE g = f /\ m = n /\ t = Process(s, q)
      BY <2>2, <2>3, <2>4, <3>1, FillWatched
    <3>2. CASE /\ IF n = last THEN g = f + 1 /\ m = 1 ELSE g = f /\ m = n + 1
               /\ t = Process(s, p)
      BY <2>2, <2>3, <2>4, <2>7, <3>2, ProcessWatched
    <3>3. CASE t \in {Flag(s), Flag(h)}
      <4>1. Good(s, f) BY <2>2 DEF Watched
      <4>2. Good(h, f) BY <2>2, <2>3, <2>4, <2>5, HeaderWatched
      <4> QED BY <2>3, <2>5, <2>7, <3>3, <4>1, <4>2, FlagWatched
    <3> QED BY <2>6, <3>1, <3>2, <3>3
  <2> QED BY <1>2, <1>4, <2>8
<1> QED BY <1>5, <1>6

\* A stream on which nothing happened yet.
LEMMA InitialStream ==
    ASSUME Init
    PROVE  /\ Stream.got = <<>> /\ Stream.err = FALSE /\ Stream.out = <<>>
           /\ Current(Stream, frame, part)
<1>1. PICK s : s = Stream OBVIOUS
<1>2. s.got = <<>> /\ s.err = FALSE /\ s.out = <<>> BY <1>1 DEF Init, Stream
<1>3. Prefix(0, 0) = <<>> BY PrefixFacts
<1>4. Current(s, frame, part) BY <1>2, <1>3 DEF Init, Current, DataBefore
<1> QED BY <1>1, <1>2, <1>4

\* which therefore holds.
LEMMA WatchHolds == Spec => []WatchInv
<1>1. Init => WatchInv
  <2> SUFFICES ASSUME Init PROVE WatchInv OBVIOUS
  <2>1. PICK s : s = Stream OBVIOUS
  <2>2. s.got = <<>> /\ s.out = <<>> /\ Current(s, frame, part) BY <2>1, InitialStream
  <2>3. Watched(s, frame, part) BY <2>2 DEF Watched, Good
  <2> QED BY <2>1, <2>3 DEF WatchInv
<1> QED BY <1>1, WatchStep, PayloadTypes, PTL DEF Spec

\* A damaged packet is not overlooked: a published frame with a hole is flagged, or
\* the one before it is.
THEOREM DamageFlaggedHolds == Spec => []DamageFlagged
<1>1. WatchInv => DamageFlagged
  <2> SUFFICES ASSUME WatchInv PROVE DamageFlagged OBVIOUS
  <2>1. PICK s : s = Stream OBVIOUS
  <2>2. OnlyDamage => Good(s, frame) BY <2>1 DEF WatchInv, Watched
  <2>3. s.out = published BY <2>1 DEF Stream
  <2> QED BY <2>2, <2>3 DEF Good, DamageFlagged, OnlyDamage
<1> QED BY <1>1, WatchHolds, PTL

-----------------------------------------------------------------------------
(* Without a fault.                                                        *)

\* The first k frames published are the first k of the camera, whole and unflagged.
InOrder(s, k) ==
    /\ ~s.err /\ Len(s.out) = k
    /\ \A i \in DOMAIN s.out : s.out[i] = [data |-> Whole(i - 1), err |-> FALSE]

\* The end of a frame is not noticed before the next one begins.
Unmarked == eof = "none" \/ (eof = "alone" /\ mode = "bulk")

\* The receiver keeps up, with all of the current frame, or is one frame behind.
InStep(s, f, n, late) ==
    \/ Current(s, f, n) /\ InOrder(s, f)
    \/ late /\ Previous(s, f, n) /\ InOrder(s, f - 1)

\* Publishing the whole of frame k.
LEMMA SwapInOrder ==
    ASSUME NEW s \in Streams, NEW k \in Nat, InOrder(s, k), s.got = Whole(k)
    PROVE  InOrder(Swap(s), k + 1)
<1> DEFINE r == [data |-> s.got, err |-> s.err]
<1>1. s.out \in Seq(Frames) /\ r \in Frames BY StreamFields
<1>2. r = [data |-> Whole(k), err |-> FALSE]
  <2>1. s.err = FALSE BY StreamFields DEF InOrder
  <2> QED BY <2>1
<1>3. PICK t : t = Swap(s) OBVIOUS
<1>4. t.out = Append(s.out, r) /\ ~t.err BY <1>3, SwapFields
<1> HIDE DEF r
<1>5. /\ DOMAIN t.out = 1..k + 1 /\ Len(t.out) = k + 1
      /\ \A i \in 1..k : i \in DOMAIN s.out /\ t.out[i] = s.out[i]
      /\ t.out[k + 1] = r
  BY <1>1, <1>4 DEF InOrder
<1>6. \A i \in DOMAIN t.out : t.out[i] = [data |-> Whole(i - 1), err |-> FALSE]
  <2> SUFFICES ASSUME NEW i \in 1..k + 1
               PROVE  t.out[i] = [data |-> Whole(i - 1), err |-> FALSE]
    BY <1>5
  <2>1. CASE i \in 1..k BY <1>5, <2>1 DEF InOrder
  <2>2. CASE i = k + 1
    <3>1. i - 1 = k BY <2>2
    <3> QED BY <1>2, <1>5, <2>2, <3>1
  <2> QED BY <2>1, <2>2
<1>7. InOrder(t, k + 1) BY <1>4, <1>5, <1>6 DEF InOrder
<1> QED BY <1>3, <1>7

\* A header of the current frame publishes the one before, if that was missing.
LEMMA HeaderInStep ==
    ASSUME NEW s \in Streams, NEW p \in Packets, NEW n \in 1..Parts + 1, NEW late,
           InStep(s, p.frame, n, late)
    PROVE  Current(Header(s, p), p.frame, n) /\ InOrder(Header(s, p), p.frame)
<1>1. PICK h \in Streams : h = Header(s, p) BY HeaderFields
<1>2. PICK f \in Nat : f = p.frame BY PacketFields
<1>3. CASE Current(s, f, n) /\ InOrder(s, f)
  <2>1. h.out = s.out /\ h.err = s.err /\ Current(h, f, n)
    BY <1>1, <1>2, <1>3, HeaderCurrent
  <2>2. InOrder(h, f) BY <1>3, <2>1 DEF InOrder
  <2> QED BY <1>1, <1>2, <2>1, <2>2
<1>4. CASE Previous(s, f, n) /\ InOrder(s, f - 1)
  <2>1. PICK u \in Streams : u = Swap(s) BY SwapFields
  <2>2. h.out = u.out /\ h.err = u.err /\ Current(h, f, n)
    BY <1>1, <1>2, <1>4, <2>1, HeaderPrevious
  <2>3. PICK k \in Nat : k = f - 1 /\ k + 1 = f BY <1>4 DEF Previous
  <2>4. InOrder(u, f) BY <1>4, <2>1, <2>3, SwapInOrder DEF Previous
  <2>5. InOrder(h, f) BY <2>2, <2>4 DEF InOrder
  <2> QED BY <1>1, <1>2, <2>2, <2>5
<1> QED BY <1>2, <1>3, <1>4 DEF InStep


\* A bare header, and a packet of the current frame.
LEMMA FillInStep ==
    ASSUME NEW s \in Streams, NEW q \in Packets, NEW n \in 1..Parts + 1, NEW late,
           InStep(s, q.frame, n, late), q.data = <<>>, ~q.eof
    PROVE  InStep(Process(s, q), q.frame, n, late)
<1>1. PICK h \in Streams : h = Header(s, q) BY HeaderFields
<1>2. PICK f \in Nat : f = q.frame BY PacketFields
<1>3. PICK c \in Streams : c = CopyData(h, q) BY CopyFields
<1>4. c.got = h.got /\ c.err = h.err /\ c.out = h.out /\ c.fid = h.fid
  BY <1>1, <1>3, CopyFields
<1>5. Current(h, f, n) /\ InOrder(h, f) BY <1>1, <1>2, HeaderInStep
<1>6. Current(c, f, n) /\ InOrder(c, f) BY <1>4, <1>5 DEF Current, InOrder
<1>7. Process(s, q) = c BY <1>1, <1>3 DEF Process, EndOfFrame
<1> QED BY <1>2, <1>6, <1>7 DEF InStep

\* Without faults the receiver is in step with the camera after each packet.
LEMMA ProcessInStep ==
    ASSUME CameraType, NEW s \in Streams, NEW p \in Packets,
           InStep(s, frame, part, Unmarked), p = Packet
    PROVE  IF part = LastPart THEN InStep(Process(s, p), frame + 1, 1, Unmarked)
           ELSE InStep(Process(s, p), frame, part + 1, Unmarked)
<1>1. PICK h \in Streams : h = Header(s, p) BY HeaderFields
<1>2. PICK f \in Nat, n \in 1..Parts + 1 : f = frame /\ n = part
  BY DEF CameraType, LastPart
<1>3. PICK c \in Streams : c = CopyData(h, p) BY CopyFields
<1>4. PICK late : late = Unmarked OBVIOUS
<1>5. /\ p.frame = f /\ (p.eof <=> part = LastPart /\ eof # "none")
      /\ n <= Parts => p.data = <<<<f, n>>>>
      /\ n > Parts => p.data = <<>>
  BY <1>2, PacketIs
<1>6. c.err = h.err /\ c.out = h.out /\ c.fid = h.fid /\ h.fid = f % 2
  BY <1>1, <1>3, <1>5, CopyFields, HeaderFid
<1>7. Current(h, f, n) /\ InOrder(h, f) BY <1>1, <1>2, <1>4, <1>5, HeaderInStep
<1>8. c.got = Prefix(f, DataBefore(n + 1)) BY <1>3, <1>5, <1>7, CopyCurrent
<1>9. InOrder(c, f) BY <1>6, <1>7 DEF InOrder
<1>10. part = LastPart => DataBefore(n + 1) = Parts BY <1>2 DEF DataBefore, LastPart
<1>11. Whole(f) = Prefix(f, Parts) BY PrefixFacts
<1>12. CASE part # LastPart
  <2>1. Process(s, p) = c BY <1>1, <1>3, <1>5, <1>12 DEF Process, EndOfFrame
  <2>2. Current(c, f, n + 1) BY <1>6, <1>8 DEF Current
  <2>3. InStep(c, f, n + 1, late) BY <1>9, <2>2 DEF InStep
  <2> QED BY <1>2, <1>4, <1>12, <2>1, <2>3
<1>13. CASE part = LastPart /\ Unmarked
  <2>1. Process(s, p) = c
    <3>1. CASE eof = "none" BY <1>1, <1>3, <1>5, <3>1 DEF Process, EndOfFrame
    <3>2. CASE eof = "alone" /\ mode = "bulk"
      <4>1. p.data = <<>> BY <1>2, <1>5, <1>13, <3>2 DEF LastPart
      <4> QED BY <1>1, <1>3, <3>2, <4>1 DEF Process, EndOfFrame
    <3> QED BY <1>13, <3>1, <3>2 DEF Unmarked
  <2>2. Previous(c, f + 1, 1) BY <1>6, <1>8, <1>10, <1>11, <1>13 DEF Previous
  <2>3. InStep(c, f + 1, 1, TRUE) BY <1>9, <2>2 DEF InStep
  <2> QED BY <1>2, <1>4, <1>13, <2>1, <2>3
<1>14. CASE part = LastPart /\ ~Unmarked
  <2>1. PICK u \in Streams : u = Swap(c) BY SwapFields
  <2>2. c.got # <<>> BY <1>8, <1>10, <1>14, PrefixFacts
  <2>3. mode # "iso" => p.data # <<>>
    <3>1. mode # "iso" => eof = "last" BY <1>14 DEF Unmarked, CameraType
    <3>2. eof = "last" => n <= Parts BY <1>2, <1>14 DEF LastPart
    <3>3. <<<<f, n>>>> # <<>> OBVIOUS
    <3> QED BY <1>5, <3>1, <3>2, <3>3
  <2>4. Process(s, p) = u
    <3>1. p.eof BY <1>5, <1>14 DEF Unmarked
    <3> QED BY <1>1, <1>3, <2>1, <2>2, <2>3, <3>1 DEF Process, EndOfFrame
  <2>5. InOrder(u, f + 1) BY <1>8, <1>9, <1>10, <1>11, <1>14, <2>1, SwapInOrder
  <2>6. u.got = Prefix(f + 1, 0)
    <3>1. PICK g \in Nat : g = f + 1 OBVIOUS
    <3>2. Prefix(g, 0) = <<>> BY PrefixFacts
    <3> QED BY <2>1, <3>1, <3>2, SwapFields
  <2>7. Current(u, f + 1, 1) BY <2>6 DEF Current, DataBefore
  <2>8. InStep(u, f + 1, 1, late) BY <2>5, <2>7 DEF InStep
  <2> QED BY <1>2, <1>4, <1>14, <2>4, <2>8
<1> QED BY <1>12, <1>13, <1>14

\* The invariant, and the theorem.
InStepInv == faults = <<>> => InStep(Stream, frame, part, Unmarked)

\* Every step keeps InStepInv,
LEMMA InStepStep == PayloadType /\ InStepInv /\ [Next]_vars => InStepInv'
<1> SUFFICES ASSUME PayloadType, InStepInv, [Next]_vars, faults' = <<>>
             PROVE  InStep(Stream, frame, part, Unmarked)'
  BY DEF InStepInv
<1>0. PICK late : late = Unmarked OBVIOUS
<1>1. PICK s, p, q : s = Stream /\ p = Packet /\ q = Filler OBVIOUS
<1>2. PICK t : t = Stream' OBVIOUS
<1>3. PICK f \in Nat, n \in 1..Parts + 1 : f = frame /\ n = part
  BY DEF PayloadType, CameraType, LastPart
<1>4. PICK g, m : g = frame' /\ m = part' OBVIOUS
<1>5. CASE UNCHANGED vars
  <2>1. InStep(s, f, n, late) BY <1>0, <1>1, <1>3, <1>5 DEF InStepInv, vars
  <2>2. t = s /\ g = f /\ m = n /\ Unmarked' = late
    BY <1>0, <1>1, <1>2, <1>3, <1>4, <1>5 DEF vars, camVars, strmVars, Stream, Unmarked
  <2> QED BY <1>2, <1>4, <2>1, <2>2
<1>6. CASE Next
  <2>1. s \in Streams /\ t \in Streams /\ p \in Packets /\ q \in Packets
    BY <1>1, <1>2, <1>6, Steps
  <2>2. \A k \in Kinds : ~Fault(k)
    <3> SUFFICES ASSUME NEW k \in Kinds, Fault(k) PROVE FALSE OBVIOUS
    <3>1. faults \in Seq(Kinds \X Nat) /\ <<k, frame>> \in Kinds \X Nat
      BY DEF PayloadType, FaultsType, CameraType
    <3>2. faults' = Append(faults, <<k, frame>>) BY DEF Fault
    <3>3. Append(faults, <<k, frame>>) # <<>> BY <3>1, AppendProperties
    <3> QED BY <3>2, <3>3
  <2>3. UNCHANGED faults BY <1>6, <2>2, CameraSteps
  <2>4. InStep(s, f, n, late) BY <1>0, <1>1, <1>3, <2>3 DEF InStepInv
  <2>5. /\ q.frame = f /\ q.data = <<>> /\ ~q.eof BY <1>1, <1>3, PacketIs DEF PayloadType
  <2>6. Unmarked' = late BY <1>0, <1>3, <1>6, CameraSteps DEF Unmarked
  <2>7. \/ g = f /\ m = n /\ t = Process(s, q)
        \/ /\ IF n = LastPart THEN g = f + 1 /\ m = 1 ELSE g = f /\ m = n + 1
           /\ t = Process(s, p)
    <3>1. Advance => IF n = LastPart THEN g = f + 1 /\ m = 1 ELSE g = f /\ m = n + 1
      BY <1>3, <1>4 DEF Advance
    <3>2. UNCHANGED <<camVars, faults>> => g = f /\ m = n BY <1>3, <1>4 DEF camVars
    <3> QED BY <1>1, <1>2, <1>6, <2>2, <3>1, <3>2, Steps DEF Kinds
  <2>8. CASE g = f /\ m = n /\ t = Process(s, q)
    <3>1. InStep(t, g, m, late) BY <2>1, <2>4, <2>5, <2>8, FillInStep
    <3> QED BY <1>2, <1>4, <2>6, <3>1
  <2>9. CASE /\ IF n = LastPart THEN g = f + 1 /\ m = 1 ELSE g = f /\ m = n + 1
             /\ t = Process(s, p)
    <3>1. InStep(t, g, m, late)
      BY <1>0, <1>1, <1>3, <2>1, <2>4, <2>9, ProcessInStep DEF PayloadType
    <3> QED BY <1>2, <1>4, <2>6, <3>1
  <2> QED BY <2>7, <2>8, <2>9
<1> QED BY <1>5, <1>6

\* which therefore holds.
LEMMA InStepHolds == Spec => []InStepInv
<1>1. Init => InStepInv
  <2> SUFFICES ASSUME Init PROVE InStepInv OBVIOUS
  <2>1. PICK s, late : s = Stream /\ late = Unmarked OBVIOUS
  <2>2. s.err = FALSE /\ s.out = <<>> /\ Current(s, frame, part) BY <2>1, InitialStream
  <2>3. InOrder(s, frame) BY <2>2 DEF InOrder, Init
  <2>4. InStep(s, frame, part, late) BY <2>2, <2>3 DEF InStep
  <2> QED BY <2>1, <2>4 DEF InStepInv
<1> QED BY <1>1, InStepStep, PayloadTypes, PTL DEF Spec

\* Without a fault, the frames published are those the camera sent, each whole,
\* unflagged and in order, and the receiver is behind by one frame at most.
THEOREM FaultlessHolds == Spec => []Faultless
<1>1. PayloadType /\ InStepInv => Faultless
  <2> SUFFICES ASSUME PayloadType, InStepInv, faults = <<>> PROVE Faultless
    BY DEF Faultless
  <2>1. PICK f \in Nat : f = frame BY DEF PayloadType, CameraType
  <2>2. PICK s, n, late : s = Stream /\ n = part /\ late = Unmarked OBVIOUS
  <2>3. InStep(s, f, n, late) BY <2>1, <2>2 DEF InStepInv
  <2>4. s.out = published BY <2>2 DEF Stream
  <2>5. /\ \A i \in DOMAIN published : published[i] = [data |-> Whole(i - 1), err |-> FALSE]
        /\ Len(published) = f \/ (late /\ f > 0 /\ Len(published) = f - 1)
    BY <2>3, <2>4 DEF InStep, InOrder, Previous
  <2>6. late => ~(eof = "last" \/ (eof = "alone" /\ mode = "iso")) BY <2>2 DEF Unmarked
  <2> QED BY <2>1, <2>5, <2>6 DEF Faultless
<1> QED BY <1>1, InStepHolds, PayloadTypes, PTL

=============================================================================
