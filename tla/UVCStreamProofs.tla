--------------------------- MODULE UVCStreamProofs ----------------------------
(***************************************************************************)
(* Proofs about a stream, for any number of transfers, frames and          *)
(* sessions.  Type correctness needs no assumption.  The handle outlives   *)
(* its users, and the stream implements FrameSource, if the camera is not  *)
(* unplugged and submissions succeed; without these assumptions TLC finds  *)
(* the handle freed under its users.                                       *)
(***************************************************************************)
EXTENDS UVCStream, Integers, TLAPS

USE StreamAssumption DEF StreamAssumption

-----------------------------------------------------------------------------
(* Type correctness.                                                       *)

\* The Boolean variables have their types: Zenon's part of type correctness.
Flags == open \in BOOLEAN /\ running \in BOOLEAN /\ plugged \in BOOLEAN /\ hold_bfh_err \in BOOLEAN

\* The others: SMT's part.
Values ==
    /\ transfers \in [Transfers -> {"null", "idle", "flying", "cancelled", "done", "lost"}]
    /\ seq \in 0..MaxSeq
    /\ hold_seq \in 0..MaxSeq - 1 /\ frame \in 0..MaxSeq - 1
    /\ last_seq \in 0..MaxSeq - 1 /\ shown \in 0..MaxSeq - 1
    /\ owner \in OwnerPlaces
    /\ event \in {"idle", "payload", "decide", "resubmit", "delete"}
    /\ caller \in {"none", "check", "waiting", "test", "callback", "exited"}
    /\ opens \in 0..MaxOpens

\* The two parts make up the type invariant.
LEMMA TypeParts == TypeOK <=> Flags /\ Values
  BY DEF TypeOK, Flags, Values

\* The variables have their types at first, ...
LEMMA TypeInit == Init => TypeOK
<1>1. Init => Flags BY Zenon DEF Init, Flags
<1>2. Init => Values BY DEF Init, Values, OwnerPlaces
<1> QED BY <1>1, <1>2, TypeParts

\* ... after the steps of the owner, ...
LEMMA OwnerType == TypeOK /\ (OpenStream \/ OwnerStep \/ StopStreaming) => TypeOK'
<1> SUFFICES ASSUME TypeOK, OpenStream \/ OwnerStep \/ StopStreaming PROVE TypeOK'
  OBVIOUS
<1> USE DEF TypeOK, OwnerPlaces, OwnerGoto, handleVars, callerVars
<1>1. CASE OpenStream
  <2>1. Flags' BY Zenon, <1>1 DEF OpenStream, Flags
  <2>2. Values' BY <1>1 DEF OpenStream, Values
  <2> QED BY <2>1, <2>2, TypeParts, PTL
<1>2. CASE BeginStart BY <1>2 DEF BeginStart
<1>3. CASE FailSetup BY <1>3 DEF FailSetup
<1>4. CASE SetupTransfers BY <1>4 DEF SetupTransfers
<1>5. CASE CreateCaller BY <1>5 DEF CreateCaller
<1>6. CASE SubmitTransfer BY <1>6 DEF SubmitTransfer
<1>7. CASE FailSubmit BY <1>7 DEF FailSubmit
<1>8. CASE StopRunning BY <1>8 DEF StopRunning
<1>9. CASE CancelTransfers BY <1>9 DEF CancelTransfers, DrainTransfers, CallerAfterBroadcast
<1>10. CASE WaitForTransfers BY <1>10 DEF WaitForTransfers, DrainTransfers, CallerAfterBroadcast
<1>11. CASE JoinCaller BY <1>11 DEF JoinCaller
<1>12. CASE CloseStream BY <1>12 DEF CloseStream
<1>13. CASE StopStreaming BY <1>13 DEF StopStreaming
<1> QED BY <1>1, <1>2, <1>3, <1>4, <1>5, <1>6, <1>7, <1>8, <1>9, <1>10, <1>11, <1>12,
           <1>13 DEF OwnerStep

\* ... of the event thread ...
LEMMA EventType ==
    TypeOK /\ (EventStep \/ \E t \in Transfers : Reported(t)) => TypeOK'
<1> SUFFICES ASSUME TypeOK, EventStep \/ \E t \in Transfers : Reported(t) PROVE TypeOK'
  OBVIOUS
<1> USE DEF TypeOK, OwnerPlaces, handleVars, callerVars
<1>1. CASE \E t \in Transfers : Reported(t)
  BY <1>1 DEF Reported, TransferCompleted, TransferRetried, TransferEnded, TransferNoDevice,
              Completes
<1>2. CASE ProcessPayload
  <2>1. Flags'
    BY Zenon, <1>2 DEF ProcessPayload, SwapBuffers, Flags
  <2>2. Values'
    <3>1. CASE event' = "decide" /\ UNCHANGED <<seq, hold_seq, hold_bfh_err, owner, caller>>
      BY <1>2, <3>1 DEF ProcessPayload, Values
    <3>2. CASE seq < MaxSeq /\ hold_seq' = seq /\ seq' = seq + 1 /\ UNCHANGED event
               /\ owner' = OwnerAfterBroadcast /\ caller' = CallerAfterBroadcast
      BY <1>2, <3>2 DEF ProcessPayload, OwnerAfterBroadcast, CallerAfterBroadcast, Values
    <3> QED BY <1>2, <3>1, <3>2 DEF ProcessPayload, SwapBuffers
  <2> QED BY <2>1, <2>2, TypeParts, PTL
<1>3. CASE DecideResubmit BY <1>3 DEF DecideResubmit
<1>4. CASE Resubmit BY <1>4 DEF Resubmit, HandOver
<1>5. CASE DeleteTransfer
  BY <1>5 DEF DeleteTransfer, HandOver, OwnerAfterBroadcast, CallerAfterBroadcast
<1> QED BY <1>1, <1>2, <1>3, <1>4, <1>5 DEF EventStep

\* ... and of the others.
LEMMA OtherType == TypeOK /\ (CallerStep \/ Unplug \/ SpuriousWakeup) => TypeOK'
<1> SUFFICES ASSUME TypeOK, CallerStep \/ Unplug \/ SpuriousWakeup PROVE TypeOK'
  OBVIOUS
<1> USE DEF TypeOK, OwnerPlaces, OwnerGoto, handleVars, callerVars
<1>1. CASE CheckFrame BY <1>1 DEF CheckFrame, TakeSeq
<1>2. CASE CallUser BY <1>2 DEF CallUser
<1>3. CASE UserReturns BY <1>3 DEF UserReturns
<1>4. CASE Unplug BY <1>4 DEF Unplug
<1>5. CASE SpuriousWakeup BY <1>5 DEF SpuriousWakeup
<1> QED BY <1>1, <1>2, <1>3, <1>4, <1>5 DEF CallerStep

\* Every variable of a stream has its type.
THEOREM StreamTypeCorrect == Spec => []TypeOK
<1>1. TypeOK /\ [Next]_vars => TypeOK'
  <2>1. TypeOK /\ UNCHANGED vars => TypeOK'
    BY DEF TypeOK, vars, handleVars, callerVars
  <2> QED BY <2>1, OwnerType, EventType, OtherType DEF Next
<1> QED BY <1>1, TypeInit, PTL DEF Spec

-----------------------------------------------------------------------------
(* The inductive invariant.                                                *)

NoTransfers == \A t \in Transfers : transfers[t] = "null"
NoCaller == caller \in {"none", "exited"}

\* A session is under way: the places of the owner at which streaming holds.
InSession == owner \in {"submit", "streaming", "stop", "cancel", "drain", "waiting", "join"}

\* Where the owner is tells what exists.
Places ==
    /\ open = (owner # "closed")
    /\ owner # "close_failed" /\ plugged
    /\ owner \in {"closed", "opened", "setup", "close"} => NoTransfers /\ NoCaller
    /\ owner = "thread" => NoCaller /\ \A t \in Transfers : transfers[t] = "idle"
    /\ owner = "join" => NoTransfers
    /\ owner \in {"setup", "thread", "submit", "streaming", "stop"} => running

\* The event thread is in a callback exactly while a transfer is.
EventBusy == event = "idle" <=> \A t \in Transfers : transfers[t] # "done"

\* The numbers of the frames in libuvc, newest first, and what the callback
\* thread needs of them when it is about to call the user.
Numbers ==
    /\ owner \in {"opened", "setup", "thread"} => hold_seq = 0 /\ frame = 0 /\ ~hold_bfh_err
    /\ owner \in {"setup", "thread"} => seq = 0
    /\ InSession => hold_seq <= seq
    /\ ~DamagedFrames => ~hold_bfh_err
    /\ ~NoCaller => shown <= frame /\ frame <= last_seq /\ last_seq <= hold_seq
    /\ ~DamagedFrames /\ caller = "test" => shown < frame

StreamInv == TypeOK /\ Places /\ EventBusy /\ Numbers

\* The invariant holds at first.
LEMMA InvInit == Init => StreamInv
<1>1. Init => Places BY DEF Init, Places, NoTransfers, NoCaller
<1>2. Init => EventBusy BY DEF Init, EventBusy
<1>3. Init => Numbers BY DEF Init, Numbers, InSession, NoCaller
<1> QED BY <1>1, <1>2, <1>3, TypeInit DEF StreamInv

\* With a camera that stays and submissions that succeed, the invariant is kept.
LEMMA PlacesKept ==
    ASSUME UnplugsAt = {}, ~SubmitFails, StreamInv, Next, TypeOK'
    PROVE  Places' /\ EventBusy'
<1> USE DEF StreamInv, TypeOK, Places, EventBusy, NoTransfers, NoCaller, OwnerGoto,
            handleVars, callerVars
<1>1. CASE OpenStream BY <1>1 DEF OpenStream
<1>2. CASE BeginStart BY <1>2 DEF BeginStart
<1>3. CASE FailSetup BY <1>3 DEF FailSetup
<1>4. CASE SetupTransfers BY <1>4 DEF SetupTransfers
<1>5. CASE CreateCaller BY <1>5 DEF CreateCaller
<1>6. CASE SubmitTransfer BY <1>6 DEF SubmitTransfer
<1>7. CASE FailSubmit BY <1>7 DEF FailSubmit
<1>8. CASE StopRunning BY <1>8 DEF StopRunning
<1>9. CASE CancelTransfers BY <1>9 DEF CancelTransfers, DrainTransfers, CallerAfterBroadcast
<1>10. CASE WaitForTransfers BY <1>10 DEF WaitForTransfers, DrainTransfers, CallerAfterBroadcast
<1>11. CASE JoinCaller BY <1>11 DEF JoinCaller
<1>12. CASE CloseStream BY <1>12 DEF CloseStream
<1>13. CASE StopStreaming BY <1>13 DEF StopStreaming
<1>14. CASE \E t \in Transfers : Reported(t)
  <2>1. PICK t \in Transfers : /\ Completes(t) /\ event' # "idle"
                               /\ UNCHANGED <<handleVars, owner, callerVars, plugged>>
    BY <1>14 DEF Reported, TransferCompleted, TransferRetried, TransferEnded, TransferNoDevice
  <2>2. transfers[t] \in {"flying", "cancelled"} /\ transfers'[t] = "done"
    BY <2>1 DEF Completes
  <2> QED BY <2>1, <2>2 DEF Completes
<1>15. CASE ProcessPayload
  BY <1>15 DEF ProcessPayload, SwapBuffers, OwnerAfterBroadcast, CallerAfterBroadcast
<1>16. CASE DecideResubmit BY <1>16 DEF DecideResubmit
<1>17. CASE Resubmit BY <1>17 DEF Resubmit, HandOver
<1>18. CASE DeleteTransfer
  BY <1>18 DEF DeleteTransfer, HandOver, OwnerAfterBroadcast, CallerAfterBroadcast
<1>19. CASE CheckFrame BY <1>19 DEF CheckFrame, TakeSeq
<1>20. CASE CallUser BY <1>20 DEF CallUser
<1>21. CASE UserReturns BY <1>21 DEF UserReturns
<1>22. CASE Unplug BY <1>22 DEF Unplug
<1>23. CASE SpuriousWakeup BY <1>23 DEF SpuriousWakeup
<1> QED BY <1>1, <1>2, <1>3, <1>4, <1>5, <1>6, <1>7, <1>8, <1>9, <1>10, <1>11, <1>12,
           <1>13, <1>14, <1>15, <1>16, <1>17, <1>18, <1>19, <1>20, <1>21, <1>22, <1>23
        DEF Next, OwnerStep, EventStep, CallerStep

\* The numbers of frames stay in order.
LEMMA NumbersKept ==
    ASSUME UnplugsAt = {}, ~SubmitFails, StreamInv, Next, TypeOK'
    PROVE  Numbers'
<1> USE DEF StreamInv, TypeOK, Places, Numbers, InSession, NoCaller, OwnerGoto,
            handleVars, callerVars
<1>1. CASE OpenStream BY <1>1 DEF OpenStream
<1>2. CASE BeginStart BY <1>2 DEF BeginStart
<1>3. CASE FailSetup BY <1>3 DEF FailSetup
<1>4. CASE SetupTransfers BY <1>4 DEF SetupTransfers
<1>5. CASE CreateCaller BY <1>5 DEF CreateCaller
<1>6. CASE SubmitTransfer BY <1>6 DEF SubmitTransfer
<1>7. CASE FailSubmit BY <1>7 DEF FailSubmit
<1>8. CASE StopRunning BY <1>8 DEF StopRunning
<1>9. CASE CancelTransfers BY <1>9 DEF CancelTransfers, DrainTransfers, CallerAfterBroadcast
<1>10. CASE WaitForTransfers BY <1>10 DEF WaitForTransfers, DrainTransfers, CallerAfterBroadcast
<1>11. CASE JoinCaller BY <1>11 DEF JoinCaller
<1>12. CASE CloseStream BY <1>12 DEF CloseStream
<1>13. CASE StopStreaming BY <1>13 DEF StopStreaming
<1>14. CASE \E t \in Transfers : Reported(t)
  <2>1. UNCHANGED <<handleVars, owner, callerVars>>
    BY <1>14 DEF Reported, TransferCompleted, TransferRetried, TransferEnded, TransferNoDevice
  <2> QED BY <2>1
<1>15. CASE ProcessPayload
  <2>1. owner \notin {"opened", "setup", "thread"} /\ (~NoCaller => InSession)
    BY <1>15 DEF ProcessPayload, EventBusy, NoTransfers, OwnerPlaces
  <2>2. CASE UNCHANGED <<seq, hold_seq, hold_bfh_err, owner, caller>>
    BY <1>15, <2>2 DEF ProcessPayload
  <2>3. ASSUME NEW bad \in {FALSE, DamagedFrames}, SwapBuffers(bad), owner' = OwnerAfterBroadcast,
               caller' = CallerAfterBroadcast
        PROVE  Numbers'
    <3>1. ~DamagedFrames => ~hold_bfh_err' BY <2>3 DEF SwapBuffers
    <3>2. hold_seq' = seq /\ seq' = seq + 1 /\ UNCHANGED <<frame, last_seq, shown>>
      BY <1>15, <2>3 DEF ProcessPayload, SwapBuffers
    <3>3. /\ NoCaller' <=> NoCaller
          /\ caller' = "test" <=> caller = "test"
          /\ owner' \notin {"opened", "setup", "thread"}
          /\ InSession' <=> InSession
      BY <2>1, <2>3 DEF OwnerAfterBroadcast, CallerAfterBroadcast
    <3> QED BY <2>1, <3>1, <3>2, <3>3
  <2> QED BY <1>15, <2>2, <2>3 DEF ProcessPayload
<1>16. CASE DecideResubmit BY <1>16 DEF DecideResubmit
<1>17. CASE Resubmit BY <1>17 DEF Resubmit
<1>18. CASE DeleteTransfer
  BY <1>18 DEF DeleteTransfer, OwnerAfterBroadcast, CallerAfterBroadcast
<1>19. CASE CheckFrame BY <1>19 DEF CheckFrame, TakeSeq
<1>20. CASE CallUser BY <1>20 DEF CallUser
<1>21. CASE UserReturns BY <1>21 DEF UserReturns
<1>22. CASE Unplug BY <1>22 DEF Unplug
<1>23. CASE SpuriousWakeup BY <1>23 DEF SpuriousWakeup
<1> QED BY <1>1, <1>2, <1>3, <1>4, <1>5, <1>6, <1>7, <1>8, <1>9, <1>10, <1>11, <1>12,
           <1>13, <1>14, <1>15, <1>16, <1>17, <1>18, <1>19, <1>20, <1>21, <1>22, <1>23
        DEF Next, OwnerStep, EventStep, CallerStep

\* Every step keeps the invariant.
LEMMA InvStep ==
    ASSUME UnplugsAt = {}, ~SubmitFails
    PROVE  StreamInv /\ [Next]_vars => StreamInv'
<1> SUFFICES ASSUME StreamInv, [Next]_vars PROVE StreamInv'
  OBVIOUS
<1>1. CASE Next
  <2>1. TypeOK' BY <1>1, OwnerType, EventType, OtherType DEF Next, StreamInv
  <2> QED BY <1>1, <2>1, PlacesKept, NumbersKept DEF StreamInv
<1>2. CASE UNCHANGED vars
  <2>1. TypeOK' BY <1>2 DEF StreamInv, TypeOK, vars, handleVars, callerVars
  <2>2. Places' /\ EventBusy'
    BY <1>2 DEF StreamInv, Places, EventBusy, NoTransfers, NoCaller, vars, handleVars, callerVars
  <2>3. Numbers'
    BY <1>2 DEF StreamInv, Numbers, InSession, NoCaller, vars, handleVars, callerVars
  <2> QED BY <2>1, <2>2, <2>3 DEF StreamInv
<1> QED BY <1>1, <1>2

\* A stream handle is freed only when nobody uses it any more.
THEOREM HandleOutlivesUsers ==
    ASSUME UnplugsAt = {}, ~SubmitFails
    PROVE  Spec => []HandleAlive
<1>1. StreamInv => HandleAlive
  BY DEF StreamInv, Places, EventBusy, NoTransfers, NoCaller, HandleAlive
<1> QED BY <1>1, InvInit, InvStep, PTL DEF Spec

-----------------------------------------------------------------------------
(* Refinement.                                                             *)

\* What FrameSource calls streaming.
Streaming == owner \in OwnerPlaces \ {"closed", "opened", "setup", "thread", "close"}

\* An action that neither starts nor stops a session nor calls the user.
Quiet ==
    /\ Streaming' = Streaming /\ UNCHANGED shown
    /\ (caller' = "callback") = (caller = "callback")

\* A step that moves none of the mapped variables is a stutter.
LEMMA QuietStutters == Quiet => UNCHANGED Source!vars
  BY DEF Quiet, Streaming, Source!vars

\* The owner's steps start and stop the source, or stutter.
LEMMA OwnerRefines ==
    ASSUME UnplugsAt = {}, ~SubmitFails, StreamInv, OpenStream \/ OwnerStep \/ StopStreaming
    PROVE  [Source!Next]_Source!vars
<1> USE DEF StreamInv, TypeOK, Places, NoCaller, OwnerGoto, handleVars, callerVars,
            Streaming, OwnerPlaces, Quiet
<1>1. CASE OpenStream BY <1>1, QuietStutters DEF OpenStream
<1>2. CASE BeginStart BY <1>2, QuietStutters DEF BeginStart
<1>3. CASE FailSetup BY <1>3, QuietStutters DEF FailSetup
<1>4. CASE SetupTransfers BY <1>4, QuietStutters DEF SetupTransfers
<1>5. CASE CreateCaller
  <2>1. Source!Start BY <1>5 DEF CreateCaller, Source!Start
  <2> QED BY <2>1 DEF Source!Next
<1>6. CASE SubmitTransfer BY <1>6, QuietStutters DEF SubmitTransfer
<1>7. CASE FailSubmit BY <1>7 DEF FailSubmit
<1>8. CASE StopRunning BY <1>8, QuietStutters DEF StopRunning
<1>9. CASE CancelTransfers
  BY <1>9, QuietStutters DEF CancelTransfers, DrainTransfers, CallerAfterBroadcast
<1>10. CASE WaitForTransfers
  BY <1>10, QuietStutters DEF WaitForTransfers, DrainTransfers, CallerAfterBroadcast
<1>11. CASE JoinCaller
  <2>1. Source!Stop BY <1>11 DEF JoinCaller, Source!Stop
  <2> QED BY <2>1 DEF Source!Next
<1>12. CASE CloseStream BY <1>12, QuietStutters DEF CloseStream
<1>13. CASE StopStreaming BY <1>13, QuietStutters DEF StopStreaming
<1> QED BY <1>1, <1>2, <1>3, <1>4, <1>5, <1>6, <1>7, <1>8, <1>9, <1>10, <1>11, <1>12,
           <1>13 DEF OwnerStep

\* The event thread does nothing the user sees.
LEMMA EventRefines ==
    ASSUME StreamInv, EventStep \/ \E t \in Transfers : Reported(t)
    PROVE  [Source!Next]_Source!vars
<1> USE DEF handleVars, callerVars, Streaming, OwnerPlaces, Quiet
<1>1. CASE \E t \in Transfers : Reported(t)
  BY <1>1, QuietStutters
     DEF Reported, TransferCompleted, TransferRetried, TransferEnded, TransferNoDevice
<1>2. CASE ProcessPayload
  <2>1. /\ owner' = owner \/ owner' = OwnerAfterBroadcast
        /\ caller' = caller \/ caller' = CallerAfterBroadcast
        /\ UNCHANGED shown
    BY <1>2 DEF ProcessPayload
  <2> QED BY <2>1, QuietStutters DEF OwnerAfterBroadcast, CallerAfterBroadcast
<1>3. CASE DecideResubmit BY <1>3, QuietStutters DEF DecideResubmit
<1>4. CASE Resubmit BY <1>4, QuietStutters DEF Resubmit
<1>5. CASE DeleteTransfer
  BY <1>5, QuietStutters DEF DeleteTransfer, OwnerAfterBroadcast, CallerAfterBroadcast
<1> QED BY <1>1, <1>2, <1>3, <1>4, <1>5 DEF EventStep

\* The callback thread calls the user and returns.
LEMMA OtherRefines ==
    ASSUME UnplugsAt = {}, StreamInv, CallerStep \/ Unplug \/ SpuriousWakeup
    PROVE  [Source!Next]_Source!vars
<1> USE DEF StreamInv, TypeOK, Places, NoCaller, OwnerGoto, handleVars, callerVars,
            Streaming, OwnerPlaces, Quiet
<1>1. CASE CheckFrame BY <1>1, QuietStutters DEF CheckFrame
<1>2. CASE CallUser
  <2>1. CASE hold_bfh_err BY <1>2, <2>1, QuietStutters DEF CallUser
  <2>2. CASE ~hold_bfh_err
    <3>1. Streaming BY <1>2 DEF CallUser
    <3>2. shown' = frame /\ shown \in Nat /\ frame \in Nat /\ frame <= MaxSeq
      BY <1>2, <2>2 DEF CallUser
    <3>3. shown < frame \/ (DamagedFrames /\ shown = frame)
      BY <1>2, <3>2 DEF CallUser, Numbers
    <3>4. Source!Callback
      BY <1>2, <2>2, <3>1, <3>2, <3>3 DEF CallUser, Source!Callback
    <3> QED BY <3>4 DEF Source!Next
  <2> QED BY <2>1, <2>2
<1>3. CASE UserReturns
  <2>1. Source!Return BY <1>3 DEF UserReturns, Source!Return
  <2> QED BY <2>1 DEF Source!Next
<1>4. CASE Unplug BY <1>4 DEF Unplug
<1>5. CASE SpuriousWakeup BY <1>5, QuietStutters DEF SpuriousWakeup
<1> QED BY <1>1, <1>2, <1>3, <1>4, <1>5 DEF CallerStep

\* The stream implements the interface that UVCPreview relies on.
THEOREM StreamIsFrameSource ==
    ASSUME UnplugsAt = {}, ~SubmitFails
    PROVE  Spec => SourceSpec
<1>1. Init => Source!Init BY DEF Init, Source!Init
<1>2. StreamInv /\ [Next]_vars => [Source!Next]_Source!vars
  <2> SUFFICES ASSUME StreamInv, [Next]_vars PROVE [Source!Next]_Source!vars
    OBVIOUS
  <2>1. CASE UNCHANGED vars BY <2>1 DEF vars, callerVars, Source!vars
  <2> QED BY <2>1, OwnerRefines, EventRefines, OtherRefines DEF Next
<1> QED BY <1>1, <1>2, InvInit, InvStep, PTL DEF Spec, SourceSpec, Source!Spec
=============================================================================
