---------------------------- MODULE UVCCameraProofs ----------------------------
(***************************************************************************)
(* Proofs about the life of a camera, for any number of callback setters,  *)
(* listeners, connects and releases: connect takes all or nothing and      *)
(* release gives it back, what release closes is the camera's, threads die *)
(* before what they use, and a deleted callback is called in one window.   *)
(***************************************************************************)
EXTENDS UVCCamera, Integers, FiniteSetTheorems, TLAPS

\* Nothing of a device is held, and nothing runs.
Unused ==
    /\ ~mDeviceHandle /\ ~devh /\ ~mDevice
    /\ ref = 0 /\ dups = 0 /\ mFd = "zero"
    /\ status_xfer = "null" /\ event = "none"

\* The device is known but not open.
Found ==
    /\ ~mDeviceHandle /\ ~devh /\ mDevice /\ mUsbFs
    /\ ref = 1 /\ dups = 1
    /\ status_xfer = "null" /\ event = "none"

Connected ==
    /\ mDeviceHandle /\ devh /\ mDevice /\ mUsbFs
    /\ ref = 2 /\ dups = 1 /\ mFd = "dup"

\* Where the owner is tells what the camera holds.
Resources ==
    /\ owner \in OwnerPlaces
    /\ owner \in {"connect", "find", "delete", "gone"} => Unused
    /\ owner = "idle" => Connected \/ (Unused /\ (mUsbFs => failed))
    /\ owner = "find" => mUsbFs
    /\ owner = "open" => Found /\ mFd = "zero"
    /\ owner \in {"status", "button", "delete_status", "delete_button", "kill",
                  "libusb_close", "join", "free"} => Connected
    /\ owner = "unref" => (Found /\ mFd = "dup") \/ (Unused /\ (mUsbFs => failed))

\* The event thread and the status transfer while uvc_close runs.
Dying ==
    /\ owner \in {"join", "free"} => status_xfer # "flying"
    /\ owner = "join" => event \in {"test", "enter", "polling", "exited"}
    /\ owner = "free" => event = "none"

\* A message is passed on only to a callback that is registered, and one that
\* is registered is alive until release.
Callbacks ==
    /\ registered \in [Kinds -> BOOLEAN]
    /\ callback \in [Kinds -> {"null", "live", "freed"}]
    /\ kind \in Kinds
    /\ event \in {"notify", "java"} => registered[kind]
    /\ owner \in {"idle", "status", "button", "delete_status"} /\ mDeviceHandle =>
          \A k \in Kinds : registered[k] => callback[k] = "live"
    /\ owner = "button" => registered["status"]
    /\ owner \in {"idle", "delete_status"} /\ mDeviceHandle => \A k \in Kinds : registered[k]

CameraInv == Resources /\ Dying /\ Callbacks

\* A new camera object holds nothing.
LEMMA InvInit == Init => CameraInv
<1>1. Init => Resources /\ Dying
  BY DEF Init, Resources, Dying, Unused, OwnerPlaces
<1>2. Init => Callbacks
  BY DEF Init, Callbacks, Kinds
<1> QED BY <1>1, <1>2 DEF CameraInv

\* What the camera holds follows its owner.
LEMMA ResourcesKept ==
    ASSUME Resources, Dying, Next
    PROVE  Resources'
<1> USE DEF Resources, Dying, Unused, Found, Connected, OwnerPlaces, OwnerGoto, Kinds,
            cppVars, fdVars, cbVars, uvcVars, ownerVars, eventVars, setterVars
<1>1. CASE Open
  BY <1>1 DEF Open
<1>2. CASE InitContext
  BY <1>2 DEF InitContext
<1>3. CASE FindDevice
  BY <1>3 DEF FindDevice
<1>4. CASE OpenFails
  BY <1>4 DEF OpenFails
<1>5. CASE OpenHandle
  BY <1>5 DEF OpenHandle
<1>6. CASE \E k \in Kinds : NewCallback(k)
  BY <1>6 DEF NewCallback
<1>7. CASE BeginRelease
  BY <1>7 DEF BeginRelease
<1>8. CASE \E k \in Kinds : DeleteCallback(k)
  BY <1>8 DEF DeleteCallback
<1>9. CASE KillHandler
  BY <1>9 DEF KillHandler
<1>10. CASE LibusbClose
  BY <1>10 DEF LibusbClose
<1>11. CASE JoinHandler
  BY <1>11 DEF JoinHandler
<1>12. CASE FreeHandle
  BY <1>12 DEF FreeHandle
<1>13. CASE ReleaseDevice
  BY <1>13 DEF ReleaseDevice
<1>14. CASE Delete
  BY <1>14 DEF Delete
<1>15. CASE \E s \in Setters : CallSetter(s)
  BY <1>15 DEF CallSetter
<1>16. CASE \E s \in Setters : NewGlobalRef(s)
  BY <1>16 DEF NewGlobalRef
<1>17. CASE \E s \in Setters : SetCallback(s)
  BY <1>17 DEF SetCallback, ReplaceListener
<1>18. CASE \E s \in Setters : StaleSetter(s)
  BY <1>18 DEF StaleSetter
<1>19. CASE TestKill
  BY <1>19 DEF TestKill, EventGoto
<1>20. CASE EnterHandleEvents
  BY <1>20 DEF EnterHandleEvents, EventGoto
<1>21. CASE HandleEventsTimeout
  BY <1>21 DEF HandleEventsTimeout, EventGoto
<1>22. CASE \E k \in Kinds : Message(k)
  BY <1>22 DEF Message, EventGoto
<1>23. CASE TransferEnds
  BY <1>23 DEF TransferEnds, EventGoto
<1>24. CASE Dispatch
  BY <1>24 DEF Dispatch, EventGoto
<1>25. CASE Notify
  BY <1>25 DEF Notify, EventGoto
<1>26. CASE JavaReturns
  BY <1>26 DEF JavaReturns, EventGoto
<1>27. CASE Resubmit
  BY <1>27 DEF Resubmit, EventGoto
<1> QED BY <1>1, <1>2, <1>3, <1>4, <1>5, <1>6, <1>7, <1>8, <1>9, <1>10, <1>11, <1>12, <1>13,
           <1>14, <1>15, <1>16, <1>17, <1>18, <1>19, <1>20, <1>21, <1>22, <1>23, <1>24, <1>25, <1>26,
           <1>27
        DEF Next, Connect, Release, EventStep

\* The event thread and the transfer come to rest in uvc_close.
LEMMA DyingKept ==
    ASSUME Resources, Dying, Next
    PROVE  Dying'
<1> USE DEF Resources, Dying, Unused, Found, Connected, OwnerPlaces, OwnerGoto, Kinds,
            cppVars, fdVars, cbVars, uvcVars, ownerVars, eventVars, setterVars
<1>1. CASE Open
  BY <1>1 DEF Open
<1>2. CASE InitContext
  BY <1>2 DEF InitContext
<1>3. CASE FindDevice
  BY <1>3 DEF FindDevice
<1>4. CASE OpenFails
  BY <1>4 DEF OpenFails
<1>5. CASE OpenHandle
  BY <1>5 DEF OpenHandle
<1>6. CASE \E k \in Kinds : NewCallback(k)
  BY <1>6 DEF NewCallback
<1>7. CASE BeginRelease
  BY <1>7 DEF BeginRelease
<1>8. CASE \E k \in Kinds : DeleteCallback(k)
  BY <1>8 DEF DeleteCallback
<1>9. CASE KillHandler
  BY <1>9 DEF KillHandler
<1>10. CASE LibusbClose
  BY <1>10 DEF LibusbClose
<1>11. CASE JoinHandler
  BY <1>11 DEF JoinHandler
<1>12. CASE FreeHandle
  BY <1>12 DEF FreeHandle
<1>13. CASE ReleaseDevice
  BY <1>13 DEF ReleaseDevice
<1>14. CASE Delete
  BY <1>14 DEF Delete
<1>15. CASE \E s \in Setters : CallSetter(s)
  BY <1>15 DEF CallSetter
<1>16. CASE \E s \in Setters : NewGlobalRef(s)
  BY <1>16 DEF NewGlobalRef
<1>17. CASE \E s \in Setters : SetCallback(s)
  BY <1>17 DEF SetCallback, ReplaceListener
<1>18. CASE \E s \in Setters : StaleSetter(s)
  BY <1>18 DEF StaleSetter
<1>19. CASE TestKill
  BY <1>19 DEF TestKill, EventGoto
<1>20. CASE EnterHandleEvents
  BY <1>20 DEF EnterHandleEvents, EventGoto
<1>21. CASE HandleEventsTimeout
  BY <1>21 DEF HandleEventsTimeout, EventGoto
<1>22. CASE \E k \in Kinds : Message(k)
  BY <1>22 DEF Message, EventGoto
<1>23. CASE TransferEnds
  BY <1>23 DEF TransferEnds, EventGoto
<1>24. CASE Dispatch
  BY <1>24 DEF Dispatch, EventGoto
<1>25. CASE Notify
  BY <1>25 DEF Notify, EventGoto
<1>26. CASE JavaReturns
  BY <1>26 DEF JavaReturns, EventGoto
<1>27. CASE Resubmit
  BY <1>27 DEF Resubmit, EventGoto
<1> QED BY <1>1, <1>2, <1>3, <1>4, <1>5, <1>6, <1>7, <1>8, <1>9, <1>10, <1>11, <1>12, <1>13,
           <1>14, <1>15, <1>16, <1>17, <1>18, <1>19, <1>20, <1>21, <1>22, <1>23, <1>24, <1>25, <1>26,
           <1>27
        DEF Next, Connect, Release, EventStep

\* Callbacks are registered and deleted in the order release relies on.
LEMMA CallbacksKept ==
    ASSUME Resources, Dying, Callbacks, Next
    PROVE  Callbacks'
<1> USE DEF Resources, Dying, Callbacks, Unused, Found, Connected, OwnerPlaces, OwnerGoto, Kinds,
            cppVars, fdVars, cbVars, uvcVars, ownerVars, eventVars, setterVars
<1>1. CASE Open
  BY <1>1 DEF Open
<1>2. CASE InitContext
  BY <1>2 DEF InitContext
<1>3. CASE FindDevice
  BY <1>3 DEF FindDevice
<1>4. CASE OpenFails
  BY <1>4 DEF OpenFails
<1>5. CASE OpenHandle
  BY <1>5 DEF OpenHandle
<1>6. CASE \E k \in Kinds : NewCallback(k)
  BY <1>6 DEF NewCallback
<1>7. CASE BeginRelease
  BY <1>7 DEF BeginRelease
<1>8. CASE \E k \in Kinds : DeleteCallback(k)
  BY <1>8 DEF DeleteCallback
<1>9. CASE KillHandler
  BY <1>9 DEF KillHandler
<1>10. CASE LibusbClose
  BY <1>10 DEF LibusbClose
<1>11. CASE JoinHandler
  BY <1>11 DEF JoinHandler
<1>12. CASE FreeHandle
  BY <1>12 DEF FreeHandle
<1>13. CASE ReleaseDevice
  BY <1>13 DEF ReleaseDevice
<1>14. CASE Delete
  BY <1>14 DEF Delete
<1>15. CASE \E s \in Setters : CallSetter(s)
  BY <1>15 DEF CallSetter
<1>16. CASE \E s \in Setters : NewGlobalRef(s)
  BY <1>16 DEF NewGlobalRef
<1>17. CASE \E s \in Setters : SetCallback(s)
  BY <1>17 DEF SetCallback, ReplaceListener
<1>18. CASE \E s \in Setters : StaleSetter(s)
  BY <1>18 DEF StaleSetter
<1>19. CASE TestKill
  BY <1>19 DEF TestKill, EventGoto
<1>20. CASE EnterHandleEvents
  BY <1>20 DEF EnterHandleEvents, EventGoto
<1>21. CASE HandleEventsTimeout
  BY <1>21 DEF HandleEventsTimeout, EventGoto
<1>22. CASE \E k \in Kinds : Message(k)
  BY <1>22 DEF Message, EventGoto
<1>23. CASE TransferEnds
  BY <1>23 DEF TransferEnds, EventGoto
<1>24. CASE Dispatch
  BY <1>24 DEF Dispatch, EventGoto
<1>25. CASE Notify
  BY <1>25 DEF Notify, EventGoto
<1>26. CASE JavaReturns
  BY <1>26 DEF JavaReturns, EventGoto
<1>27. CASE Resubmit
  BY <1>27 DEF Resubmit, EventGoto
<1> QED BY <1>1, <1>2, <1>3, <1>4, <1>5, <1>6, <1>7, <1>8, <1>9, <1>10, <1>11, <1>12, <1>13,
           <1>14, <1>15, <1>16, <1>17, <1>18, <1>19, <1>20, <1>21, <1>22, <1>23, <1>24, <1>25, <1>26,
           <1>27
        DEF Next, Connect, Release, EventStep

\* Every step keeps the invariant.
LEMMA InvStep == CameraInv /\ [Next]_vars => CameraInv'
<1> SUFFICES ASSUME CameraInv, [Next]_vars PROVE CameraInv'
  OBVIOUS
<1>1. CASE Next
  BY <1>1, ResourcesKept, DyingKept, CallbacksKept DEF CameraInv
<1>2. CASE UNCHANGED vars
  BY <1>2 DEF CameraInv, Resources, Dying, Callbacks, Unused, Found, Connected, vars,
              cppVars, fdVars, cbVars, uvcVars, ownerVars, eventVars, setterVars
<1> QED BY <1>1, <1>2

\* The inductive invariant: what the camera holds, the state of its event
\* thread and its callbacks follow from where connect or release is.
THEOREM CameraInvariant == Spec => []CameraInv
  BY InvInit, InvStep, PTL DEF Spec

\* Between two methods the camera is connected or not, as a whole, whichever
\* step of connect failed.
THEOREM ConnectIsAllOrNothing == Spec => []AllOrNothing
<1>1. CameraInv => AllOrNothing
  BY DEF CameraInv, Resources, Callbacks, Unused, Connected, AllOrNothing
<1> QED BY <1>1, CameraInvariant, PTL

\* Unless the last connect failed, the descriptor that release closes is the
\* duplicate of the last connect, still open.
THEOREM ReleaseClosesOwn == Spec => []ClosesOwn
<1>1. CameraInv => ClosesOwn
  BY DEF CameraInv, Resources, Unused, Found, ClosesOwn
<1> QED BY <1>1, CameraInvariant, PTL

\* When the handle is freed, no event thread runs and no transfer is in flight.
THEOREM ThreadsDieFirst == Spec => []ThreadsDied
<1>1. CameraInv => ThreadsDied
  BY DEF CameraInv, Resources, Unused, Found, Connected, OwnerPlaces, ThreadsDied
<1> QED BY <1>1, CameraInvariant, PTL

\* A message reaches a deleted callback only before libusb_close returns.
THEOREM StaleCallsBounded == Spec => []StaleCallWindow
<1>1. CameraInv => StaleCallWindow
  BY DEF CameraInv, Resources, Dying, Callbacks, Unused, Found, Connected, OwnerPlaces,
         StaleCallWindow
<1> QED BY <1>1, CameraInvariant, PTL

-----------------------------------------------------------------------------
(* Global references: a listener has one for every callback object it is   *)
(* set in, and one for every setter about to set it.                       *)

SettersOf(l) == {s \in Setters : setter[s] = "lock" /\ arg[s].to = l}
KindsOf(l) == {k \in Kinds : callback[k] = "live" /\ listener[k] = l}

\* The setters and listeners, and what the listener being called is.
Listening ==
    /\ setter \in [Setters -> {"idle", "native", "lock", "stale"}]
    /\ arg \in [Setters -> [kind : Kinds, to : Listeners \cup {None}]]
    /\ listener \in [Kinds -> Listeners \cup {None}]
    /\ \A s \in Setters : setter[s] = "lock" => callback[arg[s].kind] = "live"
    /\ event = "java" => /\ called \in Listeners
                         /\ callback[kind] = "live" => listener[kind] = called

\* A listener has as many references as it has users.
Referenced ==
    /\ refs \in [Listeners -> Int]
    /\ \A l \in Listeners : refs[l] >= Cardinality(SettersOf(l)) + Cardinality(KindsOf(l))

HoldersFinite ==
    \A l : /\ IsFiniteSet(SettersOf(l)) /\ Cardinality(SettersOf(l)) \in Nat
           /\ IsFiniteSet(KindsOf(l)) /\ Cardinality(KindsOf(l)) \in Nat

\* The sets counted are finite.
LEMMA Finite == HoldersFinite
<1>1. IsFiniteSet(Setters) BY CameraAssumption DEF CameraAssumption
<1>2. IsFiniteSet(Kinds)
  <2>1. IsFiniteSet({"status"}) BY FS_Singleton
  <2>2. Kinds = {"status"} \cup {"button"} BY DEF Kinds
  <2> QED BY <2>1, <2>2, FS_AddElement
<1>3. \A l : SettersOf(l) \in SUBSET Setters /\ KindsOf(l) \in SUBSET Kinds
  BY DEF SettersOf, KindsOf
<1>4. ASSUME NEW l PROVE IsFiniteSet(SettersOf(l)) /\ IsFiniteSet(KindsOf(l))
  <2>1. SettersOf(l) \in SUBSET Setters /\ KindsOf(l) \in SUBSET Kinds BY <1>3
  <2>2. IsFiniteSet(SettersOf(l)) BY <1>1, <2>1, FS_Subset
  <2>3. IsFiniteSet(KindsOf(l)) BY <1>2, <2>1, FS_Subset
  <2> QED BY <2>2, <2>3
<1> QED BY <1>4, FS_CardinalityType DEF HoldersFinite

\* A deleted callback stays deleted until uvc_close returns.
Deleted ==
    /\ owner \in {"delete_button", "kill", "libusb_close", "join", "free"} =>
          callback["status"] = "freed"
    /\ owner \in {"kill", "libusb_close", "join", "free"} => callback["button"] = "freed"

\* A callback object keeps its listener until setCallback replaces it.
LEMMA ListeningKept ==
    ASSUME Resources, Callbacks, Deleted, Listening, Next
    PROVE  Deleted' /\ Listening'
<1> USE CameraAssumption
    DEF CameraAssumption, Callbacks, Deleted, Listening, OwnerGoto, Kinds,
        cppVars, fdVars, cbVars, uvcVars, ownerVars, eventVars, setterVars
<1>1. CASE Open
  BY <1>1 DEF Open
<1>2. CASE InitContext
  BY <1>2 DEF InitContext
<1>3. CASE FindDevice
  BY <1>3 DEF FindDevice
<1>4. CASE OpenFails
  BY <1>4 DEF OpenFails
<1>5. CASE OpenHandle
  BY <1>5 DEF OpenHandle
<1>6. CASE \E k \in Kinds : NewCallback(k)
  BY <1>6 DEF NewCallback
<1>7. CASE BeginRelease
  BY <1>7 DEF BeginRelease
<1>8. CASE \E k \in Kinds : DeleteCallback(k)
  BY <1>8 DEF DeleteCallback
<1>9. CASE KillHandler
  BY <1>9 DEF KillHandler
<1>10. CASE LibusbClose
  BY <1>10 DEF LibusbClose
<1>11. CASE JoinHandler
  BY <1>11 DEF JoinHandler
<1>12. CASE FreeHandle
  BY <1>12 DEF FreeHandle
<1>13. CASE ReleaseDevice
  BY <1>13 DEF ReleaseDevice
<1>14. CASE Delete
  BY <1>14 DEF Delete
<1>15. CASE \E s \in Setters : CallSetter(s)
  BY <1>15 DEF CallSetter
<1>16. CASE \E s \in Setters : NewGlobalRef(s)
  BY <1>16 DEF NewGlobalRef
<1>17. CASE \E s \in Setters : SetCallback(s)
  BY <1>17 DEF SetCallback, ReplaceListener
<1>18. CASE \E s \in Setters : StaleSetter(s)
  BY <1>18 DEF StaleSetter
<1>19. CASE TestKill
  BY <1>19 DEF TestKill, EventGoto
<1>20. CASE EnterHandleEvents
  BY <1>20 DEF EnterHandleEvents, EventGoto
<1>21. CASE HandleEventsTimeout
  BY <1>21 DEF HandleEventsTimeout, EventGoto
<1>22. CASE \E k \in Kinds : Message(k)
  BY <1>22 DEF Message, EventGoto
<1>23. CASE TransferEnds
  BY <1>23 DEF TransferEnds, EventGoto
<1>24. CASE Dispatch
  BY <1>24 DEF Dispatch, EventGoto
<1>25. CASE Notify
  BY <1>25 DEF Notify, EventGoto
<1>26. CASE JavaReturns
  BY <1>26 DEF JavaReturns, EventGoto
<1>27. CASE Resubmit
  BY <1>27 DEF Resubmit, EventGoto
<1> QED BY <1>1, <1>2, <1>3, <1>4, <1>5, <1>6, <1>7, <1>8, <1>9, <1>10, <1>11, <1>12, <1>13,
           <1>14, <1>15, <1>16, <1>17, <1>18, <1>19, <1>20, <1>21, <1>22, <1>23, <1>24, <1>25, <1>26,
           <1>27
        DEF Next, Connect, Release, EventStep

\* References are enough if they stay and nobody new needs one.
LEMMA FewerHolders ==
    ASSUME Referenced, UNCHANGED refs,
           \A l \in Listeners : /\ SettersOf(l)' \subseteq SettersOf(l)
                                /\ KindsOf(l)' \subseteq KindsOf(l)
    PROVE  Referenced'
<1>1. HoldersFinite /\ HoldersFinite' BY Finite, PTL
<1>3. ASSUME NEW l \in Listeners
      PROVE  /\ Cardinality(SettersOf(l)') <= Cardinality(SettersOf(l))
             /\ Cardinality(KindsOf(l)') <= Cardinality(KindsOf(l))
  BY <1>1, FS_Subset DEF HoldersFinite
<1>4. ASSUME NEW l \in Listeners
      PROVE  refs'[l] >= Cardinality(SettersOf(l)') + Cardinality(KindsOf(l)')
  BY <1>1, <1>3 DEF Referenced, HoldersFinite
<1> QED BY <1>4 DEF Referenced

\* NewGlobalRef: one holder more, one reference more.
LEMMA NewGlobalRefKeeps ==
    ASSUME Referenced, Listening, NEW s \in Setters, NewGlobalRef(s)
    PROVE  Referenced'
<1>1. HoldersFinite /\ HoldersFinite' BY Finite, PTL
<1>2. ASSUME NEW l \in Listeners
      PROVE  refs'[l] >= Cardinality(SettersOf(l)') + Cardinality(KindsOf(l)')
  <2>1. KindsOf(l)' = KindsOf(l)
    BY DEF KindsOf, NewGlobalRef, cbVars
  <2>2. CASE arg[s].to = l
    <3>1. refs'[l] = refs[l] + 1 BY <2>2 DEF NewGlobalRef, Referenced
    <3>2. SettersOf(l)' \subseteq SettersOf(l) \cup {s}
      BY DEF SettersOf, NewGlobalRef, Listening
    <3>3. /\ IsFiniteSet(SettersOf(l) \cup {s})
          /\ Cardinality(SettersOf(l) \cup {s}) <= Cardinality(SettersOf(l)) + 1
          /\ Cardinality(SettersOf(l) \cup {s}) \in Nat
      <4>1. IsFiniteSet(SettersOf(l)) /\ Cardinality(SettersOf(l)) \in Nat BY <1>1 DEF HoldersFinite
      <4>2. /\ IsFiniteSet(SettersOf(l) \cup {s})
            /\ Cardinality(SettersOf(l) \cup {s}) =
                 IF s \in SettersOf(l) THEN Cardinality(SettersOf(l))
                 ELSE Cardinality(SettersOf(l)) + 1
        BY <4>1, FS_AddElement
      <4> QED BY <4>1, <4>2
    <3>4. Cardinality(SettersOf(l)') <= Cardinality(SettersOf(l) \cup {s})
      BY <3>2, <3>3, FS_Subset
    <3> QED BY <1>1, <2>1, <3>1, <3>3, <3>4 DEF Referenced, HoldersFinite
  <2>3. CASE arg[s].to # l
    <3>1. refs'[l] = refs[l] BY <2>3 DEF NewGlobalRef, Referenced
    <3>2. SettersOf(l)' \subseteq SettersOf(l)
      BY <2>3 DEF SettersOf, NewGlobalRef, Listening
    <3>3. Cardinality(SettersOf(l)') <= Cardinality(SettersOf(l))
      BY <1>1, <3>2, FS_Subset DEF HoldersFinite
    <3> QED BY <1>1, <2>1, <3>1, <3>3 DEF Referenced, HoldersFinite
  <2> QED BY <2>2, <2>3
<1>3. refs' \in [Listeners -> Int] BY DEF NewGlobalRef, Referenced
<1> QED BY <1>2, <1>3 DEF Referenced

\* setCallback: the setter's reference becomes the callback object's, and the
\* listener replaced loses the one it had there.
LEMMA SetCallbackKeeps ==
    ASSUME Referenced, Listening, NEW s \in Setters, SetCallback(s)
    PROVE  Referenced'
<1> DEFINE k == arg[s].kind
           old == listener[k]
           to == arg[s].to
<1>1. HoldersFinite /\ HoldersFinite' BY Finite, PTL
<1>2. /\ k \in Kinds /\ callback[k] = "live" /\ setter[s] = "lock"
      /\ callback' = callback /\ arg' = arg
      /\ setter' = [setter EXCEPT ![s] = "idle"]
      /\ listener' = [listener EXCEPT ![k] = to]
      /\ refs' = [l \in Listeners |-> IF l = old /\ l # to THEN refs[l] - 1 ELSE refs[l]]
  BY DEF SetCallback, ReplaceListener, Listening
<1>3. ASSUME NEW l \in Listeners
      PROVE  refs'[l] >= Cardinality(SettersOf(l)') + Cardinality(KindsOf(l)')
  <2> HIDE DEF k, old, to
  <2>1. CASE l = to
    <3>1. refs'[l] = refs[l] BY <1>2, <2>1
    <3>2. s \in SettersOf(l) /\ SettersOf(l)' = SettersOf(l) \ {s}
      BY <1>2, <2>1 DEF SettersOf, Listening, to
    <3>3. KindsOf(l)' \subseteq KindsOf(l) \cup {k}
      BY <1>2 DEF KindsOf, Listening
    <3>4. Cardinality(SettersOf(l)') = Cardinality(SettersOf(l)) - 1
      BY <1>1, <3>2, FS_RemoveElement DEF HoldersFinite
    <3>5. /\ IsFiniteSet(KindsOf(l) \cup {k})
          /\ Cardinality(KindsOf(l) \cup {k}) <= Cardinality(KindsOf(l)) + 1
          /\ Cardinality(KindsOf(l) \cup {k}) \in Nat
      <4>1. IsFiniteSet(KindsOf(l)) /\ Cardinality(KindsOf(l)) \in Nat BY <1>1 DEF HoldersFinite
      <4>2. /\ IsFiniteSet(KindsOf(l) \cup {k})
            /\ Cardinality(KindsOf(l) \cup {k}) =
                 IF k \in KindsOf(l) THEN Cardinality(KindsOf(l)) ELSE Cardinality(KindsOf(l)) + 1
        BY <4>1, FS_AddElement
      <4> QED BY <4>1, <4>2
    <3>6. Cardinality(KindsOf(l)') <= Cardinality(KindsOf(l) \cup {k})
      BY <3>3, <3>5, FS_Subset
    <3> QED BY <1>1, <3>1, <3>4, <3>5, <3>6 DEF Referenced, HoldersFinite
  <2>2. CASE l # to /\ l = old
    <3>1. refs'[l] = refs[l] - 1 BY <1>2, <2>2 DEF Referenced
    <3>2. SettersOf(l)' \subseteq SettersOf(l)
      BY <1>2 DEF SettersOf, Listening
    <3>3. k \in KindsOf(l) /\ KindsOf(l)' = KindsOf(l) \ {k}
      BY <1>2, <2>2 DEF KindsOf, Listening, old
    <3>4. Cardinality(SettersOf(l)') <= Cardinality(SettersOf(l))
      BY <1>1, <3>2, FS_Subset DEF HoldersFinite
    <3>5. Cardinality(KindsOf(l)') = Cardinality(KindsOf(l)) - 1
      BY <1>1, <3>3, FS_RemoveElement DEF HoldersFinite
    <3> QED BY <1>1, <3>1, <3>4, <3>5 DEF Referenced, HoldersFinite
  <2>3. CASE l # to /\ l # old
    <3>1. refs'[l] = refs[l] BY <1>2, <2>3
    <3>2. SettersOf(l)' \subseteq SettersOf(l) /\ KindsOf(l)' \subseteq KindsOf(l)
      BY <1>2, <2>3 DEF SettersOf, KindsOf, Listening
    <3>3. /\ Cardinality(SettersOf(l)') <= Cardinality(SettersOf(l))
          /\ Cardinality(KindsOf(l)') <= Cardinality(KindsOf(l))
      BY <1>1, <3>2, FS_Subset DEF HoldersFinite
    <3> QED BY <1>1, <3>1, <3>3 DEF Referenced, HoldersFinite
  <2> QED BY <2>1, <2>2, <2>3
<1>4. refs' \in [Listeners -> Int] BY <1>2 DEF Referenced
<1> QED BY <1>3, <1>4 DEF Referenced

\* No step makes the users of a listener outnumber its references.
LEMMA ReferencedKept ==
    ASSUME Referenced, Resources, Listening, Deleted, Next
    PROVE  Referenced'
<1> USE DEF cppVars, fdVars, cbVars, uvcVars, ownerVars, eventVars, setterVars, OwnerGoto
<1>1. CASE \E s \in Setters : NewGlobalRef(s) BY <1>1, NewGlobalRefKeeps
<1>2. CASE \E s \in Setters : SetCallback(s) BY <1>2, SetCallbackKeeps
<1>3. CASE \E k \in Kinds : NewCallback(k)
  <2>1. PICK k \in Kinds : NewCallback(k) BY <1>3
  <2>2. /\ UNCHANGED <<setter, arg, refs>>
        /\ listener' = [listener EXCEPT ![k] = None]
        /\ callback' = [callback EXCEPT ![k] = "live"]
    BY <2>1 DEF NewCallback
  <2>3. ASSUME NEW l \in Listeners
        PROVE  SettersOf(l)' \subseteq SettersOf(l) /\ KindsOf(l)' \subseteq KindsOf(l)
    BY <2>2, CameraAssumption DEF CameraAssumption, SettersOf, KindsOf, Listening
  <2> QED BY <2>2, <2>3, FewerHolders
<1>4. CASE \E k \in Kinds : DeleteCallback(k)
  <2>1. PICK k \in Kinds : DeleteCallback(k) BY <1>4
  <2>2. /\ UNCHANGED <<listener, arg, refs>>
        /\ callback' = [callback EXCEPT ![k] = "freed"]
        /\ \A s \in Setters : setter'[s] = "lock" => setter[s] = "lock"
    BY <2>1 DEF DeleteCallback
  <2>3. ASSUME NEW l \in Listeners
        PROVE  SettersOf(l)' \subseteq SettersOf(l) /\ KindsOf(l)' \subseteq KindsOf(l)
    BY <2>2 DEF SettersOf, KindsOf
  <2> QED BY <2>2, <2>3, FewerHolders
<1>5. CASE FreeHandle
  <2>1. UNCHANGED <<listener, setter, arg, refs>> /\ callback' = [k \in Kinds |-> "null"]
    BY <1>5 DEF FreeHandle
  <2>2. ASSUME NEW l \in Listeners
        PROVE  SettersOf(l)' \subseteq SettersOf(l) /\ KindsOf(l)' \subseteq KindsOf(l)
    BY <2>1 DEF SettersOf, KindsOf
  <2> QED BY <2>1, <2>2, FewerHolders
<1>6. CASE \E s \in Setters : CallSetter(s) \/ StaleSetter(s)
  <2>1. PICK s \in Setters : CallSetter(s) \/ StaleSetter(s) BY <1>6
  <2>2. UNCHANGED <<callback, listener, refs>>
    BY <2>1 DEF CallSetter, StaleSetter
  <2>3. ASSUME NEW t \in Setters, setter'[t] = "lock"
        PROVE  setter[t] = "lock" /\ arg'[t] = arg[t]
    BY <2>1, <2>3 DEF CallSetter, StaleSetter, Listening
  <2>4. ASSUME NEW l \in Listeners
        PROVE  SettersOf(l)' \subseteq SettersOf(l) /\ KindsOf(l)' \subseteq KindsOf(l)
    BY <2>2, <2>3 DEF SettersOf, KindsOf
  <2> QED BY <2>2, <2>4, FewerHolders
<1>7. ASSUME UNCHANGED <<callback, listener, setter, arg, refs>> PROVE Referenced'
  <2>1. ASSUME NEW l \in Listeners
        PROVE  SettersOf(l)' \subseteq SettersOf(l) /\ KindsOf(l)' \subseteq KindsOf(l)
    BY <1>7 DEF SettersOf, KindsOf
  <2> QED BY <1>7, <2>1, FewerHolders
<1>8. CASE \/ Open \/ InitContext \/ FindDevice \/ OpenFails \/ OpenHandle \/ BeginRelease
  BY <1>7, <1>8 DEF Open, InitContext, FindDevice, OpenFails, OpenHandle, BeginRelease
<1>9. CASE KillHandler \/ LibusbClose \/ JoinHandler \/ ReleaseDevice \/ Delete
  BY <1>7, <1>9 DEF KillHandler, LibusbClose, JoinHandler, ReleaseDevice, Delete
<1>10. CASE EventStep \/ HandleEventsTimeout \/ TransferEnds \/ \E k \in Kinds : Message(k)
  <2>1. UNCHANGED <<callback, listener, setter, arg, refs>>
    BY <1>10 DEF EventStep, TestKill, EnterHandleEvents, Dispatch, Notify, JavaReturns, Resubmit,
                 HandleEventsTimeout, TransferEnds, Message, EventGoto
  <2> QED BY <1>7, <2>1
<1> QED BY <1>1, <1>2, <1>3, <1>4, <1>5, <1>6, <1>8, <1>9, <1>10 DEF Next, Connect, Release

ReferenceInv == Listening /\ Deleted /\ Referenced

\* A new camera object has no listeners.
LEMMA ReferenceInit == Init => ReferenceInv
<1> SUFFICES ASSUME Init PROVE ReferenceInv
  OBVIOUS
<1>1. Listening /\ Deleted
  BY DEF Init, Listening, Deleted, Kinds
<1>2. ASSUME NEW l \in Listeners PROVE SettersOf(l) = {} /\ KindsOf(l) = {}
  BY DEF Init, SettersOf, KindsOf
<1>3. Cardinality({}) = 0 BY FS_EmptySet
<1>4. \A l \in Listeners : refs[l] >= Cardinality(SettersOf(l)) + Cardinality(KindsOf(l))
  BY <1>2, <1>3 DEF Init
<1>5. Referenced BY <1>4 DEF Init, Referenced
<1> QED BY <1>1, <1>5 DEF ReferenceInv

\* Every step keeps the count of references.
LEMMA ReferenceStep == CameraInv /\ ReferenceInv /\ [Next]_vars => ReferenceInv'
<1> SUFFICES ASSUME CameraInv, ReferenceInv, [Next]_vars PROVE ReferenceInv'
  OBVIOUS
<1>1. CASE Next
  BY <1>1, ListeningKept, ReferencedKept DEF CameraInv, ReferenceInv
<1>2. CASE UNCHANGED vars
  <2> USE <1>2 DEF ReferenceInv, vars, cppVars, fdVars, cbVars, uvcVars, ownerVars, eventVars,
                   setterVars
  <2>1. Listening' /\ Deleted' BY DEF Listening, Deleted
  <2>2. ASSUME NEW l \in Listeners
        PROVE  SettersOf(l)' \subseteq SettersOf(l) /\ KindsOf(l)' \subseteq KindsOf(l)
    BY DEF SettersOf, KindsOf
  <2>3. Referenced' BY <2>2, FewerHolders
  <2> QED BY <2>1, <2>3
<1> QED BY <1>1, <1>2

\* A listener that is being called stays referenced, although another thread
\* replaces it meanwhile.
THEOREM CalledStaysReferenced == Spec => []CalledReferenced
<1>1. CameraInv /\ ReferenceInv => CalledReferenced
  <2> SUFFICES ASSUME CameraInv, ReferenceInv, event = "java", callback[kind] = "live"
               PROVE  refs[called] > 0
    BY DEF CalledReferenced
  <2>1. called \in Listeners /\ kind \in KindsOf(called)
    BY DEF CameraInv, Callbacks, ReferenceInv, Listening, KindsOf
  <2>2. /\ IsFiniteSet(KindsOf(called)) /\ Cardinality(KindsOf(called)) \in Nat
        /\ Cardinality(SettersOf(called)) \in Nat
    BY Finite DEF HoldersFinite
  <2>3. Cardinality(KindsOf(called)) # 0 BY <2>1, <2>2, FS_EmptySet
  <2> QED BY <2>1, <2>2, <2>3 DEF ReferenceInv, Referenced
<1> QED BY <1>1, CameraInvariant, ReferenceInit, ReferenceStep, PTL DEF Spec

-----------------------------------------------------------------------------
(* Type correctness, of what the invariants above leave.                   *)

Flags ==
    /\ mNativePtr \in BOOLEAN /\ mUsbFs \in BOOLEAN /\ mContext \in BOOLEAN
    /\ mDevice \in BOOLEAN /\ mDeviceHandle \in BOOLEAN /\ devh \in BOOLEAN
    /\ kill_handler_thread \in BOOLEAN /\ deleting \in BOOLEAN /\ failed \in BOOLEAN

Places ==
    /\ mFd \in {"zero", "dup"} /\ status_xfer \in {"null", "idle", "flying"}
    /\ event \in {"none", "test", "enter", "polling", "dispatch", "notify", "java",
                   "resubmit", "exited"}
    /\ called \in Listeners \cup {None}
    /\ opens \in 0..MaxOpens /\ sets \in 0..MaxSets

\* The Boolean variables keep their type: Zenon's part.
LEMMA FlagsKept == Flags /\ Next => Flags'
<1> SUFFICES ASSUME Flags, Next PROVE Flags'
  OBVIOUS
<1> USE DEF Flags, cppVars, fdVars, cbVars, uvcVars, ownerVars, eventVars, setterVars
<1>1. CASE Open
  BY <1>1 DEF Open
<1>2. CASE InitContext
  BY <1>2 DEF InitContext
<1>3. CASE FindDevice
  BY <1>3 DEF FindDevice
<1>4. CASE OpenFails
  BY <1>4 DEF OpenFails
<1>5. CASE OpenHandle
  BY <1>5 DEF OpenHandle
<1>6. CASE \E k \in Kinds : NewCallback(k)
  BY <1>6 DEF NewCallback
<1>7. CASE BeginRelease
  BY <1>7 DEF BeginRelease
<1>8. CASE \E k \in Kinds : DeleteCallback(k)
  BY <1>8 DEF DeleteCallback
<1>9. CASE KillHandler
  BY <1>9 DEF KillHandler
<1>10. CASE LibusbClose
  BY <1>10 DEF LibusbClose
<1>11. CASE JoinHandler
  BY <1>11 DEF JoinHandler
<1>12. CASE FreeHandle
  BY <1>12 DEF FreeHandle
<1>13. CASE ReleaseDevice
  BY <1>13 DEF ReleaseDevice
<1>14. CASE Delete
  BY <1>14 DEF Delete
<1>15. CASE \E s \in Setters : CallSetter(s) \/ NewGlobalRef(s) \/ SetCallback(s) \/ StaleSetter(s)
  BY <1>15 DEF CallSetter, NewGlobalRef, SetCallback, StaleSetter
<1>16. CASE EventStep \/ HandleEventsTimeout \/ TransferEnds \/ \E k \in Kinds : Message(k)
  BY <1>16 DEF EventStep, TestKill, EnterHandleEvents, Dispatch, Notify, JavaReturns, Resubmit,
               HandleEventsTimeout, TransferEnds, Message, EventGoto
<1> QED BY <1>1, <1>2, <1>3, <1>4, <1>5, <1>6, <1>7, <1>8, <1>9, <1>10, <1>11, <1>12, <1>13,
           <1>14, <1>15, <1>16 DEF Next, Connect, Release

\* The others keep theirs: SMT's part.
LEMMA PlacesKept == Places /\ Callbacks /\ Listening /\ Next => Places'
<1> SUFFICES ASSUME Places, Callbacks, Listening, Next PROVE Places'
  OBVIOUS
<1> USE CameraAssumption DEF CameraAssumption, Places, Listening, cppVars, fdVars, cbVars, uvcVars,
        ownerVars, eventVars, setterVars
<1>1. CASE Open
  BY <1>1 DEF Open
<1>2. CASE InitContext
  BY <1>2 DEF InitContext
<1>3. CASE FindDevice
  BY <1>3 DEF FindDevice
<1>4. CASE OpenFails
  BY <1>4 DEF OpenFails
<1>5. CASE OpenHandle
  BY <1>5 DEF OpenHandle
<1>6. CASE \E k \in Kinds : NewCallback(k)
  BY <1>6 DEF NewCallback
<1>7. CASE BeginRelease
  BY <1>7 DEF BeginRelease
<1>8. CASE \E k \in Kinds : DeleteCallback(k)
  BY <1>8 DEF DeleteCallback
<1>9. CASE KillHandler
  BY <1>9 DEF KillHandler
<1>10. CASE LibusbClose
  BY <1>10 DEF LibusbClose
<1>11. CASE JoinHandler
  BY <1>11 DEF JoinHandler
<1>12. CASE FreeHandle
  BY <1>12 DEF FreeHandle
<1>13. CASE ReleaseDevice
  BY <1>13 DEF ReleaseDevice
<1>14. CASE Delete
  BY <1>14 DEF Delete
<1>15. CASE \E s \in Setters : CallSetter(s) \/ NewGlobalRef(s) \/ SetCallback(s) \/ StaleSetter(s)
  BY <1>15 DEF CallSetter, NewGlobalRef, SetCallback, StaleSetter
<1>16. CASE Notify
  BY <1>16 DEF Notify, EventGoto, Callbacks
<1>17. CASE \/ TestKill \/ EnterHandleEvents \/ Dispatch \/ JavaReturns \/ Resubmit
            \/ HandleEventsTimeout \/ TransferEnds \/ \E k \in Kinds : Message(k)
  BY <1>17 DEF TestKill, EnterHandleEvents, Dispatch, JavaReturns, Resubmit,
               HandleEventsTimeout, TransferEnds, Message, EventGoto
<1> QED BY <1>1, <1>2, <1>3, <1>4, <1>5, <1>6, <1>7, <1>8, <1>9, <1>10, <1>11, <1>12, <1>13,
           <1>14, <1>15, <1>16, <1>17 DEF Next, Connect, Release, EventStep

\* Every variable has its type; no listener's references fall below 0.
THEOREM CameraTypeCorrect == Spec => []TypeOK
<1>1. Init => Flags /\ Places
  <2>1. Init => Flags BY Zenon DEF Init, Flags
  <2>2. Init => Places BY CameraAssumption DEF CameraAssumption, Init, Places
  <2> QED BY <2>1, <2>2
<1>2. /\ Flags /\ Places /\ CameraInv /\ ReferenceInv /\ [Next]_vars
      => Flags' /\ Places'
  <2>1. Flags /\ Places /\ UNCHANGED vars => Flags' /\ Places'
    BY DEF Flags, Places, vars, cppVars, fdVars, cbVars, uvcVars, ownerVars, eventVars, setterVars
  <2> QED BY <2>1, FlagsKept, PlacesKept DEF CameraInv, ReferenceInv
<1>3. Flags /\ Places /\ CameraInv /\ ReferenceInv => TypeOK
  <2> SUFFICES ASSUME Flags, Places, CameraInv, ReferenceInv PROVE TypeOK
    OBVIOUS
  <2>1. ref \in 0..2 /\ dups \in 0..1 /\ owner \in OwnerPlaces
    BY DEF CameraInv, Resources, Unused, Found, Connected, OwnerPlaces
  <2>2. \A l \in Listeners : refs[l] \in Nat
    BY Finite DEF HoldersFinite, ReferenceInv, Referenced
  <2>3. refs \in [Listeners -> Nat]
    BY <2>2 DEF ReferenceInv, Referenced
  <2> QED BY <2>1, <2>3 DEF TypeOK, Flags, Places, CameraInv, Callbacks, ReferenceInv, Listening
<1> QED BY <1>1, <1>2, <1>3, CameraInvariant, InvInit, InvStep, ReferenceInit, ReferenceStep, PTL
        DEF Spec
=============================================================================
