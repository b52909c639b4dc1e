------------------------------ MODULE UVCCamera -------------------------------
(***************************************************************************)
(* The life of a camera object: UVCCamera.cpp's connect, release and       *)
(* destructor, with the device, the handle and the context of libuvc       *)
(* (device.c, init.c) and the status and button callbacks, as three kinds  *)
(* of threads see it: the caller of Java's synchronized open and destroy   *)
(* (the `owner'; the monitor admits one at a time), callers of the         *)
(* unsynchronized setStatusCallback and setButtonCallback, and the event   *)
(* handler thread of the context.                                          *)
(*                                                                         *)
(* A file descriptor is either a duplicate made by connect or descriptor   *)
(* 0, the value mFd has before.  Streams are the subject of UVCStream and  *)
(* UVCPreview: stopPreview and uvc_stop_streaming are left out.  A call    *)
(* that reaches freed memory is undefined; here it ends without effect,    *)
(* and the properties say when it can happen.                              *)
(***************************************************************************)
EXTENDS Naturals, FiniteSets

CONSTANTS
    Setters,        \* calls of setStatusCallback and setButtonCallback
    Listeners,      \* the Java objects passed to them
    None,           \* null
    ConnectFails,   \* may connect fail?
    Reconnects,     \* may nativeRelease be followed by nativeConnect?  (Java
                    \* releases a camera only to destroy it)
    Synchronizes,   \* does the Java callback call a synchronized method?
    MaxOpens,       \* bound: calls of open
    MaxSets         \* bound: callback setters called

Kinds == {"status", "button"}

ASSUME CameraAssumption ==
    /\ IsFiniteSet(Setters) /\ None \notin Listeners
    /\ {ConnectFails, Reconnects, Synchronizes} \subseteq BOOLEAN
    /\ MaxOpens \in Nat \ {0} /\ MaxSets \in Nat

VARIABLES
    \* ---- UVCCamera.java
    mNativePtr,     \* it is not 0: the C++ object exists
    \* ---- UVCCamera.cpp
    mUsbFs, mContext, mDevice, mDeviceHandle,   \* the pointer is not NULL
    mFd,            \* "zero" or "dup"
    callback,       \* callback[k], the UVCStatusCallback or UVCButtonCallback:
                    \* "null", "live" or, until uvc_close returns, "freed"
    listener,       \* listener[k], its mStatusCallbackObj or mButtonCallbackObj
    \* ---- libuvc
    ref,            \* the reference count of the uvc_device
    devh,           \* the device handle exists
    registered,     \* registered[k]: devh's status_cb or button_cb is set
    status_xfer,    \* "null", "idle" (ended) or "flying"
    kill_handler_thread,
    \* ---- threads
    owner,          \* where the synchronized method is
    deleting,       \* that method is destroy
    event,          \* where the event handler thread is ...
    kind,           \* ... for which kind of message ...
    called,         \* ... and which listener it calls
    setter,         \* setter[s]: "idle", "native", "lock", or "stale": its
                    \* callback object was deleted ...
    arg,            \* ... and its arguments
    \* ---- resources and history
    dups,           \* descriptors duplicated by connect and still open
    failed,         \* the last connect failed, and no release followed
    refs,           \* refs[l]: global references to l
    opens, sets

cppVars == <<mUsbFs, mContext, mDevice, mDeviceHandle, mFd>>
fdVars == <<dups, failed>>
cbVars == <<callback, listener>>
uvcVars == <<ref, devh, registered, status_xfer, kill_handler_thread>>
ownerVars == <<owner, deleting, opens>>
eventVars == <<event, kind, called>>
setterVars == <<setter, arg, refs, sets>>

vars == <<mNativePtr, cppVars, fdVars, cbVars, uvcVars, ownerVars, eventVars, setterVars>>

Init ==
    /\ mNativePtr = TRUE
    /\ mUsbFs = FALSE /\ mContext = FALSE /\ mDevice = FALSE
    /\ mDeviceHandle = FALSE /\ mFd = "zero"
    /\ callback = [k \in Kinds |-> "null"] /\ listener = [k \in Kinds |-> None]
    /\ ref = 0 /\ devh = FALSE /\ registered = [k \in Kinds |-> FALSE]
    /\ status_xfer = "null" /\ kill_handler_thread = FALSE
    /\ owner = "idle" /\ deleting = FALSE
    /\ event = "none" /\ kind = "status" /\ called = None
    /\ setter = [s \in Setters |-> "idle"]
    /\ arg = [s \in Setters |-> [kind |-> "status", to |-> None]]
    /\ dups = 0 /\ failed = FALSE
    /\ refs = [l \in Listeners |-> 0] /\ opens = 0 /\ sets = 0

OwnerGoto(from, to) == owner = from /\ owner' = to

-----------------------------------------------------------------------------
(* UVCCamera.open and connect.                                             *)

\* open calls connect, which refuses a camera that is open.
Open ==
    /\ mNativePtr /\ opens < MaxOpens
    /\ OwnerGoto("idle", IF mDeviceHandle THEN "idle" ELSE "connect")
    /\ opens' = opens + 1
    /\ UNCHANGED <<mNativePtr, cppVars, fdVars, cbVars, uvcVars, deleting, eventVars, setterVars>>

\* mUsbFs is set first; the context is created once.
InitContext ==
    /\ owner = "connect" /\ mUsbFs' = TRUE
    /\ \/ owner' = "find" /\ mContext' = TRUE /\ UNCHANGED failed
       \/ ConnectFails /\ ~mContext /\ owner' = "idle" /\ failed' = TRUE /\ UNCHANGED mContext
    /\ UNCHANGED <<mNativePtr, mDevice, mDeviceHandle, mFd, dups, cbVars, uvcVars,
                   deleting, opens, eventVars, setterVars>>

\* dup and uvc_get_device_with_fd; the duplicate is closed when that fails.
FindDevice ==
    /\ \/ /\ OwnerGoto("find", "open") /\ dups' = dups + 1 /\ mDevice' = TRUE /\ ref' = 1
          /\ UNCHANGED failed
       \/ /\ ConnectFails /\ OwnerGoto("find", "idle") /\ failed' = TRUE
          /\ UNCHANGED <<dups, mDevice, ref>>
    /\ UNCHANGED <<mNativePtr, mUsbFs, mContext, mDeviceHandle, mFd, cbVars, devh, registered,
                   status_xfer, kill_handler_thread, deleting, opens, eventVars, setterVars>>

\* Mutant: the duplicate survives a failed uvc_open.
OpenFailsKeepsDup ==
    /\ ConnectFails /\ OwnerGoto("open", "idle")
    /\ ref' = ref - 1 /\ mDevice' = FALSE /\ failed' = TRUE
    /\ UNCHANGED <<mNativePtr, mUsbFs, mContext, mDeviceHandle, mFd, dups, cbVars,
                   devh, registered, status_xfer, kill_handler_thread, deleting, opens,
                   eventVars, setterVars>>

\* uvc_open fails: it drops the reference it took (if it took one), connect
\* drops its own and closes the duplicate.
OpenFails ==
    /\ ConnectFails /\ OwnerGoto("open", "idle")
    /\ ref' = ref - 1 /\ mDevice' = FALSE /\ dups' = dups - 1 /\ failed' = TRUE
    /\ UNCHANGED <<mNativePtr, mUsbFs, mContext, mDeviceHandle, mFd, cbVars,
                   devh, registered, status_xfer, kill_handler_thread, deleting, opens,
                   eventVars, setterVars>>

\* uvc_open succeeds: the status transfer is submitted if the camera has an
\* endpoint for it, and the event handler thread of the context is created.
OpenHandle ==
    /\ OwnerGoto("open", "status")
    /\ ref' = ref + 1 /\ devh' = TRUE /\ mDeviceHandle' = TRUE /\ mFd' = "dup"
    /\ registered' = [k \in Kinds |-> FALSE]
    /\ status_xfer' \in {"null", "flying"}
    /\ event' = "test" /\ failed' = FALSE
    /\ UNCHANGED <<mNativePtr, mUsbFs, mContext, mDevice, dups, cbVars, kill_handler_thread,
                   deleting, opens, kind, called, setterVars>>

\* new UVCStatusCallback, new UVCButtonCallback: each registers itself with
\* the handle, under its status_mutex.
NewCallback(k) ==
    /\ OwnerGoto(k, IF k = "status" THEN "button" ELSE "idle")
    /\ callback' = [callback EXCEPT ![k] = "live"]
    /\ listener' = [listener EXCEPT ![k] = None]
    /\ event \notin {"notify", "java"}
    /\ registered' = [registered EXCEPT ![k] = TRUE]
    /\ UNCHANGED <<mNativePtr, cppVars, fdVars, ref, devh, status_xfer,
                   kill_handler_thread, deleting, opens, eventVars, setterVars>>

-----------------------------------------------------------------------------
(* UVCCamera.destroy, release and the destructor.                          *)

\* destroy calls release, the destructor calls it again; a client of the
\* native class may also call it alone.
BeginRelease ==
    /\ mNativePtr
    /\ OwnerGoto("idle", IF mDeviceHandle THEN "delete_status" ELSE "unref")
    /\ deleting' \in {TRUE, ~Reconnects}
    /\ UNCHANGED <<mNativePtr, cppVars, fdVars, cbVars, uvcVars, opens, eventVars, setterVars>>

\* The destructors of the callbacks do not unregister them.
DeleteCallback(k) ==
    /\ \/ k = "status" /\ OwnerGoto("delete_status", "delete_button")
       \/ k = "button" /\ OwnerGoto("delete_button", "kill")
    /\ callback' = [callback EXCEPT ![k] = "freed"]
    /\ setter' = [s \in Setters |->
                    IF setter[s] = "lock" /\ arg[s].kind = k THEN "stale" ELSE setter[s]]
    /\ UNCHANGED <<mNativePtr, cppVars, fdVars, listener, uvcVars, deleting, opens,
                   eventVars, arg, refs, sets>>

\* Mutant: the flag is not set.
KillForgotten ==
    /\ OwnerGoto("kill", "libusb_close")
    /\ UNCHANGED <<mNativePtr, cppVars, fdVars, cbVars, uvcVars, deleting, opens,
                   eventVars, setterVars>>

\* uvc_close: the camera's device is the only one of its context, ...
KillHandler ==
    /\ OwnerGoto("kill", "libusb_close") /\ kill_handler_thread' = TRUE
    /\ UNCHANGED <<mNativePtr, cppVars, fdVars, cbVars, ref, devh, registered,
                   status_xfer, deleting, opens, eventVars, setterVars>>

\* Mutant: the events lock is not taken.
LibusbCloseUnlocked ==
    /\ OwnerGoto("libusb_close", "join")
    /\ event' = IF event = "polling" THEN "test" ELSE event
    /\ status_xfer' = IF status_xfer = "flying" THEN "idle" ELSE status_xfer
    /\ UNCHANGED <<mNativePtr, cppVars, fdVars, cbVars, ref, devh, registered,
                   kill_handler_thread, deleting, opens, kind, called, setterVars>>

\* ... libusb_close makes a libusb_handle_events that is under way return,
\* takes the events lock (no completion runs then) and drops the transfer, ...
LibusbClose ==
    /\ OwnerGoto("libusb_close", "join")
    /\ event \in {"test", "enter", "polling", "exited"}
    /\ event' = IF event = "polling" THEN "test" ELSE event
    /\ status_xfer' = IF status_xfer = "flying" THEN "idle" ELSE status_xfer
    /\ UNCHANGED <<mNativePtr, cppVars, fdVars, cbVars, ref, devh, registered,
                   kill_handler_thread, deleting, opens, kind, called, setterVars>>

\* Mutant: the thread is not waited for.
SkipJoin ==
    /\ OwnerGoto("join", "free") /\ UNCHANGED event
    /\ UNCHANGED <<mNativePtr, cppVars, fdVars, cbVars, uvcVars, deleting, opens, kind,
                   called, setterVars>>

\* ... and the thread is joined.
JoinHandler ==
    /\ OwnerGoto("join", "free") /\ event = "exited" /\ event' = "none"
    /\ UNCHANGED <<mNativePtr, cppVars, fdVars, cbVars, uvcVars, deleting, opens, kind,
                   called, setterVars>>

\* The handle drops its reference to the device and is freed with its transfer.
FreeHandle ==
    /\ OwnerGoto("free", "unref")
    /\ ref' = ref - 1 /\ devh' = FALSE /\ status_xfer' = "null" /\ mDeviceHandle' = FALSE
    /\ callback' = [k \in Kinds |-> "null"]
    /\ UNCHANGED <<mNativePtr, mUsbFs, mContext, mDevice, mFd, fdVars, listener,
                   registered, kill_handler_thread, deleting, opens, eventVars, setterVars>>

\* Mutant: mUsbFs is freed but not reset.
ReleaseKeepsUsbFs ==
    /\ OwnerGoto("unref", IF deleting THEN "delete" ELSE "idle")
    /\ ref' = IF mDevice THEN ref - 1 ELSE ref
    /\ mDevice' = FALSE /\ mFd' = "zero"
    /\ dups' = IF mUsbFs /\ mFd = "dup" THEN dups - 1 ELSE dups
    /\ failed' = FALSE
    /\ UNCHANGED <<mNativePtr, mUsbFs, mContext, mDeviceHandle, cbVars, devh, registered,
                   status_xfer, kill_handler_thread, deleting, opens, eventVars, setterVars>>

\* The rest of release: the device, and mFd whenever mUsbFs is set.
ReleaseDevice ==
    /\ OwnerGoto("unref", IF deleting THEN "delete" ELSE "idle")
    /\ ref' = IF mDevice THEN ref - 1 ELSE ref
    /\ mDevice' = FALSE /\ mUsbFs' = FALSE /\ mFd' = "zero"
    /\ dups' = IF mUsbFs /\ mFd = "dup" THEN dups - 1 ELSE dups
    /\ failed' = FALSE
    /\ UNCHANGED <<mNativePtr, mContext, mDeviceHandle, cbVars, devh, registered,
                   status_xfer, kill_handler_thread, deleting, opens, eventVars, setterVars>>

\* destroy deletes the object, whose destructor has the context left to free.
Delete ==
    /\ OwnerGoto("delete", "gone")
    /\ mNativePtr' = FALSE /\ mContext' = FALSE
    /\ UNCHANGED <<mUsbFs, mDevice, mDeviceHandle, mFd, fdVars, cbVars, uvcVars,
                   deleting, opens, eventVars, setterVars>>

-----------------------------------------------------------------------------
(* setStatusCallback and setButtonCallback.                                *)

\* Java reads mNativePtr, outside the monitor, and calls the native method.
CallSetter(s) ==
    /\ setter[s] = "idle" /\ mNativePtr /\ sets < MaxSets
    /\ \E k \in Kinds, l \in Listeners \cup {None} :
         /\ setter' = [setter EXCEPT ![s] = "native"]
         /\ arg' = [arg EXCEPT ![s] = [kind |-> k, to |-> l]]
    /\ sets' = sets + 1
    /\ UNCHANGED <<mNativePtr, cppVars, fdVars, cbVars, uvcVars, ownerVars, eventVars, refs>>

\* NewGlobalRef; the object it is for is looked up: without one the call
\* returns, and the reference is never deleted.
NewGlobalRef(s) ==
    /\ setter[s] = "native"
    /\ setter' = [setter EXCEPT ![s] =
                    IF mNativePtr /\ callback[arg[s].kind] = "live" THEN "lock" ELSE "idle"]
    /\ refs' = [l \in Listeners |-> IF l = arg[s].to THEN refs[l] + 1 ELSE refs[l]]
    /\ UNCHANGED <<mNativePtr, cppVars, fdVars, cbVars, uvcVars, ownerVars, eventVars, arg, sets>>

\* The listener replaced in setCallback loses its reference.
ReplaceListener(s) ==
    LET old == listener[arg[s].kind] IN
    /\ listener' = [listener EXCEPT ![arg[s].kind] = arg[s].to]
    /\ refs' = [l \in Listeners |-> IF l = old /\ l # arg[s].to THEN refs[l] - 1 ELSE refs[l]]

\* Mutant: setCallback without the mutex.
SetCallbackUnlocked(s) ==
    /\ setter[s] = "lock"
    /\ setter' = [setter EXCEPT ![s] = "idle"]
    /\ ReplaceListener(s)
    /\ UNCHANGED <<mNativePtr, cppVars, fdVars, callback, uvcVars, ownerVars, eventVars, arg, sets>>

\* setCallback: its critical section of the callback object's own mutex, which
\* is held while the Java method runs.
SetCallback(s) ==
    /\ setter[s] = "lock"
    /\ ~(event = "java" /\ kind = arg[s].kind)
    /\ setter' = [setter EXCEPT ![s] = "idle"]
    /\ ReplaceListener(s)
    /\ UNCHANGED <<mNativePtr, cppVars, fdVars, callback, uvcVars, ownerVars, eventVars, arg, sets>>

\* A setter whose callback object is gone: undefined.
StaleSetter(s) ==
    /\ setter[s] = "stale" /\ setter' = [setter EXCEPT ![s] = "idle"]
    /\ UNCHANGED <<mNativePtr, cppVars, fdVars, cbVars, uvcVars, ownerVars, eventVars,
                   arg, refs, sets>>

-----------------------------------------------------------------------------
(* The event handler thread: _uvc_handle_events and _uvc_status_callback.  *)

EventGoto(from, to) ==
    /\ event = from /\ event' = to
    /\ UNCHANGED <<mNativePtr, cppVars, fdVars, cbVars, ref, devh, registered,
                   kill_handler_thread, ownerVars, setterVars>>

\* for (; !ctx->kill_handler_thread ;)
TestKill ==
    /\ EventGoto("test", IF kill_handler_thread THEN "exited" ELSE "enter")
    /\ UNCHANGED <<status_xfer, kind, called>>

\* libusb_handle_events begins ...
EnterHandleEvents ==
    EventGoto("enter", "polling") /\ UNCHANGED <<status_xfer, kind, called>>

\* ... and returns after 60 seconds without an event.
HandleEventsTimeout ==
    EventGoto("polling", "test") /\ UNCHANGED <<status_xfer, kind, called>>

\* The status transfer completes with a message for one of the callbacks, ...
Message(k) ==
    /\ status_xfer = "flying" /\ EventGoto("polling", "dispatch")
    /\ kind' = k /\ UNCHANGED <<status_xfer, called>>

\* ... or fails for good: it is not submitted again.
TransferEnds ==
    /\ status_xfer = "flying" /\ EventGoto("polling", "test")
    /\ status_xfer' = "idle" /\ UNCHANGED <<kind, called>>

\* Under status_mutex of the handle, the callback is called if it is set.
Dispatch ==
    /\ EventGoto("dispatch", IF registered[kind] THEN "notify" ELSE "resubmit")
    /\ UNCHANGED <<status_xfer, kind, called>>

\* Under the mutex of the callback object, its listener is called.
Notify ==
    /\ LET l == IF callback[kind] = "live" THEN listener[kind] ELSE None
       IN  EventGoto("notify", IF l # None THEN "java" ELSE "resubmit") /\ called' = l
    /\ UNCHANGED <<status_xfer, kind>>

\* onStatus or onButton returns; in between it may need the camera's monitor.
JavaReturns ==
    /\ Synchronizes => owner \in {"idle", "gone"}
    /\ EventGoto("java", "resubmit") /\ called' = None
    /\ UNCHANGED <<status_xfer, kind>>

\* libusb_submit_transfer, whose result is ignored.
Resubmit ==
    /\ EventGoto("resubmit", "test") /\ status_xfer' \in {"flying", "idle"}
    /\ UNCHANGED <<kind, called>>

-----------------------------------------------------------------------------
Connect ==
    \/ InitContext \/ FindDevice \/ OpenFails \/ OpenHandle
    \/ \E k \in Kinds : NewCallback(k)

Release ==
    \/ \E k \in Kinds : DeleteCallback(k)
    \/ KillHandler \/ LibusbClose \/ JoinHandler \/ FreeHandle \/ ReleaseDevice \/ Delete

EventStep ==
    \/ TestKill \/ EnterHandleEvents \/ Dispatch \/ Notify \/ JavaReturns \/ Resubmit

Next ==
    \/ Open \/ Connect \/ BeginRelease \/ Release
    \/ \E s \in Setters : CallSetter(s) \/ NewGlobalRef(s) \/ SetCallback(s) \/ StaleSetter(s)
    \/ EventStep \/ HandleEventsTimeout \/ TransferEnds
    \/ \E k \in Kinds : Message(k)

Spec == Init /\ [][Next]_vars

\* A method once called runs on (strongly fair: it gets status_mutex although
\* message follows message), the event thread runs, and a call of
\* libusb_handle_events that nothing interrupts times out.  Nothing obliges
\* the camera to send messages.
Fairness ==
    /\ SF_vars(Connect) /\ WF_vars(Release)
    /\ WF_vars(EventStep) /\ WF_vars(HandleEventsTimeout)

FairSpec == Spec /\ Fairness

-----------------------------------------------------------------------------
(* What the camera promises.                                               *)

OwnerPlaces == {"idle", "connect", "find", "open", "status", "button",
                "delete_status", "delete_button", "kill", "libusb_close", "join",
                "free", "unref", "delete", "gone"}

\* Every variable has its type.
TypeOK ==
    /\ mNativePtr \in BOOLEAN /\ mUsbFs \in BOOLEAN /\ mContext \in BOOLEAN
    /\ mDevice \in BOOLEAN /\ mDeviceHandle \in BOOLEAN /\ devh \in BOOLEAN
    /\ kill_handler_thread \in BOOLEAN /\ deleting \in BOOLEAN /\ failed \in BOOLEAN
    /\ mFd \in {"zero", "dup"}
    /\ callback \in [Kinds -> {"null", "live", "freed"}]
    /\ listener \in [Kinds -> Listeners \cup {None}]
    /\ ref \in 0..2 /\ registered \in [Kinds -> BOOLEAN]
    /\ status_xfer \in {"null", "idle", "flying"}
    /\ owner \in OwnerPlaces
    /\ event \in {"none", "test", "enter", "polling", "dispatch", "notify", "java",
                   "resubmit", "exited"}
    /\ kind \in Kinds /\ called \in Listeners \cup {None}
    /\ setter \in [Setters -> {"idle", "native", "lock", "stale"}]
    /\ arg \in [Setters -> [kind : Kinds, to : Listeners \cup {None}]]
    /\ dups \in 0..1
    /\ refs \in [Listeners -> Nat]
    /\ opens \in 0..MaxOpens /\ sets \in 0..MaxSets

\* Between two methods the camera is connected or not, as a whole: with a
\* handle it has one duplicate, its device twice referenced and both callbacks
\* registered; without one no descriptor, reference, handle, transfer or
\* thread is left behind, whichever step of connect failed.
AllOrNothing ==
    owner \in {"idle", "gone"} =>
        IF mDeviceHandle
        THEN /\ devh /\ mDevice /\ ref = 2 /\ dups = 1 /\ mFd = "dup"
             /\ \A k \in Kinds : registered[k] /\ callback[k] = "live"
        ELSE /\ ~devh /\ ~mDevice /\ ref = 0 /\ dups = 0
             /\ status_xfer = "null" /\ event = "none"

\* release closes mFd whenever mUsbFs is set, and connect sets mUsbFs first.
\* Unless the last connect failed, what it closes is that connect's duplicate,
\* still open; after a failed one it closes descriptor 0, which belongs to
\* somebody else.
ClosesOwn == (owner = "unref" /\ mUsbFs /\ ~failed) => (mFd = "dup" /\ dups = 1)

\* uvc_free_devh: "Streaming must be stopped, and threads must have died".
\* Without a handle no event thread runs and no transfer is in flight.
ThreadsDied == ~devh => event = "none" /\ status_xfer # "flying"

\* release deletes the callbacks before uvc_close ends the event thread that
\* calls them, so a message can reach a deleted callback; it does so in that
\* window only, never once libusb_close has returned.
StaleCallWindow ==
    (event \in {"notify", "java"} /\ callback[kind] # "live") =>
        owner \in {"delete_button", "kill", "libusb_close"}

\* While a listener is being called it stays referenced, although another
\* thread replaces it; the mutex of a callback object that is not deleted
\* sees to that.
CalledReferenced ==
    (event = "java" /\ callback[kind] = "live") => refs[called] > 0

\* open once begun returns, and so does destroy: the event thread ends.
MethodEnds == owner \notin {"idle", "gone"} ~> owner \in {"idle", "gone"}
=============================================================================
