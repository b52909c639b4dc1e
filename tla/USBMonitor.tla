------------------------------ MODULE USBMonitor ------------------------------
(***************************************************************************)
(* USBMonitor.java: which USB devices are attached, permitted and opened,  *)
(* and what the application's OnDeviceConnectListener is told of them.     *)
(*                                                                         *)
(* Three threads: the main thread runs the broadcast receiver; the handler *)
(* thread runs the check of the device list and the messages that call the *)
(* listener; an application thread makes the public calls.  register,      *)
(* unregister, requestPermission and the receiver's permission branch are  *)
(* synchronized on the monitor; everything else is not, so each access to  *)
(* mCtrlBlocks, mDeviceCounts or `destroyed' outside of them that another  *)
(* thread can come between is an action of its own.                        *)
(*                                                                         *)
(* A UsbDevice is one attachment: a camera attached again is a new device. *)
(* Interfaces claimed from Java are left out (libuvc claims its own).      *)
(***************************************************************************)
EXTENDS Naturals, Sequences, FiniteSets

CONSTANTS
    MaxDevices,     \* bound: attachments of cameras
    MaxBlocks,      \* bound: UsbControlBlocks
    Keys, KeyOf,    \* getDeviceKey: one for all devices of a type
    Clones,         \* does the application clone blocks, as UVCCamera.open does?
    OpensDirectly,  \* does it call openDevice, rather than wait for onConnect?
    MaxCalls        \* bound: calls of the application

ASSUME MonitorAssumption ==
    /\ MaxDevices \in Nat /\ MaxBlocks \in Nat
    /\ IsFiniteSet(Keys) /\ KeyOf \in [1..MaxDevices -> Keys]
    /\ Clones \in BOOLEAN /\ OpensDirectly \in BOOLEAN /\ MaxCalls \in Nat

Devices == 1..MaxDevices    \* attachments, in their order
Blocks  == 1..MaxBlocks     \* UsbControlBlocks, in the order they are made
NULL    == 0
Threads == {"main", "handler", "app"}

VARIABLES
    \* ---- Android
    device,         \* device[d]: "new", "attached" or "removed"
    granted,        \* devices the user has permitted
    asked,          \* devices whose permission dialog is shown
    broadcasts,     \* intents on their way to mUsbReceiver
    \* ---- fields of USBMonitor
    registered,     \* mPermissionIntent # null
    destroyed,
    mCtrlBlocks,    \* the block of each device, or NULL
    mHasPermissions,\* keys of permitted devices
    mDeviceCounts,
    \* ---- mAsyncHandler
    messages,       \* what its looper has to run now: calls, and checks due
    checks,         \* mDeviceCheckRunnables posted with a delay and not yet due
    quit,           \* its looper has quit
    \* ---- the threads
    at, dev, blk,   \* where a thread is; the device and block in its hands
    found, more,    \* the check's device list, and whether permissions grew
    \* ---- the heap, the listener and history
    block,          \* block[b]: its connection, its device, is it a clone, and
                    \* was it put into mCtrlBlocks after destroy had begun?
    told,           \* the attachments, detachments and blocks the application
                    \* has been told of
    calls

androidVars == <<device, granted, asked>>
fieldVars   == <<registered, destroyed, mCtrlBlocks, mHasPermissions, mDeviceCounts>>
handlerVars == <<messages, checks, quit>>
threadVars  == <<at, dev, blk>>
checkVars   == <<found, more>>
vars == <<androidVars, broadcasts, fieldVars, handlerVars, threadVars, checkVars,
          block, told, calls>>

Init ==
    /\ device = [d \in Devices |-> "new"] /\ granted = {} /\ asked = {}
    /\ broadcasts = <<>>
    /\ registered = FALSE /\ destroyed = FALSE
    /\ mCtrlBlocks = [d \in Devices |-> NULL]
    /\ mHasPermissions = {} /\ mDeviceCounts = 0
    /\ messages = <<>> /\ checks = 0 /\ quit = FALSE
    /\ at = [t \in Threads |-> "idle"]
    /\ dev = [t \in Threads |-> NULL] /\ blk = [t \in Threads |-> NULL]
    /\ found = {} /\ more = FALSE
    /\ block = [b \in Blocks |-> [conn |-> "unused", dev |-> NULL, clone |-> FALSE, late |-> FALSE]]
    /\ told = {} /\ calls = 0

-----------------------------------------------------------------------------
(* Helpers.                                                                *)

Go(t, from, to) == at[t] = from /\ at' = [at EXCEPT ![t] = to]

\* Thread t goes on with device d and block b in its hands.
Carry(t, from, to, d, b) ==
    /\ Go(t, from, to)
    /\ dev' = [dev EXCEPT ![t] = d] /\ blk' = [blk EXCEPT ![t] = b]

Attached == {d \in Devices : device[d] = "attached"}

\* mAsyncHandler.post: refused once the looper has quit.
Post(what, d) ==
    messages' = IF quit THEN messages
                ELSE Append(messages, [what |-> what, dev |-> d])

\* updatePermission.
Permit(d, yes) ==
    mHasPermissions' = IF yes THEN mHasPermissions \cup {KeyOf[d]}
                       ELSE mHasPermissions \ {KeyOf[d]}

\* UsbManager.openDevice returns a connection to an attached device the user
\* has permitted, and null otherwise.
Connection(d) == IF device[d] = "attached" /\ d \in granted THEN "open" ELSE "none"

\* A new UsbControlBlock for d.
NewBlock(b, d, clone) ==
    /\ block[b].conn = "unused" /\ \A c \in 1..(b - 1) : block[c].conn # "unused"
    /\ block' = [block EXCEPT ![b] = [conn |-> Connection(d), dev |-> d, clone |-> clone,
                                            late |-> FALSE]]

-----------------------------------------------------------------------------
(* Android: devices come and go, and the user answers.                     *)

\* An intent for the receiver, if it is registered.
Broadcast(what, d) ==
    broadcasts' = IF registered THEN Append(broadcasts, [what |-> what, dev |-> d])
                  ELSE broadcasts

Attach(d) ==
    /\ device[d] = "new" /\ \A e \in 1..(d - 1) : device[e] # "new"
    /\ device' = [device EXCEPT ![d] = "attached"]
    /\ UNCHANGED <<granted, asked, broadcasts>>

Detach(d) ==
    /\ device[d] = "attached" /\ device' = [device EXCEPT ![d] = "removed"]
    /\ granted' = granted \ {d} /\ asked' = asked \ {d}
    /\ Broadcast("detached", d)

Answer(d) ==
    /\ d \in asked /\ asked' = asked \ {d}
    /\ \/ granted' = granted \cup {d} /\ Broadcast("granted", d)
       \/ UNCHANGED granted /\ Broadcast("denied", d)
    /\ UNCHANGED device

AndroidStep ==
    /\ \E d \in Devices : Attach(d) \/ Detach(d) \/ Answer(d)
    /\ UNCHANGED <<fieldVars, handlerVars, threadVars, checkVars, block, told, calls>>

-----------------------------------------------------------------------------
(* UsbControlBlock.close, by thread t: synchronized on the block, it does  *)
(* nothing when there is no connection (any more).                         *)

\* Only the receiver still needs the device then.
Held(t) == IF t = "main" THEN dev[t] ELSE NULL

Closing(t) == at[t] \in {"forget", "forget_destroy"}

\* The connection is closed and onDisconnect called, ...
Close(t, from, forget, to) ==
    /\ at[t] = from /\ ~\E u \in Threads \ {t} : Closing(u) /\ blk[u] = blk[t]
    /\ LET b == blk[t] IN
       IF block[b].conn = "open"
       THEN /\ block' = [block EXCEPT ![b].conn = "closed"]
            /\ Go(t, from, forget) /\ UNCHANGED <<dev, blk>>
       ELSE Carry(t, from, to, Held(t), NULL) /\ UNCHANGED block
    /\ UNCHANGED <<mCtrlBlocks, told>>

\* Mutant: the monitor keeps the closed block.
KeepBlock(t, from, to) ==
    Carry(t, from, to, Held(t), NULL) /\ UNCHANGED <<mCtrlBlocks, block, told>>

\* ... then the block of that device, whichever it is, leaves mCtrlBlocks.
Forget(t, from, to) ==
    /\ Carry(t, from, to, Held(t), NULL)
    /\ mCtrlBlocks' = [mCtrlBlocks EXCEPT ![block[blk[t]].dev] = NULL]
    /\ UNCHANGED <<block, told>>

-----------------------------------------------------------------------------
(* The main thread: mUsbReceiver.onReceive.                                *)

\* Mutant: a device whose key is noted is taken for connected.
ConnectUnlessNoted(d) ==
    IF destroyed \/ KeyOf[d] \in mHasPermissions THEN UNCHANGED <<mHasPermissions, messages>>
    ELSE Permit(d, TRUE) /\ Post("connect", d)

\* processConnect: the permission is noted, and the connection left to the
\* handler thread.
ProcessConnect(d) ==
    IF destroyed THEN UNCHANGED <<mHasPermissions, messages>>
    ELSE Permit(d, TRUE) /\ Post("connect", d)

ProcessCancel(d) ==
    IF destroyed THEN UNCHANGED <<mHasPermissions, messages>>
    ELSE Permit(d, FALSE) /\ Post("cancel", d)

NextBroadcast(what) ==
    /\ broadcasts # <<>> /\ at["main"] = "idle"
    /\ what = Head(broadcasts).what
    /\ broadcasts' = Tail(broadcasts)

ReceivePermission ==
    /\ \/ NextBroadcast("granted") /\ ProcessConnect(Head(broadcasts).dev)
       \/ NextBroadcast("denied") /\ ProcessCancel(Head(broadcasts).dev)
    /\ UNCHANGED <<mCtrlBlocks, mDeviceCounts, threadVars, block, told>>

\* Mutant: the rest is done only for a device that has a block.
ReceiveIfConnected ==
    /\ NextBroadcast("detached")
    /\ LET d == Head(broadcasts).dev IN
       IF destroyed \/ mCtrlBlocks[d] = NULL THEN UNCHANGED <<mCtrlBlocks, threadVars>>
       ELSE /\ mCtrlBlocks' = [mCtrlBlocks EXCEPT ![d] = NULL]
            /\ Carry("main", "idle", "close", d, mCtrlBlocks[d])
    /\ UNCHANGED <<mHasPermissions, mDeviceCounts, messages, block, told>>

\* The device's block is taken out of mCtrlBlocks ...
ReceiveDetached ==
    /\ NextBroadcast("detached")
    /\ LET d == Head(broadcasts).dev IN
       IF destroyed THEN UNCHANGED <<mCtrlBlocks, threadVars>>
       ELSE /\ mCtrlBlocks' = [mCtrlBlocks EXCEPT ![d] = NULL]
            /\ Carry("main", "idle", IF mCtrlBlocks[d] = NULL THEN "reset" ELSE "close",
                     d, mCtrlBlocks[d])
    /\ UNCHANGED <<mHasPermissions, mDeviceCounts, messages, block, told>>

\* ... and closed ...
CloseDetached ==
    /\ Close("main", "close", "forget", "reset") \/ Forget("main", "forget", "reset")
    /\ UNCHANGED <<broadcasts, mHasPermissions, mDeviceCounts, messages>>

\* ... the count starts again, so that the next check announces what is left ...
ResetCount ==
    /\ Go("main", "reset", "post") /\ mDeviceCounts' = 0
    /\ UNCHANGED <<broadcasts, mCtrlBlocks, mHasPermissions, messages, dev, blk, block,
                   told>>

\* ... and processDetach posts onDetach.
PostDetach ==
    /\ Carry("main", "post", "idle", NULL, NULL)
    /\ IF destroyed THEN UNCHANGED messages ELSE Post("detach", dev["main"])
    /\ UNCHANGED <<broadcasts, mCtrlBlocks, mHasPermissions, mDeviceCounts, block, told>>

MainStep ==
    /\ ReceivePermission \/ ReceiveDetached \/ CloseDetached \/ ResetCount \/ PostDetach
    /\ UNCHANGED <<androidVars, registered, destroyed, checks, quit, checkVars, calls>>

-----------------------------------------------------------------------------
(* The handler thread: mDeviceCheckRunnable.                               *)

\* The looper's queue is ordered by time: a check that is due is run after the
\* messages posted before.
CheckDue ==
    /\ checks > 0 /\ checks' = checks - 1
    /\ messages' = Append(messages, [what |-> "check", dev |-> NULL])
    /\ UNCHANGED <<at, mHasPermissions, mDeviceCounts, found, more>>

BeginCheck ==
    /\ Go("handler", "idle", IF destroyed THEN "idle" ELSE "list")
    /\ messages # <<>> /\ Head(messages).what = "check" /\ messages' = Tail(messages)
    /\ UNCHANGED <<mHasPermissions, mDeviceCounts, checks, found, more>>

\* getDeviceList; it throws, which ends the program, if the monitor has been
\* destroyed since.
ListDevices ==
    /\ Go("handler", "list", IF destroyed THEN "dead" ELSE "count")
    /\ found' = Attached
    /\ UNCHANGED <<mHasPermissions, mDeviceCounts, messages, checks, more>>

\* Under the lock of mHasPermissions the permissions are counted, forgotten
\* and looked up again.  Of devices with one key the last one listed decides.
\* hasPermission throws, too, if the monitor has been destroyed.
Throws == destroyed /\ found # {}

CountPermissions ==
    /\ Go("handler", "count", IF Throws THEN "dead" ELSE "announce")
    /\ \E S \in SUBSET {KeyOf[d] : d \in found} :
         /\ \A k \in S : \E d \in found \cap granted : KeyOf[d] = k
         /\ \A k \in {KeyOf[d] : d \in found} \ S : \E d \in found \ granted : KeyOf[d] = k
         /\ mHasPermissions' = IF Throws THEN {} ELSE S
         /\ more' = (Cardinality(S) > Cardinality(mHasPermissions))
    /\ UNCHANGED <<mDeviceCounts, messages, checks, found>>

\* The orders in which the devices of S can be listed.
Orders(S) == {s \in [1..Cardinality(S) -> S] : \A d \in S : \E i \in DOMAIN s : s[i] = d}

\* Mutant: new permissions alone count.
AnnouncePermitted == more

\* Whether the listener hears of the devices found.
ToAnnounce == more \/ Cardinality(found) > mDeviceCounts

\* Mutant: the devices found are added.
AddedCount == mDeviceCounts + Cardinality(found)

\* The count the next check compares with.
NewCount == Cardinality(found)

\* With more devices or permissions than before, every device is announced.
Announce ==
    /\ Go("handler", "announce", "repost")
    /\ IF ToAnnounce
       THEN /\ mDeviceCounts' = NewCount
            /\ \E s \in Orders(found) :
                 messages' = IF quit THEN messages
                             ELSE messages \o [i \in DOMAIN s |-> [what |-> "attach", dev |-> s[i]]]
       ELSE UNCHANGED <<mDeviceCounts, messages>>
    /\ found' = {} /\ more' = FALSE
    /\ UNCHANGED <<mHasPermissions, checks>>

\* Mutant: the check is not posted again.
RepostNothing == UNCHANGED checks

\* postDelayed(this, 2000).
RepostCheck == checks' = IF quit THEN checks ELSE checks + 1

EndCheck ==
    /\ Go("handler", "repost", "idle") /\ RepostCheck
    /\ UNCHANGED <<mHasPermissions, mDeviceCounts, messages, found, more>>

CheckStep ==
    /\ CheckDue \/ BeginCheck \/ ListDevices \/ CountPermissions \/ Announce \/ EndCheck
    /\ UNCHANGED <<androidVars, broadcasts, registered, destroyed, mCtrlBlocks, quit,
                   dev, blk, block, told, calls>>

-----------------------------------------------------------------------------
(* The handler thread: the messages.                                       *)

\* A message calls the listener, or begins a connection.
RunMessage ==
    /\ messages # <<>> /\ Head(messages).what # "check" /\ messages' = Tail(messages)
    /\ LET m == Head(messages) IN
       IF m.what = "connect"
       THEN Carry("handler", "idle", "connect", m.dev, NULL) /\ UNCHANGED told
       ELSE /\ at["handler"] = "idle" /\ UNCHANGED threadVars
            /\ told' = IF m.what \in {"attach", "detach"} THEN told \cup {<<m.what, m.dev>>}
                       ELSE told
    /\ UNCHANGED <<mCtrlBlocks, block>>

\* Mutant: mCtrlBlocks is not asked.
OpenAnyway(t, from, put, done) ==
    /\ \E b \in Blocks : /\ Carry(t, from, put, dev[t], b)
                         /\ NewBlock(b, dev[t], FALSE)
    /\ UNCHANGED <<mCtrlBlocks, told>>

\* mCtrlBlocks is asked for the device's block; when there is none, the
\* device is opened ...
LookUp(t, from, put, done) ==
    LET d == dev[t] IN
    /\ at[t] = from
    /\ \/ /\ mCtrlBlocks[d] # NULL /\ UNCHANGED block
          /\ Carry(t, from, done, d, mCtrlBlocks[d])
       \/ /\ mCtrlBlocks[d] = NULL
          /\ \E b \in Blocks : NewBlock(b, d, FALSE) /\ Carry(t, from, put, d, b)
    /\ UNCHANGED <<mCtrlBlocks, told>>

\* ... and the new block put into mCtrlBlocks.
PutBlock(t, from, to) ==
    /\ Go(t, from, to)
    /\ mCtrlBlocks' = [mCtrlBlocks EXCEPT ![dev[t]] = blk[t]]
    /\ block' = [block EXCEPT ![blk[t]].late = destroyed]
    /\ UNCHANGED <<dev, blk, told>>

\* The application gets the block: from onConnect or from openDevice.
HandBlock(t, from, what) ==
    /\ Carry(t, from, "idle", NULL, NULL)
    /\ told' = told \cup {<<what, blk[t]>>}
    /\ UNCHANGED <<mCtrlBlocks, block>>

ConnectStep ==
    /\ \/ LookUp("handler", "connect", "put", "call") \/ PutBlock("handler", "put", "call")
       \/ HandBlock("handler", "call", "onConnect")
    /\ UNCHANGED messages

MessageStep ==
    /\ RunMessage \/ ConnectStep
    /\ UNCHANGED <<androidVars, broadcasts, registered, destroyed, mHasPermissions,
                   mDeviceCounts, checks, quit, checkVars, calls>>

-----------------------------------------------------------------------------
(* The application's calls.                                                *)

\* register: the check starts when the receiver was not registered.
Register ==
    /\ ~destroyed /\ ~registered
    /\ registered' = TRUE
    /\ mDeviceCounts' = 0 /\ checks' = checks + 1
    /\ UNCHANGED <<broadcasts, mHasPermissions, messages>>

\* removeCallbacks: where a check was due, nothing is run.
Removed(m) == IF m.what = "check" THEN [m EXCEPT !.what = "removed"] ELSE m

\* unregister: posted checks are removed, and the receiver's intents dropped.
UnregisterFields ==
    /\ mDeviceCounts' = 0
    /\ IF destroyed THEN UNCHANGED <<checks, messages>>
       ELSE /\ checks' = 0
            /\ messages' = [i \in DOMAIN messages |-> Removed(messages[i])]
    /\ registered' = FALSE /\ broadcasts' = <<>>
    /\ UNCHANGED mHasPermissions

Unregister == UnregisterFields

\* requestPermission(d): connected at once when permitted; otherwise the user
\* is asked, or the request fails.
RequestPermission(d) ==
    /\ IF ~registered \/ destroyed
       THEN ProcessCancel(d) /\ UNCHANGED asked
       ELSE \/ d \in granted /\ ProcessConnect(d) /\ UNCHANGED asked
            \/ /\ d \notin granted
               /\ asked' = IF device[d] = "attached" THEN asked \cup {d} ELSE asked
               /\ UNCHANGED <<mHasPermissions, messages>>
            \/ d \notin granted /\ ProcessCancel(d) /\ UNCHANGED asked
    /\ UNCHANGED <<broadcasts, registered, mDeviceCounts, checks>>

\* The calls that end in one step.
ShortCall ==
    /\ \/ (Register \/ Unregister) /\ UNCHANGED asked
       \/ \E d \in Devices : device[d] # "new" /\ RequestPermission(d)
    /\ at["app"] = "idle"
    /\ UNCHANGED <<threadVars, mCtrlBlocks, block>>

\* openDevice(d) looks at the permission first.
CallOpenDevice ==
    /\ OpensDirectly /\ ~destroyed
    /\ \E d \in Devices :
         /\ device[d] # "new" /\ Permit(d, d \in granted)
         /\ IF d \in granted THEN Carry("app", "idle", "connect", d, NULL)
            ELSE at["app"] = "idle" /\ UNCHANGED threadVars
    /\ UNCHANGED <<asked, broadcasts, registered, mDeviceCounts, messages, checks,
                   mCtrlBlocks, block>>

\* The blocks the application has been given.
Given == {b \in Blocks : block[b].clone \/ {<<"onConnect", b>>, <<"openDevice", b>>} \cap told # {}}

\* It clones one (and fails unless the device can be opened again), ...
CallClone ==
    /\ Clones
    /\ \E b \in Given, c \in Blocks :
         Connection(block[b].dev) = "open" /\ NewBlock(c, block[b].dev, TRUE)
    /\ at["app"] = "idle"
    /\ UNCHANGED <<asked, broadcasts, registered, mHasPermissions, mDeviceCounts,
                   messages, checks, threadVars, mCtrlBlocks>>

\* ... or closes one.
CallClose ==
    /\ \E b \in Given : Carry("app", "idle", "close", NULL, b)
    /\ UNCHANGED <<asked, broadcasts, registered, mHasPermissions, mDeviceCounts,
                   messages, checks, mCtrlBlocks, block>>

\* destroy begins with unregister.
CallDestroy ==
    /\ UnregisterFields
    /\ Go("app", "idle", IF destroyed THEN "idle" ELSE "destroy")
    /\ UNCHANGED <<asked, dev, blk, mCtrlBlocks, block>>

Call ==
    /\ calls < MaxCalls /\ calls' = calls + 1
    /\ ShortCall \/ CallOpenDevice \/ CallClone \/ CallClose \/ CallDestroy
    /\ UNCHANGED <<device, granted, destroyed, quit, checkVars, told>>

\* What the calls that take several steps go on with.
OpenDeviceStep ==
    \/ LookUp("app", "connect", "put", "call") \/ PutBlock("app", "put", "call")
    \/ HandBlock("app", "call", "openDevice")

CloseStep == Close("app", "close", "forget", "idle") \/ Forget("app", "forget", "idle")

\* destroy closes every block in mCtrlBlocks.
TakeForDestroy ==
    /\ \E d \in Devices :
         /\ mCtrlBlocks[d] # NULL
         /\ mCtrlBlocks' = [mCtrlBlocks EXCEPT ![d] = NULL]
         /\ Carry("app", "blocks", "close_destroy", NULL, mCtrlBlocks[d])
    /\ UNCHANGED <<block, told>>

\* mCtrlBlocks.clear(): a block put in meanwhile, which the loop may have
\* missed, is dropped.
ClearBlocks ==
    /\ Go("app", "blocks", "quit")
    /\ \A d \in Devices : mCtrlBlocks[d] # NULL => block[mCtrlBlocks[d]].late
    /\ mCtrlBlocks' = [d \in Devices |-> NULL]
    /\ UNCHANGED <<dev, blk, block, told>>

BlockStep ==
    /\ \/ OpenDeviceStep \/ CloseStep \/ TakeForDestroy \/ ClearBlocks
       \/ Close("app", "close_destroy", "forget_destroy", "blocks")
       \/ Forget("app", "forget_destroy", "blocks")
    /\ UNCHANGED <<destroyed, handlerVars>>

MarkDestroyed ==
    /\ Go("app", "destroy", "blocks") /\ destroyed' = TRUE
    /\ UNCHANGED <<mCtrlBlocks, handlerVars, dev, blk, block, told>>

QuitLooper ==
    /\ Go("app", "quit", "idle") /\ quit' = TRUE /\ messages' = <<>> /\ checks' = 0
    /\ UNCHANGED <<destroyed, mCtrlBlocks, dev, blk, block, told>>

AppStep ==
    /\ BlockStep \/ MarkDestroyed \/ QuitLooper
    /\ UNCHANGED <<androidVars, broadcasts, registered, mHasPermissions, mDeviceCounts,
                   checkVars, calls>>

-----------------------------------------------------------------------------
Next ==
    \/ AndroidStep \/ MainStep
    \/ CheckStep \/ MessageStep
    \/ Call \/ AppStep

Spec == Init /\ [][Next]_vars

\* Threads run, the looper of the handler thread and its clock among them.
Fairness ==
    /\ WF_vars(MainStep) /\ WF_vars(AppStep)
    /\ WF_vars(MessageStep)
    /\ WF_vars(CheckStep)

FairSpec == Spec /\ Fairness

-----------------------------------------------------------------------------
(* What the monitor promises.                                              *)

Places == {"idle", "reset", "post", "close", "forget", "list", "count", "announce",
           "repost", "dead", "connect", "put", "call", "destroy", "blocks",
           "close_destroy", "forget_destroy", "quit"}
Checking == at["handler"] \in {"list", "count", "announce", "repost"}

\* Every variable has its type.
TypeOK ==
    /\ device \in [Devices -> {"new", "attached", "removed"}]
    /\ granted \subseteq Attached /\ asked \subseteq Attached
    /\ broadcasts \in Seq([what : {"granted", "denied", "detached"}, dev : Devices])
    /\ registered \in BOOLEAN /\ destroyed \in BOOLEAN
    /\ quit \in BOOLEAN /\ more \in BOOLEAN
    /\ mCtrlBlocks \in [Devices -> Blocks \cup {NULL}]
    /\ mHasPermissions \subseteq Keys /\ mDeviceCounts \in 0..Cardinality(Devices)
    /\ messages \in Seq([what : {"attach", "connect", "cancel", "detach"}, dev : Devices]
                        \cup [what : {"check", "removed"}, dev : {NULL}])
    /\ checks \in Nat /\ calls \in 0..MaxCalls
    /\ at \in [Threads -> Places]
    /\ dev \in [Threads -> Devices \cup {NULL}] /\ blk \in [Threads -> Blocks \cup {NULL}]
    /\ found \subseteq Devices
    /\ block \in [Blocks -> [conn : {"unused", "open", "none", "closed"},
                            dev : Devices \cup {NULL}, clone : BOOLEAN, late : BOOLEAN]]

\* While the monitor is registered, a check of the device list is posted or
\* running, however unregister and register fall into a check that runs.
CheckAlive ==
    registered /\ ~destroyed =>
        \/ checks > 0 \/ Checking
        \/ \E i \in DOMAIN messages : messages[i].what = "check"

\* mCtrlBlocks is of use to those who look a block up: a closed one is there
\* only until the thread that has closed it takes it out.
ClosedBlocksLeave ==
    \A d \in Devices :
        mCtrlBlocks[d] # NULL /\ block[mCtrlBlocks[d]].conn = "closed" =>
            \E t \in Threads : Closing(t) /\ block[blk[t]].dev = d

\* However requests, permissions and closes interleave, the monitor opens a
\* second connection to a device that has one only if openDevice was called
\* beside it, if the first has been forgotten because a clone was closed, or
\* while destroy leaves the blocks behind that are put in meanwhile.
OneConnection ==
    \A b, c \in {x \in Blocks : block[x].conn = "open" /\ ~block[x].clone} :
        b # c /\ block[b].dev = block[c].dev =>
            \/ destroyed
            \/ at["app"] \in {"put", "call"} /\ dev["app"] = block[b].dev
            \/ \E x \in Blocks :
                  /\ block[x].dev = block[b].dev
                  /\ \/ <<"openDevice", x>> \in told
                     \/ block[x].clone /\ block[x].conn = "closed"

\* A camera attached while the monitor is registered is announced, unless the
\* application stops listening or some camera is removed.
AttachAnnounced ==
    \A d \in Devices :
        (registered /\ device[d] = "attached")
            ~> (<<"attach", d>> \in told \/ ~registered \/ destroyed
                \/ \E e \in Devices : device[e] = "removed")

\* The intent that the receiver gets next.
Arrives(what, d) ==
    registered /\ broadcasts # <<>> /\ Head(broadcasts) = [what |-> what, dev |-> d]

\* A removal that has reached the receiver is reported by onDetach.
DetachReported ==
    \A d \in Devices :
        Arrives("detached", d) ~> (<<"detach", d>> \in told \/ ~registered \/ destroyed)

\* A permission that has reached the receiver leads to onConnect.
GrantConnects ==
    \A d \in Devices :
        Arrives("granted", d)
            ~> (~registered \/ destroyed
                \/ \E b \in Blocks : block[b].dev = d /\ <<"onConnect", b>> \in told)
=============================================================================
