# Verification of the UVC camera library

TLA+ models of `sdk_uvc_camera`, the Android library that opens a USB video
class camera, streams from it with libuvc, shows a preview and hands frames to
the application. Paths in the table below are relative to `src/sdk_uvc_camera/src/main/`.

## The system and its parts

| part | code | state it keeps | operations | talks to |
|---|---|---|---|---|
| preview engine | `jni/libcamera/source/UVCPreview.cpp` | `mIsRunning`, `mIsCapturing`, frame pool, preview queue, capture slot, frame callback, two windows, two threads | start and stop the preview, set callback, capture window and preview window, take frames, draw, deliver | libuvc stream below it, `UVCCamera` above it, the application's `onFrame` |
| video stream | `jni/libuvc/src/stream.c` | `running`, transfers, two buffers, sequence numbers, callback thread | open, start, stop, close; transfer callback; callback thread | libusb below, the preview engine above |
| device and context | `jni/libuvc/src/device.c`, `init.c` | device references, claimed interfaces, event thread, status transfer | open, close, claim, release, status events | libusb, camera object |
| camera object | `jni/libcamera/source/UVCCamera.cpp`, status and button callbacks | context, device handle, duplicated descriptor, callbacks, cached controls | connect, release, setters and getters | everything native |
| Java camera | `java/com/hsj/camera/UVCCamera.java` | control block clone, native pointer, supported sizes | open, close, destroy, preview and capture methods, controls | JNI |
| device monitor | `java/com/hsj/camera/USBMonitor.java` | control blocks by device, permissions, device count, registered, destroyed | register, unregister, permission, attach check, detach, destroy | Android's UsbManager, the listener |
| ObjectArray | `jni/libcamera/source/objectarray.h` | an array that grows | put, remove, last, clear | preview engine |
| controls, frame conversion, diagnostics, formats | `ctrl.c`, `frame.c`, `frame-mjpeg.c`, `diag.c`, `Parameters.cpp` | none | requests, pixels, text | libusb, libjpeg |

`PROJECT.json` lists each with its status. `libcamera/pipeline` is not compiled;
libusb, libjpeg-turbo, libyuv and rapidjson are vendored.

Frames travel: USB transfer → libusb's event thread (`_uvc_stream_callback`,
fills `outbuf`, swaps it with `holdbuf`) → callback thread (`_uvc_user_caller`,
copies `holdbuf` into `frame`) → `uvc_preview_frame_callback` (copies it into a
frame of the pool) → preview queue → preview thread (decodes, draws) → capture
slot → capture thread (surface, `onFrame`). Application threads start and stop
all this and replace the targets while it runs.

What is hard here is that concurrency: five kinds of threads, two condition
variables used for several purposes, flags read without locks, waits that are
not in a loop, frames recycled from every thread. And failure: a thread or a
transfer that cannot be created, a heap that is full, a camera unplugged.

What makes each part correct:

* preview engine: a frame buffer has one owner and is never lost; `onFrame`
  gets the frames libuvc passed in order, none a second time, none of an earlier session; after the joins of
  `stopPreview` nothing runs; targets in use are not freed; no wakeup is lost;
  `stopPreview` returns.
* stream: the handle outlives all its users; buffers are filled by one callback
  at a time; frames reach the user in order, only between start and stop; stop
  returns; an unplug ends the callback thread. Lost or damaged packets never
  split a frame over two published ones, mix two frames only where FID's parity
  hides that whole frames between them vanished, and damage is flagged.
* monitor: a device attached is announced, one removed reported; the check of the
  device list runs while the monitor is registered; the table of control blocks
  holds the open blocks and no closed ones.
* camera object: `connect` takes all it needs or nothing; `release` closes exactly
  the descriptors `connect` duplicated, and leaves no thread that uses the handle;
  a listener is not released while it is called; both return.
* controls: Java and C++ have the same limits of a control; a value sent is within
  them; a percentage set is read back.

## Modules

| module | what it models | composed with |
|---|---|---|
| `UVCPreview`, `UVCPreviewProps` | the preview engine | uses the interface `FrameSource` |
| `UVCStream` | a libuvc stream | refines `FrameSource` |
| `FrameSource` | what a stream promises its user | abstract |
| `UVCPayload` | packets cut into frames | the inside of `UVCStream`'s `ProcessPayload` |
| `UVCCamera` | connect, release, the callbacks, the event thread | the life around a stream |
| `UVCControls` | control values, limits and percentages | a connected camera |
| `USBMonitor` | devices, permissions, control blocks | opens what `UVCCamera` connects |

`UVCPreviewProofs`, `UVCPreviewStopProofs`, `UVCPreviewOrderProofs`,
`UVCStreamProofs`, `UVCPayloadProofs`, `UVCCameraProofs`, `UVCControlsProofs` and
`USBMonitorProofs` hold the theorems; the `MC` modules symmetry and values for
the model checker.

* `UVCPreview` — the preview engine. A critical section of `preview_mutex`,
  `capture_mutex` or `pool_mutex` is one action; `pthread_cond_wait` splits it.
  A flag read without a lock that another thread may change before it is used
  is an action of its own. Threads are program counters (`api[c]`, `usb`,
  `prev`, `cap[k]`) with the waiters of a condition variable at `"waiting"`,
  `"cb_wait"` and `"win_wait"`; a signal moves them on. A local frame pointer
  is a slot of `hold`; the heap is the set `live`. `stamp[f]` is the number of
  the camera frame a buffer shows. The monitor of Java's `synchronized` is
  `monitor`. The end of `do_capture_surface` releases its window and then clears
  the pointer (`ReleaseSurface`, `ForgetSurface`): two steps, between which the
  pointer is kept without a reference. Pixels, sizes, formats and logging are left
  out; what is kept of a conversion is that it may fail and which buffers it takes.
  `UVCPreviewProps` states what the engine promises.
* `UVCStream` — a stream of libuvc: owner, event thread and callback thread. A
  transfer is in a state (`"null"` for a NULL entry of `strmh->transfers`,
  `"lost"` for one whose resubmission failed); a frame is its sequence number
  and whether it is flagged as damaged. The owner's steps from
  `uvc_start_streaming_bandwidth` to `uvc_stream_close` are program counter
  values. Once the handle is freed, threads that would use it stop: what they
  would do is undefined.
* `FrameSource` — the abstract interface of a stream: frames reach the callback
  one at a time, each newer than the last, between start and stop. `UVCStream`
  is shown to implement it (`SourceSpec`, with `streaming`, `inCallback` and
  `last` mapped to the owner's place, the callback thread's place and `shown`).
  With damaged frames (`Repeats`) the frame before may come twice:
  `hold_bfh_err` is tested again after the lock is released.
  `UVCPreview` uses the same interface: `StartStreaming` starts it,
  `FrameCallback` is a callback, and `StopStreaming` waits for `usb = "idle"`.
* `UVCPayload` — `_uvc_process_payload` and `_uvc_process_payload_iso`, each a
  sequence of operators on the receiver's state (`Header`, `CopyData`,
  `EndOfFrame`, `Swap`), and a camera that numbers frames by FID parity and
  marks their ends on the last packet, on one of its own, or not at all. A
  packet is delivered, lost, or damaged in one of three ways. Data are pairs of
  frame and part. The iSight header, time stamps, overflowing buffers and headers
  shorter than two bytes are left out: the camera modelled keeps to UVC, where
  FID and EOF are in the second byte. A shorter header would count as "no FID, no
  EOF" in bulk (`stream.c:719`), and be read past its end in isochronous transfers (866).
* `UVCCamera` — the owner (`open` and `destroy`, serialized by Java's monitor)
  as a program counter whose values are the steps of `connect`, `release` and
  `uvc_close` that can fail or that another thread can see; callback setters
  (`setter[s]`), which Java does not synchronize; and the event handler thread
  (`event`). A pointer is kept as "not NULL", a descriptor as `"dup"` or
  `"zero"`, a callback object as `"null"`, `"live"` or `"freed"`. The mutex of
  a callback object is the state `"java"` of the event thread; the events lock
  of libusb its states from `"dispatch"` to `"resubmit"`. `refs` counts global
  references; `failed` remembers that the last connect failed.
* `UVCControls` — the limits of a control cached in C++ (`values`) and in Java
  (`jLimits`), the support words in both, and the camera's values. A call of
  Java is one action. Each of the three requests for the limits, and the
  request for the value, may fail. Percent and value are converted with Java's
  truncations and C's narrowing to 16 bits. `Signed`, `WordOf`, `DefaultOf` and
  `ReadWith` hold what sets one control's methods apart from another's.
* `USBMonitor` — the device monitor on the main thread (`ReceivePermission`,
  `ReceiveDetached`, `CloseDetached`, ...), the handler thread (`CheckStep`,
  `MessageStep`) and an application thread (`Call`, `AppStep`). What is
  synchronized on the monitor or on `mHasPermissions` is one action; a lookup in
  `mCtrlBlocks` and the put that follows are two. `at[t]` is a thread's place,
  `dev[t]` and `blk[t]` the device and block in its hands. The looper's queue is
  `messages`; a delayed check waits in `checks` until `CheckDue` puts it there,
  and a check that `removeCallbacks` takes out of the queue leaves an entry that
  does nothing (`Removed`).
  Android is `AndroidStep`: cameras attached and removed, the user's answers,
  and the intents they cause, in `broadcasts`. `told` remembers what the
  listener was told. The filters match every device.

In every module, definitions whose comment begins with "Mutant" are not part of
any next-state relation; each is the form a definition would have with a
plausible bug, and shows that a property notices it.

## Runs

| run | question | result |
|---|---|---|
| `preview_yuyv` | two application threads, any call at any moment, YUYV, both windows, a heap of five buffers that can be exhausted: are frame buffers conserved and never shared, is there one preview thread? | holds |
| `preview_disciplined` | MJPEG, a capture window, a queue of two; a client that lets sessions start and swaps targets only while stopped: is the stop quiet and clean, are the targets in use alive, does each call of `onFrame` get a newer frame, of this session? | holds |
| `preview_flow` | fair threads: is every queued frame taken? | holds |
| `preview_stop_hangs` | does `stopPreview` return? | no |
| `stream_session` | three transfers, two sessions, transfers that fail, damaged frames: does the handle outlive its users, does the stream implement `FrameSource`? | holds |
| `stream_flow` | fair threads, unplug possible: does the stop return unless a resubmission was lost, is every published frame looked at, does an unplug end the callback thread? | holds |
| `stream_freed_early` | an unplug while the camera streams: does the handle outlive its users? | no |
| `payload` | five frames of two packets, up to four faults, both kinds of transfer, every use of EOF: are frames whole without faults, never mixed or split with them, and holes flagged? | holds |
| `monitor_session` | two cameras, three calls of an application that also clones blocks and opens devices itself: does the check of the device list survive, do closed blocks leave the table, is a device opened twice? | holds |
| `monitor_flow` | fair threads, two cameras: is a camera announced while none is removed, a removal reported, a permission followed by `onConnect`? | holds |
| `camera_life` | two connects that may fail anywhere, releases, two callback setters, messages at any time: all or nothing, own descriptors closed, threads dead before what they use, listeners referenced, methods return? | holds |
| `controls` | four calls on five controls, any support, a failing request: do the caches agree, is what is sent in range, is a percentage read back, does a reset send the default? | holds |

What the failing runs show:

* `preview_stop_hangs`: the preview loop tests `mIsRunning`, then
  `waitPreviewFrame` takes the mutex and waits without testing it again
  (`UVCPreview.cpp:500`). A stop in between signals nobody; `pthread_join` waits
  for ever unless a late frame wakes the thread — and `addPreviewFrame` signals
  only while `mIsRunning`.
* `stream_freed_early`: two transfers fly, the camera is unplugged, and the first
  transfer's `NO_DEVICE` clears `running`. `uvc_stop_streaming` comes next:
  `uvc_stream_close` skips `uvc_stream_stop` (`stream.c:1868`) and frees the handle
  while that callback still runs and the other transfer is in flight, without
  joining the callback thread. `UnplugsAt = {"streaming"}` keeps the unplug out of
  the start, where it would make a submission fail: that is the other way to this
  violation, the `@todo` below.

More that the models allow, and that limits what the passing runs can ask:

* Preview: `setFrameCallback` and `setCaptureDisplay` wait once on
  `capture_sync`, which every new frame broadcasts, and `mFrameCallbackObj` is
  read twice without a lock: a target replaced during the preview may be used
  after it is freed. `TargetsAlive` is checked with `SwapLive = FALSE`.
* Stream: a resubmission that fails is ignored (`stream.c:1004`); the transfer
  stays in the table and `uvc_stream_stop` waits for it for ever. `StopEnds`
  names that case. A start whose submissions fail half-way, as they do when the
  camera is unplugged meanwhile, frees the handle under the transfers in flight
  (the `@todo` at `stream.c:1599`): `HandleAlive` is checked and proved with
  `SubmitFails = FALSE` and `UnplugsAt = {}`.
* Monitor: the check lists the devices and sets `mDeviceCounts` later; a removal
  in between leaves the count at one with no camera, and the next camera is not
  announced. `AttachAnnounced` is stated while none is removed. `close` of a
  clone removes the block of its device from `mCtrlBlocks`, which is the
  original, still open; `UVCCamera.open` and `close` do just that. `openDevice`
  and the message of `processConnect` can both find no block and open one each.
  `OneConnection` says where a second connection can come from.
* Camera: after a connect that failed, `release` closes descriptor 0, which is
  not the camera's (`UVCCamera.cpp:214`); `ClosesOwn` says that this is the only
  case. The status and button callbacks are deleted before the thread that calls
  them ends; `StaleCallWindow` bounds the window. `uvc_close` can miss the event
  thread between its test of `kill_handler_thread` and `libusb_handle_events`,
  and then waits up to 60 s. The flag is never cleared: a device opened again on
  the same context (`Reconnects`) has no event thread. With `Synchronizes =
  TRUE`, a listener that calls a synchronized method of the camera while
  `destroy` runs, `MethodEnds` fails: each waits for the other.
* Controls: `getWhiteBalance` scales with the limits of the focus
  (`UVCCamera.java:677`) and `resetHue` sends the default of the saturation
  (1040); both are modelled and excepted in `ReadsBack` and `ResetsToDefault`.
  A minimum that was answered before the request for the maximum failed is taken
  for known limits and never asked for again: `SentInRange` excepts it.

Further hazards met while reading that no property covers: `startCapture` sets
`mIsCapturing` before `mCaptureWindow` is tested (`UVCPreview.cpp:887`);
`mIsRunning` stays set when streaming cannot be started (584), so that a later
start is ignored; the callback thread never sees the first frame, whose number
is the initial `last_seq` (`stream.c:1636`, modelled in `CheckFrame`);
`register` and the check throw once the monitor is destroyed
(`USBMonitor.java:535`); a block whose `UsbDevice` has been collected cannot be
removed from the table (1362).

### Bounds, and why they are enough

Every bound is a constant named in a `.cfg`.

* `MaxCalls` (API calls, 2 to 5): four calls are start, a swap, stop and one of
  another thread; five allow a second session after the first.
* `MaxStamp` (camera frames, 2): one frame can be in the capture thread while
  the next is queued; two with `MaxFrame = 2` fill the queue. `StopReturns`
  needs none: the hang happens without frames.
* `CapThreads` (2): a capture thread that outlives its stop and the next one.
* `Frames` (4 to 8): in `preview_yuyv` fewer than the engine can want, so that
  `get_frame` returns NULL; in `preview_disciplined` enough, because the code
  does not handle the NULL when it decodes (`DecodeFrame` says so).
* `EarlyStop`, `SwapLive`: `FALSE` restricts the client, never the engine. The
  properties of `preview_disciplined` need a restricted client: an early stop
  leaves a capture thread behind (`UVCPreview.cpp:415`), and a target replaced
  live is used after it is freed (see above).
* `Transfers` (2 or 3 of 5): transfers are interchangeable; two suffice for one
  in its callback while another is in flight or submitted, three for one more
  in any other state.
* `UnplugsAt`, the owner's places at which an unplug can come: nowhere in
  `stream_session`, anywhere in `stream_flow`.
* `MaxSeq` (2 to 4), `MaxOpens` (1 or 2) of the stream: a frame taken, one skipped, one held,
  and one session after another.
* `Parts` (2), `MaxFrames` (5) and `MaxFaults` (4) of the payload: a frame that
  vanishes altogether takes as many faults as it has packets, and mixing needs
  data of the frame before it and of the one after; four leave faults for those,
  and let two frames of one parity vanish around one of the other.
* `MaxOpens` (2), `MaxSets` (2), `Setters` (2), `Listeners` (1) of the camera: a
  connect after a failed one or after a release, two setters for one callback
  object while it is called; null is the second value a setter can pass.
* `Controls` (5 of 10), `Limits`, `Percents`, `MaxCalls` (4), `MaxFails` (1) of
  the controls: the five are those whose methods differ; limits include a
  negative minimum, a range of eight steps and one of 16 bits; percentages lie
  below, within and above the range; four calls are an update, a set and a get
  with one more between.
* `MaxDevices` (2 attachments): the count of the check matters when a camera
  comes after, or beside, another one. Devices and blocks are numbered in the
  order they appear, which loses nothing and saves symmetry.
* `MaxCalls` of the monitor (2 or 3) and `MaxBlocks`: `register` and two more
  calls race with everything Android does; each call opens one block at most and
  `register` none, so the bound on blocks is not met.
* `Keys`: one key for both cameras, as for cameras of a type; a key of each
  camera's own makes the permission count equal to the device count.

Deadlock is not checked: the bounds let every behaviour end.

### Fairness

`FairSpec` of `UVCPreview` assumes that each thread that can take a step takes
it eventually (weak fairness per thread; a thread between two of its steps
stays enabled, and critical sections always end). It obliges neither the application to
call, nor the camera to send, nor a wait to end spuriously. `FairSpec` of
`UVCStream` adds strong fairness for the report of each transfer: libusb
reports every submitted transfer, at the latest after its timeout of 5000 ms,
but one at a time. The owner need not start or stop, the camera need not
complete a frame. `FairSpec` of `USBMonitor` assumes that the main thread, the
application thread inside a call, and the looper run, and that a delayed check
becomes due; cameras, the user and the application's next call are free.
`FairSpec` of `UVCCamera` assumes that the owner, once in a method, and the event
thread run, and that `libusb_handle_events` times out after its 60 s. Fairness of
`connect` is strong: registering a callback needs the handle's `status_mutex`,
which the event thread takes again and again, and a mutex is granted in the end
to a thread that waits for it. The camera need not send messages.

## Proofs

`UVCPreviewProofs` proves for all values of the constants that satisfy
`PreviewAssumption` (any number of clients, threads, buffers, calls, frames):

* `TypeCorrect`: `Spec => []TypeOK`, with the bound of the preview queue;
* `FramesNeverShared`: `Spec => []FramesExclusive`;
* `FramesNeverLeak`: `Spec => []NoFrameLeak`;
* `FramesWithTheirUsers`: `Spec => []LocalFrames`;
* `NoSecondPreviewThread`: `Spec => []OnePreviewThread`;
* `NobodySleepsBesideAFrame`: neither the preview thread nor a capture thread is
  at a wait while a frame is queued for it. This is the safety half of
  `PreviewFrameTaken` and `CaptureFrameTaken`, for any number of API threads that
  wait on the same `capture_sync`.

`FramesExclusive` alone is not inductive: `ConvertForSurface` allocates only when
its slot is empty, `AddPreviewFrame` overwrites a queue entry and other steps
overwrite slots, so a slot's emptiness must be known from the program counter.
That is `LocalFrames`. `NoFrameLeak` is needed because `NextFrame` takes a frame
outside `live`, which must then be in no slot. `TypeOK`'s part for the
argument of a call needs `ArgumentType` (a callback waits to be set only in
`setFrameCallback`), and `OnePreviewThread` needs `MonitorHeld` (which client
is in the monitor, and where the preview thread can be then). Their
conjunction with `ControlType` and the types of the heap is `IInv`. The steps
of the engine touch the heap in few ways: the lemmas about `GetFrame`,
`Recycle` and moving a frame between slot and queue are proved once, and
`HeapStep`, `LocalStep`, `MonitorStep`, `ArgumentStep` and `TypeStep` go
through the actions citing them. `Inductive` puts them together, and the
theorems follow.

`UVCStreamProofs` proves, for any number of transfers, frames and sessions:

* `StreamTypeCorrect`: `Spec => []TypeOK`, without further assumptions;
* `HandleOutlivesUsers`: `Spec => []HandleAlive`;
* `StreamIsFrameSource`: `Spec => SourceSpec`, the refinement.

The last two assume a camera that stays and submissions that succeed
(`UnplugsAt = {}`, `~SubmitFails`), without which they are false. `HandleAlive` speaks
of the time after `free`; the inductive invariant `StreamInv` says what leads up
to it: `Places` (which transfers and which callback thread there can be at each
place of the owner), `EventBusy` (the event thread at work has one transfer in
hand) and `Numbers` (`shown <= frame <= last_seq <= hold_seq <= seq` while there is a
callback thread), which the refinement needs for "newer than the last".

`UVCCameraProofs` proves, for any number of connects, setters and listeners and
every failure: `ConnectIsAllOrNothing`, `ReleaseClosesOwn`, `ThreadsDieFirst`,
`StaleCallsBounded`, `CalledStaysReferenced` and `CameraTypeCorrect`. Its
inductive invariant `CameraInv` has three parts: `Resources` (what is held at
each place of `connect` and `release`: `Unused`, `Found` or `Connected`), `Dying`
(the event thread and the transfer come to rest in the order of `uvc_close`) and
`Callbacks` (registered callbacks are alive outside `release`). That the listener
being called is referenced needs counting: `ReferenceInv` says that a listener
has at least as many global references as callback objects that hold it and
setters about to set it (`Referenced`, with cardinalities), and that the listener
called is the one its callback holds (`Listening`). It is also why `refs` never
becomes negative.

`UVCControlsProofs` proves `CachesNeverDiverge`, `ValuesStayInRange`,
`ResetsSendDefault` and `PercentagesAreReadBack` for any limits of 16 bits, any
percentages and any number of calls and failures. What C++ can know of a
control's limits is one of four records (`Known`: nothing, the minimum, minimum and
maximum, all), and an update never changes what is known; with it, what a setter
sends is a clamp between limits that are in order. For the percentages, `AskedInv`
says that the camera is set to the share of its limits that was asked for
(`Landing`); the lemmas on `Quotient` bound what the two truncations lose on the
way there and back, which is less than one step of a hundred.

`UVCPreviewStopProofs` proves the rest about sessions of the preview engine. Its
theorems assume `~EarlyStop`, that an application lets a session start before it
stops it: without it `stopPreview` joins a capture thread that has not been created
(`UVCPreview.cpp:415`) and they are false.

* `StopInductive`: the invariant `StopInv`. The stream is open exactly while the
  preview thread is in `do_preview` (`StreamHeld`); `mIsRunning` is false
  throughout `stopPreview` (`RunningHeld`); what is stopped has started
  (`StartedFirst`); there is one capture thread, whose handle is stored, and it is
  gone when the preview thread is joined (`OneCapture`); and without a stream the
  queues stay as `stopPreview` left them (`QueuesEmptied`).
* `StoppedQuietHolds`, `StoppedCleanHolds`: from it, for any number of clients. The
  second needs `NoFrameLeak` as well: what is in no queue and in no hand is in the
  pool.
* `TargetInductive`, `TargetsAliveHolds`, `WindowsReferencedHolds`: under
  `Disciplined`, which is `~EarlyStop`, `~SwapLive` and one client. Targets
  replaced while the preview runs are used after they are freed (see the runs).
  `TargetInv` counts references: those of the two fields, and the one a call under
  way holds for its argument (`RefsHeld`).

`UVCPreviewOrderProofs` proves `DeliveredInOrderHolds` and
`DeliveredThisSessionHolds`, again with `~EarlyStop`. `OrderInv` follows a camera
frame through `Copied`, `Queued`, `Previewed`, `Waiting` and `Presented`: each
place holds older frames than the one before it (`Chained`), all newer than what
`onFrame` has seen and than the start of the session (`InSession`). It rests on
`FramesExclusive` (a frame stamped anew is on nobody's way) and on `OneCapture`
(two capture threads could overtake each other). Both theorems are about every
call of `onFrame`: the frame it gets has a later stamp than all before, so no call of
`uvc_preview_frame_callback` reaches `onFrame` twice. That libuvc may itself pass a
damaged stream's frame again (`Repeats` of `FrameSource`) is no matter of the engine,
which gives it a new stamp.

`UVCPayloadProofs` proves the four properties of the payload, for frames of any
number of packets, any number of frames and of faults. Each has an invariant of its
own about the receiver's state and the camera's next part:

* `NeverSplitHolds`: `CutInv`, the data collected are of FID's parity and of no
  later frame than the camera's, those published are of earlier frames than that,
  and no frame is both collected and published, or published twice;
* `MixedOnlyByParityHolds`: `SkipInv`, which counts: data of the other parity while
  the camera is in a frame tells that each part of that frame so far has met a fault;
* `DamageFlaggedHolds`: `WatchInv`, the receiver has the frame up to the next part,
  or all of the frame before, or a hole that `err` tells of. It needs a case
  the property does not show: old data and a frame already begun imply `err`;
* `FaultlessHolds`: `InStepInv`, without faults the receiver keeps up, or is behind
  by one frame where the camera does not mark ends.

`USBMonitorProofs` proves the four safety properties of the monitor, for any number
of devices, blocks and calls and any keys:

* `TypedHolds`, `TypeOKHolds`: types, with what each thread has in its hands at each
  place (`Hands`);
* `CheckAliveHolds`: the check of the device list is waiting, queued or running
  (`Alive`). It needs `Destroying`: only in `destroy` and after it does the looper
  quit, or the check throw;
* `ClosedBlocksLeaveHolds`: `Placed` says who can have a block: the table keeps a
  device's own blocks, a block not yet put into the table is known to its thread
  alone, and threads that close have closed different blocks. Every step of the
  monitor is one of seven effects on blocks (`Effect`), and `StepEffect` says so;
* `OneConnectionHolds`: `Singles`, a device not excepted has one open block, and it
  is the one in the table or about to be put there, or the device is removed. The
  effects rest on `DetachTrue` (the detached intent comes only for a removed device)
  and on `UsedDev` (a block in use has a device).

Constants are assumed to satisfy the module's assumption only
(`PreviewAssumption`, `StreamAssumption`, `PayloadAssumption`, `CameraAssumption`,
`ControlsAssumption`, `MonitorAssumption`), except where said.

So every invariant and action property of the passing runs is proved, and the
refinement of `FrameSource`. Only model-checked: liveness (`PreviewFrameTaken`,
`CaptureFrameTaken`, `StopEnds`, `FrameSeen`, `NoDeviceEnds`, `AttachAnnounced`,
`DetachReported`, `GrantConnects`, `MethodEnds`), whose fairness and ENABLED are
out of the prover's reach, and the two violations, which are single behaviours.

## The plan

1. The safety half of the liveness properties, as an invariant that a run checks
   and a theorem states: that `uvc_close` and the event thread never both wait
   without a message or a timeout to come (`MethodEnds`), and that the callback
   thread of a stream does not wait beside a frame published (`FrameSeen`).
2. The negotiation of a stream (probe and commit, the choice of the alternate
   setting), and `ObjectArray` refined to a sequence.

## Not modelled, and why

Pixels and JPEG (`frame.c`, `frame-mjpeg.c`), the descriptor parser and the JSON
of formats (`Parameters.cpp`) compute without state; `ctrl.c` packs requests,
whose outcomes `UVCControls` has; of the JNI glue only what keeps references or
copies limits is modelled; `diag.c` prints; `DeviceFilter`, `Size` and
`USBVendorId` are value classes and tables; the sample is a client. The pipeline
directory is not compiled. By far most of the repository's native code is
vendored: libusb, libjpeg-turbo, libyuv and rapidjson; the models have their
effects where the code uses them (marked external, but for the timeout of
`libusb_handle_events`, read from `io.c`), and do not
translate them, so the modelled lines are a small share of all lines and most of
the lines of the library itself that keep state across threads or calls.
