# UVC camera app: specifications and proofs

TLA+ models of the native streaming core of this Android UVC camera app,
model-checked with TLC and partly proved with TLAPS. Paths are relative to
`src/app/src/main/` of the repository unless they start with `src/`.

## The system

| Component | Where | State it keeps | Operations |
|---|---|---|---|
| MainActivity | `java/.../MainActivity.java` | connection, native pointer, permission and configuration flags | find, request permission, attach/detach, configure on a worker thread, close |
| CameraActivity, UVCCamera | `java/.../CameraActivity.java` | surface, `isStreaming`, `capturePicture` | start when the surface exists, stop, take a picture |
| JNI wrapper | `cpp/libUvc_Support/uvc_jni_wrapper.cpp` | native camera, preview pointer | prepare, start, stop, capture, set values |
| Native session | `cpp/libUvc_Support/libuvc_support.c` | `libusb_Is_initialized`, `cameraDevice_is_wraped`, `camIsOpen` | wrap the file descriptor, negotiate, list |
| UVCPreview | `cpp/libUvc_Support/UVC_Camera_Saki/UVCPreview.cpp` | pool, `previewFrames`, `captureQueu`, `mIsRunning`, `mIsCapturing`, `mPictureCapturing` | start, stop, capture; callback, preview and capture threads |
| libuvc stream | `cpp/libuvc/src/stream.c` | `running`, transfers, hold buffer and its number, user thread | start, transfer callback, stop, close |
| libuvc negotiation | `cpp/libuvc/src/stream.c`, and the control transfers of `libuvc_support.c` | the camera's probe and commit control, altsetting, control blocks, stream list | probe, commit, compare, open, choose the altsetting |
| libuvc payloads | `cpp/libuvc/src/stream.c` | `fid`, `got_bytes`, `bfh_err` | assemble payloads into frames |
| libuvc device, context | `cpp/libuvc/src/device.c`, `init.c` | open devices, event thread | open, claim, release, close |
| libusb, libyuv, libjpeg | `cpp/...` | vendored | environment |

How they interact:

* MainActivity gets a USB file descriptor and hands it to the native session;
  CameraActivity calls the JNI wrapper, which owns one `uvc_camera_t` and, from
  each `PreviewPrepareStream`, one new `UVCPreview`.
* `startPreview` creates the preview thread. That one negotiates, opens and
  starts the libuvc stream, creates the capture thread, draws, and at the end
  closes the stream.
* libuvc has two threads of its own per stream: libusb's event thread runs
  `_uvc_stream_callback` and swaps complete frames into the hold buffer;
  `_uvc_user_caller` copies them and calls `uvc_preview_frame_callback`, which
  copies again into a pooled buffer and queues it in `previewFrames`.
* The preview thread takes from `previewFrames`, decodes, draws, and while
  `mIsCapturing` is set passes the frame to the capture thread through the one
  slot `captureQueu`; the capture thread calls Java's `onFrame`.
* A preview therefore runs on six threads that share flags without locks
  (`mIsRunning`, `mIsCapturing`, `mPictureCapturing`, `running`) and queues
  with locks.

What is hard about it: flags that are cleared outside the mutex of the waits
that look at them, single `pthread_cond_wait` calls where a loop is usual,
buffers handed from thread to thread by pointer, libusb transfers that must all
come home before a handle is freed, a cable that can be pulled at any moment,
and failures half way through starting. The list with line numbers is
`hazards` in `PROJECT.json`.

What makes each component correct:

* UVCPreview - a buffer has one owner; buffers are not lost; a frame wakes the
  thread that waits for it; a stop returns and leaves nothing running; pictures
  come in camera order.
* libuvc stream - stop returns, and only after every transfer and the user
  thread are done; a handle in use is not freed; no broken or repeated frame is
  called back; no frame is missed; a disconnect ends the threads.
* libuvc payloads - a frame's bytes are those between two FID toggles or an
  EOF, never more than the buffer holds.
* libuvc negotiation - a stream runs with the block that was agreed and on the
  altsetting asked for; values said to fit do fit.
* session and activities - a handle is used only between a successful open and
  the close or detach that ends it; every started stream is stopped.

## Modules

| Module | Models |
|---|---|
| `DeviceSession` | MainActivity's receiver, handlers and configuration workers over the flags of `libuvc_support.c` and the device handle |
| `CameraLifecycle` | CameraActivity: surfaces, `initCamera`, `stopStreaming`, over one preview pointer and one stream list |
| `StreamSetup` | negotiation with one camera by workers and preview thread, choice of the altsetting, opening and starting the stream |
| `UVCPreview` | one `UVCPreview` object: four threads, pool, two queues, flags |
| `PictureChannel` | abstract promise of a preview: the callback receives camera frames in order, each at most once |
| `PreviewObject` | abstract promise of a preview to its owner: one thread, ended by a stop, which returns when it has |
| `FrameSource` | abstract promise of a started stream to its user: one callback at a time, no older frame than the last, none after the stop |
| `UvcStream` | one `uvc_stream_handle`: control, event and user thread, transfers, cable |
| `PayloadAssembly` | `_uvc_process_payload` and its isochronous form: payloads to frames |
| `MCDeviceSession`, `MCStreamSetup`, `MCUVCPreview`, `MCUvcStream` | TLC instances and their symmetry; the other two are checked as they are |
| `*_proofs` | theorems about the module of that name; `UVCPreviewOrder_proofs` and `PayloadWhole_proofs` continue `UVCPreview_proofs` and `PayloadAssembly_proofs` |

The modules are layers. Each opens up what the one above takes as a step:

* `DeviceSession` ends where the start button is enabled, and reduces the
  negotiation of a worker to "the values fit or not"; `StreamSetup` opens that up.
* `CameraLifecycle` begins with the button and reduces a preview to its flag, its
  window and its thread, and a stream to being on `devh->streams`. `UVCPreview`
  opens up the preview, `StreamSetup` what its thread does until the transfers are
  submitted, `UvcStream` what follows.
* `StartStream` and `CloseStream` of UVCPreview are `uvc_stream_start_random` and
  `uvc_stop_streaming`, which UvcStream opens up (its control thread is the preview
  thread). The `stream` thread of UVCPreview is the user thread of UvcStream, and
  the body of `UserCallback` there is `FrameCallback` here.
* What UvcStream reduces to "zero or more frames end in a payload" is
  `PayloadAssembly`.

Two joints are contracts, an abstract module that the layer below implements
and the layer above is shown to use:

* `UvcStream` implements `FrameSource` (`KeepsSourceContract`), and every step of
  `UVCPreview` is a step `FrameSource` allows (`UsesSource`).
* `UVCPreview` implements `PreviewObject` (`KeepsObjectContract`), and
  `CameraLifecycle` takes each preview only through steps `PreviewObject` allows
  (`KeepsObjectContract` there), until uses overlap.

So neither layer counts on anything its contract does not say. That a layer also
accepts whatever the other may do by the contract would be a statement about
ENABLED and is by reading: `FrameArrives` and `FrameIgnored` of UVCPreview take any
frame while the stream is on and no callback runs; `StreamBusy`, `OpenStreamFails`
and `StartStreamFails` of CameraLifecycle are `GiveUp`, its `StopStreaming` is
`Finish`.
`Crash` has no counterpart in CameraLifecycle, since the process ends.
Two differences remain. `seq` of UVCPreview numbers callbacks, so a frame that
libuvc hands over twice (`stream_stale`) counts as two there. And UVCPreview takes
a stream that fails to start for one that calls nobody back, while
`SubmitTransferFails` of UvcStream leaves the user thread and the transfers already
submitted going (`cpp/libuvc/src/stream.c:2295-2315`).

The other joints, of StreamSetup, DeviceSession and PayloadAssembly with their
neighbours, are by reading.

### DeviceSession

`plugged`, `attachments`, `permitted`, `asked` are the bus, the permission and the
dialogs; `life`, `device`, `connection`, `ready` the fields of each MainActivity;
`inbox` and `later` the broadcasts and Runnables its main thread has yet to run;
`initialized`, `wrapped`, `open` the three flags of `libuvc_support.c`, which
outlive every activity; `context`, `handleOf` the fields of each activity's
`uvc_camera_t`; `handle`, `fileOf` the device handles and the descriptors they wrap;
`pc`, `call`, `owner`, `fd` the configuration workers.

One `onReceive` or one Runnable is one step of the main thread: nothing else runs
there meanwhile. A worker's step is one test of a flag or one call that changes the
handle, in code order, so that two workers, a detach and a new activity interleave
in every way the code allows. `crash` records a NULL or freed pointer the code
would follow: the process ends there.

Abstractions: `uvc_init2`, setting `libusb_Is_initialized` and the following test of
`cameraDevice_is_wraped` are one step, apart from the test before them, so several
workers may initialise libusb. A worker that tests the flag between `uvc_init2` and
its setting finds what it would have found just before. A camera plugged in again is
a new one, since its device name is new; a handle reaches a camera through its
descriptor's number, so a number used again reaches what it is open on now; all
workers set the same native values; `openDevice` gives null only for a camera that
is gone.

### CameraLifecycle

`surface`, `streaming`, `found`, `connection` are the fields of each CameraActivity;
`opened` the connections nobody has closed; `main` what the main thread is in the
middle of (a join, then the rest of `stopStreaming`); `init`, `owner` the runs of
`initCamera`; `pointer` the one `preview_pointer`; `running`, `window`, `thread` each
`UVCPreview` object; `listed` the streams on `devh->streams`. `refused` and
`overlapped` are history variables: somebody was refused as busy; a surface was
created while another was in use or lost while its `initCamera` ran.

While the main thread joins a preview thread nothing else runs on it. `initCamera`
is one step per call that touches shared state. Each run of it makes one preview
object, so both have one number. `finish()` in a run that gives up is the system's
choice to destroy an activity some time.

`uvc_stream_open_ctrl` tests the list at its beginning (`TestStreams`, `StreamBusy`)
and appends to it at its end (`AppendStream`), with the claim and a USB transfer in
between and no lock: two preview threads can both find it empty. What others have
appended may be lost when two appends meet. `uvc_stop_streaming` is one step, since
it has an effect on others only where two streams are listed.

The model ends where the code's behaviour is undefined (`Undefined`): a preview is
started again while its last thread has not ended, so two threads work on one object
(`"twice"`), or a thread is about to start a stream that another has closed and freed
(`"freed"`). Neither happens as long as uses do not overlap (theorem
`NothingUndefined`).

### StreamSetup

`pc` and `buffer` are the workers in `initStreamingParms` with the handle open;
`probed` and `final` the two arrays all workers share; `probe`, `commit`, `alt` the
camera's two controls and its altsetting, `interface` the bytes per packet of its
altsettings; `preview`, `ctrl`, `altsetting`, `listed` the preview thread, its
control block, the altsetting it looks at, and whether its stream is listed. Who
committed and who selected last, which workers got no answer and whether workers
overlapped are history.

A control block has the four fields somebody looks at: `compareStreamingParmsValues`
compares `sizeof` of a parameter, that is the first 4 or 8 (`PointerBytes`) of 12
bytes. A transfer may fail, and a failed GET may have filled the first fields of
the buffer; a worker's failed transfers are only logged, so it goes on. The camera
is free: it keeps a block it supports and answers another with any it supports.
The preview thread commits before it probes, as `control_TransferUVC` does, and
every failure after the opening leaves the stream listed. The altsettings are an
array, its index their number; one without a choice is bulk. Claiming an interface
has no state here, the kernel may or may not reset the altsetting on release, one
preview negotiates at a time, and a worker's buffer is blanked when it ends, since
nobody can look at it then.

### UVCPreview

`pc` says where the threads `app` (caller), `stream` (libuvc's user thread),
`preview` and `capture` stand. `running`, `capturing`, `picture` are the three
flags; `heap` is the set of allocated `uvc_frame_t`, `pool` is `mFramePool`,
`queue` is `previewFrames`, `held` maps each pointer of the code (`captureQueu`,
`copy`, `frame`, `decoded`, `converted`, `captured`) to the frame it holds.
`seq`, `delivered`, `asked`, `owed`, `bad`, `late` are history variables that
guard nothing but the bounds. An action is one critical section or one access
to an unlocked flag, in code order; `pthread_cond_wait` is three (fall asleep,
be signalled or wake spuriously, go on), and a thread that leaves a wait goes on
without testing the queue again, as the code does.

Abstractions: frame contents, formats and windows; `uvc_allocate_frame` may fail
whenever it is called, and must fail when `Buffers` is used up; a decode fails at
most `MaxBad` times. Closing the stream is one step, which waits for the callback
under way; until then frames may come, and find `mIsRunning` cleared
(`_uvc_user_caller` may begin a callback after `uvc_stream_stop` has cleared
`running`). In the MJPEG loop a failed `get_frame` before
`uvc_mjpeg2yuyv` (line 748) is passed on as NULL and written through: the process
ends (`aborted`). Joining a `capture_thread` that was never created is a choice of
failing at once or ending the process (`aborted`), since the variable is
uninitialised. Because the app makes a new object for each preview, the model ends
at `stopped`; what a second start on the old object can do is in CameraLifecycle.

### UvcStream

`pc` holds the `control`, `events` and `user` threads; `xfer` the state of each
entry of `transfers_random`; `event` the callback under way; `seq`, `hold`,
`lastSeq`, `frame` the numbers and error mark of the frames; `present` the
cable. `noticed` and `stopped` are history variables. `orphan` is a transfer
whose `libusb_submit_transfer` failed in the callback: its array entry stays.
libusb is the environment: a transfer in flight ends as completed, retried,
error, cancelled or no_device as `StatusOf` lists; without the device all of
them end. Parsing a payload is reduced to "zero or more frames end in it".
After `uvc_stream_close` has freed the handle the model stops: what the other
threads do with it then is undefined, and `ClosedIsQuiet` asks whether there
are any.

### PayloadAssembly

What UvcStream reduces to "zero or more frames end in it". `strmh` has the
fields of the stream handle the two functions work on; `swapped` lists all that
`_uvc_swap_buffers` ever put into the hold buffer. The functions are written as
the steps they share (`Toggle`, `Store`, `EndFrame`) and what the
endpoint (`isochronous`) makes different: a lost packet has a status and marks the
frame, while a failed bulk transfer is just retried; the error bit skips an
isochronous packet and is ignored in bulk; a bogus packet's header is evaluated or
not; EOF needs data in the buffer or in the payload; a full buffer fails an
assertion (the process ends, `aborted`) or drops the payload with a mark. What a
build without assertions does there is not modelled. The environment is a camera that sends `Parts`
payloads per frame with toggling FID, with EOF or without, headers alone in
between, and a stream that may be joined in the middle of a frame. A payload is
one unit of buffer; `Size` counts in these.

## Runs

| Run | Configuration | Result |
|---|---|---|
| `session_safe` | 2 MainActivities, 2 cameras one after the other, 2 handles, 2 workers, 2 descriptors, until a `uvc_open` fails or a second camera meets two handles | four invariants and `ClosesOnlyWhenGone` hold |
| `session_recreate` | 2 MainActivities, 1 camera | `NoNullHandle` violated |
| `setup_safe` | 2 workers, 2 previews, four kinds of interface, 3 blocks the camera supports | four invariants hold |
| `lifecycle_safe` | 3 CameraActivities, 3 previews, the cable pulled at any moment, fairness, until uses overlap | five invariants hold; each preview is used as `PreviewObject` allows and a stop returns |
| `lifecycle_surface` | 1 CameraActivity | `NoPreviewWithoutSurface` violated |
| `preview_mjpeg` | MJPEG, 2 queued frames, pool of 2, 6 buffers, 3 camera frames, 1 picture, 1 undecodable frame | five invariants hold; the preview implements `PictureChannel` and `PreviewObject` and uses the stream as `FrameSource` |
| `preview_live` | YUYV, queue of 1, pool of 2, 3 buffers, 2 frames, fairness | a stop returns unless a thread overslept; queued frames are taken |
| `preview_stop` | the same | `StopReturns` violated |
| `stream_safe` | 3 transfers, 3 frames, the cable pulled at any moment, fairness | four invariants hold; the stream implements `FrameSource`; a stop returns unless a transfer is orphaned; a disconnect ends the user thread |
| `stream_close` | 2 transfers, 2 frames | `ClosedIsQuiet` violated |
| `stream_stale` | 2 transfers, 3 frames | `CallbackFrameIsNew` violated |
| `payload_all` | both endpoints, with EOF and without, 4 frames of 3 payloads, buffer of 5, all faults | type and size; no holes; order, between frames and within them; whole frames handed over |

Deadlock is not checked: a preview and a stream end for good, activities,
previews, workers and frames run out, and a crash ends the process.

### Bounds

* Session: two activities are what it takes for flags and handle to disagree, two
  cameras for an answer or a detach that comes too late, two workers for a race on
  the flags, two descriptors for a connection that is replaced. `MaxAsk`,
  `MaxInbox` and `MaxPosts` are 1: what they bound are messages to one thread, and
  with two activities two broadcasts and two owners of a Runnable still meet. The
  exploration ends where a `uvc_open` has failed, as the first two properties except
  it and the others are about what workers do not touch, and where a second camera
  meets two handles, since two handles need a race of the workers and a second camera
  one of the broadcasts, and each is explored without the other. The
  theorems have none of these bounds but a positive one. Workers and descriptors are
  interchangeable.
* Setup: a worker that overlaps another, a worker during a preview, a second preview
  after a failed first. The camera has what the app asks for, and blocks that differ
  from it where the comparison looks (frame) and where it does not (interval, payload
  size), one of them without a payload size. The interfaces are a bulk one, one with
  the app's packet size in the middle, one without it, and one whose last altsetting
  is empty. Workers are interchangeable.
* Lifecycle: three activities and three previews give a preview after a stop, after a
  failed start and after both. The exploration ends where uses overlap
  (`UntilOverlapped`): every property of the run but `TypeOK` excepts that, and what
  has overlapped stays so (`overlapped` is never cleared), so nothing is left to
  check behind it, of the temporal properties neither. `TypeOK` is proved without it.
  `lifecycle_surface` has no such bound.
* Preview: `MaxSeq`, `MaxPictures` and `MaxBad` bound the camera, the user and the
  decoder, `Buffers` the memory. Three frames fill a queue of two and overtake it, so
  both the refusal at `MAX_FRAME` and the freeing at `FRAME_POOL_SZ` happen; six
  buffers are enough for every pointer, queue and pool to be full at once, three
  make the bound itself bite. Sizes 4 and 2 of the code are not needed for either.
  Frames have numbers in the order they arrive.
* Stream: three transfers give one in its callback, one in flight and one deleted at
  the same time, three frames a good one after a broken one. No symmetry, since two
  of the properties are temporal.
* Payloads: four frames of three payloads let frames 1 and 3, or 2 and 4, which have
  the same FID, run together and reach the end of a buffer of five.

### What holds

* `NativeUseIsSafe`, `ReadyMeansOpened` - with one activity and no failed
  `uvc_open`, no worker uses a handle that is not there, and the start button is
  enabled only after one was opened: neither the `(int) NULL` that
  `initStreamingParms` returns when wrapping fails nor the unlocked flags break this.
* `ConnectionsAreOpen`, `ClosesOnlyWhenGone` - a connection that is not null is open
  and not shared, and the one to the camera that is plugged in is dropped only with
  its activity, or on a permission that comes for another camera.
* `ReadyMeansAgreed` - a worker that says the values fit is right about what the
  camera has committed, in the fields it compares, unless workers overlapped, the
  probe was not answered or somebody else committed since. Every exception is needed.
* `StreamsAsAgreed`, `StreamsOnMatch` - until a worker interferes, a stream runs with
  the block its handle has, on the first altsetting of the app's packet size or on
  the last, and never on an empty one.
* `StopClosesOwnStreamUnlessOverlapped`, `BusyIsExplained` - although
  `uvc_stop_streaming` closes all streams of the handle, a preview closes its own only
  as long as uses do not overlap; the camera is refused as busy only after overlapping
  uses or a start that failed.
* `NoPreviewWithoutSurfaceUnlessOverlapped`, `ConnectionsClosed`,
  `StopReturnsUnlessOverlapped` - as long as uses do not overlap, a preview does not
  outlive its surface, a destroyed activity leaves no connection, and the main thread
  does not hang in `stopStreaming`.
* `NoSharedBuffer`, `LeakBound` - a frame buffer has one owner, and the buffers
  nobody owns are no more than the frames that could not be decoded and one that a
  stop caught.
* `NoSleepOnFrame`, `QueueDrains` - no thread sleeps while there is a frame for it,
  and what is queued is taken.
* `StopQuiesces` - a stop that has returned leaves no thread and no stream.
* `KeepsPromises` - pictures come in camera order and each at most once
  (`DeliversInOrder`); the stream is used as libuvc offers it (`UsesSource`); the
  preview thread starts once, gives up only before it streams, otherwise ends after
  `mIsRunning` was cleared, and a stop returns only then (`KeepsObjectContract`).
* `KeepsSourceContract` of UvcStream, `KeepsObjectContract` of CameraLifecycle - the
  other halves of the two contracts.
* `StopWaitsForAll`, `StopReturnsUnlessOrphan`, `DisconnectEndsUser`,
  `CallbackFrameIsGood` - `uvc_stream_stop` returns only when nothing uses the handle
  any more, and does return unless a transfer is orphaned; a disconnect ends the user
  thread; a broken frame is not called back.
* `GoodFrameHasNoHole`, `FramesInOrder`, `WholeFrameIsPublished` - a frame handed over
  without the error mark has no hole (isochronous, no error bits); frames, and the
  payloads in each, keep their order; a frame that arrives whole after the end of the one before is handed over.

### What the violated properties show

* `NoNullHandle` - `cameraDevice_is_wraped` and `camIsOpen` outlive the activity,
  the handle does not: the second MainActivity of a process skips wrapping and uses a
  `camera_deviceHandle` that is NULL.
* `NoPreviewWithoutSurface` - `isStreaming` is set after `PreviewStartStream` has
  returned; a surface destroyed before that leaves a preview drawing on it that
  nobody stops.
* `StopReturns` (UVCPreview) - `stopPreview` clears `mIsRunning` and signals
  without the mutexes of the waits. A preview or capture thread between its
  test of `mIsRunning` and `pthread_cond_wait` misses the signal, and no frame
  will come to wake it: the join, and the UI thread with it, hangs.
  `StopReturnsUnlessOverslept` shows that this is the only way.
* `ClosedIsQuiet` - `LIBUSB_TRANSFER_NO_DEVICE` clears `running`, and
  `uvc_stream_close` then skips `uvc_stream_stop` and frees the handle under the
  user thread and the remaining transfers.
* `CallbackFrameIsNew` - `_uvc_user_caller` skips copying a broken frame, but
  tests `hold_bfh_err` again after the unlock: a good frame swapped in meanwhile
  makes it call back with the frame before.

Known limits that show as exceptions in the properties that hold: a resubmission
that fails leaves a transfer nobody will ever delete (`StopReturnsUnlessOrphan`);
`last_seq` starts with 0, the number of the first frame, which may be slept on
(`NoSleepOnFrame`); `_uvc_process_payload_iso` skips a packet with the error bit and
marks nothing, and the mark of a lost first packet lands on the frame before
(`GoodFrameHasNoHole` therefore speaks of no error bits, and of frames from some
payload on); values are said to fit although the interval is never compared and
nothing may have been answered (`ReadyMeansAgreed`); the comment at
`cpp/libuvc/src/stream.c:2153` promises an altsetting "at least as big" as the
endpoint wants, the loop takes an equal one or the last (`StreamsOnMatch`). One
request for a picture may yield two: `capture_picture` sets `mIsCapturing` before
`mPictureCapturing`, and no property counts them. Two previews of overlapped
uses that open together are both listed, and `uvc_stop_streaming` of the first closes
and frees the other's stream (`StopClosesOwnStreamUnlessOverlapped`).

### Fairness

Four runs assume fairness, each that a thread which can take a step takes one: the
Android scheduler runs every thread, and no lock is held for ever.

* `FairSpec` of UVCPreview: the native threads, and a stop once begun goes on.
  Nothing is assumed of the camera, the user or spurious wakeups. Negotiation is a
  step there, so a camera that never answers a control transfer (their timeout is 0)
  is assumed away.
* `FairSpec` of UvcStream: libuvc's threads. That the event thread always gets to
  complete a transfer is justified by libusb, which reports every transfer in
  flight, at the latest when the device is gone. Nobody is obliged to close the
  stream or to pull the cable.
* `FairSpec` of CameraLifecycle: each run of `initCamera`, each preview thread, and
  the main thread within a `stopStreaming` it has begun. Surfaces, activities and the
  cable owe nothing. That a preview thread can always step once `mIsRunning` is clear
  is what `StopReturnsUnlessOverslept` and `StopReturnsUnlessOrphan` say of the
  layers below, with their exceptions.

## Proofs

For any constants, from the named assumptions of the modules only:

| Theorem | Statement |
|---|---|
| `DeviceSession_proofs!TypeCorrect` | `Spec => []TypeOK` |
| `DeviceSession_proofs!SafeUse` | `Spec => []NativeUseIsSafe` |
| `DeviceSession_proofs!ReadyOpened` | `Spec => []ReadyMeansOpened` |
| `DeviceSession_proofs!OpenConnections` | `Spec => []ConnectionsAreOpen` |
| `DeviceSession_proofs!ClosesRightly` | `Spec => ClosesOnlyWhenGone` |
| `CameraLifecycle_proofs!TypeCorrect` | `Spec => []TypeOK` |
| `CameraLifecycle_proofs!OwnStream` | `Spec => []StopClosesOwnStreamUnlessOverlapped` |
| `CameraLifecycle_proofs!SurfaceKept` | `Spec => []NoPreviewWithoutSurfaceUnlessOverlapped` |
| `CameraLifecycle_proofs!BusyExplained` | `Spec => []BusyIsExplained` |
| `CameraLifecycle_proofs!AllClosed` | `Spec => []ConnectionsClosed` |
| `CameraLifecycle_proofs!NothingUndefined` | without overlap no preview object ever has two threads, and none starts a stream that was freed |
| `CameraLifecycle_proofs!PreviewsAreUsedAsPromised` | `Spec => KeepsObjectContract`, each preview's use of `PreviewObject` |
| `CameraLifecycle_proofs!StopNeverStuck` | without overlap, the thread a stop joins has ended or has a step to take |
| `StreamSetup_proofs!TypeCorrect` | `Spec => []TypeOK` |
| `StreamSetup_proofs!StreamsWithItsBlock` | `Spec => []StreamsAsAgreed` |
| `StreamSetup_proofs!StreamsOnItsAltsetting` | `Spec => []StreamsOnMatch` |
| `StreamSetup_proofs!ReadyAgrees` | `Spec => []ReadyMeansAgreed` |
| `UVCPreview_proofs!TypeCorrect` | `Spec => []TypeOK` |
| `UVCPreview_proofs!NoFrameSleptOn` | `Spec => []NoSleepOnFrame` |
| `UVCPreview_proofs!BuffersNotShared` | `Spec => []NoSharedBuffer` |
| `UVCPreviewOrder_proofs!StopLeavesNothing` | `Spec => []StopQuiesces` |
| `UVCPreviewOrder_proofs!FewBuffersLost` | `Spec => []LeakBound` |
| `UVCPreviewOrder_proofs!ImplementsChannel` | `Spec => DeliversInOrder`, the specification of `PictureChannel` |
| `UVCPreviewOrder_proofs!StreamIsUsedAsPromised` | `Spec => UsesSource`, the specification of `FrameSource` |
| `UVCPreviewOrder_proofs!ImplementsObject` | `Spec => KeepsObjectContract`, the specification of `PreviewObject` |
| `UVCPreviewOrder_proofs!PromisesKept` | `Spec => KeepsPromises`, the three together |
| `UVCPreviewOrder_proofs!StopNeverStuck` | the thread a stop joins has ended, has a step to take, waits for one that has, or overslept |
| `UvcStream_proofs!TypeCorrect` | `Spec => []TypeOK` |
| `UvcStream_proofs!StopWaits` | `Spec => []StopWaitsForAll` |
| `UvcStream_proofs!NoFrameSleptOn` | `Spec => []NoSleepOnFrame` |
| `UvcStream_proofs!GoodCallbacks` | `Spec => []CallbackFrameIsGood` |
| `UvcStream_proofs!ImplementsSource` | `Spec => KeepsSourceContract`, the specification of `FrameSource` |
| `UvcStream_proofs!StopNeverStuck` | what `uvc_stream_stop` waits for has a step to take, unless a transfer is orphaned |
| `UvcStream_proofs!PluggedCloseIsQuiet` | a handle freed while the camera is plugged in is used by nobody |
| `PayloadAssembly_proofs!TypeCorrect` | `Spec => []TypeOK` |
| `PayloadAssembly_proofs!NoHoles` | `Spec => []GoodFrameHasNoHole` |
| `PayloadAssembly_proofs!OrderKept` | `Spec => []FramesInOrder` |
| `PayloadWhole_proofs!WholeFrames` | `Spec => []WholeFrameIsPublished` |

* DeviceSession. `SessionInv` carries the first two properties: whatever is posted,
  received or run is of an activity that was created (`Launched`), so with one
  activity all workers share one `uvc_camera_t`; the flag then says that this one
  has a handle, and who is past the flag has seen it set (`HandleInv`); a Runnable
  that will enable the button is as good as the button (`ReadyInv`). `ClosingInv`
  carries the others: cameras are numbered as they come, so a detach that is heard
  is of a camera that is gone (`PlugInv`), and a connection is to `cameraDevice` or an
  earlier camera (`Earlier`), so closing the connection of another camera than the
  one asked for closes the plugged one only after a late permission.
* CameraLifecycle. `IInv` says: uses have overlapped, or `Alone` holds. Without
  overlap one surface, one run and one activity belong together (`OneUse`); a run is
  as far with its object as its place says (`Progress`); a live thread is answered
  for by its run, the flag of its activity, or the main thread that joins it
  (`ActiveIsOwned`, `StreamingHasSurface`, `StopIsCurrent`); connections and the stream
  list follow (`OpenedIsConnected`, `ListedIsThere`). Only together are they
  inductive. The test of the stream list does not by itself bar a second stream, since
  the append comes later: it takes the rest of `Alone`, by which only one preview
  thread is live at a time (lemma `AloneThreadMoves`), to have the list hold the
  stream of that thread and no other.
  For the contract, a preview that runs or is being joined must have been given a
  thread (`BegunInv`), and a stop must take at most one preview from running to
  joined (lemma `StopsOne`). `StopNeverStuck` adds `JoinedInv`: nobody sets
  `mIsRunning` of the preview that is being joined, which is false once uses overlap.
* StreamSetup. A block the camera answered is one it supports, so it keeps it when
  it is committed (`AgreedInv`). The search has passed no altsetting that matches
  (`MatchInv`). Workers that do not overlap have the arrays to themselves
  (`AloneInv`); what such a worker was answered then stays in the array and, as long
  as it is the last to commit, in the camera (`ReadyInv`).
* UVCPreview. `TypeOK` needs `HolderInv`: the pointer a thread is about to use is not
  NULL. The capacity of the pool follows from lemmas on `get_frame` and
  `recycle_frame`. `NoSharedBuffer` is proved from `OneOwner`, the same fact stated
  pointer by pointer. Two lemmas carry it: `get_frame` returns a buffer nobody uses,
  and `recycle_frame` ends the use of the buffers it is given and of no other.
* UVCPreviewOrder. `StoppedInv` says which threads can be where together, and that
  a pointer holds a frame only while its thread works on it; when all have ended, it
  is `StopQuiesces`. `LostInv` counts: the buffers nothing refers to, and the one a
  failed decode is about to lose, are no more than the failed decodes and one for the
  end of the preview. `OrderInv` puts pointers and queue in one line from the callback
  to the camera with growing numbers; a delivery takes its head, which is a step of
  `PictureChannel`, and every other step is a stutter.
  `DriveInv` follows the signals of a stop: after the signal to a thread, that
  thread is asleep only if it went to wait since `mIsRunning` was cleared, that is, if
  it is in `late`. With it, `StopNeverStuck` is what `StopReturnsUnlessOverslept` says
  at each moment. The contracts need besides that the preview thread leaves its loop
  only with `mIsRunning` cleared, which nobody sets again (`FinishInv`); all work on
  frames is then a stutter of both (lemmas `PreviewWork`, `CaptureWork`), and the few
  steps that open, close, start, stop and call back are taken one by one.
* UvcStream. `StopWaitsForAll` is not inductive: `StopInv` adds that a transfer in its
  callback still has its array entry, so an array of NULLs means an idle event
  thread, and that only starting the stream fills the array again. `NoSleepOnFrame`
  needs the order of the three numbers (`lastSeq <= hold.seq < seq`): a frame swapped
  in then differs from the last one seen, except number 0. `ImplementsSource` needs that what
  is called back was held before (`FrameIsOld`) and that a stop that has returned is
  quiet (`StopInv`). `StopNeverStuck` rests on `DriveInv`: the stop waits only while an
  array entry is left, since each deletion broadcasts; a transfer in its callback is
  the one the event thread is at; and the broadcast before the join has woken the
  user thread. `PluggedCloseIsQuiet` states when the comment that `ClosedIsQuiet`
  quotes is right: with the camera there nothing but a stop clears `running`
  (`PluggedInv`).
* PayloadAssembly. `GoodFrameHasNoHole` needs `HoleInv`, which holds on an isochronous
  endpoint until a packet has the error bit: while no error is marked the buffer is
  empty or a run of payloads of one frame that ends just before the payload the
  camera sends next, and `fid` is that frame's. So a flip of FID finds the run
  complete, and a payload stored continues it. One lemma per step of the code
  (`ToggleGood`, `StoreGood`, `EndFrameGood`) carries this, and `RunGrows` is the
  fact about sequences beneath. `FramesInOrder` needs `Ordered`: all that was stored
  comes before the payload sent next, all that was swapped before the buffer; and the buffer, and each
  frame swapped out of it, ascends (`Ascending`, `FramesAscend`).
* PayloadWhole. `WholeInv` has one part for each place the camera may be at. Before a
  frame whose predecessor ended well, the buffer is empty and unmarked or will be
  swapped out (`AtStart`); within a frame that arrived so far, it holds just that
  (`InFrame`); after one from a camera without EOF, it still does or has been handed
  over (`AfterEnd`). `ArrivedBefore` makes a payload that goes missing end all three,
  and the last payload to arrive the one that completes the frame.

Only model-checked: the liveness properties (`StopReturnsUnlessOverlapped`,
`StopReturnsUnlessOverslept`, `QueueDrains`, `StopReturnsUnlessOrphan`,
`DisconnectEndsUser`), which are out of the prover's reach. For the three about stops
the safety part is proved (`StopNeverStuck` of each layer): no state is a deadlock of
the stop and those it waits for, outside the exception each names. What TLC adds on
small instances is that with fairness those steps are taken and come to an end.
Every invariant, action property and refinement of a passing run is proved.

## Not modelled

* Pixels, codecs, conversions, logging and descriptor parsing: straight-line
  arithmetic, reduced to success or failure where control depends on it.
* `libuvc/src/ctrl.c`, `ctrl-gen.c` and `diag.c`: single control requests and printing,
  not used while streaming.
* `uvc_support.cpp` and the `*_original.c` files, which are not compiled, and the entry
  points of the earlier JNA app, which nothing calls; the test and automatic modes,
  the capture window and movie capture of UVCPreview, which the app never enables.
  `setFrameCallback` and `setPreviewDisplay` run before the threads exist.
* MainActivity's choice of format, frame, interval and packet size: its first attempt
  always reports success, so the rest of the search is never run and the values are
  constants of the models.
* `uvc_close` and `uvc_exit`, which the app never calls.
* Timestamps, iSight headers and the clearing of an endpoint's halt in the payload
  functions; builds without assertions.
* libusb, libyuv and libjpeg are vendored, and most of the lines under
  `src/app/src/main/cpp/`. libusb enters as the environment.

## What is left

1. Contracts for the joints of StreamSetup, DeviceSession and PayloadAssembly like
   the two there are; a stream whose start fails half way, as UVCPreview sees it.
2. Several previews at a time in StreamSetup, which CameraLifecycle shows to be
   possible once uses overlap.
3. The control transfers' missing timeout, if the code gets one.
