----------------------------- MODULE UVCPreview -----------------------------
(***************************************************************************)
(* One UVCPreview object (libUvc_Support/UVC_Camera_Saki/UVCPreview.cpp)   *)
(* from startPreview to the end of stopPreview: the caller's thread, the   *)
(* libuvc thread that runs uvc_preview_frame_callback, the preview thread  *)
(* and the capture thread, with the buffers they pass to one another.      *)
(*                                                                         *)
(* One action is one critical section or one access to an unlocked flag.   *)
(* A frame is the buffer that carries it and the number the camera gave    *)
(* it; pictures' bytes, windows and pixel formats are left out.            *)
(***************************************************************************)
EXTENDS Integers, Sequences, FiniteSets

CONSTANTS
    Buffers,        \* the uvc_frame_t structures memory has room for
    NULL,           \* the null pointer
    MAX_FRAME,      \* capacity of previewFrames
    FRAME_POOL_SZ,  \* capacity of mFramePool
    Mjpeg,          \* frameMode: TRUE for MJPEG, FALSE for YUYV
    MaxSeq,         \* bound: frames the camera delivers
    MaxPictures,    \* bound: calls of capture_picture
    MaxBad          \* bound: frames uvc_mjpeg2yuyv cannot decode

ASSUME BuffersAssumption == IsFiniteSet(Buffers) /\ NULL \notin Buffers
ASSUME FrameAssumption   == NULL \notin [buf : Buffers, seq : Nat]
ASSUME SizesAssumption   == MAX_FRAME \in Nat \ {0} /\ FRAME_POOL_SZ \in Nat \ {0}
ASSUME ModeAssumption    == Mjpeg \in BOOLEAN
ASSUME BoundsAssumption  == MaxSeq \in Nat /\ MaxPictures \in Nat /\ MaxBad \in Nat

VARIABLES
    pc,           \* where each thread stands
    running,      \* mIsRunning
    capturing,    \* mIsCapturing
    picture,      \* mPictureCapturing
    heap,         \* buffers allocated and not yet freed
    pool,         \* mFramePool
    queue,        \* previewFrames
    held,         \* the frame each pointer below holds, or NULL
    seq,          \* number of the last frame the camera delivered
    delivered,    \* number of the last frame onFrame received
    asked,        \* number of capture_picture calls
    owed,         \* capture_picture calls minus onFrame calls
    bad,          \* number of frames that could not be decoded
    late          \* threads that went to wait after mIsRunning was cleared

shared == <<running, capturing, picture>>
memory == <<heap, pool>>
ghosts == <<seq, delivered, asked, owed, bad, late>>
vars == <<pc, shared, memory, queue, held, ghosts>>

Threads == {"app", "stream", "preview", "capture"}
Frame == [buf : Buffers, seq : 1 .. MaxSeq]

(* captureQueu; copy, in uvc_preview_frame_callback; frame_mjpeg (MJPEG) or  *)
(* frame (YUYV), and the decoded frame of the MJPEG loop, in do_preview;     *)
(* converted, in draw_preview_one; frame, in do_capture_callback             *)
Holders == {"captureQueu", "copy", "frame", "decoded", "converted", "captured"}

AppPc == {"new", "ready", "picture", "signal_preview", "signal_capture",
          "join_capture", "join_preview", "clear_queue", "clear_slot",
          "stopped", "aborted"}
StreamPc == {"off", "idle", "copy", "add", "recycle"}
PreviewPc == {"none", "prepare", "open", "clear", "spawn", "loop", "wait",
              "asleep", "woken", "decode", "undecoded", "draw", "drawn",
              "decoded", "route", "add", "drop", "end", "close_stream",
              "exit"}
CapturePc == {"none", "clear", "outer", "inner", "wait", "asleep", "woken",
              "callback", "recycle", "picture", "reset", "exit"}

Init ==
    /\ pc = [app |-> "new", stream |-> "off", preview |-> "none", capture |-> "none"]
    /\ running = FALSE /\ capturing = FALSE /\ picture = FALSE
    /\ heap = {} /\ pool = {}
    /\ queue = <<>>
    /\ held = [h \in Holders |-> NULL]
    /\ seq = 0 /\ delivered = 0 /\ asked = 0 /\ owed = 0 /\ bad = 0
    /\ late = {}

-----------------------------------------------------------------------------
(* The process, the frame pool and the condition variables. *)

(* joining a thread that was never created may end the process *)
Alive == pc.app # "aborted"

Goto(t, label) == pc' = [pc EXCEPT ![t] = label]

(* pthread_cond_signal: thread t leaves the wait if it is in it.  Nobody    *)
(* else waits on preview_sync, and nobody else on capture_sync.             *)
Woken(t) == IF pc[t] = "asleep" THEN "woken" ELSE pc[t]
GotoAndSignal(t, label, other) ==
    pc' = [pc EXCEPT ![t] = label, ![other] = Woken(other)]

(* get_frame: take a pooled buffer, allocate one only when the pool is empty *)
GetFrame(b) ==
    \/ /\ b \in pool
       /\ pool' = pool \ {b}
       /\ UNCHANGED heap
    \/ /\ pool = {}
       /\ b \in Buffers \ heap
       /\ heap' = heap \union {b}
       /\ UNCHANGED pool

(* uvc_allocate_frame may return NULL at any time *)
NoMemory == pool = {}

(* recycle_frame for each buffer of bs: the pool takes what it has room for, *)
(* in some order, and the rest is freed.                                     *)
Recycle(bs) ==
    \E kept \in SUBSET bs :
        /\ kept = bs \/ Cardinality(pool \union kept) = FRAME_POOL_SZ
        /\ Cardinality(pool \union kept) <= FRAME_POOL_SZ
        /\ pool' = pool \union kept
        /\ heap' = heap \ (bs \ kept)

QueuedBuffers == {queue[i].buf : i \in DOMAIN queue}
BufferOf(h) == IF held[h] = NULL THEN {} ELSE {held[h].buf}

(* get_frame into pointer h, for the picture of frame n; and its recycling *)
GetFrameFor(h, n) ==
    \E b \in Buffers :
        /\ GetFrame(b)
        /\ held' = [held EXCEPT ![h] = [buf |-> b, seq |-> n]]

RecycleHeld(h) ==
    /\ Recycle(BufferOf(h))
    /\ held' = [held EXCEPT ![h] = NULL]

(* clearPreviewFrame and clearCaptureFrame, each one critical section *)
ClearQueue == Recycle(QueuedBuffers) /\ queue' = <<>>
ClearSlot  == RecycleHeld("captureQueu")

-----------------------------------------------------------------------------
(* The caller: startPreview, capture_picture and stopPreview.  The app calls *)
(* them one after the other, on an object it uses for one preview.           *)

StartPreview ==
    /\ pc.app = "new"
    /\ running' = TRUE
    /\ pc' = [pc EXCEPT !["app"] = "ready", !["preview"] = "prepare"]
    /\ UNCHANGED <<capturing, picture, memory, queue, held, ghosts>>

(* no window, or pthread_create failed: mIsRunning is put back *)
StartPreviewFails ==
    /\ pc.app = "new"
    /\ running' = FALSE
    /\ Goto("app", "ready")
    /\ UNCHANGED <<capturing, picture, memory, queue, held, ghosts>>

(* capture_picture writes its two flags one after the other *)
CapturePicture ==
    /\ pc.app = "ready"
    /\ asked < MaxPictures
    /\ capturing' = TRUE
    /\ asked' = asked + 1
    /\ owed' = owed + 1
    /\ Goto("app", "picture")
    /\ UNCHANGED <<running, picture, memory, queue, held, seq,
                   delivered, bad, late>>

CapturePictureEnd ==
    /\ pc.app = "picture"
    /\ picture' = TRUE
    /\ Goto("app", "ready")
    /\ UNCHANGED <<running, capturing, memory, queue, held, ghosts>>

StopPreview ==
    /\ pc.app = "ready"
    /\ running' = FALSE
    /\ Goto("app", IF running THEN "signal_preview" ELSE "clear_queue")
    /\ UNCHANGED <<capturing, picture, memory, queue, held, ghosts>>

(* Mutant: the preview thread is not signalled. *)
StopSignalsNobody ==
    /\ pc.app = "signal_preview"
    /\ Goto("app", "signal_capture")
    /\ UNCHANGED <<shared, memory, queue, held, ghosts>>

(* The two signals are sent without the mutexes of the waits they end. *)
StopSignalsPreview ==
    /\ pc.app = "signal_preview"
    /\ GotoAndSignal("app", "signal_capture", "preview")
    /\ UNCHANGED <<shared, memory, queue, held, ghosts>>

StopSignalsCapture ==
    /\ pc.app = "signal_capture"
    /\ GotoAndSignal("app", "join_capture", "capture")
    /\ UNCHANGED <<shared, memory, queue, held, ghosts>>

(* capture_thread is read while the preview thread may not have written it  *)
(* yet: joining what is there then fails at once or ends the process.       *)
StopJoinsCapture ==
    /\ pc.app = "join_capture"
    /\ \/ pc.capture = "exit" /\ Goto("app", "join_preview")
       \/ pc.capture = "none" /\ Goto("app", "join_preview")
       \/ pc.capture = "none" /\ Goto("app", "aborted")
    /\ UNCHANGED <<shared, memory, queue, held, ghosts>>

(* Mutant: the preview thread is not joined. *)
StopForgetsPreview ==
    /\ pc.app = "join_preview"
    /\ Goto("app", "clear_queue")
    /\ UNCHANGED <<shared, memory, queue, held, ghosts>>

StopJoinsPreview ==
    /\ pc.app = "join_preview"
    /\ pc.preview = "exit"
    /\ Goto("app", "clear_queue")
    /\ UNCHANGED <<shared, memory, queue, held, ghosts>>

StopClearsQueue ==
    /\ pc.app = "clear_queue"
    /\ ClearQueue
    /\ Goto("app", "clear_slot")
    /\ UNCHANGED <<shared, held, ghosts>>

StopClearsSlot ==
    /\ pc.app = "clear_slot"
    /\ ClearSlot
    /\ Goto("app", "stopped")
    /\ UNCHANGED <<shared, queue, ghosts>>

Stopping ==
    \/ StopSignalsPreview \/ StopSignalsCapture \/ StopJoinsCapture
    \/ StopJoinsPreview \/ StopClearsQueue \/ StopClearsSlot

Caller ==
    \/ StartPreview \/ StartPreviewFails
    \/ CapturePicture \/ CapturePictureEnd
    \/ StopPreview \/ Stopping

-----------------------------------------------------------------------------
(* The libuvc thread of the stream: uvc_preview_frame_callback.             *)

(* A complete frame is copied only while the preview runs. *)
FrameArrives ==
    /\ Alive
    /\ pc.stream = "idle"
    /\ seq < MaxSeq
    /\ running
    /\ seq' = seq + 1
    /\ Goto("stream", "copy")
    /\ UNCHANGED <<shared, memory, queue, held, delivered, asked, owed,
                   bad, late>>

(* The preview has stopped, or the frame is broken. *)
FrameIgnored ==
    /\ Alive
    /\ pc.stream = "idle"
    /\ seq < MaxSeq
    /\ seq' = seq + 1
    /\ UNCHANGED <<pc, shared, memory, queue, held, delivered, asked,
                   owed, bad, late>>

(* get_frame and uvc_duplicate_frame; a copy that fails is recycled *)
CopyFrame ==
    /\ pc.stream = "copy"
    /\ GetFrameFor("copy", seq)
    /\ Goto("stream", "add") \/ Goto("stream", "recycle")
    /\ UNCHANGED <<shared, queue, ghosts>>

CopyFrameFails ==
    /\ pc.stream = "copy"
    /\ NoMemory
    /\ Goto("stream", "idle")
    /\ UNCHANGED <<shared, memory, queue, held, ghosts>>

(* Mutant: one frame too many. *)
AddOneMorePreviewFrame ==
    /\ pc.stream = "add"
    /\ running /\ Len(queue) <= MAX_FRAME
    /\ queue' = Append(queue, held["copy"])
    /\ held' = [held EXCEPT !["copy"] = NULL]
    /\ GotoAndSignal("stream", "idle", "preview")
    /\ UNCHANGED <<shared, memory, ghosts>>

(* Mutant: the preview thread is not signalled. *)
AddPreviewFrameQuietly ==
    /\ pc.stream = "add"
    /\ running /\ Len(queue) < MAX_FRAME
    /\ queue' = Append(queue, held["copy"])
    /\ held' = [held EXCEPT !["copy"] = NULL]
    /\ Goto("stream", "idle")
    /\ UNCHANGED <<shared, memory, ghosts>>

(* addPreviewFrame *)
AddPreviewFrame ==
    /\ pc.stream = "add"
    /\ running /\ Len(queue) < MAX_FRAME
    /\ queue' = Append(queue, held["copy"])
    /\ held' = [held EXCEPT !["copy"] = NULL]
    /\ GotoAndSignal("stream", "idle", "preview")
    /\ UNCHANGED <<shared, memory, ghosts>>

RefusePreviewFrame ==
    /\ pc.stream = "add"
    /\ ~running \/ Len(queue) >= MAX_FRAME
    /\ Goto("stream", "recycle")
    /\ UNCHANGED <<shared, memory, queue, held, ghosts>>

RecycleRefused ==
    /\ pc.stream = "recycle"
    /\ RecycleHeld("copy")
    /\ Goto("stream", "idle")
    /\ UNCHANGED <<shared, queue, ghosts>>

FrameCallback ==
    /\ Alive
    /\ \/ CopyFrame \/ CopyFrameFails
       \/ AddPreviewFrame \/ RefusePreviewFrame \/ RecycleRefused

-----------------------------------------------------------------------------
(* The preview thread: preview_thread_func, prepare_preview, do_preview.    *)

(* control_TransferUVC; on failure the thread ends and mIsRunning stays set *)
PreparePreview ==
    /\ pc.preview = "prepare"
    /\ Goto("preview", "open") \/ Goto("preview", "exit")
    /\ UNCHANGED <<shared, memory, queue, held, ghosts>>

(* uvc_stream_open_ctrl and uvc_stream_start_random *)
StartStream ==
    /\ pc.preview = "open"
    /\ \/ pc' = [pc EXCEPT !["preview"] = "clear", !["stream"] = "idle"]
       \/ Goto("preview", "exit")
    /\ UNCHANGED <<shared, memory, queue, held, ghosts>>

ClearPreviewFrame ==
    /\ pc.preview = "clear"
    /\ ClearQueue
    /\ Goto("preview", "spawn")
    /\ UNCHANGED <<shared, held, ghosts>>

(* the result of pthread_create is not looked at *)
SpawnCapture ==
    /\ pc.preview = "spawn"
    /\ \/ pc' = [pc EXCEPT !["preview"] = "loop", !["capture"] = "clear"]
       \/ Goto("preview", "loop")
    /\ UNCHANGED <<shared, memory, queue, held, ghosts>>

PreviewLoop ==
    /\ pc.preview = "loop"
    /\ Goto("preview", IF running THEN "wait" ELSE "end")
    /\ UNCHANGED <<shared, memory, queue, held, ghosts>>

Oversleep(t) == late' = IF running THEN late ELSE late \union {t}

(* waitPreviewFrame.  mIsRunning is not looked at before waiting. *)
SleepForPreviewFrame ==
    /\ pc.preview = "wait"
    /\ queue = <<>>
    /\ Goto("preview", "asleep")
    /\ Oversleep("preview")
    /\ UNCHANGED <<shared, memory, queue, held, seq, delivered, asked,
                   owed, bad>>

(* Mutant: the newest frame is taken first, as last() would. *)
TakeNewestPreviewFrame ==
    /\ \/ pc.preview = "wait" /\ queue # <<>>
       \/ pc.preview = "woken"
    /\ running /\ queue # <<>>
    /\ held' = [held EXCEPT !["frame"] = queue[Len(queue)]]
    /\ queue' = SubSeq(queue, 1, Len(queue) - 1)
    /\ Goto("preview", IF Mjpeg THEN "decode" ELSE "draw")
    /\ UNCHANGED <<shared, memory, ghosts>>

TakePreviewFrame ==
    /\ \/ pc.preview = "wait" /\ queue # <<>>
       \/ pc.preview = "woken"
    /\ running /\ queue # <<>>
    /\ held' = [held EXCEPT !["frame"] = Head(queue)]
    /\ queue' = Tail(queue)
    /\ Goto("preview", IF Mjpeg THEN "decode" ELSE "draw")
    /\ UNCHANGED <<shared, memory, ghosts>>

TakeNoPreviewFrame ==
    /\ \/ pc.preview = "wait" /\ queue # <<>>
       \/ pc.preview = "woken"
    /\ ~running \/ queue = <<>>
    /\ Goto("preview", "loop")
    /\ UNCHANGED <<shared, memory, queue, held, ghosts>>

(* uvc_mjpeg2yuyv *)
Decode ==
    /\ pc.preview = "decode"
    /\ GetFrameFor("decoded", held["frame"].seq)
    /\ \/ /\ Goto("preview", "draw")
          /\ UNCHANGED bad
       \/ /\ bad < MaxBad
          /\ bad' = bad + 1
          /\ Goto("preview", "undecoded")
    /\ UNCHANGED <<shared, queue, seq, delivered, asked, owed, late>>

(* Line 748 does not test the result of get_frame: uvc_mjpeg2yuyv writes     *)
(* through the NULL pointer, and the process ends.                          *)
DecodeWithoutBuffer ==
    /\ pc.preview = "decode"
    /\ NoMemory
    /\ Goto("app", "aborted")
    /\ UNCHANGED <<shared, memory, queue, held, ghosts>>

(* Only the output buffer goes back: the compressed frame is dropped. *)
RecycleUndecoded ==
    /\ pc.preview = "undecoded"
    /\ Recycle(BufferOf("decoded"))
    /\ held' = [held EXCEPT !["decoded"] = NULL, !["frame"] = NULL]
    /\ Goto("preview", "loop")
    /\ UNCHANGED <<shared, queue, ghosts>>

AfterDraw == IF Mjpeg THEN "decoded" ELSE "route"

(* draw_preview_one: the picture is converted into a buffer of its own *)
Draw ==
    /\ pc.preview = "draw"
    /\ \/ /\ GetFrameFor("converted", held["frame"].seq)
          /\ Goto("preview", "drawn")
       \/ /\ NoMemory
          /\ Goto("preview", AfterDraw)
          /\ UNCHANGED <<memory, held>>
    /\ UNCHANGED <<shared, queue, ghosts>>

RecycleConverted ==
    /\ pc.preview = "drawn"
    /\ RecycleHeld("converted")
    /\ Goto("preview", AfterDraw)
    /\ UNCHANGED <<shared, queue, ghosts>>

(* Mutant: the commented-out recycle_frame(frame_mjpeg) of line 750. *)
RecycleDecodedAndFrame ==
    /\ pc.preview = "decoded"
    /\ Recycle(BufferOf("decoded") \union BufferOf("frame"))
    /\ held' = [held EXCEPT !["decoded"] = NULL]
    /\ Goto("preview", "route")
    /\ UNCHANGED <<shared, queue, ghosts>>

RecycleDecoded ==
    /\ pc.preview = "decoded"
    /\ RecycleHeld("decoded")
    /\ Goto("preview", "route")
    /\ UNCHANGED <<shared, queue, ghosts>>

(* mIsCapturing decides whether the frame is offered to the capture thread *)
RouteFrame ==
    /\ pc.preview = "route"
    /\ Goto("preview", IF capturing THEN "add" ELSE "drop")
    /\ UNCHANGED <<shared, memory, queue, held, ghosts>>

(* Mutant: the frame it replaces is not recycled. *)
ReplaceCaptureFrame ==
    /\ pc.preview = "add"
    /\ running
    /\ held' = [held EXCEPT !["captureQueu"] = held["frame"], !["frame"] = NULL]
    /\ GotoAndSignal("preview", "loop", "capture")
    /\ UNCHANGED <<shared, memory, queue, ghosts>>

(* addCaptureFrame: keep only the latest one *)
AddCaptureFrame ==
    /\ pc.preview = "add"
    /\ running
    /\ Recycle(BufferOf("captureQueu"))
    /\ held' = [held EXCEPT !["captureQueu"] = held["frame"], !["frame"] = NULL]
    /\ GotoAndSignal("preview", "loop", "capture")
    /\ UNCHANGED <<shared, queue, ghosts>>

(* Once the preview has stopped the frame goes nowhere. *)
AddCaptureFrameTooLate ==
    /\ pc.preview = "add"
    /\ ~running
    /\ held' = [held EXCEPT !["frame"] = NULL]
    /\ Goto("preview", "loop")
    /\ UNCHANGED <<shared, memory, queue, ghosts>>

DropFrame ==
    /\ pc.preview = "drop"
    /\ RecycleHeld("frame")
    /\ Goto("preview", "loop")
    /\ UNCHANGED <<shared, queue, ghosts>>

(* after the loop, capture_sync is signalled without its mutex *)
SignalCapture ==
    /\ pc.preview = "end"
    /\ GotoAndSignal("preview", "close_stream", "capture")
    /\ UNCHANGED <<shared, memory, queue, held, ghosts>>

(* Mutant: the stream is closed under a frame callback. *)
CloseStreamAtOnce ==
    /\ pc.preview = "close_stream"
    /\ pc' = [pc EXCEPT !["preview"] = "exit", !["stream"] = "off"]
    /\ UNCHANGED <<shared, memory, queue, held, ghosts>>

(* uvc_stop_streaming returns when the thread that calls back has ended.    *)
(* Until then a frame may still come, which finds mIsRunning cleared.      *)
CloseStream ==
    /\ pc.preview = "close_stream"
    /\ pc.stream = "idle"
    /\ pc' = [pc EXCEPT !["preview"] = "exit", !["stream"] = "off"]
    /\ UNCHANGED <<shared, memory, queue, held, ghosts>>

PreviewThread ==
    /\ Alive
    /\ \/ PreparePreview \/ StartStream \/ ClearPreviewFrame \/ SpawnCapture
       \/ PreviewLoop
       \/ SleepForPreviewFrame \/ TakePreviewFrame \/ TakeNoPreviewFrame
       \/ Decode \/ DecodeWithoutBuffer \/ RecycleUndecoded \/ Draw \/ RecycleConverted \/ RecycleDecoded
       \/ RouteFrame \/ AddCaptureFrame \/ AddCaptureFrameTooLate \/ DropFrame
       \/ SignalCapture \/ CloseStream

-----------------------------------------------------------------------------
(* The capture thread: do_capture and do_capture_idle_loop.  No capture      *)
(* window is ever set in this app.                                           *)

ClearCaptureFrame ==
    /\ pc.capture = "clear"
    /\ ClearSlot
    /\ Goto("capture", "outer")
    /\ UNCHANGED <<shared, queue, ghosts>>

CaptureLoop ==
    /\ pc.capture = "outer"
    /\ Goto("capture", IF running THEN "inner" ELSE "exit")
    /\ UNCHANGED <<shared, memory, queue, held, ghosts>>

CaptureIdleLoop ==
    /\ pc.capture = "inner"
    /\ Goto("capture", IF running /\ capturing THEN "wait" ELSE "outer")
    /\ UNCHANGED <<shared, memory, queue, held, ghosts>>

(* waitCaptureFrame *)
SleepForCaptureFrame ==
    /\ pc.capture = "wait"
    /\ held["captureQueu"] = NULL
    /\ Goto("capture", "asleep")
    /\ Oversleep("capture")
    /\ UNCHANGED <<shared, memory, queue, held, seq, delivered, asked, owed, bad>>

TakeCaptureFrame ==
    /\ \/ pc.capture = "wait" /\ held["captureQueu"] # NULL
       \/ pc.capture = "woken"
    /\ running /\ held["captureQueu"] # NULL
    /\ held' = [held EXCEPT !["captured"] = held["captureQueu"], !["captureQueu"] = NULL]
    /\ Goto("capture", "callback")
    /\ UNCHANGED <<shared, memory, queue, ghosts>>

TakeNoCaptureFrame ==
    /\ \/ pc.capture = "wait" /\ held["captureQueu"] # NULL
       \/ pc.capture = "woken"
    /\ ~running \/ held["captureQueu"] = NULL
    /\ Goto("capture", "picture")
    /\ UNCHANGED <<shared, memory, queue, held, ghosts>>

(* do_capture_callback: IFrameCallback.onFrame, then the frame is recycled *)
OnFrame ==
    /\ pc.capture = "callback"
    /\ delivered' = held["captured"].seq
    /\ owed' = owed - 1
    /\ Goto("capture", "recycle")
    /\ UNCHANGED <<shared, memory, queue, held, seq, asked, bad, late>>

RecycleCaptured ==
    /\ pc.capture = "recycle"
    /\ RecycleHeld("captured")
    /\ Goto("capture", "picture")
    /\ UNCHANGED <<shared, queue, ghosts>>

(* A picture was asked for: one is enough.  With or without a frame. *)
PictureDone ==
    /\ pc.capture = "picture"
    /\ picture' = FALSE
    /\ Goto("capture", IF picture THEN "reset" ELSE "inner")
    /\ UNCHANGED <<running, capturing, memory, queue, held, ghosts>>

StopCapturing ==
    /\ pc.capture = "reset"
    /\ capturing' = FALSE
    /\ Goto("capture", "inner")
    /\ UNCHANGED <<running, picture, memory, queue, held, ghosts>>

CaptureThread ==
    /\ Alive
    /\ \/ ClearCaptureFrame \/ CaptureLoop \/ CaptureIdleLoop
       \/ SleepForCaptureFrame \/ TakeCaptureFrame \/ TakeNoCaptureFrame
       \/ OnFrame \/ RecycleCaptured \/ PictureDone \/ StopCapturing

(* pthread_cond_wait may return without a signal. *)
SpuriousWakeup(t) ==
    /\ Alive
    /\ pc[t] = "asleep"
    /\ Goto(t, "woken")
    /\ UNCHANGED <<shared, memory, queue, held, ghosts>>

-----------------------------------------------------------------------------
Next ==
    \/ Caller
    \/ FrameArrives \/ FrameIgnored \/ FrameCallback
    \/ PreviewThread
    \/ CaptureThread
    \/ \E t \in {"preview", "capture"} : SpuriousWakeup(t)

Spec == Init /\ [][Next]_vars

(* Every thread that can take a step eventually takes one.  The camera, the *)
(* user and spurious wakeups are not obliged to do anything.                *)
Fairness ==
    /\ WF_vars(Stopping)
    /\ WF_vars(FrameCallback)
    /\ WF_vars(PreviewThread)
    /\ WF_vars(CaptureThread)

FairSpec == Spec /\ Fairness

-----------------------------------------------------------------------------
(* Properties *)

(* Every variable keeps to its type, and no queue grows past its capacity.  *)
TypeOK ==
    /\ pc \in [app : AppPc, stream : StreamPc, preview : PreviewPc, capture : CapturePc]
    /\ running \in BOOLEAN /\ capturing \in BOOLEAN /\ picture \in BOOLEAN
    /\ heap \subseteq Buffers
    /\ pool \subseteq Buffers /\ Cardinality(pool) <= FRAME_POOL_SZ
    /\ queue \in Seq(Frame) /\ Len(queue) <= MAX_FRAME
    /\ held \in [Holders -> Frame \union {NULL}]
    /\ seq \in 0 .. MaxSeq /\ delivered \in 0 .. MaxSeq
    /\ asked \in 0 .. MaxPictures /\ owed \in Int /\ bad \in 0 .. MaxBad
    /\ late \subseteq Threads

Owned == pool \union QueuedBuffers \union UNION {BufferOf(h) : h \in Holders}

(* A buffer is in one place: pooled, queued or held by one pointer, and no  *)
(* freed buffer is in any.  recycle_frame is called once for each frame.    *)
NoSharedBuffer ==
    /\ Owned \subseteq heap
    /\ pool \intersect QueuedBuffers = {}
    /\ \A i, j \in DOMAIN queue : queue[i].buf = queue[j].buf => i = j
    /\ \A h \in Holders : BufferOf(h) \intersect (pool \union QueuedBuffers) = {}
    /\ \A h, g \in Holders : h # g => BufferOf(h) \intersect BufferOf(g) = {}

(* The only buffers lost are one for each frame that could not be decoded,  *)
(* and at most one for the stop.                                            *)
LeakBound ==
    Cardinality(heap \ Owned) <= bad + (IF running THEN 0 ELSE 1)

(* A thread never sleeps on a frame that is there for it: waitPreviewFrame  *)
(* and waitCaptureFrame miss no frame, whatever they miss of a stop.        *)
NoSleepOnFrame ==
    /\ pc.preview = "asleep" => queue = <<>>
    /\ pc.capture = "asleep" => held["captureQueu"] = NULL

(* When stopPreview has returned nothing of the preview moves any more: no  *)
(* frame callback, no preview thread, no frame queued or held.  A capture   *)
(* thread it failed to join has nothing left to deliver.                    *)
StopQuiesces ==
    pc.app = "stopped" =>
        /\ pc.stream = "off" /\ pc.preview \in {"none", "exit"}
        /\ pc.capture \in {"none", "clear", "outer", "exit"}
        /\ queue = <<>> /\ \A h \in Holders : held[h] = NULL

(* The callback receives camera frames in order and each at most once.      *)
Channel == INSTANCE PictureChannel WITH sent <- seq, calls <- asked - owed
DeliversInOrder == Channel!Spec

(* The stream is used as FrameSource offers it.  UvcStream keeps this       *)
(* contract from below.                                                    *)
SourcePhase ==
    IF pc.stream # "off" THEN "on" ELSE IF pc.preview = "exit" THEN "ended" ELSE "off"
Source == INSTANCE FrameSource WITH phase   <- SourcePhase,
                                    calling <- pc.stream \notin {"off", "idle"},
                                    number  <- seq
UsesSource == Source!Spec

(* The preview thread starts once, gives up only before it streams, and a   *)
(* stop that joins it returns when it has ended.  CameraLifecycle knows of  *)
(* a preview no more than this.                                             *)
ObjectThread ==
    CASE pc.preview = "none" -> "none"
      [] pc.preview \in {"prepare", "open"} -> "starting"
      [] pc.preview = "exit" -> "ended"
      [] OTHER -> "streaming"
Stops == pc.app \in {"signal_preview", "signal_capture", "join_capture", "join_preview"}
Object == INSTANCE PreviewObject WITH thread   <- ObjectThread,
                                      stopping <- Stops,
                                      crashed  <- ~Alive
KeepsObjectContract == Object!Spec

(* The three promises together                                              *)
KeepsPromises == DeliversInOrder /\ UsesSource /\ KeepsObjectContract

StopBegun == pc.app \in {"signal_preview", "signal_capture", "join_capture",
                          "join_preview", "clear_queue", "clear_slot"}
StopEnded == pc.app \in {"stopped", "aborted"}

(* stopPreview returns, unless a thread went to wait between the clearing   *)
(* of mIsRunning and the signal meant to wake it.                           *)
StopReturnsUnlessOverslept ==
    StopBegun ~> (StopEnded \/ \E t \in late : pc[t] = "asleep")

(* A frame waiting in previewFrames is taken, or the preview is stopped.    *)
QueueDrains == queue # <<>> ~> (queue = <<>> \/ ~running)

(* README.md:169, PreviewStopStream() - Stop streaming.                     *)
StopReturns == StopBegun ~> StopEnded
=============================================================================
