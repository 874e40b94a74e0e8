------------------------ MODULE UVCPreviewOrder_proofs -----------------------
(***************************************************************************)
(* More about UVCPreview for any number of buffers, frames and pictures:   *)
(* what a finished stop leaves behind, how many buffers can be lost, and   *)
(* that the preview implements PictureChannel.                             *)
(***************************************************************************)
EXTENDS UVCPreview_proofs

-----------------------------------------------------------------------------
(* Which threads can be where together. *)

BeforeStop == {"new", "ready", "picture"}
Joined == {"clear_queue", "clear_slot", "stopped"}

(* The preview thread owns the stream and starts the capture thread; the   *)
(* caller stops for good.                                                  *)
ThreadsInv ==
    /\ pc.preview \in {"none", "prepare", "open", "exit"} => pc.stream = "off"
    /\ pc.preview \in {"none", "prepare", "open", "clear", "spawn"} => pc.capture = "none"
    /\ pc.app = "new" => pc.preview = "none"
    /\ pc.app \notin BeforeStop \cup {"aborted"} => ~running
    /\ pc.app \in {"ready", "picture"} /\ ~running => pc.preview = "none"
    /\ pc.app \in Joined => pc.preview \in {"none", "exit"}
    /\ pc.app \in Joined \cup {"join_preview"} =>
          pc.capture \in {"none", "clear", "outer", "exit"}

(* A pointer holds a frame only while its thread works on it. *)
PointersInv ==
    /\ held["copy"] # NULL => pc.stream \in {"add", "recycle"}
    /\ held["frame"] # NULL => pc.preview \in {"decode", "undecoded", "draw", "drawn",
                                              "decoded", "route", "add", "drop"}
    /\ pc.preview = "decode" => Mjpeg
    /\ held["decoded"] # NULL => Mjpeg /\ pc.preview \in {"undecoded", "draw", "drawn", "decoded"}
    /\ held["converted"] # NULL => pc.preview = "drawn"
    /\ held["captured"] # NULL => pc.capture \in {"callback", "recycle"}

ClearedInv ==
    /\ pc.app \in {"clear_slot", "stopped"} => queue = <<>>
    /\ pc.app = "stopped" => held["captureQueu"] = NULL

StoppedInv == ThreadsInv /\ PointersInv /\ ClearedInv

LEMMA ThreadsNext == TypeInv /\ ThreadsInv /\ [Next]_vars => ThreadsInv'
<1> SUFFICES ASSUME TypeInv, ThreadsInv, [Next]_vars PROVE ThreadsInv'
  OBVIOUS
<1>0. pc \in PcType /\ running \in BOOLEAN
  BY DEF TypeInv, TypeOK, PcType
<1> USE DEF PcType, ThreadsInv, BeforeStop, Joined, shared, Goto, GotoAndSignal, Woken
<1>1. CASE Caller
  <2>1. CASE StartPreview \/ StartPreviewFails \/ StopPreview
    BY <1>0, <2>1 DEF StartPreview, StartPreviewFails, StopPreview
  <2>2. CASE CapturePicture \/ CapturePictureEnd
    BY <1>0, <2>2 DEF CapturePicture, CapturePictureEnd
  <2>3. CASE StopSignalsPreview \/ StopSignalsCapture
    BY <1>0, <2>3 DEF StopSignalsPreview, StopSignalsCapture
  <2>4. CASE StopJoinsCapture
    BY <1>0, <2>4 DEF StopJoinsCapture
  <2>5. CASE StopJoinsPreview \/ StopClearsQueue \/ StopClearsSlot
    BY <1>0, <2>5 DEF StopJoinsPreview, StopClearsQueue, StopClearsSlot
  <2> QED  BY <1>1, <2>1, <2>2, <2>3, <2>4, <2>5 DEF Caller, Stopping
<1>2. CASE FrameArrives \/ FrameIgnored \/ FrameCallback
  BY <1>0, <1>2 DEF FrameArrives, FrameIgnored, FrameCallback, CopyFrame, CopyFrameFails,
     AddPreviewFrame, RefusePreviewFrame, RecycleRefused, StreamPc
<1>3. CASE PreviewThread
  <2>1. CASE PreparePreview \/ StartStream \/ SpawnCapture \/ CloseStream
    BY <1>0, <2>1 DEF PreparePreview, StartStream, SpawnCapture, CloseStream
  <2>2. CASE DecodeWithoutBuffer
    BY <1>0, <2>2 DEF DecodeWithoutBuffer
  <2>3. CASE AddCaptureFrame \/ SignalCapture
    BY <1>0, <2>3 DEF AddCaptureFrame, SignalCapture
  <2>4. CASE ClearPreviewFrame \/ PreviewLoop \/ SleepForPreviewFrame \/ TakePreviewFrame
              \/ TakeNoPreviewFrame \/ Decode \/ RecycleUndecoded \/ Draw \/ RecycleConverted
              \/ RecycleDecoded \/ RouteFrame \/ AddCaptureFrameTooLate \/ DropFrame
    <3>1. /\ pc'.app = pc.app /\ pc'.stream = pc.stream /\ pc'.capture = pc.capture
          /\ UNCHANGED running
      BY <1>0, <2>4 DEF ClearPreviewFrame, PreviewLoop, SleepForPreviewFrame, TakePreviewFrame,
         TakeNoPreviewFrame, Decode, RecycleUndecoded, Draw, RecycleConverted,
         RecycleDecoded, RouteFrame, AddCaptureFrameTooLate, DropFrame
    <3>2. /\ pc.preview \notin {"none", "prepare", "open", "spawn", "exit"}
          /\ pc'.preview \notin {"none", "prepare", "open", "clear", "exit"}
          /\ pc'.preview = "spawn" => pc.preview = "clear"
      BY <1>0, <2>4 DEF ClearPreviewFrame, PreviewLoop, SleepForPreviewFrame, TakePreviewFrame,
         TakeNoPreviewFrame, Decode, RecycleUndecoded, Draw, RecycleConverted,
         RecycleDecoded, RouteFrame, AddCaptureFrameTooLate, DropFrame, AfterDraw
    <3> QED  BY <3>1, <3>2
  <2> QED  BY <1>3, <2>1, <2>2, <2>3, <2>4 DEF PreviewThread
<1>4. CASE CaptureThread
  BY <1>0, <1>4 DEF CaptureThread, ClearCaptureFrame, CaptureLoop, CaptureIdleLoop,
     SleepForCaptureFrame, TakeCaptureFrame, TakeNoCaptureFrame, OnFrame,
     RecycleCaptured, PictureDone, StopCapturing
<1>5. CASE \E t \in {"preview", "capture"} : SpuriousWakeup(t)
  BY <1>0, <1>5 DEF SpuriousWakeup
<1>6. CASE UNCHANGED vars
  BY <1>6 DEF vars
<1> QED  BY <1>1, <1>2, <1>3, <1>4, <1>5, <1>6 DEF Next

(* Of the steps that move frames only two put one into a new pointer.      *)
LEMMA PointersNext == TypeInv /\ ThreadsInv /\ PointersInv /\ [Next]_vars => PointersInv'
<1> SUFFICES ASSUME TypeInv, ThreadsInv, PointersInv, [Next]_vars PROVE PointersInv'
  OBVIOUS
<1>0. TypeOK /\ pc \in PcType /\ held \in [Holders -> Frame \union {NULL}]
  BY DEF TypeInv, TypeOK, PcType
<1> USE DEF PcType, PointersInv, Holders, shared, memory, Goto, GotoAndSignal, Woken
<1>1. CASE Caller
  <2>1. CASE StopClearsSlot
    BY <1>0, <2>1, RecycleHeldType DEF StopClearsSlot, ClearSlot
  <2>2. CASE StartPreview
    BY <1>0, <2>2 DEF StartPreview, ThreadsInv
  <2>3. CASE Caller /\ ~StopClearsSlot /\ ~StartPreview
    BY <1>0, <2>3 DEF Caller, Stopping, StartPreviewFails, CapturePicture, CapturePictureEnd,
       StopPreview, StopSignalsPreview, StopSignalsCapture, StopJoinsCapture,
       StopJoinsPreview, StopClearsQueue
  <2> QED  BY <1>1, <2>1, <2>2, <2>3
<1>2. CASE FrameArrives \/ FrameIgnored \/ FrameCallback
  <2>1. CASE CopyFrame
    BY <1>0, <2>1, GetFrameForType DEF CopyFrame, TypeInv, HolderInv
  <2>2. CASE RecycleRefused
    BY <1>0, <2>2, RecycleHeldType DEF RecycleRefused
  <2>3. CASE AddPreviewFrame
    BY <1>0, <2>3 DEF AddPreviewFrame
  <2>4. CASE FrameArrives \/ FrameIgnored \/ CopyFrameFails \/ RefusePreviewFrame
    BY <1>0, <2>4 DEF FrameArrives, FrameIgnored, CopyFrameFails, RefusePreviewFrame
  <2> QED  BY <1>2, <2>1, <2>2, <2>3, <2>4 DEF FrameCallback
<1>3. CASE PreviewThread
  <2>1. CASE RecycleConverted \/ RecycleDecoded \/ DropFrame
    BY <1>0, <2>1, RecycleHeldType DEF RecycleConverted, RecycleDecoded, DropFrame, AfterDraw
  <2>2. CASE Decode
    <3>1. held["frame"].seq \in 1 .. MaxSeq
      BY <1>0, <2>2 DEF Decode, TypeInv, HolderInv, Frame
    <3> QED  BY <1>0, <2>2, <3>1, GetFrameForType DEF Decode
  <2>3. CASE Draw
    <3>1. held["frame"].seq \in 1 .. MaxSeq
      BY <1>0, <2>3 DEF Draw, TypeInv, HolderInv, Frame
    <3> QED  BY <1>0, <2>3, <3>1, GetFrameForType DEF Draw, AfterDraw
  <2>4. CASE TakePreviewFrame \/ RecycleUndecoded \/ AddCaptureFrame \/ AddCaptureFrameTooLate
    BY <1>0, <2>4 DEF TakePreviewFrame, RecycleUndecoded, AddCaptureFrame, AddCaptureFrameTooLate
  <2>5. CASE StartStream \/ SpawnCapture \/ CloseStream
    BY <1>0, <2>5 DEF StartStream, SpawnCapture, CloseStream, ThreadsInv
  <2>6. CASE \/ PreparePreview \/ ClearPreviewFrame \/ PreviewLoop \/ SleepForPreviewFrame
             \/ TakeNoPreviewFrame \/ RouteFrame \/ SignalCapture
             \/ DecodeWithoutBuffer
    BY <1>0, <2>6 DEF PreparePreview, ClearPreviewFrame, PreviewLoop, SleepForPreviewFrame,
       TakeNoPreviewFrame, RouteFrame, SignalCapture, DecodeWithoutBuffer
  <2> QED  BY <1>3, <2>1, <2>2, <2>3, <2>4, <2>5, <2>6 DEF PreviewThread
<1>4. CASE CaptureThread
  <2>1. CASE ClearCaptureFrame \/ RecycleCaptured
    BY <1>0, <2>1, RecycleHeldType DEF ClearCaptureFrame, ClearSlot, RecycleCaptured
  <2>2. CASE CaptureThread /\ ~ClearCaptureFrame /\ ~RecycleCaptured
    BY <1>0, <2>2 DEF CaptureThread, CaptureLoop, CaptureIdleLoop, SleepForCaptureFrame,
       TakeCaptureFrame, TakeNoCaptureFrame, OnFrame, PictureDone, StopCapturing
  <2> QED  BY <1>4, <2>1, <2>2
<1>5. CASE \E t \in {"preview", "capture"} : SpuriousWakeup(t)
  BY <1>0, <1>5 DEF SpuriousWakeup
<1>6. CASE UNCHANGED vars
  BY <1>6 DEF vars
<1> QED  BY <1>1, <1>2, <1>3, <1>4, <1>5, <1>6 DEF Next

LEMMA ClearedNext ==
    TypeInv /\ ThreadsInv /\ ClearedInv /\ [Next]_vars => ClearedInv'
<1> SUFFICES ASSUME TypeInv, ThreadsInv, ClearedInv, [Next]_vars PROVE ClearedInv'
  OBVIOUS
<1>0. TypeOK /\ pc \in PcType /\ held \in [Holders -> Frame \union {NULL}]
  BY DEF TypeInv, TypeOK, PcType
<1> USE DEF PcType, ClearedInv, Holders, shared, memory, Goto, GotoAndSignal, Woken
<1>1. CASE Caller
  <2>1. CASE StopClearsQueue
    BY <1>0, <2>1 DEF StopClearsQueue, ClearQueue
  <2>2. CASE StopClearsSlot
    BY <1>0, <2>2, RecycleHeldType DEF StopClearsSlot, ClearSlot
  <2>3. CASE Caller /\ ~StopClearsQueue /\ ~StopClearsSlot
    BY <1>0, <2>3 DEF Caller, Stopping, StartPreview, StartPreviewFails, CapturePicture,
       CapturePictureEnd, StopPreview, StopSignalsPreview, StopSignalsCapture,
       StopJoinsCapture, StopJoinsPreview
  <2> QED  BY <1>1, <2>1, <2>2, <2>3
<1>2. CASE pc'.app = pc.app /\ pc.app \notin {"clear_slot", "stopped"}
  BY <1>2
<1>3. CASE pc.app \in {"clear_slot", "stopped"} /\ (FrameArrives \/ FrameIgnored \/ FrameCallback)
  BY <1>0, <1>3 DEF ThreadsInv, Joined, FrameArrives, FrameIgnored, FrameCallback, CopyFrame,
     CopyFrameFails, AddPreviewFrame, RefusePreviewFrame, RecycleRefused
<1>4. CASE pc.app \in {"clear_slot", "stopped"} /\ PreviewThread
  BY <1>0, <1>4 DEF ThreadsInv, Joined, PreviewThread, PreparePreview, StartStream,
     ClearPreviewFrame, SpawnCapture, PreviewLoop, SleepForPreviewFrame, TakePreviewFrame,
     TakeNoPreviewFrame, Decode, DecodeWithoutBuffer, RecycleUndecoded, Draw,
     RecycleConverted, RecycleDecoded, RouteFrame, AddCaptureFrame,
     AddCaptureFrameTooLate, DropFrame, SignalCapture, CloseStream
<1>5. CASE CaptureThread
  <2>1. CASE ClearCaptureFrame \/ RecycleCaptured
    BY <1>0, <2>1, RecycleHeldType DEF ClearCaptureFrame, ClearSlot, RecycleCaptured
  <2>2. CASE CaptureThread /\ ~ClearCaptureFrame /\ ~RecycleCaptured
    BY <1>0, <2>2 DEF CaptureThread, CaptureLoop, CaptureIdleLoop, SleepForCaptureFrame,
       TakeCaptureFrame, TakeNoCaptureFrame, OnFrame, PictureDone, StopCapturing
  <2> QED  BY <1>5, <2>1, <2>2
<1>6. CASE \E t \in {"preview", "capture"} : SpuriousWakeup(t)
  BY <1>0, <1>6 DEF SpuriousWakeup
<1>7. CASE UNCHANGED vars
  BY <1>7 DEF vars
<1>8. CASE FrameArrives \/ FrameIgnored \/ FrameCallback
  <2>1. pc'.app = pc.app
    BY <1>0, <1>8 DEF FrameArrives, FrameIgnored, FrameCallback, CopyFrame, CopyFrameFails,
       AddPreviewFrame, RefusePreviewFrame, RecycleRefused
  <2> QED  BY <1>2, <1>3, <1>8, <2>1
<1>9. CASE PreviewThread
  <2>1. pc'.app = pc.app \/ pc'.app = "aborted"
    BY <1>0, <1>9 DEF PreviewThread, PreparePreview, StartStream, ClearPreviewFrame,
       SpawnCapture, PreviewLoop, SleepForPreviewFrame, TakePreviewFrame,
       TakeNoPreviewFrame, Decode, DecodeWithoutBuffer, RecycleUndecoded, Draw,
       RecycleConverted, RecycleDecoded, RouteFrame, AddCaptureFrame,
       AddCaptureFrameTooLate, DropFrame, SignalCapture, CloseStream
  <2> QED  BY <1>2, <1>4, <1>9, <2>1
<1> QED  BY <1>1, <1>5, <1>6, <1>7, <1>8, <1>9 DEF Next

LEMMA StoppedAlways == Spec => [](TypeInv /\ StoppedInv)
<1>1. Init => StoppedInv
  BY DEF Init, StoppedInv, ThreadsInv, PointersInv, ClearedInv, BeforeStop, Joined, Holders
<1>2. TypeInv /\ StoppedInv /\ [Next]_vars => StoppedInv'
  BY ThreadsNext, PointersNext, ClearedNext DEF StoppedInv
<1> QED  BY <1>1, <1>2, TypeInvariant, PTL DEF Spec

(* When stopPreview has returned nothing of the preview moves any more, in *)
(* whatever order the threads came to their ends.                          *)
THEOREM StopLeavesNothing == Spec => []StopQuiesces
<1>1. TypeInv /\ StoppedInv => StopQuiesces
  BY DEF TypeInv, StoppedInv, ThreadsInv, PointersInv, ClearedInv, StopQuiesces, Joined, Holders
<1> QED  BY <1>1, StoppedAlways, PTL

-----------------------------------------------------------------------------
(* How many buffers are lost. *)

Lost == heap \ Owned

(* A frame that could not be decoded is about to be lost; a frame that came *)
(* too late for the capture thread has been, if there was one.             *)
Doomed == IF pc.preview = "undecoded" THEN 1 ELSE 0
Ending == IF ~running /\ pc.preview \in {"loop", "end", "close_stream", "exit"}
          THEN 1 ELSE 0

LostInv == Cardinality(Lost) + Doomed <= bad + Ending

LEMMA LostIsFinite ==
    ASSUME TypeOK
    PROVE  IsFiniteSet(Lost) /\ Cardinality(Lost) \in Nat
<1>1. Lost \in SUBSET Buffers
  BY DEF TypeOK, Lost
<1> QED  BY <1>1, BuffersAssumption, FS_Subset, FS_CardinalityType

LEMMA LostNoMore ==
    ASSUME TypeOK, Lost' \subseteq Lost
    PROVE  Cardinality(Lost') <= Cardinality(Lost) /\ Cardinality(Lost') \in Nat
<1>1. Lost' \in SUBSET Lost
  OBVIOUS
<1> QED  BY <1>1, LostIsFinite, FS_Subset, FS_CardinalityType

LEMMA LostOneMore ==
    ASSUME TypeOK, NEW b, Lost' \subseteq Lost \cup {b}
    PROVE  Cardinality(Lost') <= Cardinality(Lost) + 1 /\ Cardinality(Lost') \in Nat
<1>1. Lost' \in SUBSET (Lost \cup {b})
  OBVIOUS
<1>2. /\ IsFiniteSet(Lost \cup {b})
      /\ Cardinality(Lost \cup {b}) = Cardinality(Lost) \/ Cardinality(Lost \cup {b}) = Cardinality(Lost) + 1
  BY LostIsFinite, FS_AddElement
<1>3. /\ IsFiniteSet(Lost') /\ Cardinality(Lost') <= Cardinality(Lost \cup {b})
  BY <1>1, <1>2, FS_Subset
<1>4. Cardinality(Lost') \in Nat
  BY <1>3, FS_CardinalityType
<1> QED  BY <1>2, <1>3, <1>4, LostIsFinite

(* A buffer of the heap is lost when it is in no place. *)
LEMMA LostBuffers ==
    /\ \A b : b \in Lost <=>
          /\ b \in heap /\ b \notin pool
          /\ \A i \in DOMAIN queue : queue[i].buf # b
          /\ \A h \in Holders : held[h] # NULL => held[h].buf # b
    /\ \A b : b \in Lost' <=>
          /\ b \in heap' /\ b \notin pool'
          /\ \A i \in DOMAIN queue' : queue'[i].buf # b
          /\ \A h \in Holders : held'[h] # NULL => held'[h].buf # b
BY DEF Lost, Owned, QueuedBuffers, BufferOf

(* recycle_frame loses nothing of what it is given *)
LEMMA RecycleHeldLost ==
    ASSUME TypeOK, NEW h \in Holders, RecycleHeld(h), UNCHANGED queue
    PROVE  Lost' \subseteq Lost
<1>1. Recycle(BufferOf(h))
  BY DEF RecycleHeld
<1>2. \A b \in heap' : b \in heap /\ (b \in BufferOf(h) => b \in pool') /\ (b \in pool => b \in pool')
  BY <1>1 DEF Recycle
<1>3. \A g \in Holders \ {h} : held'[g] = held[g]
  BY RecycleHeldType
<1>4. held[h] # NULL => held[h].buf \in BufferOf(h)
  BY DEF BufferOf
<1> QED  BY <1>2, <1>3, <1>4, LostBuffers

LEMMA ClearQueueLost ==
    ASSUME ClearQueue, UNCHANGED held
    PROVE  Lost' \subseteq Lost
<1>1. \A b \in heap' : b \in heap /\ (b \in QueuedBuffers => b \in pool') /\ (b \in pool => b \in pool')
  BY DEF ClearQueue, Recycle
<1>2. \A i \in DOMAIN queue : queue[i].buf \in QueuedBuffers
  BY DEF QueuedBuffers
<1> QED  BY <1>1, <1>2, LostBuffers

(* get_frame into a pointer that is NULL *)
LEMMA GetFrameForLost ==
    ASSUME TypeOK, NEW h \in Holders, NEW n \in 1 .. MaxSeq, GetFrameFor(h, n),
           held[h] = NULL, UNCHANGED queue
    PROVE  Lost' \subseteq Lost
<1>1. PICK b \in Buffers : GetFrame(b) /\ held' = [held EXCEPT ![h] = [buf |-> b, seq |-> n]]
  BY DEF GetFrameFor
<1>2. /\ held'[h] # NULL /\ held'[h].buf = b
      /\ \A g \in Holders \ {h} : held'[g] = held[g]
  BY <1>1, GetFrameForType DEF TypeOK
<1>3. \A c \in heap' : c # b => c \in heap /\ (c \in pool => c \in pool')
  BY <1>1 DEF GetFrame
<1> QED  BY <1>2, <1>3, LostBuffers

(* The two steps that lose a buffer *)
LEMMA UndecodedLost ==
    ASSUME TypeOK, RecycleUndecoded
    PROVE  Lost' \subseteq Lost \cup {held["frame"].buf}
<1>1. Recycle(BufferOf("decoded"))
  BY DEF RecycleUndecoded
<1>2. \A b \in heap' : b \in heap /\ (b \in BufferOf("decoded") => b \in pool')
                       /\ (b \in pool => b \in pool')
  BY <1>1 DEF Recycle
<1>3. UNCHANGED queue /\ \A g \in Holders \ {"decoded", "frame"} : held'[g] = held[g]
  BY DEF RecycleUndecoded, TypeOK, Holders
<1>4. held["decoded"] # NULL => held["decoded"].buf \in BufferOf("decoded")
  BY DEF BufferOf
<1> QED  BY <1>2, <1>3, <1>4, LostBuffers

LEMMA TooLateLost ==
    ASSUME TypeOK, AddCaptureFrameTooLate
    PROVE  Lost' \subseteq Lost \cup {held["frame"].buf}
<1>1. /\ UNCHANGED <<heap, pool, queue>>
      /\ \A g \in Holders \ {"frame"} : held'[g] = held[g]
  BY DEF AddCaptureFrameTooLate, memory, TypeOK, Holders
<1> QED  BY <1>1, LostBuffers

(* every other step loses nothing *)
LEMMA NothingLost ==
    ASSUME TypeInv, PointersInv, [Next]_vars, ~RecycleUndecoded, ~AddCaptureFrameTooLate
    PROVE  Lost' \subseteq Lost
<1>0. TypeOK
  BY DEF TypeInv
<1>1. CASE UNCHANGED <<heap, pool, queue, held>>
  BY <1>1, LostBuffers
<1>2. CASE StopClearsQueue \/ ClearPreviewFrame
  BY <1>2, ClearQueueLost DEF StopClearsQueue, ClearPreviewFrame
<1>3. CASE \/ StopClearsSlot \/ RecycleRefused \/ RecycleConverted \/ RecycleDecoded
           \/ DropFrame \/ ClearCaptureFrame \/ RecycleCaptured
  BY <1>0, <1>3, RecycleHeldLost
     DEF StopClearsSlot, RecycleRefused, RecycleConverted, RecycleDecoded,
         DropFrame, ClearCaptureFrame, RecycleCaptured, ClearSlot, Holders
<1>4. CASE CopyFrame
  <2>1. held["copy"] = NULL /\ seq \in 1 .. MaxSeq
    BY <1>4 DEF CopyFrame, PointersInv, TypeInv, HolderInv
  <2> QED  BY <1>0, <1>4, <2>1, GetFrameForLost DEF CopyFrame, Holders
<1>5. CASE Decode
  <2>1. held["decoded"] = NULL /\ held["frame"].seq \in 1 .. MaxSeq
    BY <1>0, <1>5 DEF Decode, PointersInv, TypeInv, HolderInv, TypeOK, Holders, Frame
  <2> QED  BY <1>0, <1>5, <2>1, GetFrameForLost DEF Decode, Holders
<1>6. CASE Draw
  <2>1. held["converted"] = NULL /\ held["frame"].seq \in 1 .. MaxSeq
    BY <1>0, <1>6 DEF Draw, PointersInv, TypeInv, HolderInv, TypeOK, Holders, Frame
  <2> QED  BY <1>0, <1>1, <1>6, <2>1, GetFrameForLost DEF Draw, Holders, memory
<1>7. CASE AddPreviewFrame
  <2>1. held["copy"] \in Frame /\ queue \in Seq(Frame)
    BY <1>0, <1>7 DEF AddPreviewFrame, TypeInv, TypeOK, HolderInv, Holders
  <2>2. /\ Len(queue) + 1 \in DOMAIN queue'
        /\ queue'[Len(queue) + 1] = held["copy"]
        /\ \A i \in DOMAIN queue : i \in DOMAIN queue' /\ queue'[i] = queue[i]
    BY <1>7, <2>1 DEF AddPreviewFrame
  <2>3. /\ UNCHANGED <<heap, pool>>
        /\ \A g \in Holders \ {"copy"} : held'[g] = held[g]
    BY <1>0, <1>7 DEF AddPreviewFrame, memory, TypeOK, Holders
  <2> QED  BY <2>2, <2>3, LostBuffers
<1>8. CASE TakePreviewFrame
  <2>1. queue \in Seq(Frame) /\ queue # <<>>
    BY <1>0, <1>8 DEF TakePreviewFrame, TypeOK
  <2>2. \A i \in DOMAIN queue : i # 1 => i - 1 \in DOMAIN queue' /\ queue'[i - 1] = queue[i]
    BY <1>8, <2>1 DEF TakePreviewFrame
  <2>3. /\ UNCHANGED <<heap, pool>>
        /\ \A g \in Holders \ {"frame"} : held'[g] = held[g]
        /\ held'["frame"] = queue[1] /\ held["frame"] = NULL
    BY <1>0, <1>8, <2>1 DEF TakePreviewFrame, memory, TypeOK, Holders, PointersInv
  <2>4. held'["frame"] # NULL
    BY <2>1, <2>3, FrameNotNull
  <2>5. \A b : b \in Lost' => \A i \in DOMAIN queue : queue[i].buf # b
    <3> SUFFICES ASSUME NEW b \in Lost', NEW i \in DOMAIN queue PROVE queue[i].buf # b
      OBVIOUS
    <3>1. CASE i = 1
      BY <2>3, <2>4, <3>1, LostBuffers DEF Holders
    <3>2. CASE i # 1
      BY <2>2, <3>2, LostBuffers
    <3> QED  BY <3>1, <3>2
  <2> QED  BY <2>3, <2>5, LostBuffers
<1>9. CASE AddCaptureFrame
  <2>1. Recycle(BufferOf("captureQueu"))
    BY <1>9 DEF AddCaptureFrame
  <2>2. \A b \in heap' : b \in heap /\ (b \in BufferOf("captureQueu") => b \in pool')
                         /\ (b \in pool => b \in pool')
    BY <2>1 DEF Recycle
  <2>3. /\ UNCHANGED queue /\ held'["captureQueu"] = held["frame"]
        /\ \A g \in Holders \ {"captureQueu", "frame"} : held'[g] = held[g]
    BY <1>0, <1>9 DEF AddCaptureFrame, TypeOK, Holders
  <2>4. held["captureQueu"] # NULL => held["captureQueu"].buf \in BufferOf("captureQueu")
    BY DEF BufferOf
  <2> QED  BY <2>2, <2>3, <2>4, LostBuffers DEF Holders
<1>10. CASE TakeCaptureFrame
  <2>1. /\ UNCHANGED <<heap, pool, queue>>
        /\ held'["captured"] = held["captureQueu"] /\ held["captured"] = NULL
        /\ \A g \in Holders \ {"captureQueu", "captured"} : held'[g] = held[g]
    BY <1>0, <1>10 DEF TakeCaptureFrame, memory, TypeOK, Holders, PointersInv
  <2> QED  BY <2>1, LostBuffers DEF Holders
<1>11. CASE Caller
  <2>1. \/ StopClearsQueue \/ StopClearsSlot
        \/ UNCHANGED <<heap, pool, queue, held>>
    BY <1>11 DEF Caller, Stopping, StartPreview, StartPreviewFails,
       CapturePicture, CapturePictureEnd, StopPreview, StopSignalsPreview,
       StopSignalsCapture, StopJoinsCapture, StopJoinsPreview, memory
  <2> QED  BY <1>1, <1>2, <1>3, <2>1
<1>12. CASE FrameArrives \/ FrameIgnored \/ FrameCallback
  <2>1. \/ CopyFrame \/ AddPreviewFrame \/ RecycleRefused
        \/ UNCHANGED <<heap, pool, queue, held>>
    BY <1>12 DEF FrameArrives, FrameIgnored, FrameCallback, CopyFrameFails,
       RefusePreviewFrame, memory
  <2> QED  BY <1>1, <1>3, <1>4, <1>7, <2>1
<1>13. CASE PreviewThread
  <2>1. \/ ClearPreviewFrame \/ TakePreviewFrame \/ Decode
        \/ Draw \/ RecycleConverted \/ RecycleDecoded \/ AddCaptureFrame \/ DropFrame
        \/ UNCHANGED <<heap, pool, queue, held>>
    BY <1>13 DEF PreviewThread, PreparePreview, StartStream, SpawnCapture,
       PreviewLoop, SleepForPreviewFrame, TakeNoPreviewFrame, RouteFrame,
       DecodeWithoutBuffer, SignalCapture, CloseStream, memory
  <2> QED  BY <1>1, <1>2, <1>3, <1>5, <1>6, <1>8, <1>9, <2>1
<1>14. CASE CaptureThread
  <2>1. \/ ClearCaptureFrame \/ TakeCaptureFrame \/ RecycleCaptured
        \/ UNCHANGED <<heap, pool, queue, held>>
    BY <1>14 DEF CaptureThread, CaptureLoop, CaptureIdleLoop,
       SleepForCaptureFrame, TakeNoCaptureFrame, OnFrame, PictureDone,
       StopCapturing, memory
  <2> QED  BY <1>1, <1>3, <1>10, <2>1
<1>15. CASE \E t \in {"preview", "capture"} : SpuriousWakeup(t)
  BY <1>1, <1>15 DEF SpuriousWakeup, memory
<1>16. CASE UNCHANGED vars
  BY <1>1, <1>16 DEF vars, memory
<1> QED  BY <1>11, <1>12, <1>13, <1>14, <1>15, <1>16 DEF Next

LEMMA Balance ==
    ASSUME NEW b \in Int, NEW c \in Int, NEW l \in Int, NEW m \in Int,
           NEW d \in Int, NEW e \in Int, NEW f \in Int, NEW g \in Int
    PROVE  /\ c = b /\ e <= d /\ f <= g => e - d <= c - b + g - f
           /\ l + d <= b + f /\ m <= l /\ e - d <= c - b + g - f => m + e <= c + g
OBVIOUS

(* What a step does to the two corrections, and to the count it is held to *)
LEMMA Corrections ==
    ASSUME TypeInv, ThreadsInv, [Next]_vars, ~RecycleUndecoded, ~AddCaptureFrameTooLate
    PROVE  Doomed' - Doomed <= bad' - bad + Ending' - Ending
<1> USE DEF Doomed, Ending
<1>0. /\ pc \in PcType /\ running \in BOOLEAN /\ bad \in Int
  BY BoundsAssumption DEF TypeInv, TypeOK, PcType
<1> USE DEF PcType, shared, ghosts, Goto, GotoAndSignal, Woken
<1>1. CASE pc'.preview = pc.preview /\ UNCHANGED <<running, bad>>
  BY <1>0, <1>1
<1>2. CASE Caller
  <2>1. CASE StartPreview \/ StartPreviewFails \/ StopPreview
    <3>1. UNCHANGED bad
      BY <2>1 DEF StartPreview, StartPreviewFails, StopPreview
    <3>2. Doomed' = Doomed
      BY <1>0, <2>1 DEF StartPreview, StartPreviewFails, StopPreview, ThreadsInv
    <3>3. Ending <= Ending'
      BY <1>0, <2>1 DEF StartPreview, StartPreviewFails, StopPreview, ThreadsInv
    <3> QED  BY <1>0, <3>1, <3>2, <3>3
  <2>2. CASE Caller /\ ~StartPreview /\ ~StartPreviewFails /\ ~StopPreview
    <3>1. pc'.preview = pc.preview \/ (pc.preview = "asleep" /\ pc'.preview = "woken")
      BY <1>0, <2>2 DEF Caller, Stopping, CapturePicture, CapturePictureEnd, StopSignalsPreview,
         StopSignalsCapture, StopJoinsCapture, StopJoinsPreview, StopClearsQueue,
         StopClearsSlot
    <3>2. UNCHANGED <<running, bad>>
      BY <2>2 DEF Caller, Stopping, CapturePicture, CapturePictureEnd, StopSignalsPreview,
         StopSignalsCapture, StopJoinsCapture, StopJoinsPreview, StopClearsQueue,
         StopClearsSlot
    <3> QED  BY <1>0, <3>1, <3>2
  <2> QED  BY <1>2, <2>1, <2>2
<1>3. CASE FrameArrives \/ FrameIgnored \/ FrameCallback
  <2>1. pc'.preview = pc.preview \/ (pc.preview = "asleep" /\ pc'.preview = "woken")
    BY <1>0, <1>3 DEF FrameArrives, FrameIgnored, FrameCallback, CopyFrame, CopyFrameFails,
       AddPreviewFrame, RefusePreviewFrame, RecycleRefused
  <2>2. UNCHANGED <<running, bad>>
    BY <1>3 DEF FrameArrives, FrameIgnored, FrameCallback, CopyFrame, CopyFrameFails,
       AddPreviewFrame, RefusePreviewFrame, RecycleRefused
  <2> QED  BY <1>0, <2>1, <2>2
<1>4. CASE PreviewThread
  <2>1. CASE Decode
    <3>1. \/ Doomed' = 0 /\ bad' = bad
          \/ Doomed' = 1 /\ bad' = bad + 1
      BY <1>0, <2>1 DEF Decode
    <3>2. Doomed = 0 /\ Ending = 0 /\ Ending' = 0
      BY <1>0, <2>1 DEF Decode
    <3> QED  BY <1>0, <3>1, <3>2
  <2>2. CASE PreviewThread /\ ~Decode
    <3>1. UNCHANGED <<running, bad>>
      BY <2>2 DEF PreviewThread, PreparePreview, StartStream, ClearPreviewFrame,
         SpawnCapture, PreviewLoop, SleepForPreviewFrame, TakePreviewFrame,
         TakeNoPreviewFrame, DecodeWithoutBuffer, RecycleUndecoded, Draw,
         RecycleConverted, RecycleDecoded, RouteFrame, AddCaptureFrame,
         AddCaptureFrameTooLate, DropFrame, SignalCapture, CloseStream
    <3>2. Doomed' <= Doomed
      BY <1>0, <2>2 DEF PreviewThread, PreparePreview, StartStream, ClearPreviewFrame,
         SpawnCapture, PreviewLoop, SleepForPreviewFrame, TakePreviewFrame,
         TakeNoPreviewFrame, DecodeWithoutBuffer, RecycleUndecoded, Draw,
         RecycleConverted, RecycleDecoded, RouteFrame, AddCaptureFrame,
         AddCaptureFrameTooLate, DropFrame, SignalCapture, CloseStream, AfterDraw
    <3>3. Ending <= Ending'
      BY <1>0, <2>2, <3>1 DEF PreviewThread, PreparePreview, StartStream, ClearPreviewFrame,
         SpawnCapture, PreviewLoop, SleepForPreviewFrame, TakePreviewFrame,
         TakeNoPreviewFrame, DecodeWithoutBuffer, RecycleUndecoded, Draw,
         RecycleConverted, RecycleDecoded, RouteFrame, AddCaptureFrame,
         AddCaptureFrameTooLate, DropFrame, SignalCapture, CloseStream, AfterDraw
    <3>4. Doomed \in Int /\ Doomed' \in Int /\ Ending \in Int /\ Ending' \in Int
      OBVIOUS
    <3>5. bad' = bad /\ bad \in Int
      BY <1>0, <3>1
    <3> HIDE DEF Doomed, Ending
    <3> QED  BY <3>2, <3>3, <3>4, <3>5, Balance
  <2> QED  BY <1>4, <2>1, <2>2
<1>5. CASE CaptureThread
  <2>1. pc'.preview = pc.preview /\ UNCHANGED <<running, bad>>
    BY <1>0, <1>5 DEF CaptureThread, ClearCaptureFrame, CaptureLoop, CaptureIdleLoop,
       SleepForCaptureFrame, TakeCaptureFrame, TakeNoCaptureFrame, OnFrame,
       RecycleCaptured, PictureDone, StopCapturing
  <2> QED  BY <1>1, <2>1
<1>6. CASE \E t \in {"preview", "capture"} : SpuriousWakeup(t)
  BY <1>0, <1>6 DEF SpuriousWakeup
<1>7. CASE UNCHANGED vars
  BY <1>1, <1>7 DEF vars
<1> QED  BY <1>2, <1>3, <1>4, <1>5, <1>6, <1>7 DEF Next

LEMMA LostNext ==
    TypeInv /\ StoppedInv /\ LostInv /\ [Next]_vars => LostInv'
<1> SUFFICES ASSUME TypeInv, StoppedInv, LostInv, [Next]_vars PROVE LostInv'
  OBVIOUS
<1>0. TypeOK
  BY DEF TypeInv
<1>9. bad \in Int /\ bad' \in Int
  BY TypeNext, BoundsAssumption DEF TypeInv, TypeOK
<1>1. Cardinality(Lost) \in Nat
  BY <1>0, LostIsFinite
<1>2. /\ Doomed \in Int /\ Doomed' \in Int /\ Ending \in Int /\ Ending' \in Int
  BY DEF Doomed, Ending
<1>3. CASE RecycleUndecoded
  <2>1. Cardinality(Lost') <= Cardinality(Lost) + 1 /\ Cardinality(Lost') \in Nat
    BY <1>0, <1>3, UndecodedLost, LostOneMore
  <2>2. UNCHANGED bad /\ Doomed = 1 /\ Ending = 0
    BY <1>3 DEF RecycleUndecoded, ghosts, Doomed, Ending
  <2>3. Doomed' = 0 /\ Ending' \in {0, 1}
    BY <1>0, <1>3 DEF RecycleUndecoded, Goto, TypeOK, Doomed, Ending
  <2> QED  BY <1>1, <1>9, <2>1, <2>2, <2>3 DEF LostInv
<1>4. CASE AddCaptureFrameTooLate
  <2>1. Cardinality(Lost') <= Cardinality(Lost) + 1 /\ Cardinality(Lost') \in Nat
    BY <1>0, <1>4, TooLateLost, LostOneMore
  <2>2. UNCHANGED bad /\ Doomed = 0 /\ Ending = 0
    BY <1>4 DEF AddCaptureFrameTooLate, ghosts, Doomed, Ending
  <2>3. Doomed' = 0 /\ Ending' = 1
    BY <1>0, <1>4 DEF AddCaptureFrameTooLate, shared, Goto, TypeOK, Doomed, Ending
  <2> QED  BY <1>1, <1>9, <2>1, <2>2, <2>3 DEF LostInv
<1>5. CASE ~RecycleUndecoded /\ ~AddCaptureFrameTooLate
  <2>1. Lost' \subseteq Lost
    BY <1>5, NothingLost DEF StoppedInv
  <2>2. Cardinality(Lost') <= Cardinality(Lost) /\ Cardinality(Lost') \in Nat
    BY <1>0, <2>1, LostNoMore
  <2>3. Doomed' - Doomed <= bad' - bad + Ending' - Ending
    BY <1>5, Corrections DEF StoppedInv
  <2>4. PICK l \in Int, m \in Int : l = Cardinality(Lost) /\ m = Cardinality(Lost')
    BY <1>1, <2>2
  <2>5. PICK d \in Int, e \in Int, f \in Int, g \in Int :
           d = Doomed /\ e = Doomed' /\ f = Ending /\ g = Ending'
    BY <1>2
  <2>6. l + d <= bad + f /\ m <= l /\ e - d <= bad' - bad + g - f
    BY <2>2, <2>3, <2>4, <2>5 DEF LostInv
  <2>7. m + e <= bad' + g
    BY <1>9, <2>6, Balance
  <2> QED  BY <2>4, <2>5, <2>7 DEF LostInv
<1> QED  BY <1>3, <1>4, <1>5

(* The only buffers that get lost are one for each frame that could not be *)
(* decoded, and at most one for the stop.                                  *)
THEOREM FewBuffersLost == Spec => []LeakBound
<1>1. Init => LostInv
  <2> SUFFICES ASSUME Init PROVE LostInv
    OBVIOUS
  <2>1. Lost = {} /\ Cardinality({}) = 0
    BY FS_EmptySet DEF Init, Lost
  <2>2. bad = 0 /\ Doomed = 0 /\ Ending = 0
    BY DEF Init, Doomed, Ending
  <2> QED  BY <2>1, <2>2 DEF LostInv
<1>2. TypeInv /\ LostInv => LeakBound
  <2> SUFFICES ASSUME TypeInv, LostInv PROVE LeakBound
    OBVIOUS
  <2>1. Cardinality(Lost) \in Nat /\ bad \in Int
    BY LostIsFinite, BoundsAssumption DEF TypeInv, TypeOK
  <2>2. Doomed \in {0, 1} /\ Ending \in {0, 1} /\ (running => Ending = 0)
    BY DEF Doomed, Ending
  <2>3. CASE running
    BY <2>1, <2>2, <2>3 DEF LostInv, LeakBound, Lost
  <2>4. CASE ~running
    BY <2>1, <2>2, <2>4 DEF LostInv, LeakBound, Lost
  <2> QED  BY <2>3, <2>4
<1> QED  BY <1>1, <1>2, StoppedAlways, LostNext, PTL DEF Spec

-----------------------------------------------------------------------------
(* The line of frames from the camera to the callback. *)

Before(h, g) == held[h] # NULL /\ held[g] # NULL => held[h].seq < held[g].seq
BeforeQueue(h) == held[h] # NULL => \A i \in DOMAIN queue : held[h].seq < queue[i].seq

OrderInv ==
    /\ delivered <= seq
    /\ \A h \in Holders : held[h] # NULL => held[h].seq <= seq
    /\ \A i \in DOMAIN queue : delivered < queue[i].seq /\ queue[i].seq <= seq
    /\ \A h \in {"captureQueu", "frame", "copy"} : held[h] # NULL => delivered < held[h].seq
    /\ pc.stream = "copy" =>
          /\ delivered < seq
          /\ \A h \in Holders : held[h] # NULL => held[h].seq < seq
          /\ \A i \in DOMAIN queue : queue[i].seq < seq
    /\ pc.capture = "callback" =>
          /\ delivered < held["captured"].seq
          /\ \A h \in {"captureQueu", "frame", "copy"} : Before("captured", h)
          /\ BeforeQueue("captured")
          /\ pc.stream = "copy" => held["captured"].seq < seq
    /\ Before("captureQueu", "frame") /\ Before("captureQueu", "copy")
    /\ BeforeQueue("captureQueu")
    /\ Before("frame", "copy") /\ BeforeQueue("frame")
    /\ \A i, j \in DOMAIN queue : i < j => queue[i].seq < queue[j].seq
    /\ held["copy"] # NULL => \A i \in DOMAIN queue : queue[i].seq < held["copy"].seq

LEMMA NumbersType ==
    ASSUME TypeOK
    PROVE  /\ seq \in Nat /\ delivered \in Nat
           /\ \A h \in Holders : held[h] # NULL => held[h] \in Frame /\ held[h].seq \in Nat
           /\ \A i \in DOMAIN queue : queue[i] \in Frame /\ queue[i].seq \in Nat
<1>1. \A f \in Frame : f.seq \in Nat
  BY BoundsAssumption DEF Frame
<1>2. seq \in Nat /\ delivered \in Nat
  BY BoundsAssumption DEF TypeOK
<1>3. \A h \in Holders : held[h] # NULL => held[h] \in Frame
  BY DEF TypeOK
<1>4. \A i \in DOMAIN queue : queue[i] \in Frame
  BY DEF TypeOK
<1> QED  BY <1>1, <1>2, <1>3, <1>4

(* Frames that leave the line do not disturb it. *)
LEMMA OrderFewer ==
    ASSUME OrderInv, UNCHANGED <<seq, delivered>>,
           queue' = queue \/ queue' = <<>>,
           \A h \in Holders : held'[h] = held[h] \/ held'[h] = NULL,
           pc'.stream = "copy" => pc.stream = "copy",
           pc'.capture = "callback" => pc.capture = "callback" /\ held'["captured"] = held["captured"]
    PROVE  OrderInv'
<1>1. \A i \in DOMAIN queue' : i \in DOMAIN queue /\ queue'[i] = queue[i]
  OBVIOUS
<1> QED  BY <1>1 DEF OrderInv, Before, BeforeQueue, Holders

(* Nor do copies of the frame that the preview thread works on. *)
LEMMA OrderCopy ==
    ASSUME TypeOK, OrderInv, NEW h \in {"decoded", "converted"},
           held["frame"] # NULL, GetFrameFor(h, held["frame"].seq),
           UNCHANGED <<seq, delivered, queue>>,
           pc'.stream = pc.stream, pc'.capture = pc.capture
    PROVE  OrderInv'
<1>1. h \in Holders
  BY DEF Holders
<1>2. held["frame"].seq \in 1 .. MaxSeq
  BY DEF TypeOK, Holders, Frame
<1>3. PICK b \in Buffers : held' = [held EXCEPT ![h] = [buf |-> b, seq |-> held["frame"].seq]]
  BY DEF GetFrameFor
<1>4. /\ held'[h].seq = held["frame"].seq
      /\ \A g \in Holders \ {h} : held'[g] = held[g]
  BY <1>1, <1>3 DEF TypeOK
<1> QED  BY <1>4 DEF OrderInv, Before, BeforeQueue, Holders

LEMMA OrderStream ==
    TypeInv /\ OrderInv /\ (FrameArrives \/ FrameIgnored \/ FrameCallback) => OrderInv'
<1> SUFFICES ASSUME TypeInv, OrderInv, FrameArrives \/ FrameIgnored \/ FrameCallback
             PROVE  OrderInv'
  OBVIOUS
<1>0. TypeOK /\ pc \in PcType
  BY DEF TypeInv, TypeOK, PcType
<1>1. /\ seq \in Nat /\ delivered \in Nat
      /\ \A h \in Holders : held[h] # NULL => held[h] \in Frame /\ held[h].seq \in Nat
      /\ \A i \in DOMAIN queue : queue[i] \in Frame /\ queue[i].seq \in Nat
  BY <1>0, NumbersType
<1> USE DEF PcType, Goto, GotoAndSignal, Woken, ghosts
<1>2. CASE FrameArrives \/ FrameIgnored
  <2>1. /\ seq' = seq + 1 /\ UNCHANGED <<delivered, queue, held>>
        /\ pc'.capture = pc.capture /\ pc.stream = "idle"
    BY <1>0, <1>2 DEF FrameArrives, FrameIgnored
  <2>2. \A n \in Nat : n <= seq => n <= seq' /\ n < seq'
    BY <1>1, <2>1
  <2>3. \A h \in Holders : held[h] # NULL => held[h].seq <= seq' /\ held[h].seq < seq'
    BY <1>1, <2>2 DEF OrderInv
  <2>4. \A i \in DOMAIN queue : queue[i].seq <= seq' /\ queue[i].seq < seq'
    BY <1>1, <2>2 DEF OrderInv
  <2>5. delivered <= seq' /\ delivered < seq'
    BY <1>1, <2>2 DEF OrderInv
  <2>6. pc.capture = "callback" => held["captured"].seq < seq'
    <3> SUFFICES ASSUME pc.capture = "callback" PROVE held["captured"].seq < seq'
      OBVIOUS
    <3>1. held["captured"] # NULL
      BY DEF TypeInv, HolderInv
    <3> QED  BY <2>3, <3>1 DEF Holders
  <2> QED  BY <2>1, <2>3, <2>4, <2>5, <2>6 DEF OrderInv, Before, BeforeQueue
<1>3. CASE CopyFrame
  <2>1. PICK b \in Buffers : held' = [held EXCEPT !["copy"] = [buf |-> b, seq |-> seq]]
    BY <1>3 DEF CopyFrame, GetFrameFor
  <2>2. /\ held'["copy"].seq = seq
        /\ \A g \in Holders \ {"copy"} : held'[g] = held[g]
    BY <1>0, <2>1 DEF TypeOK, Holders
  <2>3. /\ pc.stream = "copy" /\ pc'.stream # "copy" /\ pc'.capture = pc.capture
        /\ UNCHANGED <<seq, delivered, queue>>
    BY <1>0, <1>3 DEF CopyFrame
  <2> QED  BY <1>1, <2>2, <2>3 DEF OrderInv, Before, BeforeQueue, Holders
<1>4. CASE AddPreviewFrame
  <2>1. held["copy"] \in Frame /\ queue \in Seq(Frame) /\ held["copy"] # NULL
    BY <1>0, <1>4 DEF AddPreviewFrame, TypeInv, TypeOK, HolderInv, Holders
  <2> DEFINE new == Len(queue) + 1
  <2>2. /\ DOMAIN queue' = DOMAIN queue \cup {new}
        /\ queue'[new] = held["copy"]
        /\ \A i \in DOMAIN queue : queue'[i] = queue[i] /\ i < new
    BY <1>4, <2>1 DEF AddPreviewFrame
  <2>3. /\ held'["copy"] = NULL
        /\ \A g \in Holders \ {"copy"} : held'[g] = held[g]
    BY <1>0, <1>4 DEF AddPreviewFrame, TypeOK, Holders
  <2>4. /\ pc.stream = "add" /\ pc'.stream = "idle" /\ pc'.capture = pc.capture
        /\ UNCHANGED <<seq, delivered>>
    BY <1>0, <1>4 DEF AddPreviewFrame
  <2>5. \A i, j \in DOMAIN queue' : i < j => i \in DOMAIN queue /\ (j \in DOMAIN queue \/ j = new)
    BY <2>1, <2>2
  <2> HIDE DEF new
  <2>6. \A i \in DOMAIN queue' : delivered < queue'[i].seq /\ queue'[i].seq <= seq
    BY <2>1, <2>2 DEF OrderInv, Holders
  <2>7. \A i, j \in DOMAIN queue' : i < j => queue'[i].seq < queue'[j].seq
    BY <2>1, <2>2, <2>5 DEF OrderInv
  <2>8. \A h \in {"captureQueu", "frame"} : held[h] # NULL =>
            \A i \in DOMAIN queue' : held[h].seq < queue'[i].seq
    BY <2>1, <2>2 DEF OrderInv, Before, BeforeQueue
  <2>9. pc.capture = "callback" =>
            \A i \in DOMAIN queue' : held["captured"].seq < queue'[i].seq
    <3> SUFFICES ASSUME pc.capture = "callback", NEW i \in DOMAIN queue'
                 PROVE  held["captured"].seq < queue'[i].seq
      OBVIOUS
    <3>1. held["captured"] # NULL
      BY DEF TypeInv, HolderInv
    <3> QED  BY <2>1, <2>2, <3>1 DEF OrderInv, Before, BeforeQueue
  <2> QED  BY <2>3, <2>4, <2>6, <2>7, <2>8, <2>9 DEF OrderInv, Before, BeforeQueue, Holders
<1>5. CASE RecycleRefused
  BY <1>0, <1>5, RecycleHeldType, OrderFewer DEF RecycleRefused, Holders
<1>6. CASE CopyFrameFails \/ RefusePreviewFrame
  BY <1>0, <1>6, OrderFewer DEF CopyFrameFails, RefusePreviewFrame
<1> QED  BY <1>2, <1>3, <1>4, <1>5, <1>6 DEF FrameCallback

LEMMA OrderPreview ==
    TypeInv /\ PointersInv /\ OrderInv /\ PreviewThread => OrderInv'
<1> SUFFICES ASSUME TypeInv, PointersInv, OrderInv, PreviewThread PROVE OrderInv'
  OBVIOUS
<1>0. TypeOK /\ pc \in PcType
  BY DEF TypeInv, TypeOK, PcType
<1>1. /\ seq \in Nat /\ delivered \in Nat
      /\ \A h \in Holders : held[h] # NULL => held[h] \in Frame /\ held[h].seq \in Nat
      /\ \A i \in DOMAIN queue : queue[i] \in Frame /\ queue[i].seq \in Nat
  BY <1>0, NumbersType
<1> USE DEF PcType, Goto, GotoAndSignal, Woken, ghosts
<1>2. CASE Decode
  BY <1>0, <1>2, OrderCopy DEF Decode, TypeInv, HolderInv
<1>3. CASE Draw
  <2>1. CASE GetFrameFor("converted", held["frame"].seq)
    BY <1>0, <1>3, <2>1, OrderCopy DEF Draw, TypeInv, HolderInv
  <2>2. CASE UNCHANGED held
    BY <1>0, <1>3, <2>2, OrderFewer DEF Draw
  <2> QED  BY <1>3, <2>1, <2>2 DEF Draw
<1>4. CASE TakePreviewFrame
  <2>1. queue \in Seq(Frame) /\ queue # <<>>
    BY <1>0, <1>4 DEF TakePreviewFrame, TypeOK
  <2>2. /\ 1 \in DOMAIN queue
        /\ \A i \in DOMAIN queue' : i + 1 \in DOMAIN queue /\ 1 < i + 1
                                   /\ queue'[i] = queue[i + 1]
        /\ \A i, j \in DOMAIN queue' : i < j => i + 1 < j + 1
    BY <1>4, <2>1 DEF TakePreviewFrame
  <2>3. /\ held'["frame"] = queue[1]
        /\ \A g \in Holders \ {"frame"} : held'[g] = held[g]
    BY <1>0, <1>4, <2>1 DEF TakePreviewFrame, TypeOK, Holders
  <2>4. /\ UNCHANGED <<seq, delivered>>
        /\ pc'.stream = pc.stream /\ pc'.capture = pc.capture
    BY <1>0, <1>4 DEF TakePreviewFrame
  <2>5. \A i \in DOMAIN queue' : /\ delivered < queue'[i].seq /\ queue'[i].seq <= seq
                                 /\ queue[1].seq < queue'[i].seq
    BY <2>2 DEF OrderInv
  <2>6. \A i, j \in DOMAIN queue' : i < j => queue'[i].seq < queue'[j].seq
    BY <2>2 DEF OrderInv
  <2>7. \A h \in Holders : BeforeQueue(h) /\ held[h] # NULL =>
            /\ \A i \in DOMAIN queue' : held[h].seq < queue'[i].seq
            /\ held[h].seq < queue[1].seq
    BY <2>2 DEF BeforeQueue
  <2>8. held["copy"] # NULL => /\ \A i \in DOMAIN queue' : queue'[i].seq < held["copy"].seq
                               /\ queue[1].seq < held["copy"].seq
    BY <2>2 DEF OrderInv
  <2>9. pc.stream = "copy" => /\ \A i \in DOMAIN queue' : queue'[i].seq < seq
                              /\ queue[1].seq < seq
    BY <2>2 DEF OrderInv
  <2>10. delivered < queue[1].seq /\ queue[1].seq <= seq
    BY <2>2 DEF OrderInv
  <2> QED  BY <2>3, <2>4, <2>5, <2>6, <2>7, <2>8, <2>9, <2>10
           DEF OrderInv, Before, BeforeQueue, Holders
<1>5. CASE AddCaptureFrame
  <2>1. /\ held'["captureQueu"] = held["frame"] /\ held'["frame"] = NULL
        /\ \A g \in Holders \ {"captureQueu", "frame"} : held'[g] = held[g]
        /\ UNCHANGED <<seq, delivered, queue>>
        /\ pc'.stream = pc.stream /\ (pc'.capture = "callback" => pc.capture = "callback")
    BY <1>0, <1>5 DEF AddCaptureFrame, TypeOK, Holders
  <2> QED  BY <2>1 DEF OrderInv, Before, BeforeQueue, Holders
<1>6. CASE RecycleConverted \/ RecycleDecoded \/ DropFrame
  BY <1>0, <1>6, RecycleHeldType, OrderFewer DEF RecycleConverted, RecycleDecoded, DropFrame,
     Holders, AfterDraw
<1>7. CASE RecycleUndecoded \/ AddCaptureFrameTooLate
  <2>1. \A h \in Holders : held'[h] = held[h] \/ held'[h] = NULL
    BY <1>0, <1>7 DEF RecycleUndecoded, AddCaptureFrameTooLate, TypeOK, Holders
  <2> QED  BY <1>0, <1>7, <2>1, OrderFewer DEF RecycleUndecoded, AddCaptureFrameTooLate,
           TypeOK, Holders
<1>8. CASE ClearPreviewFrame
  BY <1>0, <1>8, OrderFewer DEF ClearPreviewFrame, ClearQueue
<1>9. CASE \/ PreparePreview \/ StartStream \/ SpawnCapture \/ PreviewLoop
           \/ SleepForPreviewFrame \/ TakeNoPreviewFrame \/ DecodeWithoutBuffer \/ RouteFrame
           \/ SignalCapture \/ CloseStream
  <2>1. UNCHANGED <<seq, delivered, queue, held>>
    BY <1>9 DEF PreparePreview, StartStream, SpawnCapture, PreviewLoop, SleepForPreviewFrame,
       TakeNoPreviewFrame, DecodeWithoutBuffer, RouteFrame, SignalCapture,
       CloseStream
  <2>2. /\ pc'.stream = "copy" => pc.stream = "copy"
        /\ pc'.capture = "callback" => pc.capture = "callback"
    BY <1>0, <1>9 DEF PreparePreview, StartStream, SpawnCapture, PreviewLoop,
       SleepForPreviewFrame, TakeNoPreviewFrame, DecodeWithoutBuffer, RouteFrame,
       SignalCapture, CloseStream
  <2> QED  BY <2>1, <2>2, OrderFewer
<1> QED  BY <1>2, <1>3, <1>4, <1>5, <1>6, <1>7, <1>8, <1>9 DEF PreviewThread

LEMMA OrderCapture ==
    TypeInv /\ OrderInv /\ CaptureThread => OrderInv'
<1> SUFFICES ASSUME TypeInv, OrderInv, CaptureThread PROVE OrderInv'
  OBVIOUS
<1>0. TypeOK /\ pc \in PcType
  BY DEF TypeInv, TypeOK, PcType
<1> USE DEF PcType, Goto, ghosts
<1>1. CASE TakeCaptureFrame
  <2>1. /\ held'["captured"] = held["captureQueu"] /\ held'["captureQueu"] = NULL
        /\ held["captureQueu"] # NULL
        /\ \A g \in Holders \ {"captureQueu", "captured"} : held'[g] = held[g]
        /\ UNCHANGED <<seq, delivered, queue>>
        /\ pc'.stream = pc.stream
    BY <1>0, <1>1 DEF TakeCaptureFrame, TypeOK, Holders
  <2> QED  BY <2>1 DEF OrderInv, Before, BeforeQueue, Holders
<1>2. CASE OnFrame
  <2>1. /\ delivered' = held["captured"].seq /\ held["captured"] # NULL
        /\ UNCHANGED <<seq, queue, held>>
        /\ pc.capture = "callback" /\ pc'.capture # "callback" /\ pc'.stream = pc.stream
    BY <1>0, <1>2 DEF OnFrame, TypeInv, HolderInv
  <2> QED  BY <2>1 DEF OrderInv, Before, BeforeQueue, Holders
<1>3. CASE ClearCaptureFrame \/ RecycleCaptured
  BY <1>0, <1>3, RecycleHeldType, OrderFewer DEF ClearCaptureFrame, ClearSlot, RecycleCaptured,
     Holders
<1>4. CASE \/ CaptureLoop \/ CaptureIdleLoop \/ SleepForCaptureFrame \/ TakeNoCaptureFrame
           \/ PictureDone \/ StopCapturing
  BY <1>0, <1>4, OrderFewer DEF CaptureLoop, CaptureIdleLoop, SleepForCaptureFrame,
     TakeNoCaptureFrame, PictureDone, StopCapturing
<1> QED  BY <1>1, <1>2, <1>3, <1>4 DEF CaptureThread

LEMMA OrderNext ==
    TypeInv /\ StoppedInv /\ OrderInv /\ [Next]_vars => OrderInv'
<1> SUFFICES ASSUME TypeInv, StoppedInv, OrderInv, [Next]_vars PROVE OrderInv'
  OBVIOUS
<1>0. TypeOK /\ pc \in PcType
  BY DEF TypeInv, TypeOK, PcType
<1> USE DEF PcType, Goto, GotoAndSignal, Woken, ghosts
<1>1. CASE Caller
  <2>1. CASE StopClearsSlot
    BY <1>0, <2>1, RecycleHeldType, OrderFewer DEF StopClearsSlot, ClearSlot, Holders
  <2>2. CASE StopClearsQueue
    BY <1>0, <2>2, OrderFewer DEF StopClearsQueue, ClearQueue
  <2>3. CASE Caller /\ ~StopClearsSlot /\ ~StopClearsQueue
    <3>1. UNCHANGED <<seq, delivered, queue, held>>
      BY <2>3 DEF Caller, Stopping, StartPreview, StartPreviewFails, CapturePicture,
         CapturePictureEnd, StopPreview, StopSignalsPreview, StopSignalsCapture,
         StopJoinsCapture, StopJoinsPreview
    <3>2. /\ pc'.stream = "copy" => pc.stream = "copy"
          /\ pc'.capture = "callback" => pc.capture = "callback"
      BY <1>0, <2>3 DEF Caller, Stopping, StartPreview, StartPreviewFails, CapturePicture,
         CapturePictureEnd, StopPreview, StopSignalsPreview, StopSignalsCapture,
         StopJoinsCapture, StopJoinsPreview
    <3> QED  BY <3>1, <3>2, OrderFewer
  <2> QED  BY <1>1, <2>1, <2>2, <2>3
<1>2. CASE \E t \in {"preview", "capture"} : SpuriousWakeup(t)
  BY <1>0, <1>2, OrderFewer DEF SpuriousWakeup
<1>3. CASE UNCHANGED vars
  BY <1>3, OrderFewer DEF vars
<1> QED  BY <1>1, <1>2, <1>3, OrderStream, OrderPreview, OrderCapture DEF Next, StoppedInv

LEMMA OrderAlways == Spec => [](TypeInv /\ StoppedInv /\ OrderInv)
<1>1. Init => OrderInv
  BY DEF Init, OrderInv, Before, BeforeQueue, Holders
<1> QED  BY <1>1, StoppedAlways, OrderNext, PTL DEF Spec

(* Every step of the preview is one of the channel, or none of its concern. *)
LEMMA ChannelStep ==
    TypeInv /\ OrderInv /\ [Next]_vars
        => [Channel!Next]_<<seq, delivered, asked - owed>>
<1> SUFFICES ASSUME TypeInv, OrderInv, [Next]_vars
             PROVE  [Channel!Next]_<<seq, delivered, asked - owed>>
  OBVIOUS
<1>0. seq \in Nat /\ delivered \in Nat /\ asked \in Int /\ owed \in Int
  BY BoundsAssumption DEF TypeInv, TypeOK
<1> USE DEF ghosts
<1>1. CASE UNCHANGED <<seq, delivered, asked, owed>>
  BY <1>1
<1>2. CASE CapturePicture
  BY <1>0, <1>2 DEF CapturePicture
<1>3. CASE FrameArrives \/ FrameIgnored
  BY <1>3 DEF FrameArrives, FrameIgnored, Channel!Next, Channel!Send
<1>4. CASE OnFrame
  <2>1. /\ pc.capture = "callback" /\ held["captured"] # NULL
        /\ delivered' = held["captured"].seq /\ owed' = owed - 1 /\ UNCHANGED <<seq, asked>>
    BY <1>4 DEF OnFrame, TypeInv, HolderInv
  <2>2. /\ delivered < held["captured"].seq /\ held["captured"].seq <= seq
        /\ held["captured"].seq \in Nat
    BY <2>1, NumbersType DEF OrderInv, Holders, TypeInv
  <2>3. delivered' \in (delivered + 1) .. seq
    BY <1>0, <2>1, <2>2
  <2>4. asked' - owed' = (asked - owed) + 1
    BY <1>0, <2>1
  <2> QED  BY <2>1, <2>3, <2>4 DEF Channel!Next, Channel!Deliver
<1>5. CASE Caller
  BY <1>1, <1>2, <1>5 DEF Caller, Stopping, StartPreview, StartPreviewFails, CapturePictureEnd,
     StopPreview, StopSignalsPreview, StopSignalsCapture, StopJoinsCapture, StopJoinsPreview,
     StopClearsQueue, StopClearsSlot
<1>6. CASE FrameCallback
  BY <1>1, <1>6 DEF FrameCallback, CopyFrame, CopyFrameFails, AddPreviewFrame,
     RefusePreviewFrame, RecycleRefused
<1>7. CASE PreviewThread
  BY <1>1, <1>7 DEF PreviewThread, PreparePreview, StartStream, ClearPreviewFrame, SpawnCapture,
     PreviewLoop, SleepForPreviewFrame, TakePreviewFrame, TakeNoPreviewFrame, Decode,
     DecodeWithoutBuffer, RecycleUndecoded, Draw, RecycleConverted, RecycleDecoded,
     RouteFrame, AddCaptureFrame, AddCaptureFrameTooLate, DropFrame, SignalCapture,
     CloseStream
<1>8. CASE CaptureThread
  BY <1>1, <1>4, <1>8 DEF CaptureThread, ClearCaptureFrame, CaptureLoop, CaptureIdleLoop,
     SleepForCaptureFrame, TakeCaptureFrame, TakeNoCaptureFrame, RecycleCaptured,
     PictureDone, StopCapturing
<1>9. CASE \E t \in {"preview", "capture"} : SpuriousWakeup(t)
  BY <1>1, <1>9 DEF SpuriousWakeup
<1>10. CASE UNCHANGED vars
  BY <1>1, <1>10 DEF vars
<1> QED  BY <1>3, <1>5, <1>6, <1>7, <1>8, <1>9, <1>10 DEF Next

(* The preview implements PictureChannel: through two queues and four      *)
(* threads, the callback receives camera frames in order, each at most     *)
(* once, and none that the camera did not send.                            *)
THEOREM ImplementsChannel == Spec => DeliversInOrder
<1>1. Init => Channel!Init
  BY DEF Init, Channel!Init
<1> QED  BY <1>1, OrderAlways, ChannelStep, PTL DEF Spec, DeliversInOrder, Channel!Spec

-----------------------------------------------------------------------------
(* What a stop waits for. *)

(* A running preview has a thread, and that one a stream while it works on  *)
(* frames.  After the signal of the stop only a thread that went to wait    *)
(* since mIsRunning was cleared is asleep.                                  *)
DriveInv ==
    /\ running \/ Stops => pc.preview # "none"
    /\ pc.preview \notin {"none", "prepare", "open", "exit"} => pc.stream # "off"
    /\ pc.app \in {"signal_capture", "join_capture", "join_preview"} /\ pc.preview = "asleep"
          => "preview" \in late
    /\ pc.app \in {"join_capture", "join_preview"} /\ pc.capture = "asleep"
          => "capture" \in late

LEMMA DriveNext == TypeInv /\ ThreadsInv /\ DriveInv /\ [Next]_vars => DriveInv'
<1> SUFFICES ASSUME TypeInv, ThreadsInv, DriveInv, [Next]_vars PROVE DriveInv'
  OBVIOUS
<1>0. pc \in PcType /\ running \in BOOLEAN
  BY DEF TypeInv, TypeOK, PcType
<1> USE DEF PcType, DriveInv, Stops, shared, ghosts, Goto, GotoAndSignal, Woken
<1>1. CASE Caller
  <2>1. CASE StartPreview \/ StartPreviewFails \/ StopPreview
    BY <1>0, <2>1 DEF StartPreview, StartPreviewFails, StopPreview
  <2>2. CASE CapturePicture \/ CapturePictureEnd
    BY <1>0, <2>2 DEF CapturePicture, CapturePictureEnd
  <2>3. CASE StopSignalsPreview
    BY <1>0, <2>3 DEF StopSignalsPreview
  <2>4. CASE StopSignalsCapture
    BY <1>0, <2>4 DEF StopSignalsCapture
  <2>5. CASE StopJoinsCapture
    BY <1>0, <2>5 DEF StopJoinsCapture
  <2>6. CASE StopJoinsPreview \/ StopClearsQueue \/ StopClearsSlot
    BY <1>0, <2>6 DEF StopJoinsPreview, StopClearsQueue, StopClearsSlot
  <2> QED  BY <1>1, <2>1, <2>2, <2>3, <2>4, <2>5, <2>6 DEF Caller, Stopping
<1>2. CASE FrameArrives \/ FrameIgnored \/ FrameCallback
  BY <1>0, <1>2 DEF FrameArrives, FrameIgnored, FrameCallback, CopyFrame, CopyFrameFails,
     AddPreviewFrame, RefusePreviewFrame, RecycleRefused
<1>3. CASE PreviewThread
  <2>1. CASE SleepForPreviewFrame
    BY <1>0, <2>1 DEF SleepForPreviewFrame, Oversleep, ThreadsInv, BeforeStop
  <2>2. CASE DecodeWithoutBuffer
    BY <1>0, <2>2 DEF DecodeWithoutBuffer
  <2>3. CASE PreparePreview \/ StartStream \/ SpawnCapture \/ CloseStream
    BY <1>0, <2>3 DEF PreparePreview, StartStream, SpawnCapture, CloseStream
  <2>4. CASE AddCaptureFrame \/ SignalCapture
    BY <1>0, <2>4 DEF AddCaptureFrame, SignalCapture
  <2>5. CASE \/ ClearPreviewFrame \/ PreviewLoop \/ TakePreviewFrame \/ TakeNoPreviewFrame
             \/ Decode \/ RecycleUndecoded \/ Draw \/ RecycleConverted \/ RecycleDecoded
             \/ RouteFrame \/ AddCaptureFrameTooLate \/ DropFrame
    <3>1. /\ pc'.app = pc.app /\ pc'.stream = pc.stream /\ pc'.capture = pc.capture
          /\ UNCHANGED <<running, late>>
      BY <1>0, <2>5 DEF ClearPreviewFrame, PreviewLoop, TakePreviewFrame,
         TakeNoPreviewFrame, Decode, RecycleUndecoded, Draw, RecycleConverted,
         RecycleDecoded, RouteFrame, AddCaptureFrameTooLate, DropFrame
    <3>2. /\ pc.preview \notin {"none", "prepare", "open", "exit"}
          /\ pc'.preview \notin {"none", "asleep"}
      BY <1>0, <2>5 DEF ClearPreviewFrame, PreviewLoop, TakePreviewFrame,
         TakeNoPreviewFrame, Decode, RecycleUndecoded, Draw, RecycleConverted,
         RecycleDecoded, RouteFrame, AddCaptureFrameTooLate, DropFrame, AfterDraw
    <3> QED  BY <3>1, <3>2
  <2> QED  BY <1>3, <2>1, <2>2, <2>3, <2>4, <2>5 DEF PreviewThread
<1>4. CASE CaptureThread
  <2>1. CASE SleepForCaptureFrame
    BY <1>0, <2>1 DEF SleepForCaptureFrame, Oversleep, ThreadsInv, BeforeStop
  <2>2. CASE CaptureThread /\ ~SleepForCaptureFrame
    BY <1>0, <2>2 DEF CaptureThread, ClearCaptureFrame, CaptureLoop, CaptureIdleLoop,
       TakeCaptureFrame, TakeNoCaptureFrame, OnFrame, RecycleCaptured, PictureDone,
       StopCapturing
  <2> QED  BY <1>4, <2>1, <2>2
<1>5. CASE \E t \in {"preview", "capture"} : SpuriousWakeup(t)
  BY <1>0, <1>5 DEF SpuriousWakeup
<1>6. CASE UNCHANGED vars
  BY <1>6 DEF vars
<1> QED  BY <1>1, <1>2, <1>3, <1>4, <1>5, <1>6 DEF Next

LEMMA DriveAlways == Spec => [](TypeInv /\ StoppedInv /\ DriveInv)
<1>1. Init => DriveInv
  BY DEF Init, DriveInv, Stops
<1>2. TypeInv /\ StoppedInv /\ DriveInv /\ [Next]_vars => DriveInv'
  BY DriveNext DEF StoppedInv
<1> QED  BY <1>1, <1>2, StoppedAlways, PTL DEF Spec

(* The places of a thread where nothing keeps it from its next step; what   *)
(* the preview thread waits for in uvc_stop_streaming is a frame callback.  *)
CaptureCanStep == pc.capture \notin {"none", "asleep", "exit"}
PreviewCanStep ==
    /\ pc.preview \notin {"none", "asleep", "exit"}
    /\ pc.preview = "close_stream" => pc.stream = "idle"
StreamCanStep == pc.stream \in {"copy", "add", "recycle"}

StopIsDriven ==
    /\ pc.app = "join_capture" =>
          \/ pc.capture \in {"none", "exit"} \/ CaptureCanStep
          \/ pc.capture = "asleep" /\ "capture" \in late
    /\ pc.app = "join_preview" =>
          \/ pc.preview = "exit" \/ PreviewCanStep \/ StreamCanStep
          \/ pc.preview = "asleep" /\ "preview" \in late

(* stopPreview waits for a thread that has ended or has a step to take; the *)
(* one exception is a thread that went to wait after mIsRunning was cleared *)
(* and so missed the signal.                                                *)
THEOREM StopNeverStuck == Spec => []StopIsDriven
<1>1. TypeInv /\ StoppedInv /\ DriveInv => StopIsDriven
  BY DEF TypeInv, TypeOK, StreamPc, StoppedInv, ThreadsInv, DriveInv, Stops, StopIsDriven,
     CaptureCanStep, PreviewCanStep, StreamCanStep
<1> QED  BY <1>1, DriveAlways, PTL

-----------------------------------------------------------------------------
(* The contracts with the stream below and the app above. *)

(* Past its loop the preview thread has seen mIsRunning cleared, and nobody *)
(* sets it again.                                                          *)
FinishInv == pc.preview \in {"end", "close_stream"} => ~running

LEMMA FinishNext == TypeInv /\ ThreadsInv /\ FinishInv /\ [Next]_vars => FinishInv'
<1> SUFFICES ASSUME TypeInv, ThreadsInv, FinishInv, [Next]_vars PROVE FinishInv'
  OBVIOUS
<1>0. pc \in PcType /\ running \in BOOLEAN
  BY DEF TypeInv, TypeOK, PcType
<1> USE DEF PcType, FinishInv, shared, Goto, GotoAndSignal, Woken
<1>1. CASE Caller
  <2>1. CASE StartPreview \/ StartPreviewFails \/ StopPreview
    BY <1>0, <2>1 DEF StartPreview, StartPreviewFails, StopPreview
  <2>2. CASE CapturePicture \/ CapturePictureEnd \/ Stopping
    BY <1>0, <2>2 DEF CapturePicture, CapturePictureEnd, Stopping, StopSignalsPreview,
       StopSignalsCapture, StopJoinsCapture, StopJoinsPreview, StopClearsQueue, StopClearsSlot
  <2> QED  BY <1>1, <2>1, <2>2 DEF Caller
<1>2. CASE FrameArrives \/ FrameIgnored \/ FrameCallback
  BY <1>0, <1>2 DEF FrameArrives, FrameIgnored, FrameCallback, CopyFrame, CopyFrameFails,
     AddPreviewFrame, RefusePreviewFrame, RecycleRefused
<1>3. CASE PreviewThread
  BY <1>0, <1>3 DEF PreviewThread, PreparePreview, StartStream, ClearPreviewFrame,
     SpawnCapture, PreviewLoop, SleepForPreviewFrame, TakePreviewFrame, TakeNoPreviewFrame,
     Decode, DecodeWithoutBuffer, RecycleUndecoded, Draw, RecycleConverted, RecycleDecoded,
     RouteFrame, AddCaptureFrame, AddCaptureFrameTooLate, DropFrame, SignalCapture,
     CloseStream, AfterDraw
<1>4. CASE CaptureThread
  BY <1>0, <1>4 DEF CaptureThread, ClearCaptureFrame, CaptureLoop, CaptureIdleLoop,
     SleepForCaptureFrame, TakeCaptureFrame, TakeNoCaptureFrame, OnFrame,
     RecycleCaptured, PictureDone, StopCapturing
<1>5. CASE \E t \in {"preview", "capture"} : SpuriousWakeup(t)
  BY <1>0, <1>5 DEF SpuriousWakeup
<1>6. CASE UNCHANGED vars
  BY <1>6 DEF vars
<1> QED  BY <1>1, <1>2, <1>3, <1>4, <1>5, <1>6 DEF Next

ContractInv == TypeInv /\ StoppedInv /\ DriveInv /\ FinishInv

LEMMA ContractAlways == Spec => []ContractInv
<1>1. Init => FinishInv
  BY DEF Init, FinishInv
<1>2. TypeInv /\ StoppedInv /\ FinishInv /\ [Next]_vars => FinishInv'
  BY FinishNext DEF StoppedInv
<1> QED  BY <1>1, <1>2, DriveAlways, PTL DEF Spec, ContractInv

(* What the rest of a preview thread's work leaves as it is. *)
Working == {"clear", "spawn", "loop", "wait", "asleep", "woken", "decode", "undecoded",
            "draw", "drawn", "decoded", "route", "add", "drop", "end",
            "close_stream"}

LEMMA PreviewWork ==
    ASSUME TypeInv, PreviewThread,
           ~PreparePreview, ~StartStream, ~CloseStream, ~DecodeWithoutBuffer
    PROVE  /\ pc.preview \in Working /\ pc'.preview \in Working
           /\ pc'.app = pc.app /\ pc'.stream = pc.stream
           /\ UNCHANGED <<running, seq>>
<1>0. pc \in PcType
  BY DEF TypeInv, TypeOK, PcType
<1> USE DEF PcType, Working, shared, ghosts, Goto, GotoAndSignal, Woken
<1>1. pc.preview \in Working /\ pc'.preview \in Working
  BY <1>0 DEF PreviewThread, ClearPreviewFrame,
     SpawnCapture, PreviewLoop, SleepForPreviewFrame, TakePreviewFrame, TakeNoPreviewFrame,
     Decode, RecycleUndecoded, Draw, RecycleConverted, RecycleDecoded,
     RouteFrame, AddCaptureFrame, AddCaptureFrameTooLate, DropFrame, SignalCapture,
     AfterDraw
<1>2. pc'.app = pc.app /\ pc'.stream = pc.stream /\ UNCHANGED <<running, seq>>
  BY <1>0 DEF PreviewThread, ClearPreviewFrame,
     SpawnCapture, PreviewLoop, SleepForPreviewFrame, TakePreviewFrame, TakeNoPreviewFrame,
     Decode, RecycleUndecoded, Draw, RecycleConverted, RecycleDecoded,
     RouteFrame, AddCaptureFrame, AddCaptureFrameTooLate, DropFrame, SignalCapture
<1> QED  BY <1>1, <1>2

LEMMA CaptureWork ==
    ASSUME TypeInv, CaptureThread \/ \E t \in {"preview", "capture"} : SpuriousWakeup(t)
    PROVE  /\ \/ pc'.preview = pc.preview
              \/ pc.preview \in Working /\ pc'.preview \in Working
           /\ pc'.app = pc.app /\ pc'.stream = pc.stream
           /\ UNCHANGED <<running, seq>>
<1>0. pc \in PcType
  BY DEF TypeInv, TypeOK, PcType
<1> USE DEF PcType, Working, shared, ghosts, Goto
<1>1. CASE CaptureThread
  BY <1>0, <1>1 DEF CaptureThread, ClearCaptureFrame, CaptureLoop, CaptureIdleLoop,
     SleepForCaptureFrame, TakeCaptureFrame, TakeNoCaptureFrame, OnFrame,
     RecycleCaptured, PictureDone, StopCapturing
<1>2. CASE \E t \in {"preview", "capture"} : SpuriousWakeup(t)
  BY <1>0, <1>2 DEF SpuriousWakeup
<1> QED  BY <1>1, <1>2

LEMMA SourceStep ==
    ContractInv /\ [Next]_vars
        => [Source!Next]_<<SourcePhase, pc.stream \notin {"off", "idle"}, seq>>
<1> SUFFICES ASSUME ContractInv, [Next]_vars
             PROVE  [Source!Next]_<<SourcePhase, pc.stream \notin {"off", "idle"}, seq>>
  OBVIOUS
<1>0. /\ TypeInv /\ ThreadsInv /\ DriveInv
      /\ pc \in PcType /\ seq \in Nat /\ seq + 1 \in Nat /\ seq <= seq + 1 /\ seq <= seq
  BY BoundsAssumption DEF ContractInv, StoppedInv, TypeInv, TypeOK, PcType
<1> DEFINE Idle == /\ (pc'.preview = "exit") <=> (pc.preview = "exit")
                   /\ pc'.stream = pc.stream /\ seq' = seq
<1> USE DEF PcType, shared, ghosts, Goto, GotoAndSignal, Woken
<1>1. Idle => UNCHANGED <<SourcePhase, pc.stream \notin {"off", "idle"}, seq>>
  BY DEF SourcePhase
<1>2. CASE Caller
  <2>1. CASE StartPreview
    <3>1. Idle  BY <1>0, <2>1 DEF StartPreview, ThreadsInv
    <3> QED  BY <1>1, <3>1
  <2>2. CASE Caller /\ ~StartPreview
    <3>1. Idle
      BY <1>0, <2>2 DEF Caller, Stopping, StartPreviewFails, CapturePicture, CapturePictureEnd,
         StopPreview, StopSignalsPreview, StopSignalsCapture, StopJoinsCapture,
         StopJoinsPreview, StopClearsQueue, StopClearsSlot
    <3> QED  BY <1>1, <3>1
  <2> QED  BY <1>2, <2>1, <2>2
<1>3. CASE FrameArrives
  <2>1. /\ SourcePhase = "on" /\ SourcePhase' = "on"
        /\ pc.stream = "idle" /\ pc'.stream = "copy" /\ seq' = seq + 1
    BY <1>0, <1>3 DEF FrameArrives, SourcePhase
  <2> QED  BY <1>0, <2>1 DEF Source!Next, Source!Call, Source!NextFrame
<1>4. CASE FrameIgnored
  <2>1. /\ SourcePhase = "on" /\ SourcePhase' = "on"
        /\ pc.stream = "idle" /\ pc' = pc /\ seq' = seq + 1
    BY <1>0, <1>4 DEF FrameIgnored, SourcePhase
  <2> QED  BY <1>0, <2>1 DEF Source!Next, Source!Fill, Source!NextFrame
<1>5. CASE CopyFrame \/ RefusePreviewFrame
  <2>1. /\ SourcePhase' = SourcePhase /\ seq' = seq
        /\ pc.stream \in {"copy", "add"} /\ pc'.stream \in {"add", "recycle"}
    BY <1>0, <1>5 DEF CopyFrame, RefusePreviewFrame, SourcePhase
  <2> QED  BY <2>1
<1>6. CASE CopyFrameFails \/ AddPreviewFrame \/ RecycleRefused
  <2>1. /\ SourcePhase = "on" /\ SourcePhase' = "on" /\ seq' = seq
        /\ pc.stream \in {"copy", "add", "recycle"} /\ pc'.stream = "idle"
    BY <1>0, <1>6 DEF CopyFrameFails, AddPreviewFrame, RecycleRefused, SourcePhase
  <2> QED  BY <2>1 DEF Source!Next, Source!Return
<1>7. CASE PreviewThread
  <2>1. CASE PreparePreview \/ StartStream
    <3>1. pc.stream = "off" /\ SourcePhase = "off" /\ seq' = seq
      BY <1>0, <2>1 DEF PreparePreview, StartStream, ThreadsInv, SourcePhase
    <3>2. CASE pc'.stream = "off" /\ pc'.preview = "exit"
      <4>1. SourcePhase' = "ended"  BY <3>2 DEF SourcePhase
      <4> QED  BY <3>1, <3>2, <4>1 DEF Source!Next, Source!Refuse
    <3>3. CASE pc'.stream = "off" /\ pc'.preview = "open"
      <4>1. SourcePhase' = "off"  BY <3>3 DEF SourcePhase
      <4> QED  BY <3>1, <3>3, <4>1
    <3>4. CASE pc'.stream = "idle"
      <4>1. SourcePhase' = "on"  BY <3>4 DEF SourcePhase
      <4> QED  BY <3>1, <3>4, <4>1 DEF Source!Next, Source!Start
    <3> QED  BY <1>0, <2>1, <3>1, <3>2, <3>3, <3>4 DEF PreparePreview, StartStream
  <2>2. CASE CloseStream
    <3>1. /\ SourcePhase = "on" /\ SourcePhase' = "ended" /\ seq' = seq
          /\ pc.stream = "idle" /\ pc'.stream = "off"
      BY <1>0, <2>2 DEF CloseStream, SourcePhase
    <3> QED  BY <3>1 DEF Source!Next, Source!End
  <2>3. CASE DecodeWithoutBuffer
    <3>1. Idle  BY <1>0, <2>3 DEF DecodeWithoutBuffer
    <3> QED  BY <1>1, <3>1
  <2>4. CASE /\ ~PreparePreview /\ ~StartStream /\ ~CloseStream /\ ~DecodeWithoutBuffer
    <3>1. Idle  BY <1>0, <1>7, <2>4, PreviewWork DEF Working
    <3> QED  BY <1>1, <3>1
  <2> QED  BY <2>1, <2>2, <2>3, <2>4
<1>8. CASE CaptureThread \/ \E t \in {"preview", "capture"} : SpuriousWakeup(t)
  <2>1. Idle  BY <1>0, <1>8, CaptureWork DEF Working
  <2> QED  BY <1>1, <2>1
<1>9. CASE UNCHANGED vars
  <2>1. Idle  BY <1>9 DEF vars
  <2> QED  BY <1>1, <2>1
<1> QED  BY <1>2, <1>3, <1>4, <1>5, <1>6, <1>7, <1>8, <1>9 DEF Next, FrameCallback

LEMMA ObjectStep == ContractInv /\ [Next]_vars => [Object!Next]_(Object!vars)
<1> SUFFICES ASSUME ContractInv, [Next]_vars PROVE [Object!Next]_(Object!vars)
  OBVIOUS
<1>0. /\ TypeInv /\ ThreadsInv /\ DriveInv /\ FinishInv
      /\ pc \in PcType /\ running \in BOOLEAN
  BY DEF ContractInv, StoppedInv, TypeInv, TypeOK, PcType
<1> DEFINE Unmoved == \/ pc'.preview = pc.preview
                      \/ pc.preview \in Working /\ pc'.preview \in Working
           Idle == UNCHANGED Object!vars
<1> USE DEF PcType, shared, ghosts, Goto, GotoAndSignal, Woken
<1>a. Unmoved => ObjectThread' = ObjectThread
  BY DEF ObjectThread, Working
<1>b. ASSUME ObjectThread' = ObjectThread, pc'.app = pc.app, running' = running
      PROVE  Idle
  BY <1>b DEF Object!vars, Stops, Alive
<1>1. CASE Caller
  <2>1. CASE StartPreview
    <3>1. /\ ObjectThread = "none" /\ ObjectThread' = "starting" /\ running' = TRUE
          /\ Stops' = Stops /\ Alive' = Alive /\ Alive
      BY <1>0, <2>1 DEF StartPreview, ThreadsInv, ObjectThread, Stops, Alive
    <3> QED  BY <3>1 DEF Object!Next, Object!Start
  <2>2. CASE StopPreview /\ running
    <3>1. /\ ObjectThread' = ObjectThread /\ running' = FALSE
          /\ ~Stops /\ Stops' /\ Alive' /\ Alive
      BY <1>0, <2>2 DEF StopPreview, ObjectThread, Stops, Alive
    <3> QED  BY <2>2, <3>1 DEF Object!Next, Object!BeginStop
  <2>3. CASE StopJoinsPreview
    <3>1. /\ ObjectThread = "ended" /\ ObjectThread' = "ended" /\ running' = running
          /\ Stops /\ ~Stops' /\ Alive' /\ Alive
      BY <1>0, <2>3 DEF StopJoinsPreview, ObjectThread, Stops, Alive
    <3> QED  BY <3>1 DEF Object!Next, Object!EndStop
  <2>4. CASE StopJoinsCapture /\ pc'.app = "aborted"
    <3>1. /\ ObjectThread' = ObjectThread /\ running' = running
          /\ ~Stops' /\ ~Alive' /\ Alive
      BY <1>0, <2>4 DEF StopJoinsCapture, ObjectThread, Stops, Alive
    <3> QED  BY <3>1 DEF Object!Next, Object!Crash
  <2>5. CASE \/ StartPreviewFails \/ CapturePicture \/ CapturePictureEnd
             \/ StopPreview /\ ~running
             \/ StopSignalsPreview \/ StopSignalsCapture
             \/ StopJoinsCapture /\ pc'.app # "aborted"
             \/ StopClearsQueue \/ StopClearsSlot
    <3>1. Unmoved
      BY <1>0, <2>5 DEF StartPreviewFails, CapturePicture, CapturePictureEnd, StopPreview,
         StopSignalsPreview, StopSignalsCapture, StopJoinsCapture, StopClearsQueue,
         StopClearsSlot, Working
    <3>2. running' = running
      BY <1>0, <2>5 DEF StartPreviewFails, CapturePicture, CapturePictureEnd, StopPreview,
         StopSignalsPreview, StopSignalsCapture, StopJoinsCapture, StopClearsQueue,
         StopClearsSlot, ThreadsInv, DriveInv
    <3>3. Stops' = Stops /\ Alive' = Alive
      BY <1>0, <2>5 DEF StartPreviewFails, CapturePicture, CapturePictureEnd, StopPreview,
         StopSignalsPreview, StopSignalsCapture, StopJoinsCapture, StopClearsQueue,
         StopClearsSlot, Stops, Alive
    <3> QED  BY <1>a, <3>1, <3>2, <3>3 DEF Object!vars
  <2> QED  BY <1>1, <2>1, <2>2, <2>3, <2>4, <2>5 DEF Caller, Stopping
<1>2. CASE FrameArrives \/ FrameIgnored \/ FrameCallback
  <2>1. Unmoved /\ pc'.app = pc.app /\ running' = running
    BY <1>0, <1>2 DEF FrameArrives, FrameIgnored, FrameCallback, CopyFrame, CopyFrameFails,
       AddPreviewFrame, RefusePreviewFrame, RecycleRefused, Working
  <2> QED  BY <1>a, <1>b, <2>1
<1>3. CASE PreviewThread
  <2>1. CASE PreparePreview \/ StartStream
    <3>1. /\ ObjectThread = "starting" /\ ObjectThread' \in {"starting", "streaming", "ended"}
          /\ running' = running /\ Stops' = Stops /\ Alive' = Alive /\ Alive
      BY <1>0, <1>3, <2>1 DEF PreviewThread, PreparePreview, StartStream, ObjectThread, Stops, Alive
    <3>2. CASE ObjectThread' = "starting"
      BY <3>1, <3>2 DEF Object!vars
    <3>3. CASE ObjectThread' = "streaming"
      BY <3>1, <3>3 DEF Object!Next, Object!Stream
    <3>4. CASE ObjectThread' = "ended"
      BY <3>1, <3>4 DEF Object!Next, Object!GiveUp
    <3> QED  BY <3>1, <3>2, <3>3, <3>4
  <2>2. CASE CloseStream
    <3>1. /\ ObjectThread = "streaming" /\ ObjectThread' = "ended" /\ ~running
          /\ running' = running /\ Stops' = Stops /\ Alive' = Alive /\ Alive
      BY <1>0, <1>3, <2>2 DEF PreviewThread, CloseStream, FinishInv, ObjectThread, Stops, Alive
    <3> QED  BY <3>1 DEF Object!Next, Object!Finish
  <2>3. CASE DecodeWithoutBuffer
    <3>1. /\ ObjectThread' = ObjectThread /\ running' = running
          /\ ~Stops' /\ ~Alive' /\ Alive
      BY <1>0, <1>3, <2>3 DEF PreviewThread, DecodeWithoutBuffer, ObjectThread, Stops, Alive
    <3> QED  BY <3>1 DEF Object!Next, Object!Crash
  <2>4. CASE ~PreparePreview /\ ~StartStream /\ ~CloseStream /\ ~DecodeWithoutBuffer
    <3>1. Unmoved /\ pc'.app = pc.app /\ running' = running
      BY <1>0, <1>3, <2>4, PreviewWork
    <3> QED  BY <1>a, <1>b, <3>1
  <2> QED  BY <2>1, <2>2, <2>3, <2>4
<1>4. CASE CaptureThread \/ \E t \in {"preview", "capture"} : SpuriousWakeup(t)
  <2>1. Unmoved /\ pc'.app = pc.app /\ running' = running
    BY <1>0, <1>4, CaptureWork
  <2> QED  BY <1>a, <1>b, <2>1
<1>5. CASE UNCHANGED vars
  <2>1. Unmoved /\ pc'.app = pc.app /\ running' = running
    BY <1>5 DEF vars
  <2> QED  BY <1>a, <1>b, <2>1
<1> QED  BY <1>1, <1>2, <1>3, <1>4, <1>5 DEF Next

(* The preview uses the stream as its contract allows: it starts the stream *)
(* once, has one callback running at a time and closes it between callbacks. *)
THEOREM StreamIsUsedAsPromised == Spec => UsesSource
<1>1. Init => Source!Init
  BY DEF Init, Source!Init, SourcePhase
<1> QED  BY <1>1, ContractAlways, SourceStep, PTL DEF Spec, UsesSource, Source!Spec

(* The preview is the object its owner takes it for: whatever the four      *)
(* threads do, its thread starts once, gives up only before it streams,     *)
(* finishes only when told to, and a stop returns only after it has.        *)
THEOREM ImplementsObject == Spec => KeepsObjectContract
<1>1. Init => Object!Init
  BY DEF Init, Object!Init, ObjectThread, Stops, Alive
<1> QED  BY <1>1, ContractAlways, ObjectStep, PTL DEF Spec, KeepsObjectContract, Object!Spec

(* The three together: the order of the pictures, the use of the stream and *)
(* the life of the thread.                                                 *)
THEOREM PromisesKept == Spec => KeepsPromises
BY ImplementsChannel, StreamIsUsedAsPromised, ImplementsObject DEF KeepsPromises
=============================================================================
