------------------------- MODULE UVCPreview_proofs --------------------------
(***************************************************************************)
(* Proofs about UVCPreview for any number of buffers, frames and pictures: *)
(* its types and capacities, that no thread sleeps on a frame, and that a  *)
(* buffer is never in two places.                                          *)
(***************************************************************************)
EXTENDS UVCPreview, FiniteSetTheorems, TLAPS

-----------------------------------------------------------------------------
(* Types *)

PcType == [app : AppPc, stream : StreamPc, preview : PreviewPc, capture : CapturePc]

(* What a thread is about to use is there. *)
HolderInv ==
    /\ pc.stream = "copy" => seq \in 1 .. MaxSeq
    /\ pc.stream = "add" => held["copy"] # NULL
    /\ pc.preview \in {"decode", "draw"} => held["frame"] # NULL
    /\ pc.capture = "callback" => held["captured"] # NULL

TypeInv == TypeOK /\ HolderInv

LEMMA TypeInit == Init => TypeInv
<1> SUFFICES ASSUME Init PROVE TypeInv
  OBVIOUS
<1>1. pc \in [app : AppPc, stream : StreamPc, preview : PreviewPc, capture : CapturePc]
      BY DEF Init, AppPc, StreamPc, PreviewPc, CapturePc
<1>2. Cardinality(pool) <= FRAME_POOL_SZ
      BY FS_EmptySet, SizesAssumption DEF Init
<1>3. queue \in Seq(Frame) /\ Len(queue) <= MAX_FRAME
      BY SizesAssumption DEF Init
<1>4. held \in [Holders -> Frame \union {NULL}]
      BY DEF Init
<1>5. /\ seq \in 0 .. MaxSeq /\ delivered \in 0 .. MaxSeq
      /\ asked \in 0 .. MaxPictures /\ owed \in Int /\ bad \in 0 .. MaxBad
      BY BoundsAssumption DEF Init
<1>6. HolderInv
      BY DEF Init, HolderInv
<1> QED BY <1>1, <1>2, <1>3, <1>4, <1>5, <1>6 DEF Init, TypeOK, TypeInv

LEMMA FrameNotNull == \A f \in Frame : f # NULL
<1>1. \A f \in Frame : f \in [buf : Buffers, seq : Nat]
      BY BoundsAssumption DEF Frame
<1> QED BY <1>1, FrameAssumption

(* get_frame returns an allocated buffer and leaves the pool no larger. *)
LEMMA GetFrameType ==
    ASSUME TypeOK, NEW b \in Buffers, GetFrame(b)
    PROVE  /\ heap' \subseteq Buffers /\ pool' \subseteq Buffers
           /\ Cardinality(pool') <= FRAME_POOL_SZ
<1>1. IsFiniteSet(pool) /\ Cardinality(pool) \in Nat
      BY BuffersAssumption, FS_Subset, FS_CardinalityType DEF TypeOK
<1>2. CASE b \in pool /\ pool' = pool \ {b} /\ UNCHANGED heap
  <2>1. pool' \in SUBSET pool
        BY <1>2
  <2>2. IsFiniteSet(pool') /\ Cardinality(pool') <= Cardinality(pool)
        BY <1>1, <2>1, FS_Subset
  <2>3. Cardinality(pool') \in Nat
        BY <2>2, FS_CardinalityType
  <2> QED BY <1>1, <1>2, <2>1, <2>2, <2>3, SizesAssumption DEF TypeOK
<1>3. CASE pool = {} /\ heap' = heap \union {b} /\ UNCHANGED pool
      BY <1>3 DEF TypeOK
<1> QED BY <1>2, <1>3 DEF GetFrame

LEMMA RecycleType ==
    ASSUME TypeOK, NEW bs \in SUBSET Buffers, Recycle(bs)
    PROVE  /\ heap' \subseteq Buffers /\ pool' \subseteq Buffers
           /\ Cardinality(pool') <= FRAME_POOL_SZ
BY DEF TypeOK, Recycle

LEMMA BuffersHeld ==
    ASSUME TypeOK
    PROVE  /\ QueuedBuffers \in SUBSET Buffers
           /\ \A h \in Holders : BufferOf(h) \in SUBSET Buffers
<1>1. \A i \in DOMAIN queue : queue[i] \in Frame
      BY DEF TypeOK
<1>2. QueuedBuffers \subseteq Buffers
      BY <1>1 DEF QueuedBuffers, Frame
<1>3. ASSUME NEW h \in Holders PROVE BufferOf(h) \subseteq Buffers
  <2>1. held[h] # NULL => held[h] \in Frame
        BY DEF TypeOK
  <2> QED BY <2>1 DEF BufferOf, Frame
<1> QED BY <1>2, <1>3

LEMMA GetFrameForType ==
    ASSUME TypeOK, NEW h \in Holders, NEW n \in 1 .. MaxSeq, GetFrameFor(h, n)
    PROVE  /\ heap' \subseteq Buffers /\ pool' \subseteq Buffers
           /\ Cardinality(pool') <= FRAME_POOL_SZ
           /\ held' \in [Holders -> Frame \union {NULL}]
           /\ held'[h] # NULL
           /\ \A g \in Holders \ {h} : held'[g] = held[g]
<1>1. PICK b \in Buffers : GetFrame(b) /\ held' = [held EXCEPT ![h] = [buf |-> b, seq |-> n]]
      BY DEF GetFrameFor
<1>2. [buf |-> b, seq |-> n] \in Frame
      BY DEF Frame
<1>3. [buf |-> b, seq |-> n] # NULL
      BY FrameAssumption, BoundsAssumption
<1> QED BY <1>1, <1>2, <1>3, GetFrameType DEF TypeOK

LEMMA RecycleHeldType ==
    ASSUME TypeOK, NEW h \in Holders, RecycleHeld(h)
    PROVE  /\ heap' \subseteq Buffers /\ pool' \subseteq Buffers
           /\ Cardinality(pool') <= FRAME_POOL_SZ
           /\ held' \in [Holders -> Frame \union {NULL}]
           /\ held'[h] = NULL
           /\ \A g \in Holders \ {h} : held'[g] = held[g]
<1>1. BufferOf(h) \in SUBSET Buffers
      BY BuffersHeld
<1>2. Recycle(BufferOf(h)) /\ held' = [held EXCEPT ![h] = NULL]
      BY DEF RecycleHeld
<1> QED BY <1>1, <1>2, RecycleType DEF TypeOK

LEMMA ClearQueueType ==
    ASSUME TypeOK, ClearQueue
    PROVE  /\ heap' \subseteq Buffers /\ pool' \subseteq Buffers
           /\ Cardinality(pool') <= FRAME_POOL_SZ
           /\ queue' \in Seq(Frame) /\ Len(queue') <= MAX_FRAME
<1>1. QueuedBuffers \in SUBSET Buffers
      BY BuffersHeld
<1> QED BY <1>1, RecycleType, SizesAssumption DEF ClearQueue

LEMMA CallerType == TypeInv /\ Caller => TypeInv'
<1> SUFFICES ASSUME TypeInv, Caller PROVE TypeInv'
  OBVIOUS
<1> USE BoundsAssumption DEF TypeInv, TypeOK, HolderInv, AppPc, StreamPc, PreviewPc, CapturePc,
        Holders, shared, memory, ghosts, Goto
<1>1. CASE StartPreview             BY <1>1 DEF StartPreview
<1>2. CASE StartPreviewFails        BY <1>2 DEF StartPreviewFails
<1>3. CASE CapturePicture           BY <1>3 DEF CapturePicture
<1>4. CASE CapturePictureEnd        BY <1>4 DEF CapturePictureEnd
<1>5. CASE StopPreview              BY <1>5 DEF StopPreview
<1>6. CASE StopSignalsPreview       BY <1>6 DEF StopSignalsPreview, GotoAndSignal, Woken
<1>7. CASE StopSignalsCapture       BY <1>7 DEF StopSignalsCapture, GotoAndSignal, Woken
<1>8. CASE StopJoinsCapture         BY <1>8 DEF StopJoinsCapture
<1>9. CASE StopJoinsPreview         BY <1>9 DEF StopJoinsPreview
<1>10. CASE StopClearsQueue
      BY <1>10, ClearQueueType DEF StopClearsQueue
<1>11. CASE StopClearsSlot
      BY <1>11, RecycleHeldType DEF StopClearsSlot, ClearSlot
<1> QED BY <1>1, <1>2, <1>3, <1>4, <1>5, <1>6, <1>7, <1>8, <1>9, <1>10, <1>11
        DEF Caller, Stopping

LEMMA StreamType ==
    TypeInv /\ (FrameArrives \/ FrameIgnored \/ FrameCallback) => TypeInv'
<1> SUFFICES ASSUME TypeInv, FrameArrives \/ FrameIgnored \/ FrameCallback
             PROVE  TypeInv'
  OBVIOUS
<1> USE BoundsAssumption
    DEF TypeInv, TypeOK, HolderInv, AppPc, StreamPc, PreviewPc, CapturePc,
        Holders, shared, memory, ghosts, Goto
<1>1. CASE FrameArrives             BY <1>1 DEF FrameArrives
<1>2. CASE FrameIgnored             BY <1>2 DEF FrameIgnored
<1>3. CASE CopyFrame                BY <1>3, GetFrameForType DEF CopyFrame
<1>4. CASE CopyFrameFails           BY <1>4 DEF CopyFrameFails
<1>5. CASE AddPreviewFrame
  <2>1. held["copy"] \in Frame
        BY <1>5 DEF AddPreviewFrame
  <2>2. queue' \in Seq(Frame) /\ Len(queue') <= MAX_FRAME
        BY <1>5, <2>1, SizesAssumption DEF AddPreviewFrame
  <2>3. /\ pc' \in [app : AppPc, stream : StreamPc, preview : PreviewPc, capture : CapturePc]
        /\ pc'.stream = "idle" /\ pc'.capture = pc.capture
        /\ pc'.preview \in {"decode", "draw"} => pc'.preview = pc.preview
        BY <1>5 DEF AddPreviewFrame, GotoAndSignal, Woken
  <2>4. held' \in [Holders -> Frame \union {NULL}]
        BY <1>5 DEF AddPreviewFrame
  <2> QED BY <1>5, <2>2, <2>3, <2>4 DEF AddPreviewFrame
<1>6. CASE RefusePreviewFrame       BY <1>6 DEF RefusePreviewFrame
<1>7. CASE RecycleRefused           BY <1>7, RecycleHeldType DEF RecycleRefused
<1> QED BY <1>1, <1>2, <1>3, <1>4, <1>5, <1>6, <1>7 DEF FrameCallback

LEMMA PreviewType == TypeInv /\ PreviewThread => TypeInv'
<1> SUFFICES ASSUME TypeInv, PreviewThread PROVE TypeInv'
  OBVIOUS
<1> USE BoundsAssumption
    DEF TypeInv, TypeOK, HolderInv, AppPc, StreamPc, PreviewPc, CapturePc,
        Holders, shared, memory, ghosts, Goto
<1>1. CASE PreparePreview           BY <1>1 DEF PreparePreview
<1>2. CASE StartStream              BY <1>2 DEF StartStream
<1>3. CASE ClearPreviewFrame        BY <1>3, ClearQueueType DEF ClearPreviewFrame
<1>4. CASE SpawnCapture             BY <1>4 DEF SpawnCapture
<1>5. CASE PreviewLoop              BY <1>5 DEF PreviewLoop
<1>6. CASE SleepForPreviewFrame
      BY <1>6 DEF SleepForPreviewFrame, Oversleep, Threads
<1>7. CASE TakePreviewFrame
  <2>1. Head(queue) \in Frame /\ Tail(queue) \in Seq(Frame)
        /\ Len(Tail(queue)) <= MAX_FRAME
        BY <1>7, SizesAssumption DEF TakePreviewFrame
  <2>2. Head(queue) # NULL
        BY <2>1, FrameNotNull
  <2> QED BY <1>7, <2>1, <2>2 DEF TakePreviewFrame
<1>8. CASE TakeNoPreviewFrame       BY <1>8 DEF TakeNoPreviewFrame
<1>9. CASE Decode
  <2>1. held["frame"].seq \in 1 .. MaxSeq
        BY <1>9 DEF Decode, Frame
  <2> QED BY <1>9, <2>1, GetFrameForType DEF Decode
<1>10. CASE RecycleUndecoded
  <2>1. BufferOf("decoded") \in SUBSET Buffers
        BY BuffersHeld
  <2> QED BY <1>10, <2>1, RecycleType DEF RecycleUndecoded
<1>11. CASE Draw
  <2>1. held["frame"].seq \in 1 .. MaxSeq
        BY <1>11 DEF Draw, Frame
  <2> QED BY <1>11, <2>1, GetFrameForType DEF Draw, AfterDraw
<1>12. CASE RecycleConverted
       BY <1>12, RecycleHeldType DEF RecycleConverted, AfterDraw
<1>13. CASE RecycleDecoded          BY <1>13, RecycleHeldType DEF RecycleDecoded
<1>14. CASE RouteFrame              BY <1>14 DEF RouteFrame
<1>15. CASE AddCaptureFrame
  <2>1. BufferOf("captureQueu") \in SUBSET Buffers
        BY BuffersHeld
  <2> QED BY <1>15, <2>1, RecycleType DEF AddCaptureFrame, GotoAndSignal, Woken
<1>16. CASE AddCaptureFrameTooLate  BY <1>16 DEF AddCaptureFrameTooLate
<1>17. CASE DropFrame               BY <1>17, RecycleHeldType DEF DropFrame
<1>18. CASE SignalCapture           BY <1>18 DEF SignalCapture, GotoAndSignal, Woken
<1>19. CASE CloseStream             BY <1>19 DEF CloseStream
<1>20. CASE DecodeWithoutBuffer     BY <1>20 DEF DecodeWithoutBuffer
<1> QED BY <1>1, <1>2, <1>3, <1>4, <1>5, <1>6, <1>7, <1>8, <1>9, <1>10, <1>11,
           <1>12, <1>13, <1>14, <1>15, <1>16, <1>17, <1>18, <1>19, <1>20
        DEF PreviewThread

LEMMA CaptureType == TypeInv /\ CaptureThread => TypeInv'
<1> SUFFICES ASSUME TypeInv, CaptureThread PROVE TypeInv'
  OBVIOUS
<1> USE BoundsAssumption
    DEF TypeInv, TypeOK, HolderInv, AppPc, StreamPc, PreviewPc, CapturePc,
        Holders, shared, memory, ghosts, Goto
<1>1. CASE ClearCaptureFrame
      BY <1>1, RecycleHeldType DEF ClearCaptureFrame, ClearSlot
<1>2. CASE CaptureLoop              BY <1>2 DEF CaptureLoop
<1>3. CASE CaptureIdleLoop          BY <1>3 DEF CaptureIdleLoop
<1>4. CASE SleepForCaptureFrame
      BY <1>4 DEF SleepForCaptureFrame, Oversleep, Threads
<1>5. CASE TakeCaptureFrame         BY <1>5 DEF TakeCaptureFrame
<1>6. CASE TakeNoCaptureFrame       BY <1>6 DEF TakeNoCaptureFrame
<1>7. CASE OnFrame
  <2>1. held["captured"].seq \in 1 .. MaxSeq
        BY <1>7 DEF OnFrame, Frame
  <2> QED BY <1>7, <2>1 DEF OnFrame
<1>8. CASE RecycleCaptured          BY <1>8, RecycleHeldType DEF RecycleCaptured
<1>9. CASE PictureDone              BY <1>9 DEF PictureDone
<1>10. CASE StopCapturing           BY <1>10 DEF StopCapturing
<1> QED BY <1>1, <1>2, <1>3, <1>4, <1>5, <1>6, <1>7, <1>8, <1>9, <1>10
        DEF CaptureThread

LEMMA TypeNext == TypeInv /\ [Next]_vars => TypeInv'
<1> SUFFICES ASSUME TypeInv, [Next]_vars PROVE TypeInv'
  OBVIOUS
<1> USE DEF TypeInv, TypeOK, HolderInv, shared, memory, ghosts
<1>1. CASE \E t \in {"preview", "capture"} : SpuriousWakeup(t)
      BY <1>1 DEF SpuriousWakeup, Goto, AppPc, StreamPc, PreviewPc, CapturePc
<1>2. CASE UNCHANGED vars
      BY <1>2 DEF vars
<1> QED BY <1>1, <1>2, CallerType, StreamType, PreviewType, CaptureType DEF Next

LEMMA TypeInvariant == Spec => []TypeInv
BY TypeInit, TypeNext, PTL DEF Spec

(* Every variable of the preview keeps to its type; previewFrames and the   *)
(* pool never outgrow their capacities, for any capacities.                 *)
THEOREM TypeCorrect == Spec => []TypeOK
<1>1. TypeInv => TypeOK
      BY DEF TypeInv
<1> QED BY <1>1, TypeInvariant, PTL

-----------------------------------------------------------------------------
(* No thread sleeps on a frame *)

LEMMA SleepNext == TypeInv /\ NoSleepOnFrame /\ [Next]_vars => NoSleepOnFrame'
<1> SUFFICES ASSUME TypeInv, NoSleepOnFrame, [Next]_vars PROVE NoSleepOnFrame'
  OBVIOUS
<1> USE DEF TypeInv, TypeOK, NoSleepOnFrame, Holders, shared, memory, ghosts, Goto
<1>1. CASE Caller
  <2>1. CASE StopClearsQueue
        BY <2>1 DEF StopClearsQueue, ClearQueue
  <2>2. CASE StopClearsSlot
        BY <2>2, RecycleHeldType DEF StopClearsSlot, ClearSlot
  <2>3. CASE StopSignalsPreview \/ StopSignalsCapture
        BY <2>3 DEF StopSignalsPreview, StopSignalsCapture, GotoAndSignal, Woken
  <2>4. CASE \/ StartPreview \/ StartPreviewFails \/ CapturePicture
             \/ CapturePictureEnd \/ StopPreview \/ StopJoinsCapture
             \/ StopJoinsPreview
        BY <2>4 DEF StartPreview, StartPreviewFails, CapturePicture,
                    CapturePictureEnd, StopPreview, StopJoinsCapture,
                    StopJoinsPreview
  <2> QED BY <1>1, <2>1, <2>2, <2>3, <2>4 DEF Caller, Stopping
<1>2. CASE FrameArrives \/ FrameIgnored \/ FrameCallback
  <2>1. CASE CopyFrame
    <3>1. held'["captureQueu"] = held["captureQueu"]
          BY <2>1 DEF CopyFrame, GetFrameFor
    <3> QED BY <2>1, <3>1 DEF CopyFrame
  <2>2. CASE AddPreviewFrame
        BY <2>2 DEF AddPreviewFrame, GotoAndSignal, Woken
  <2>3. CASE RecycleRefused
        BY <2>3 DEF RecycleRefused, RecycleHeld
  <2>4. CASE \/ FrameArrives \/ FrameIgnored \/ CopyFrameFails \/ RefusePreviewFrame
        BY <2>4 DEF FrameArrives, FrameIgnored, CopyFrameFails, RefusePreviewFrame
  <2> QED BY <1>2, <2>1, <2>2, <2>3, <2>4 DEF FrameCallback
<1>3. CASE PreviewThread
  <2>1. CASE PreparePreview \/ StartStream \/ ClearPreviewFrame \/ SpawnCapture
        BY <2>1 DEF PreparePreview, StartStream, ClearPreviewFrame, ClearQueue,
                    SpawnCapture
  <2>2. CASE SleepForPreviewFrame
        BY <2>2 DEF SleepForPreviewFrame
  <2>3. CASE TakePreviewFrame \/ TakeNoPreviewFrame \/ PreviewLoop \/ DecodeWithoutBuffer
        BY <2>3 DEF TakePreviewFrame, TakeNoPreviewFrame, PreviewLoop,
                    DecodeWithoutBuffer
  <2>4. CASE Decode \/ Draw
    <3>1. held'["captureQueu"] = held["captureQueu"]
          BY <2>4 DEF Decode, Draw, GetFrameFor
    <3>2. pc'.preview # "asleep" /\ pc'.capture = pc.capture
          BY <2>4 DEF Decode, Draw, AfterDraw
    <3> QED BY <3>1, <3>2
  <2>5. CASE RecycleUndecoded \/ RecycleConverted \/ RecycleDecoded \/ DropFrame
        BY <2>5 DEF RecycleUndecoded, RecycleConverted, RecycleDecoded, DropFrame,
                    RecycleHeld, AfterDraw
  <2>6. CASE AddCaptureFrame
        BY <2>6 DEF AddCaptureFrame, GotoAndSignal, Woken
  <2>7. CASE AddCaptureFrameTooLate \/ RouteFrame
        BY <2>7 DEF AddCaptureFrameTooLate, RouteFrame
  <2>8. CASE SignalCapture \/ CloseStream
        BY <2>8 DEF SignalCapture, CloseStream, GotoAndSignal, Woken
  <2> QED BY <1>3, <2>1, <2>2, <2>3, <2>4, <2>5, <2>6, <2>7, <2>8 DEF PreviewThread
<1>4. CASE CaptureThread
  <2>1. CASE SleepForCaptureFrame
        BY <2>1 DEF SleepForCaptureFrame
  <2>2. CASE TakeCaptureFrame
        BY <2>2 DEF TakeCaptureFrame
  <2>3. CASE ClearCaptureFrame \/ RecycleCaptured
        BY <2>3, RecycleHeldType DEF ClearCaptureFrame, ClearSlot, RecycleCaptured
  <2>4. CASE \/ CaptureLoop \/ CaptureIdleLoop \/ TakeNoCaptureFrame \/ OnFrame
             \/ PictureDone \/ StopCapturing
        BY <2>4 DEF CaptureLoop, CaptureIdleLoop, TakeNoCaptureFrame, OnFrame,
                    PictureDone, StopCapturing
  <2> QED BY <1>4, <2>1, <2>2, <2>3, <2>4 DEF CaptureThread
<1>5. CASE \E t \in {"preview", "capture"} : SpuriousWakeup(t)
      BY <1>5 DEF SpuriousWakeup
<1>6. CASE UNCHANGED vars
      BY <1>6 DEF vars
<1> QED BY <1>1, <1>2, <1>3, <1>4, <1>5, <1>6 DEF Next

(* waitPreviewFrame and waitCaptureFrame never leave a thread asleep while  *)
(* a frame is there for it: what they may miss is only the end.             *)
THEOREM NoFrameSleptOn == Spec => []NoSleepOnFrame
<1>1. Init => NoSleepOnFrame
      BY DEF Init, NoSleepOnFrame
<1> QED BY <1>1, TypeInvariant, SleepNext, PTL DEF Spec

-----------------------------------------------------------------------------
(* A buffer is in one place *)

(* NoSharedBuffer pointer by pointer: b is used when it is neither free nor *)
(* pooled.                                                                  *)
InUse(b) == b \in heap /\ b \notin pool

OneOwner ==
    /\ pool \subseteq heap
    /\ \A i \in DOMAIN queue : InUse(queue[i].buf)
    /\ \A h \in Holders : held[h] # NULL => InUse(held[h].buf)
    /\ \A i, j \in DOMAIN queue : queue[i].buf = queue[j].buf => i = j
    /\ \A h \in Holders : \A i \in DOMAIN queue :
           held[h] # NULL => held[h].buf # queue[i].buf
    /\ \A h, g \in Holders :
           held[h] # NULL /\ held[g] # NULL /\ held[h].buf = held[g].buf => h = g

LEMMA OneOwnerSuffices == OneOwner => NoSharedBuffer
BY DEF OneOwner, InUse, NoSharedBuffer, Owned, QueuedBuffers, BufferOf

(* get_frame returns a buffer nobody uses *)
LEMMA GetFrameUnused ==
    ASSUME pool \subseteq heap, NEW b \in Buffers, GetFrame(b)
    PROVE  /\ pool' \subseteq heap' /\ ~InUse(b) /\ InUse(b)'
           /\ \A c : InUse(c) => InUse(c)'
BY DEF GetFrame, InUse

(* recycle_frame ends the use of the buffers it is given, and of no other *)
LEMMA RecycleUsed ==
    ASSUME pool \subseteq heap, NEW bs, \A b \in bs : InUse(b), Recycle(bs)
    PROVE  /\ pool' \subseteq heap'
           /\ \A c : InUse(c) /\ c \notin bs => InUse(c)'
BY DEF Recycle, InUse

LEMMA GetFrameForOwner ==
    ASSUME TypeOK, OneOwner, NEW h \in Holders, NEW n, GetFrameFor(h, n),
           UNCHANGED queue
    PROVE  OneOwner'
<1>1. PICK b \in Buffers : GetFrame(b) /\ held' = [held EXCEPT ![h] = [buf |-> b, seq |-> n]]
      BY DEF GetFrameFor
<1>2. /\ pool' \subseteq heap' /\ ~InUse(b) /\ InUse(b)'
      /\ \A c : InUse(c) => InUse(c)'
      BY <1>1, GetFrameUnused DEF OneOwner
<1>3. held'[h].buf = b /\ \A g \in Holders \ {h} : held'[g] = held[g]
      BY <1>1 DEF TypeOK
<1> QED BY <1>2, <1>3 DEF OneOwner

(* Recycling what pointer h holds, when h then holds nothing *)
LEMMA RecycleHeldOwner ==
    ASSUME TypeOK, OneOwner, NEW h \in Holders, RecycleHeld(h), UNCHANGED queue
    PROVE  OneOwner'
<1>1. \A b \in BufferOf(h) : InUse(b)
      BY DEF OneOwner, BufferOf
<1>2. /\ pool' \subseteq heap'
      /\ \A c : InUse(c) /\ c \notin BufferOf(h) => InUse(c)'
      BY <1>1, RecycleUsed DEF OneOwner, RecycleHeld
<1>3. held'[h] = NULL /\ \A g \in Holders \ {h} : held'[g] = held[g]
      BY DEF RecycleHeld, TypeOK
<1>4. \A i \in DOMAIN queue : queue[i].buf \notin BufferOf(h)
      BY DEF OneOwner, BufferOf
<1>5. \A g \in Holders \ {h} : held[g] # NULL => held[g].buf \notin BufferOf(h)
      BY DEF OneOwner, BufferOf
<1> QED BY <1>2, <1>3, <1>4, <1>5 DEF OneOwner

LEMMA ClearQueueOwner ==
    ASSUME OneOwner, ClearQueue, UNCHANGED held
    PROVE  OneOwner'
<1>1. \A b \in QueuedBuffers : InUse(b)
      BY DEF OneOwner, QueuedBuffers
<1>2. /\ pool' \subseteq heap'
      /\ \A c : InUse(c) /\ c \notin QueuedBuffers => InUse(c)'
      BY <1>1, RecycleUsed DEF OneOwner, ClearQueue
<1>3. \A h \in Holders : held[h] # NULL => held[h].buf \notin QueuedBuffers
      BY DEF OneOwner, QueuedBuffers
<1>4. queue' = <<>>
      BY DEF ClearQueue
<1> QED BY <1>2, <1>3, <1>4 DEF OneOwner

LEMMA OwnerNext == TypeInv /\ OneOwner /\ [Next]_vars => OneOwner'
<1> SUFFICES ASSUME TypeInv, OneOwner, [Next]_vars PROVE OneOwner'
  OBVIOUS
<1> USE DEF TypeInv
<1>1. CASE UNCHANGED <<heap, pool, queue, held>>
      BY <1>1 DEF OneOwner, InUse
<1>2. CASE StopClearsQueue
      BY <1>2, ClearQueueOwner DEF StopClearsQueue
<1>3. CASE ClearPreviewFrame
      BY <1>3, ClearQueueOwner DEF ClearPreviewFrame
<1>4. CASE \/ StopClearsSlot \/ RecycleRefused \/ RecycleConverted \/ RecycleDecoded
           \/ DropFrame \/ ClearCaptureFrame \/ RecycleCaptured
      BY <1>4, RecycleHeldOwner
         DEF StopClearsSlot, RecycleRefused, RecycleConverted, RecycleDecoded,
             DropFrame, ClearCaptureFrame, RecycleCaptured, ClearSlot, Holders
<1>5. CASE CopyFrame \/ Decode
      BY <1>5, GetFrameForOwner DEF CopyFrame, Decode, Holders
<1>6. CASE Draw
      BY <1>1, <1>6, GetFrameForOwner DEF Draw, Holders, memory
<1>7. CASE AddPreviewFrame
  <2>1. held["copy"] \in Frame /\ queue \in Seq(Frame)
        BY <1>7 DEF AddPreviewFrame, TypeOK, HolderInv, Holders
  <2>2. /\ DOMAIN queue' = 1 .. Len(queue) + 1
        /\ queue'[Len(queue) + 1] = held["copy"]
        /\ \A i \in DOMAIN queue : queue'[i] = queue[i]
        BY <1>7, <2>1 DEF AddPreviewFrame
  <2>3. /\ held'["copy"] = NULL /\ held["copy"] # NULL
        /\ \A g \in Holders \ {"copy"} : held'[g] = held[g]
        BY <1>7 DEF AddPreviewFrame, TypeOK, HolderInv, Holders
  <2>4. DOMAIN queue' = DOMAIN queue \union {Len(queue) + 1}
        BY <2>1, <2>2
  <2>5. heap' = heap /\ pool' = pool
        BY <1>7 DEF AddPreviewFrame, memory
  <2> DEFINE new == Len(queue) + 1
  <2>6. /\ InUse(queue'[new].buf)
        /\ \A i \in DOMAIN queue : queue'[i].buf # queue'[new].buf
        /\ \A h \in Holders \ {"copy"} : held[h] # NULL => held[h].buf # queue'[new].buf
        BY <2>2, <2>3 DEF OneOwner, Holders
  <2>7. \A h \in Holders : held'[h] # NULL => h # "copy" /\ held'[h] = held[h]
        BY <2>3
  <2> HIDE DEF new
  <2>8. DOMAIN queue' = DOMAIN queue \union {new}
        BY <2>4 DEF new
  <2>9. \A i \in DOMAIN queue' : InUse(queue'[i].buf)
        BY <2>2, <2>6, <2>8 DEF OneOwner
  <2>10. \A i, j \in DOMAIN queue' : queue'[i].buf = queue'[j].buf => i = j
    <3> SUFFICES ASSUME NEW i \in DOMAIN queue', NEW j \in DOMAIN queue',
                        queue'[i].buf = queue'[j].buf, i # j
                 PROVE  FALSE
      OBVIOUS
    <3>1. i \in DOMAIN queue /\ j \in DOMAIN queue
          BY <2>2, <2>6, <2>8
    <3> QED BY <3>1, <2>2 DEF OneOwner
  <2>11. \A h \in Holders : \A i \in DOMAIN queue' :
            held'[h] # NULL => held'[h].buf # queue'[i].buf
    <3> SUFFICES ASSUME NEW h \in Holders, NEW i \in DOMAIN queue', held'[h] # NULL
                 PROVE  held'[h].buf # queue'[i].buf
      OBVIOUS
    <3>1. h # "copy" /\ held[h] # NULL /\ held'[h] = held[h]
          BY <2>7
    <3>2. CASE i = new
          BY <3>1, <3>2, <2>6
    <3>3. CASE i \in DOMAIN queue
          BY <3>1, <3>3, <2>2 DEF OneOwner
    <3> QED BY <3>2, <3>3, <2>8
  <2>12. \A h \in Holders : held'[h] # NULL => InUse(held'[h].buf)
        BY <2>7 DEF OneOwner
  <2>13. pool' \subseteq heap' /\ \A b : InUse(b)' <=> InUse(b)
        BY <2>5 DEF OneOwner, InUse
  <2> QED BY <2>5, <2>7, <2>9, <2>10, <2>11, <2>12, <2>13 DEF OneOwner, InUse
<1>8. CASE TakePreviewFrame
  <2>1. queue \in Seq(Frame) /\ queue # <<>>
        BY <1>8 DEF TakePreviewFrame, TypeOK
  <2>2. /\ 1 \in DOMAIN queue
        /\ \A i \in DOMAIN queue' : i + 1 \in DOMAIN queue /\ i + 1 # 1
                                   /\ queue'[i] = queue[i + 1]
        BY <1>8, <2>1 DEF TakePreviewFrame
  <2>3. /\ held'["frame"] = queue[1]
        /\ \A g \in Holders \ {"frame"} : held'[g] = held[g]
        BY <1>8, <2>1 DEF TakePreviewFrame, TypeOK, Holders
  <2>4. heap' = heap /\ pool' = pool
        BY <1>8 DEF TakePreviewFrame, memory
  <2>5. \A i, j \in DOMAIN queue' : i + 1 = j + 1 => i = j
        BY <1>8, <2>1 DEF TakePreviewFrame
  <2> QED BY <2>2, <2>3, <2>4, <2>5 DEF OneOwner, InUse, Holders
<1>9. CASE RecycleUndecoded
  <2>1. \A b \in BufferOf("decoded") : InUse(b)
        BY DEF OneOwner, BufferOf, Holders
  <2>2. /\ pool' \subseteq heap'
        /\ \A c : InUse(c) /\ c \notin BufferOf("decoded") => InUse(c)'
        BY <1>9, <2>1, RecycleUsed DEF OneOwner, RecycleUndecoded
  <2>3. /\ \A g \in Holders : held'[g] # NULL => g # "decoded" /\ held'[g] = held[g]
        /\ queue' = queue
        BY <1>9 DEF RecycleUndecoded, TypeOK, Holders
  <2>4. \A i \in DOMAIN queue : queue[i].buf \notin BufferOf("decoded")
        BY DEF OneOwner, BufferOf, Holders
  <2>5. \A g \in Holders \ {"decoded"} :
           held[g] # NULL => held[g].buf \notin BufferOf("decoded")
        BY DEF OneOwner, BufferOf, Holders
  <2> QED BY <2>2, <2>3, <2>4, <2>5 DEF OneOwner
<1>10. CASE AddCaptureFrame
  <2>1. \A b \in BufferOf("captureQueu") : InUse(b)
        BY DEF OneOwner, BufferOf, Holders
  <2>2. /\ pool' \subseteq heap'
        /\ \A c : InUse(c) /\ c \notin BufferOf("captureQueu") => InUse(c)'
        BY <1>10, <2>1, RecycleUsed DEF OneOwner, AddCaptureFrame
  <2>3. /\ held'["captureQueu"] = held["frame"] /\ held'["frame"] = NULL
        /\ \A g \in Holders \ {"captureQueu", "frame"} : held'[g] = held[g]
        /\ queue' = queue
        BY <1>10 DEF AddCaptureFrame, TypeOK, Holders
  <2>4. \A i \in DOMAIN queue : queue[i].buf \notin BufferOf("captureQueu")
        BY DEF OneOwner, BufferOf, Holders
  <2>5. \A g \in Holders \ {"captureQueu"} :
           held[g] # NULL => held[g].buf \notin BufferOf("captureQueu")
        BY DEF OneOwner, BufferOf, Holders
  <2> QED BY <2>2, <2>3, <2>4, <2>5 DEF OneOwner, Holders
<1>11. CASE AddCaptureFrameTooLate
  <2>1. \A g \in Holders : held'[g] # NULL => held'[g] = held[g]
        BY <1>11 DEF AddCaptureFrameTooLate, TypeOK, Holders
  <2>2. UNCHANGED <<heap, pool, queue>>
        BY <1>11 DEF AddCaptureFrameTooLate, memory
  <2> QED BY <2>1, <2>2 DEF OneOwner, InUse
<1>12. CASE TakeCaptureFrame
  <2>1. /\ held'["captured"] = held["captureQueu"] /\ held'["captureQueu"] = NULL
        /\ \A g \in Holders \ {"captured", "captureQueu"} : held'[g] = held[g]
        BY <1>12 DEF TakeCaptureFrame, TypeOK, Holders
  <2>2. UNCHANGED <<heap, pool, queue>>
        BY <1>12 DEF TakeCaptureFrame, memory
  <2> QED BY <2>1, <2>2 DEF OneOwner, InUse, Holders
<1>13. CASE Caller
  <2>1. \/ StopClearsQueue \/ StopClearsSlot
        \/ UNCHANGED <<heap, pool, queue, held>>
        BY <1>13 DEF Caller, Stopping, StartPreview, StartPreviewFails,
           CapturePicture, CapturePictureEnd, StopPreview, StopSignalsPreview,
           StopSignalsCapture, StopJoinsCapture, StopJoinsPreview, memory
  <2> QED BY <1>1, <1>2, <1>4, <2>1
<1>14. CASE FrameArrives \/ FrameIgnored \/ FrameCallback
  <2>1. \/ CopyFrame \/ AddPreviewFrame \/ RecycleRefused
        \/ UNCHANGED <<heap, pool, queue, held>>
        BY <1>14 DEF FrameArrives, FrameIgnored, FrameCallback, CopyFrameFails,
           RefusePreviewFrame, memory
  <2> QED BY <1>1, <1>4, <1>5, <1>7, <2>1
<1>15. CASE PreviewThread
  <2>1. \/ ClearPreviewFrame \/ TakePreviewFrame \/ Decode \/ RecycleUndecoded
        \/ Draw \/ RecycleConverted \/ RecycleDecoded \/ AddCaptureFrame
        \/ AddCaptureFrameTooLate \/ DropFrame
        \/ UNCHANGED <<heap, pool, queue, held>>
        BY <1>15 DEF PreviewThread, PreparePreview, StartStream, SpawnCapture,
           PreviewLoop, SleepForPreviewFrame, TakeNoPreviewFrame, RouteFrame,
           DecodeWithoutBuffer, SignalCapture, CloseStream, memory
  <2> QED BY <1>1, <1>3, <1>4, <1>5, <1>6, <1>8, <1>9, <1>10, <1>11, <2>1
<1>16. CASE CaptureThread
  <2>1. \/ ClearCaptureFrame \/ TakeCaptureFrame \/ RecycleCaptured
        \/ UNCHANGED <<heap, pool, queue, held>>
        BY <1>16 DEF CaptureThread, CaptureLoop, CaptureIdleLoop,
           SleepForCaptureFrame, TakeNoCaptureFrame, OnFrame, PictureDone,
           StopCapturing, memory
  <2> QED BY <1>1, <1>4, <1>12, <2>1
<1>17. CASE \E t \in {"preview", "capture"} : SpuriousWakeup(t)
       BY <1>1, <1>17 DEF SpuriousWakeup, memory
<1>18. CASE UNCHANGED vars
       BY <1>1, <1>18 DEF vars, memory
<1> QED BY <1>13, <1>14, <1>15, <1>16, <1>17, <1>18 DEF Next

(* A buffer is pooled, queued or held by one pointer, and never by two: so  *)
(* recycle_frame is called once for each frame, and nobody uses a buffer    *)
(* that was freed or handed out again.                                      *)
THEOREM BuffersNotShared == Spec => []NoSharedBuffer
<1>1. Init => OneOwner
      BY DEF Init, OneOwner
<1> QED BY <1>1, TypeInvariant, OwnerNext, OneOwnerSuffices, PTL DEF Spec
=============================================================================
