-------------------------- MODULE UvcStream_proofs --------------------------
(***************************************************************************)
(* Proofs about UvcStream for any set of transfers and any number of       *)
(* frames: its types, that uvc_stream_stop waits for all its transfers and *)
(* for the user thread, that no numbered frame is slept on, and that the   *)
(* user is never called back with a broken frame.                          *)
(***************************************************************************)
EXTENDS UvcStream, TLAPS

-----------------------------------------------------------------------------
(* Types *)

LEMMA TypeInit == Init => TypeOK
<1> SUFFICES ASSUME Init PROVE TypeOK
  OBVIOUS
<1>1. pc \in [control : ControlPc, events : EventsPc, user : UserPc]
      BY DEF Init, ControlPc, EventsPc, UserPc
<1>2. xfer \in [Transfers -> XferState] /\ event \in [t : Transfers, status : Status]
      BY DEF Init, XferState, Status
<1>3. seq \in 0 .. MaxSeq /\ lastSeq \in SeqNo /\ hold \in Held
      BY MaxSeqAssumption DEF Init, SeqNo, Held
<1>4. frame \in Held \union {NoFrame}
      BY DEF Init
<1>5. /\ present \in BOOLEAN /\ running \in BOOLEAN
      /\ noticed \in BOOLEAN /\ stopped \in BOOLEAN
      BY DEF Init
<1> QED BY <1>1, <1>2, <1>3, <1>4, <1>5 DEF TypeOK

LEMMA TypeNext == TypeOK /\ [Next]_vars => TypeOK'
<1> SUFFICES ASSUME TypeOK, [Next]_vars PROVE TypeOK'
  OBVIOUS
<1> USE MaxSeqAssumption
    DEF TypeOK, ControlPc, EventsPc, UserPc, XferState, Status, Held, SeqNo,
        NoFrame, assembly, caller, Goto, GotoAndBroadcast, Broadcast, Wake
<1>1. CASE Control
  <2>1. CASE StartStream         BY <2>1 DEF StartStream
  <2>2. CASE StartStreamFails    BY <2>2 DEF StartStreamFails
  <2>3. CASE \E t \in Transfers : SubmitTransfer(t)
        BY <2>3 DEF SubmitTransfer
  <2>4. CASE SubmitTransferFails BY <2>4 DEF SubmitTransferFails
  <2>5. CASE AllSubmitted        BY <2>5 DEF AllSubmitted
  <2>6. CASE CloseStream         BY <2>6 DEF CloseStream
  <2>7. CASE StopRunning         BY <2>7 DEF StopRunning
  <2>8. CASE StopRefused         BY <2>8 DEF StopRefused
  <2>9. CASE CancelTransfers     BY <2>9 DEF CancelTransfers
  <2>10. CASE CheckDeleted       BY <2>10 DEF CheckDeleted
  <2>11. CASE JoinUser           BY <2>11 DEF JoinUser
  <2>12. CASE FreeStream         BY <2>12 DEF FreeStream
  <2> QED BY <1>1, <2>1, <2>2, <2>3, <2>4, <2>5, <2>6, <2>7, <2>8, <2>9,
             <2>10, <2>11, <2>12 DEF Control, Closing
<1>2. CASE Events
  <2>1. ASSUME NEW t \in Transfers, Complete(t) PROVE TypeOK'
        BY <2>1 DEF Complete, StatusOf
  <2>2. CASE SwapBuffers
    <3>1. hold' \in Held
          BY <2>2 DEF SwapBuffers
    <3>2. seq' \in 0 .. MaxSeq
          BY <2>2 DEF SwapBuffers
    <3>3. noticed' = FALSE
          BY <2>2 DEF SwapBuffers
    <3>4. pc' \in [control : ControlPc, events : EventsPc, user : UserPc]
          BY <2>2 DEF SwapBuffers
    <3>5. /\ present' = present /\ running' = running /\ xfer' = xfer
          /\ event' = event /\ lastSeq' = lastSeq /\ frame' = frame
          /\ stopped' = stopped
          BY <2>2 DEF SwapBuffers
    <3> QED BY <3>1, <3>2, <3>3, <3>4, <3>5
  <2>3. CASE KeepStreaming       BY <2>3 DEF KeepStreaming
  <2>4. CASE GiveUpTransfer      BY <2>4 DEF GiveUpTransfer
  <2>5. CASE CheckRunning        BY <2>5 DEF CheckRunning
  <2>6. CASE Resubmit            BY <2>6 DEF Resubmit
  <2>7. CASE DeleteTransfer      BY <2>7 DEF DeleteTransfer
  <2> QED BY <1>2, <2>1, <2>2, <2>3, <2>4, <2>5, <2>6, <2>7 DEF Events
<1>3. CASE User
  <2>1. CASE WaitForFrame        BY <2>1 DEF WaitForFrame
  <2>2. CASE LeaveUser           BY <2>2 DEF LeaveUser
  <2>3. CASE PopulateFrame       BY <2>3 DEF PopulateFrame
  <2>4. CASE TestHeldError       BY <2>4 DEF TestHeldError
  <2>5. CASE UserCallback        BY <2>5 DEF UserCallback
  <2> QED BY <1>3, <2>1, <2>2, <2>3, <2>4, <2>5 DEF User
<1>4. CASE Unplug
  <2>1. present' \in BOOLEAN BY <1>4 DEF Unplug
  <2>2. /\ pc' = pc /\ running' = running /\ xfer' = xfer /\ event' = event
        /\ seq' = seq /\ hold' = hold /\ lastSeq' = lastSeq /\ frame' = frame
        /\ noticed' = noticed /\ stopped' = stopped
        BY <1>4 DEF Unplug
  <2> QED BY <2>1, <2>2
<1>5. CASE \E t \in {"control", "user"} : SpuriousWakeup(t)
      BY <1>5 DEF SpuriousWakeup
<1>6. CASE UNCHANGED vars        BY <1>6 DEF vars
<1> QED BY <1>1, <1>2, <1>3, <1>4, <1>5, <1>6 DEF Next

(* Every variable of the stream keeps to its type, for any number of        *)
(* transfers and frames.                                                    *)
THEOREM TypeCorrect == Spec => []TypeOK
BY TypeInit, TypeNext, PTL DEF Spec

-----------------------------------------------------------------------------
(* uvc_stream_stop waits for everything *)

(* A transfer in its callback is neither with libusb nor deleted, so an     *)
(* array of NULL entries means an idle event thread; only starting fills    *)
(* the array again.                                                         *)
StopInv ==
    /\ pc.events # "idle" => xfer[event.t] = "busy"
    /\ pc.control \in {"new", "join"} => AllDeleted
    /\ stopped => /\ pc.control \in {"free", "freed"}
                  /\ pc.user = "exit"
                  /\ AllDeleted

LEMMA StopInvNext == TypeOK /\ StopInv /\ [Next]_vars => StopInv'
<1> SUFFICES ASSUME TypeOK, StopInv, [Next]_vars PROVE StopInv'
  OBVIOUS
<1> USE DEF TypeOK, StopInv, AllDeleted, assembly, caller, Goto,
            GotoAndBroadcast, Broadcast, Wake
<1>1. CASE Control
  <2>1. CASE StartStream         BY <2>1 DEF StartStream
  <2>2. CASE StartStreamFails    BY <2>2 DEF StartStreamFails
  <2>3. CASE \E t \in Transfers : SubmitTransfer(t)
        BY <2>3 DEF SubmitTransfer
  <2>4. CASE SubmitTransferFails BY <2>4 DEF SubmitTransferFails
  <2>5. CASE AllSubmitted        BY <2>5 DEF AllSubmitted
  <2>6. CASE CloseStream         BY <2>6 DEF CloseStream
  <2>7. CASE StopRunning         BY <2>7 DEF StopRunning
  <2>8. CASE StopRefused         BY <2>8 DEF StopRefused
  <2>9. CASE CancelTransfers     BY <2>9 DEF CancelTransfers
  <2>10. CASE CheckDeleted       BY <2>10 DEF CheckDeleted
  <2>11. CASE JoinUser           BY <2>11 DEF JoinUser
  <2>12. CASE FreeStream         BY <2>12 DEF FreeStream
  <2> QED BY <1>1, <2>1, <2>2, <2>3, <2>4, <2>5, <2>6, <2>7, <2>8, <2>9,
             <2>10, <2>11, <2>12 DEF Control, Closing
<1>2. CASE Events
  <2>1. ASSUME NEW t \in Transfers, Complete(t) PROVE StopInv'
        BY <2>1 DEF Complete
  <2>2. CASE SwapBuffers         BY <2>2 DEF SwapBuffers
  <2>3. CASE KeepStreaming       BY <2>3 DEF KeepStreaming
  <2>4. CASE GiveUpTransfer      BY <2>4 DEF GiveUpTransfer
  <2>5. CASE CheckRunning        BY <2>5 DEF CheckRunning
  <2>6. CASE Resubmit            BY <2>6 DEF Resubmit
  <2>7. CASE DeleteTransfer      BY <2>7 DEF DeleteTransfer
  <2> QED BY <1>2, <2>1, <2>2, <2>3, <2>4, <2>5, <2>6, <2>7 DEF Events
<1>3. CASE User
      BY <1>3 DEF User, WaitForFrame, LeaveUser, PopulateFrame, TestHeldError,
                  UserCallback, AtLock
<1>4. CASE Unplug                BY <1>4 DEF Unplug
<1>5. CASE \E t \in {"control", "user"} : SpuriousWakeup(t)
      BY <1>5 DEF SpuriousWakeup
<1>6. CASE UNCHANGED vars        BY <1>6 DEF vars
<1> QED BY <1>1, <1>2, <1>3, <1>4, <1>5, <1>6 DEF Next

(* uvc_stream_stop, when it stops the stream at all, returns only when      *)
(* every transfer is deleted and the user thread has ended.                 *)
THEOREM StopWaits == Spec => []StopWaitsForAll
<1>1. Init => StopInv
      BY DEF Init, StopInv, AllDeleted
<1>2. TypeOK /\ StopInv => StopWaitsForAll
      BY TransfersAssumption DEF TypeOK, StopInv, StopWaitsForAll, Quiet, AllDeleted
<1> QED BY <1>1, <1>2, TypeCorrect, StopInvNext, PTL DEF Spec

-----------------------------------------------------------------------------
(* The frame handed to the user thread *)

(* The numbers only grow, so a frame swapped in differs from the last one   *)
(* the user thread saw - unless it is number 0, which last_seq starts with. *)
FrameInv ==
    /\ lastSeq <= hold.seq
    /\ hold.seq < seq \/ hold.seq = 0
    /\ noticed \/ lastSeq # hold.seq \/ hold.seq = 0
    /\ NoSleepOnFrame
    /\ frame.err = FALSE

LEMMA FrameInvNext == TypeOK /\ FrameInv /\ [Next]_vars => FrameInv'
<1> SUFFICES ASSUME TypeOK, FrameInv, [Next]_vars PROVE FrameInv'
  OBVIOUS
<1> USE MaxSeqAssumption
    DEF TypeOK, Held, SeqNo, FrameInv, NoSleepOnFrame, assembly, caller, Goto,
        GotoAndBroadcast, Broadcast, Wake
<1>1. CASE Control
  <2>1. /\ lastSeq' = lastSeq /\ hold' = hold /\ seq' = seq
        /\ noticed' = noticed /\ frame' = frame
        BY <1>1 DEF Control, Closing, StartStream, StartStreamFails,
                    SubmitTransfer, SubmitTransferFails, AllSubmitted,
                    CloseStream, StopRunning, StopRefused, CancelTransfers,
                    CheckDeleted, JoinUser, FreeStream
  <2>2. CASE StartStream
        BY <2>1, <2>2 DEF StartStream
  <2>3. CASE Control /\ ~StartStream
    <3>1. pc'.user = "waiting" => pc.user = "waiting"
          BY <2>3 DEF Control, Closing, StartStreamFails, SubmitTransfer,
                      SubmitTransferFails, AllSubmitted, CloseStream,
                      StopRunning, StopRefused, CancelTransfers, CheckDeleted,
                      JoinUser, FreeStream
    <3> QED BY <2>1, <3>1
  <2> QED BY <1>1, <2>2, <2>3
<1>2. CASE SwapBuffers
  <2>1. hold'.seq = seq /\ seq' = seq + 1 /\ lastSeq' = lastSeq /\ frame' = frame
        BY <1>2 DEF SwapBuffers
  <2>2. pc'.user # "waiting"
        BY <1>2 DEF SwapBuffers
  <2> QED BY <2>1, <2>2
<1>3. CASE Events /\ ~SwapBuffers
      BY <1>3 DEF Events, Complete, KeepStreaming, GiveUpTransfer, CheckRunning,
                  Resubmit, DeleteTransfer
<1>4. CASE User
  <2>1. CASE WaitForFrame        BY <2>1 DEF WaitForFrame
  <2>2. CASE LeaveUser           BY <2>2 DEF LeaveUser
  <2>3. CASE PopulateFrame       BY <2>3 DEF PopulateFrame
  <2>4. CASE TestHeldError       BY <2>4 DEF TestHeldError
  <2>5. CASE UserCallback        BY <2>5 DEF UserCallback
  <2> QED BY <1>4, <2>1, <2>2, <2>3, <2>4, <2>5 DEF User
<1>5. CASE Unplug                BY <1>5 DEF Unplug
<1>6. CASE \E t \in {"control", "user"} : SpuriousWakeup(t)
      BY <1>6 DEF SpuriousWakeup
<1>7. CASE UNCHANGED vars        BY <1>7 DEF vars
<1> QED BY <1>1, <1>2, <1>3, <1>4, <1>5, <1>6, <1>7 DEF Next

LEMMA FrameInvariant == Spec => []FrameInv
<1>1. Init => FrameInv
      BY DEF Init, FrameInv, NoSleepOnFrame, NoFrame
<1> QED BY <1>1, TypeCorrect, FrameInvNext, PTL DEF Spec

(* The user thread never sleeps on a frame it has not seen, number 0 apart. *)
THEOREM NoFrameSleptOn == Spec => []NoSleepOnFrame
<1>1. FrameInv => NoSleepOnFrame
      BY DEF FrameInv
<1> QED BY <1>1, FrameInvariant, PTL

(* The user is never called back with a broken frame, whatever a second     *)
(* reading of hold_bfh_err outside the lock returns.                        *)
THEOREM GoodCallbacks == Spec => []CallbackFrameIsGood
<1>1. FrameInv => CallbackFrameIsGood
      BY DEF FrameInv, CallbackFrameIsGood
<1> QED BY <1>1, FrameInvariant, PTL
-----------------------------------------------------------------------------
(* What a stop waits for *)

(* Only starting sets running and only before there is a user thread; a     *)
(* stop that waits has something to wait for, since a deletion wakes it;    *)
(* and when it joins the user thread the broadcast before has woken it.     *)
DriveInv ==
    /\ pc.control = "new" => pc.user = "none"
    /\ pc.control \notin {"new", "failed", "free", "freed"} => pc.user # "none"
    /\ StopBegun => ~running
    /\ pc.control \notin {"submit", "failed"} => \A t \in Transfers : xfer[t] # "ready"
    /\ \A t \in Transfers : xfer[t] = "busy" => pc.events # "idle" /\ event.t = t
    /\ pc.control = "waiting" => ~AllDeleted
    /\ pc.control = "join" => pc.user # "waiting"

LEMMA DriveInvNext == TypeOK /\ StopInv /\ DriveInv /\ [Next]_vars => DriveInv'
<1> SUFFICES ASSUME TypeOK, StopInv, DriveInv, [Next]_vars PROVE DriveInv'
  OBVIOUS
<1> USE DEF TypeOK, StopInv, DriveInv, StopBegun, AllDeleted, assembly, caller,
            Goto, GotoAndBroadcast, Broadcast, Wake
<1>1. CASE Control
  <2>1. CASE StartStream         BY <2>1 DEF StartStream
  <2>2. CASE StartStreamFails    BY <2>2 DEF StartStreamFails
  <2>3. CASE \E t \in Transfers : SubmitTransfer(t)
        BY <2>3 DEF SubmitTransfer
  <2>4. CASE SubmitTransferFails BY <2>4 DEF SubmitTransferFails
  <2>5. CASE AllSubmitted        BY <2>5 DEF AllSubmitted
  <2>6. CASE CloseStream         BY <2>6 DEF CloseStream
  <2>7. CASE StopRunning         BY <2>7 DEF StopRunning
  <2>8. CASE StopRefused         BY <2>8 DEF StopRefused
  <2>9. CASE CancelTransfers     BY <2>9 DEF CancelTransfers
  <2>10. CASE CheckDeleted       BY <2>10 DEF CheckDeleted
  <2>11. CASE JoinUser           BY <2>11 DEF JoinUser
  <2>12. CASE FreeStream         BY <2>12 DEF FreeStream
  <2> QED BY <1>1, <2>1, <2>2, <2>3, <2>4, <2>5, <2>6, <2>7, <2>8, <2>9,
             <2>10, <2>11, <2>12 DEF Control, Closing
<1>2. CASE Events
  <2>1. ASSUME NEW t \in Transfers, Complete(t) PROVE DriveInv'
        BY <2>1 DEF Complete
  <2>2. CASE SwapBuffers         BY <2>2 DEF SwapBuffers
  <2>3. CASE KeepStreaming       BY <2>3 DEF KeepStreaming
  <2>4. CASE GiveUpTransfer      BY <2>4 DEF GiveUpTransfer
  <2>5. CASE CheckRunning        BY <2>5 DEF CheckRunning
  <2>6. CASE Resubmit            BY <2>6 DEF Resubmit
  <2>7. CASE DeleteTransfer      BY <2>7 DEF DeleteTransfer
  <2> QED BY <1>2, <2>1, <2>2, <2>3, <2>4, <2>5, <2>6, <2>7 DEF Events
<1>3. CASE User
      BY <1>3 DEF User, WaitForFrame, LeaveUser, PopulateFrame, TestHeldError,
                  UserCallback, AtLock
<1>4. CASE Unplug                BY <1>4 DEF Unplug
<1>5. CASE \E t \in {"control", "user"} : SpuriousWakeup(t)
      BY <1>5 DEF SpuriousWakeup
<1>6. CASE UNCHANGED vars        BY <1>6 DEF vars
<1> QED BY <1>1, <1>2, <1>3, <1>4, <1>5, <1>6 DEF Next

LEMMA StopInvariant == Spec => [](TypeOK /\ StopInv /\ DriveInv)
<1>1. Init => StopInv /\ DriveInv
      BY DEF Init, StopInv, DriveInv, StopBegun, AllDeleted
<1> QED BY <1>1, TypeCorrect, StopInvNext, DriveInvNext, PTL DEF Spec

(* The event thread is in a callback, each of whose places has a step, or   *)
(* libusb has a transfer to report; the user thread is in no wait.          *)
EventsCanStep == pc.events # "idle" \/ \E t \in Transfers : xfer[t] \in {"flying", "cancelled"}
UserCanStep == pc.user \in {"lock", "woken", "unlocked", "callback"}

StopIsDriven ==
    /\ pc.control = "waiting" =>
          EventsCanStep \/ \E t \in Transfers : xfer[t] = "orphan"
    /\ pc.control = "join" => UserCanStep \/ pc.user = "exit"

(* uvc_stream_stop waits for nobody who waits for it: while it waits for    *)
(* the transfers the event thread has a step to take, or a transfer could   *)
(* not be resubmitted, and while it joins the user thread that one has.     *)
(* With the fairness of FairSpec this is why a stop returns.                *)
THEOREM StopNeverStuck == Spec => []StopIsDriven
<1>1. TypeOK /\ StopInv /\ DriveInv => StopIsDriven
  <2> SUFFICES ASSUME TypeOK, StopInv, DriveInv PROVE StopIsDriven
    OBVIOUS
  <2>1. ASSUME pc.control = "waiting"
        PROVE  EventsCanStep \/ \E t \in Transfers : xfer[t] = "orphan"
    <3>1. PICK t \in Transfers : xfer[t] # "null"
          BY <2>1 DEF DriveInv, AllDeleted
    <3>2. xfer[t] \in {"flying", "cancelled", "busy", "orphan"}
          BY <2>1, <3>1 DEF TypeOK, XferState, DriveInv
    <3> QED BY <3>2 DEF DriveInv, EventsCanStep
  <2>2. ASSUME pc.control = "join"
        PROVE  UserCanStep \/ pc.user = "exit"
        BY <2>2 DEF DriveInv, TypeOK, UserPc, UserCanStep
  <2> QED BY <2>1, <2>2 DEF StopIsDriven
<1> QED BY <1>1, StopInvariant, PTL

-----------------------------------------------------------------------------
(* When a closed stream is quiet *)

(* Only a disconnect clears running behind the back of the control thread.  *)
PluggedInv ==
    /\ event.status = "no_device" => ~present
    /\ present /\ pc.control \in {"submit", "streaming", "stop"} => running
    /\ present /\ pc.control \in {"free", "freed"} => stopped

LEMMA PluggedInvNext == TypeOK /\ PluggedInv /\ [Next]_vars => PluggedInv'
<1> SUFFICES ASSUME TypeOK, PluggedInv, [Next]_vars PROVE PluggedInv'
  OBVIOUS
<1> USE DEF TypeOK, PluggedInv, assembly, caller, Goto, GotoAndBroadcast, Broadcast, Wake
<1>1. CASE Control
  <2>1. CASE StartStream         BY <2>1 DEF StartStream
  <2>6. CASE StartStreamFails    BY <2>6 DEF StartStreamFails
  <2>2. CASE (\E t \in Transfers : SubmitTransfer(t)) \/ SubmitTransferFails \/ AllSubmitted
    <3>1. CASE \E t \in Transfers : SubmitTransfer(t)
          BY <3>1 DEF SubmitTransfer
    <3>2. CASE SubmitTransferFails \/ AllSubmitted
          BY <3>2 DEF SubmitTransferFails, AllSubmitted
    <3> QED BY <2>2, <3>1, <3>2
  <2>3. CASE CloseStream \/ StopRunning \/ StopRefused
        BY <2>3 DEF CloseStream, StopRunning, StopRefused
  <2>4. CASE CancelTransfers \/ CheckDeleted
        BY <2>4 DEF CancelTransfers, CheckDeleted
  <2>5. CASE JoinUser \/ FreeStream
        BY <2>5 DEF JoinUser, FreeStream
  <2> QED BY <1>1, <2>1, <2>2, <2>3, <2>4, <2>5, <2>6 DEF Control, Closing
<1>2. CASE Events
  <2>1. ASSUME NEW t \in Transfers, Complete(t) PROVE PluggedInv'
        BY <2>1 DEF Complete, StatusOf
  <2>2. CASE SwapBuffers         BY <2>2 DEF SwapBuffers
  <2>3. CASE KeepStreaming       BY <2>3 DEF KeepStreaming
  <2>4. CASE GiveUpTransfer      BY <2>4 DEF GiveUpTransfer
  <2>5. CASE CheckRunning        BY <2>5 DEF CheckRunning
  <2>6. CASE Resubmit            BY <2>6 DEF Resubmit
  <2>7. CASE DeleteTransfer      BY <2>7 DEF DeleteTransfer
  <2> QED BY <1>2, <2>1, <2>2, <2>3, <2>4, <2>5, <2>6, <2>7 DEF Events
<1>3. CASE User
      BY <1>3 DEF User, WaitForFrame, LeaveUser, PopulateFrame, TestHeldError,
                  UserCallback, AtLock
<1>4. CASE Unplug                BY <1>4 DEF Unplug
<1>5. CASE \E t \in {"control", "user"} : SpuriousWakeup(t)
      BY <1>5 DEF SpuriousWakeup
<1>6. CASE UNCHANGED vars        BY <1>6 DEF vars
<1> QED BY <1>1, <1>2, <1>3, <1>4, <1>5, <1>6 DEF Next

ClosedIsQuietWhilePlugged == Freed /\ present => Quiet

(* The comment of uvc_stop_streaming (ClosedIsQuiet) is right as long as    *)
(* the camera has not been unplugged by the time the handle is freed.       *)
THEOREM PluggedCloseIsQuiet == Spec => []ClosedIsQuietWhilePlugged
<1>1. Init => PluggedInv
      BY DEF Init, PluggedInv
<1>2. PluggedInv /\ StopWaitsForAll => ClosedIsQuietWhilePlugged
      BY DEF PluggedInv, StopWaitsForAll, ClosedIsQuietWhilePlugged, Freed
<1> QED BY <1>1, <1>2, TypeCorrect, PluggedInvNext, StopWaits, PTL DEF Spec

-----------------------------------------------------------------------------
(* The contract with the preview *)

(* What the user is called back with was held once, and held frames only    *)
(* get newer.                                                               *)
FrameIsOld == frame.seq <= hold.seq

LEMMA FrameIsOldNext == TypeOK /\ FrameInv /\ FrameIsOld /\ [Next]_vars => FrameIsOld'
<1> SUFFICES ASSUME TypeOK, FrameInv, FrameIsOld, [Next]_vars PROVE FrameIsOld'
  OBVIOUS
<1> USE MaxSeqAssumption DEF TypeOK, Held, SeqNo, NoFrame, FrameInv, FrameIsOld, assembly, caller
<1>1. CASE SwapBuffers
      BY <1>1 DEF SwapBuffers
<1>2. CASE PopulateFrame
      BY <1>2 DEF PopulateFrame
<1>3. CASE [Next]_vars /\ ~SwapBuffers /\ ~PopulateFrame
  <2>1. frame' = frame /\ hold' = hold
        BY <1>3 DEF vars, Next, Control, Closing, StartStream, StartStreamFails,
           SubmitTransfer, SubmitTransferFails, AllSubmitted, CloseStream,
           StopRunning, StopRefused, CancelTransfers, CheckDeleted, JoinUser,
           FreeStream, Events, Complete, KeepStreaming, GiveUpTransfer,
           CheckRunning, Resubmit, DeleteTransfer, User, WaitForFrame, LeaveUser,
           TestHeldError, UserCallback, Unplug, SpuriousWakeup
  <2> QED BY <2>1
<1> QED BY <1>1, <1>2, <1>3

(* Every step is a step of FrameSource or leaves its variables alone.       *)
LEMMA SourceStep ==
    TypeOK /\ StopInv /\ DriveInv /\ FrameInv /\ FrameIsOld /\ [Next]_vars
        => [Source!Next]_<<SourcePhase, pc.user = "callback", frame.seq + 1>>
<1> SUFFICES ASSUME TypeOK, StopInv, DriveInv, FrameInv, FrameIsOld, [Next]_vars
             PROVE  [Source!Next]_<<SourcePhase, pc.user = "callback", frame.seq + 1>>
  OBVIOUS
<1>0. frame \in Held \cup {NoFrame} /\ frame.seq + 1 \in Nat
      BY MaxSeqAssumption DEF TypeOK, Held, SeqNo, NoFrame
<1> DEFINE Idle == /\ pc'.user = pc.user \/ {pc.user, pc'.user} \subseteq (UserPc \ {"none", "callback"})
                   /\ stopped' = stopped /\ frame' = frame
<1>1. ASSUME Idle
      PROVE  UNCHANGED <<SourcePhase, pc.user = "callback", frame.seq + 1>>
      BY <1>1 DEF SourcePhase
<1> USE DEF TypeOK, ControlPc, EventsPc, UserPc, assembly, caller, Goto,
            GotoAndBroadcast, Broadcast, Wake, AtLock
<1>2. CASE StartStream
      BY <1>2 DEF StartStream, StopInv, DriveInv, SourcePhase, Source!Next, Source!Start
<1>3. CASE JoinUser
      BY <1>3 DEF JoinUser, StopInv, SourcePhase, Source!Next, Source!End
<1>4. CASE Control /\ ~StartStream /\ ~JoinUser
  <2>1. Idle
        BY <1>4 DEF Control, Closing, StartStreamFails, SubmitTransfer,
           SubmitTransferFails, AllSubmitted, CloseStream, StopRunning, StopRefused,
           CancelTransfers, CheckDeleted, FreeStream
  <2> QED BY <1>1, <2>1
<1>5. CASE Events
  <2>1. Idle
        BY <1>5 DEF Events, Complete, SwapBuffers, KeepStreaming, GiveUpTransfer,
           CheckRunning, Resubmit, DeleteTransfer
  <2> QED BY <1>1, <2>1
<1>6. CASE User
  <2>1. CASE WaitForFrame \/ LeaveUser
    <3>1. Idle BY <2>1 DEF WaitForFrame, LeaveUser
    <3> QED BY <1>1, <3>1
  <2>2. CASE PopulateFrame
    <3>1. frame'.seq + 1 \in Nat /\ frame.seq + 1 <= frame'.seq + 1
          BY <1>0, <2>2, MaxSeqAssumption
          DEF PopulateFrame, Held, SeqNo, FrameIsOld, NoFrame
    <3>2. /\ SourcePhase = "on" /\ SourcePhase' = "on"
          /\ pc.user # "callback" /\ pc'.user # "callback"
          BY <2>2 DEF PopulateFrame, SourcePhase, StopInv
    <3> QED BY <3>1, <3>2 DEF Source!Next, Source!Fill, Source!NextFrame
  <2>3. CASE TestHeldError
    <3>1. CASE hold.err
      <4>1. Idle BY <2>3, <3>1 DEF TestHeldError
      <4> QED BY <1>1, <4>1
    <3>2. CASE ~hold.err
      <4>1. /\ SourcePhase = "on" /\ SourcePhase' = "on"
            /\ pc.user # "callback" /\ pc'.user = "callback" /\ frame' = frame
            BY <2>3, <3>2 DEF TestHeldError, SourcePhase, StopInv
      <4> QED BY <1>0, <4>1 DEF Source!Next, Source!Call, Source!NextFrame
    <3> QED BY <3>1, <3>2
  <2>4. CASE UserCallback
    <3>1. /\ SourcePhase = "on" /\ SourcePhase' = "on"
          /\ pc.user = "callback" /\ pc'.user # "callback" /\ frame' = frame
          BY <2>4 DEF UserCallback, SourcePhase, StopInv
    <3> QED BY <3>1 DEF Source!Next, Source!Return
  <2> QED BY <1>6, <2>1, <2>2, <2>3, <2>4 DEF User
<1>7. CASE Unplug \/ (\E t \in {"control", "user"} : SpuriousWakeup(t)) \/ UNCHANGED vars
  <2>1. Idle BY <1>7 DEF Unplug, SpuriousWakeup, vars
  <2> QED BY <1>1, <2>1
<1> QED BY <1>2, <1>3, <1>4, <1>5, <1>6, <1>7 DEF Next

(* The stream keeps the contract its user builds on.                        *)
THEOREM ImplementsSource == Spec => KeepsSourceContract
<1>1. Init => FrameIsOld /\ Source!Init
      BY DEF Init, FrameIsOld, NoFrame, Source!Init, SourcePhase
<1>2. TypeOK /\ FrameInv /\ FrameIsOld /\ [Next]_vars => FrameIsOld'
      BY FrameIsOldNext
<1>3. TypeOK /\ StopInv /\ DriveInv /\ FrameInv /\ FrameIsOld /\ [Next]_vars
         => [Source!Next]_<<SourcePhase, pc.user = "callback", frame.seq + 1>>
      BY SourceStep
<1> QED BY <1>1, <1>2, <1>3, StopInvariant, FrameInvariant, PTL
        DEF Spec, KeepsSourceContract, Source!Spec
=============================================================================
