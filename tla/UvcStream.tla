----------------------------- MODULE UvcStream ------------------------------
(***************************************************************************)
(* One uvc_stream_handle of libuvc (libuvc/src/stream.c): starting it,     *)
(* the transfers in flight, the frame handed from the libusb event thread  *)
(* to the thread that calls the user back, and stopping and closing it,    *)
(* with the cable pulled at any moment.                                    *)
(*                                                                         *)
(* Three threads: "control" opens and closes the stream (the preview       *)
(* thread), "events" runs libusb's callbacks one at a time, "user" is      *)
(* _uvc_user_caller.  All waits are on cb_cond, under cb_mutex; running is *)
(* read and written without it.  Once the handle is freed the model stops: *)
(* what the other threads then do with it is undefined.                    *)
(***************************************************************************)
EXTENDS Integers, FiniteSets

CONSTANTS
    Transfers,  \* the transfers of the stream: activeUrbs of them
    MaxSeq      \* bound: frames assembled

ASSUME TransfersAssumption == Transfers # {} /\ IsFiniteSet(Transfers)
ASSUME MaxSeqAssumption    == MaxSeq \in Nat \ {0}

VARIABLES
    pc,       \* where each thread stands
    present,  \* the device is plugged in
    running,  \* strmh->running
    xfer,     \* state of each entry of strmh->transfers_random
    event,    \* transfer and status of the callback the event thread is in
    seq,      \* strmh->seq
    hold,     \* strmh->hold_seq and hold_bfh_err
    lastSeq,  \* last_seq of _uvc_user_caller
    frame,    \* what strmh->frame was last filled with
    noticed,  \* the held frame has been seen by _uvc_user_caller
    stopped   \* uvc_stream_stop returned UVC_SUCCESS

assembly == <<seq, hold, noticed>>
caller == <<lastSeq, frame>>
vars == <<pc, present, running, xfer, event, assembly, caller, stopped>>

ControlPc == {"new", "submit", "streaming", "failed", "stop", "cancel",
              "waiting", "woken", "join", "free", "freed"}
EventsPc == {"idle", "handle", "check", "submit", "delete"}
UserPc == {"none", "lock", "waiting", "woken", "unlocked", "callback", "exit"}

(* NULL entry; allocated; in flight; in flight and cancelled; in its         *)
(* callback; neither in flight nor deleted, because resubmitting it failed   *)
XferState == {"null", "ready", "flying", "cancelled", "busy", "orphan"}

(* TIMED_OUT, STALL and OVERFLOW are retried alike. *)
Status == {"completed", "retry", "error", "cancelled", "no_device"}

SeqNo == 0 .. MaxSeq - 1
Held == [seq : SeqNo, err : BOOLEAN]
NoFrame == [seq |-> -1, err |-> FALSE]

Init ==
    /\ pc = [control |-> "new", events |-> "idle", user |-> "none"]
    /\ present = TRUE
    /\ running = FALSE
    /\ xfer = [t \in Transfers |-> "null"]
    /\ event \in [t : Transfers, status : {"completed"}]
    /\ seq = 0
    /\ hold = [seq |-> 0, err |-> FALSE]
    /\ lastSeq = 0
    /\ frame = NoFrame
    /\ noticed = TRUE
    /\ stopped = FALSE

Freed == pc.control = "freed"
Goto(t, label) == pc' = [pc EXCEPT ![t] = label]

(* pthread_cond_broadcast on cb_cond wakes both waiters *)
Wake(label) == IF label = "waiting" THEN "woken" ELSE label
Broadcast(p) == [control |-> Wake(p.control), events |-> p.events, user |-> Wake(p.user)]
GotoAndBroadcast(t, label) == pc' = Broadcast([pc EXCEPT ![t] = label])

AllDeleted == \A t \in Transfers : xfer[t] = "null"

-----------------------------------------------------------------------------
(* Starting: uvc_stream_start_random. *)

(* running is set first; the transfers are allocated and cb_thread created *)
StartStream ==
    /\ pc.control = "new"
    /\ running' = TRUE
    /\ xfer' = [t \in Transfers |-> "ready"]
    /\ pc' = [pc EXCEPT !.control = "submit", !.user = "lock"]
    /\ UNCHANGED <<present, event, assembly, caller, stopped>>

(* no such frame or format, or no alternate setting *)
StartStreamFails ==
    /\ pc.control = "new"
    /\ running' = FALSE
    /\ Goto("control", "failed")
    /\ UNCHANGED <<present, xfer, event, assembly, caller, stopped>>

SubmitTransfer(t) ==
    /\ pc.control = "submit"
    /\ present
    /\ xfer[t] = "ready"
    /\ xfer' = [xfer EXCEPT ![t] = "flying"]
    /\ UNCHANGED <<pc, present, running, event, assembly, caller, stopped>>

(* Nothing is cleaned up: the thread and the submitted transfers go on. *)
SubmitTransferFails ==
    /\ pc.control = "submit"
    /\ \E t \in Transfers : xfer[t] = "ready"
    /\ running' = FALSE
    /\ Goto("control", "failed")
    /\ UNCHANGED <<present, xfer, event, assembly, caller, stopped>>

AllSubmitted ==
    /\ pc.control = "submit"
    /\ \A t \in Transfers : xfer[t] # "ready"
    /\ Goto("control", "streaming")
    /\ UNCHANGED <<present, running, xfer, event, assembly, caller, stopped>>

-----------------------------------------------------------------------------
(* Stopping: uvc_stop_streaming, uvc_stream_close, uvc_stream_stop. *)

CloseStream ==
    /\ pc.control = "streaming"
    /\ Goto("control", IF running THEN "stop" ELSE "free")
    /\ UNCHANGED <<present, running, xfer, event, assembly, caller, stopped>>

(* uvc_stream_stop looks at running once more *)
StopRunning ==
    /\ pc.control = "stop"
    /\ running
    /\ running' = FALSE
    /\ Goto("control", "cancel")
    /\ UNCHANGED <<present, xfer, event, assembly, caller, stopped>>

StopRefused ==
    /\ pc.control = "stop"
    /\ ~running
    /\ Goto("control", "free")
    /\ UNCHANGED <<present, running, xfer, event, assembly, caller, stopped>>

(* With every entry NULL the user thread is woken; else wait for a deletion *)
CancelTransfers ==
    /\ pc.control = "cancel"
    /\ xfer' = [t \in Transfers |->
                   IF xfer[t] = "flying" THEN "cancelled" ELSE xfer[t]]
    /\ IF AllDeleted THEN GotoAndBroadcast("control", "join")
                     ELSE Goto("control", "waiting")
    /\ UNCHANGED <<present, running, event, assembly, caller, stopped>>

CheckDeleted ==
    /\ pc.control = "woken"
    /\ IF AllDeleted THEN GotoAndBroadcast("control", "join")
                     ELSE Goto("control", "waiting")
    /\ UNCHANGED <<present, running, xfer, event, assembly, caller, stopped>>

(* Mutant: the user thread is woken, not joined *)
StopWithoutJoin ==
    /\ pc.control = "join"
    /\ stopped' = TRUE
    /\ Goto("control", "free")
    /\ UNCHANGED <<present, running, xfer, event, assembly, caller>>

(* pthread_join(strmh->cb_thread) *)
JoinUser ==
    /\ pc.control = "join"
    /\ pc.user = "exit"
    /\ stopped' = TRUE
    /\ Goto("control", "free")
    /\ UNCHANGED <<present, running, xfer, event, assembly, caller>>

FreeStream ==
    /\ pc.control = "free"
    /\ Goto("control", "freed")
    /\ UNCHANGED <<present, running, xfer, event, assembly, caller, stopped>>

Closing ==
    \/ StopRunning \/ StopRefused \/ CancelTransfers \/ CheckDeleted
    \/ JoinUser \/ FreeStream

Control ==
    \/ StartStream \/ StartStreamFails
    \/ \E t \in Transfers : SubmitTransfer(t)
    \/ SubmitTransferFails \/ AllSubmitted
    \/ CloseStream \/ Closing

-----------------------------------------------------------------------------
(* The libusb event thread: _uvc_stream_callback. *)

(* libusb: how a transfer in flight can end.  A cancelled one may have       *)
(* completed first; without the device all of them end.                      *)
StatusOf(t) ==
    IF ~present THEN {"no_device"} \union (IF xfer[t] = "cancelled" THEN {"cancelled"} ELSE {})
    ELSE IF xfer[t] = "cancelled" THEN {"cancelled", "completed"}
    ELSE {"completed", "retry", "error"}

Complete(t) ==
    /\ pc.events = "idle"
    /\ xfer[t] \in {"flying", "cancelled"}
    /\ \E status \in StatusOf(t) : event' = [t |-> t, status |-> status]
    /\ xfer' = [xfer EXCEPT ![t] = "busy"]
    /\ Goto("events", "handle")
    /\ UNCHANGED <<present, running, assembly, caller, stopped>>

(* Mutants: the number is taken after it was counted; nobody is woken *)
SwapBuffersCountingFirst ==
    /\ pc.events = "handle"
    /\ event.status = "completed"
    /\ seq < MaxSeq
    /\ seq' = seq + 1
    /\ \E err \in BOOLEAN : hold' = [seq |-> seq + 1, err |-> err]
    /\ noticed' = FALSE
    /\ pc' = Broadcast(pc)
    /\ UNCHANGED <<present, running, xfer, event, caller, stopped>>

SwapBuffersQuietly ==
    /\ pc.events = "handle"
    /\ event.status = "completed"
    /\ seq < MaxSeq
    /\ \E err \in BOOLEAN : hold' = [seq |-> seq, err |-> err]
    /\ seq' = seq + 1
    /\ noticed' = FALSE
    /\ UNCHANGED <<pc, present, running, xfer, event, caller, stopped>>

(* _uvc_swap_buffers, whenever a payload of the transfer ends a frame; err is *)
(* bfh_err, what the payload headers and packet statuses of that frame said   *)
SwapBuffers ==
    /\ pc.events = "handle"
    /\ event.status = "completed"
    /\ seq < MaxSeq
    /\ \E err \in BOOLEAN : hold' = [seq |-> seq, err |-> err]
    /\ seq' = seq + 1
    /\ noticed' = FALSE
    /\ pc' = Broadcast(pc)
    /\ UNCHANGED <<present, running, xfer, event, caller, stopped>>

(* no payload of the transfer is left, or there was none *)
KeepStreaming ==
    /\ pc.events = "handle"
    /\ event.status \in {"completed", "retry"}
    /\ Goto("events", "check")
    /\ UNCHANGED <<present, running, xfer, event, assembly, caller, stopped>>

(* Mutant: a disconnect is handled like an error *)
GiveUpTransferOnly ==
    /\ pc.events = "handle"
    /\ event.status \in {"error", "cancelled", "no_device"}
    /\ Goto("events", "delete")
    /\ UNCHANGED <<present, running, xfer, event, assembly, caller, stopped>>

(* running is cleared so that a disconnect does not leave the user waiting *)
GiveUpTransfer ==
    /\ pc.events = "handle"
    /\ event.status \in {"error", "cancelled", "no_device"}
    /\ running' = (running /\ event.status # "no_device")
    /\ Goto("events", "delete")
    /\ UNCHANGED <<present, xfer, event, assembly, caller, stopped>>

CheckRunning ==
    /\ pc.events = "check"
    /\ Goto("events", IF running THEN "submit" ELSE "delete")
    /\ UNCHANGED <<present, running, xfer, event, assembly, caller, stopped>>

(* The result of libusb_submit_transfer is not looked at. *)
Resubmit ==
    /\ pc.events = "submit"
    /\ xfer' = [xfer EXCEPT ![event.t] = IF present THEN "flying" ELSE "orphan"]
    /\ Goto("events", "idle")
    /\ UNCHANGED <<present, running, event, assembly, caller, stopped>>

(* Mutant: uvc_stream_stop is not told *)
DeleteTransferQuietly ==
    /\ pc.events = "delete"
    /\ xfer' = [xfer EXCEPT ![event.t] = "null"]
    /\ Goto("events", "idle")
    /\ UNCHANGED <<present, running, event, assembly, caller, stopped>>

(* _uvc_delete_transfer *)
DeleteTransfer ==
    /\ pc.events = "delete"
    /\ xfer' = [xfer EXCEPT ![event.t] = "null"]
    /\ GotoAndBroadcast("events", "idle")
    /\ UNCHANGED <<present, running, event, assembly, caller, stopped>>

Events ==
    /\ ~Freed
    /\ \/ \E t \in Transfers : Complete(t)
       \/ SwapBuffers \/ KeepStreaming \/ GiveUpTransfer
       \/ CheckRunning \/ Resubmit \/ DeleteTransfer

-----------------------------------------------------------------------------
(* The user thread: _uvc_user_caller. *)

AtLock == pc.user \in {"lock", "woken"}

WaitForFrame ==
    /\ AtLock
    /\ running /\ lastSeq = hold.seq
    /\ Goto("user", "waiting")
    /\ UNCHANGED <<present, running, xfer, event, assembly, caller, stopped>>

LeaveUser ==
    /\ AtLock
    /\ ~running
    /\ Goto("user", "exit")
    /\ UNCHANGED <<present, running, xfer, event, assembly, caller, stopped>>

(* Mutant: the error mark is only looked at outside the lock *)
PopulateAnyFrame ==
    /\ AtLock
    /\ running /\ lastSeq # hold.seq
    /\ lastSeq' = hold.seq
    /\ frame' = hold
    /\ noticed' = TRUE
    /\ Goto("user", "unlocked")
    /\ UNCHANGED <<present, running, xfer, event, seq, hold, stopped>>

(* _uvc_populate_frame, unless the held frame is broken *)
PopulateFrame ==
    /\ AtLock
    /\ running /\ lastSeq # hold.seq
    /\ lastSeq' = hold.seq
    /\ frame' = IF hold.err THEN frame ELSE hold
    /\ noticed' = TRUE
    /\ Goto("user", "unlocked")
    /\ UNCHANGED <<present, running, xfer, event, seq, hold, stopped>>

(* hold_bfh_err is read again, after cb_mutex was released *)
TestHeldError ==
    /\ pc.user = "unlocked"
    /\ Goto("user", IF hold.err THEN "lock" ELSE "callback")
    /\ UNCHANGED <<present, running, xfer, event, assembly, caller, stopped>>

UserCallback ==
    /\ pc.user = "callback"
    /\ Goto("user", "lock")
    /\ UNCHANGED <<present, running, xfer, event, assembly, caller, stopped>>

User ==
    /\ ~Freed
    /\ \/ WaitForFrame \/ LeaveUser \/ PopulateFrame
       \/ TestHeldError \/ UserCallback

-----------------------------------------------------------------------------
(* The environment. *)

Unplug ==
    /\ ~Freed
    /\ present
    /\ present' = FALSE
    /\ UNCHANGED <<pc, running, xfer, event, assembly, caller, stopped>>

SpuriousWakeup(t) ==
    /\ ~Freed
    /\ pc[t] = "waiting"
    /\ Goto(t, "woken")
    /\ UNCHANGED <<present, running, xfer, event, assembly, caller, stopped>>

Next ==
    \/ Control \/ Events \/ User
    \/ Unplug
    \/ \E t \in {"control", "user"} : SpuriousWakeup(t)

Spec == Init /\ [][Next]_vars

(* A transfer has a timeout, so the event thread always gets to it; the     *)
(* threads run.  Nobody is obliged to start, to close or to pull the cable. *)
Fairness ==
    /\ WF_vars(Closing)
    /\ WF_vars(Events)
    /\ WF_vars(User)

FairSpec == Spec /\ Fairness

-----------------------------------------------------------------------------
(* Properties *)

(* Every variable keeps to its type. *)
TypeOK ==
    /\ pc \in [control : ControlPc, events : EventsPc, user : UserPc]
    /\ present \in BOOLEAN /\ running \in BOOLEAN
    /\ xfer \in [Transfers -> XferState]
    /\ event \in [t : Transfers, status : Status]
    /\ seq \in 0 .. MaxSeq /\ hold \in Held
    /\ lastSeq \in SeqNo /\ frame \in Held \union {NoFrame}
    /\ noticed \in BOOLEAN /\ stopped \in BOOLEAN

(* Nobody will touch the handle again: no transfer is with libusb or in its *)
(* callback, and the user thread has ended or was never created.            *)
Quiet ==
    /\ pc.events = "idle"
    /\ \A t \in Transfers : xfer[t] \notin {"flying", "cancelled", "busy"}
    /\ pc.user \in {"none", "exit"}

(* uvc_stream_stop, when it does stop the stream, returns only when every   *)
(* transfer is deleted and the user thread has ended.                       *)
StopWaitsForAll == stopped => Quiet /\ AllDeleted

(* A frame swapped in wakes the user thread, except for number 0, which it  *)
(* takes for one it has seen.                                               *)
NoSleepOnFrame == pc.user = "waiting" => noticed \/ hold.seq = 0

(* The user is never called back with a broken frame, although the error    *)
(* mark is read a second time outside the lock.                             *)
CallbackFrameIsGood == pc.user = "callback" => ~frame.err

(* What the preview builds on: callbacks one at a time, with no older frame *)
(* than the last, and none once uvc_stream_stop has returned UVC_SUCCESS.   *)
SourcePhase == IF pc.user = "none" THEN "off" ELSE IF stopped THEN "ended" ELSE "on"
Source == INSTANCE FrameSource WITH phase   <- SourcePhase,
                                    calling <- pc.user = "callback",
                                    number  <- frame.seq + 1
KeepsSourceContract == Source!Spec

StopBegun == pc.control \in {"cancel", "waiting", "woken", "join"}

(* uvc_stream_stop returns, unless a transfer could not be resubmitted.     *)
StopReturnsUnlessOrphan ==
    StopBegun ~> (pc.control = "freed" \/ \E t \in Transfers : xfer[t] = "orphan")

(* stream.c:1117: a disconnect ends the user thread instead of hanging it.  *)
DisconnectEndsUser ==
    (pc.events = "delete" /\ event.status = "no_device")
        ~> (pc.user = "exit" \/ Freed)

(* stream.c:2483: closes all streams, ends threads and cancels pollers.     *)
ClosedIsQuiet == Freed => Quiet

(* libuvc_internal.h:277: hold* is only accessed with the lock, so that the *)
(* user is called back with the frame that was taken under it.              *)
CallbackFrameIsNew == pc.user = "callback" => frame.seq = lastSeq
=============================================================================
