----------------------------- MODULE StreamSetup ----------------------------
(***************************************************************************)
(* How a stream is negotiated and set up on one camera handle: by the      *)
(* configuration workers of MainActivity (initStreamingParms, after the    *)
(* handle is open) and by the preview thread (control_TransferUVC,         *)
(* uvc_stream_open_ctrl and uvc_stream_start_random).  Both talk to the    *)
(* same camera, and no lock keeps them apart.                              *)
(*                                                                         *)
(* A control block has the four fields somebody looks at.  The camera      *)
(* keeps one block being probed and one committed, and answers a block it  *)
(* cannot stream with any that it can.  Interfaces are claimed without     *)
(* state: a claim that fails is one more reason for the call to fail.      *)
(* DeviceSession has the flags around a worker, CameraLifecycle several    *)
(* previews, UvcStream the transfers once they are submitted.              *)
(***************************************************************************)
EXTENDS Integers, Sequences

CONSTANTS
    Format,        \* bFormatIndex
    Frame,         \* bFrameIndex
    Interval,      \* dwFrameInterval
    Payload,       \* dwMaxPayloadTransferSize
    Supported,     \* the blocks this camera streams
    Asked,         \* what the app asks for: its settings and no payload size
    PointerBytes,  \* sizeof(int *) of the build
    Interfaces,    \* bytes per packet of each altsetting, for each camera there is
    MaxPacketSize, \* what MainActivity gives for the packet size
    Workers,       \* runs of initStreamingParms
    MaxPreview     \* bound: previews

Block == [format : Format, frame : Frame, interval : Interval, payload : Payload]

ASSUME BlockAssumption ==
    /\ 0 \in Format /\ 0 \in Frame /\ 0 \in Interval /\ 0 \in Payload
    /\ Supported \subseteq Block /\ Supported # {}
    /\ Asked \in Block
ASSUME BuildAssumption == PointerBytes \in {4, 8}
ASSUME InterfacesAssumption == \A i \in Interfaces : i \in Seq(Nat) /\ i # <<>>
ASSUME OthersAssumption ==
    MaxPacketSize \in Nat /\ MaxPreview \in Nat /\ Workers \intersect {"none", "preview"} = {}

VARIABLES
    pc,          \* where each worker stands in initStreamingParms
    buffer,      \* its buffer
    probed,      \* probedStreamingParmsIntArray, which all workers share
    final,       \* finalStreamingParmsIntArray_first
    probe,       \* the camera's probe control
    commit,      \* its commit control
    alt,         \* the altsetting in use
    interface,   \* bytes per packet of its altsettings
    preview,     \* where the preview thread stands
    ctrl,        \* its control block
    altsetting,  \* the altsetting it looks at
    listed,      \* its stream is on devh->streams
    previews,    \* previews so far
    committer,   \* history: who committed last
    selector,    \* history: who selected an altsetting last
    unanswered,  \* history: workers whose GET of the probe control failed
    overlapped   \* history: two workers have run at the same time

arrays == <<probed, final>>
camera == <<probe, commit, alt, interface>>
thread == <<preview, ctrl, altsetting, listed, previews>>
vars == <<pc, buffer, arrays, camera, thread, committer, selector, unanswered, overlapped>>

Blank == [format |-> 0, frame |-> 0, interval |-> 0, payload |-> 0]

WorkerPc == {"new", "select", "send_probe", "read_probe", "keep_probe", "send_commit",
             "keep_commit", "read_commit", "compare", "ready", "refused"}
PreviewPc == {"idle", "first_commit", "read_back", "send_probe", "read_probe", "open",
              "start", "search", "select", "submit", "streaming"}

(* Altsettings count from 0; an interface with one only is bulk. *)
Last == Len(interface) - 1
Packet(n) == interface[n + 1]
Isochronous == Last > 0

TypeOK ==
    /\ pc \in [Workers -> WorkerPc]
    /\ buffer \in [Workers -> Block]
    /\ probed \in Block /\ final \in Block
    /\ probe \in Supported /\ commit \in Supported
    /\ interface \in Interfaces
    /\ alt \in 0 .. Last
    /\ preview \in PreviewPc
    /\ ctrl \in Block
    /\ altsetting \in 0 .. Last
    /\ listed \in BOOLEAN
    /\ previews \in 0 .. MaxPreview
    /\ committer \in Workers \union {"none", "preview"}
    /\ selector \in Workers \union {"none", "preview"}
    /\ unanswered \subseteq Workers
    /\ overlapped \in BOOLEAN

Init ==
    /\ pc = [w \in Workers |-> "new"]
    /\ buffer = [w \in Workers |-> Blank]
    /\ probed = Blank /\ final = Blank
    /\ probe \in Supported /\ commit \in Supported
    /\ interface \in Interfaces
    /\ alt = 0
    /\ preview = "idle"
    /\ ctrl = Blank
    /\ altsetting = 0
    /\ listed = FALSE
    /\ previews = 0
    /\ committer = "none" /\ selector = "none"
    /\ unanswered = {}
    /\ overlapped = FALSE

-----------------------------------------------------------------------------
(* The camera and the bus *)

(* What the camera makes of a block it is sent. *)
Adjusted(b) == IF b \in Supported THEN {b} ELSE Supported

(* A block of which only the first k fields have arrived: libusb copies     *)
(* what it got into the buffer, however the transfer ended.                *)
Arrived(k, new, old) ==
    [format   |-> IF k >= 1 THEN new.format ELSE old.format,
     frame    |-> IF k >= 2 THEN new.frame ELSE old.frame,
     interval |-> IF k >= 3 THEN new.interval ELSE old.interval,
     payload  |-> IF k >= 4 THEN new.payload ELSE old.payload]

-----------------------------------------------------------------------------
(* A configuration worker *)

WorkerGoto(w, there) == pc' = [pc EXCEPT ![w] = there]

Working(w) == pc[w] \notin {"new", "ready", "refused"}

Begin(w) ==
    /\ pc[w] = "new"
    /\ overlapped' = (overlapped \/ \E v \in Workers : Working(v))
    /\ WorkerGoto(w, "select")
    /\ UNCHANGED <<buffer, arrays, camera, thread, committer, selector, unanswered>>

SelectNone(w) ==
    /\ pc[w] = "select"
    /\ alt' = 0
    /\ selector' = w
    /\ buffer' = [buffer EXCEPT ![w] = Asked]
    /\ WorkerGoto(w, "send_probe")
    /\ UNCHANGED <<arrays, probe, commit, interface, thread, committer, unanswered, overlapped>>

SelectNoneFails(w) ==
    /\ pc[w] = "select"
    /\ WorkerGoto(w, "refused")
    /\ UNCHANGED <<buffer, arrays, camera, thread, committer, selector, unanswered, overlapped>>

(* Whatever becomes of the four transfers, the worker goes on. *)
SendProbe(w) ==
    /\ pc[w] = "send_probe"
    /\ probe' \in Adjusted(buffer[w]) \union {probe}
    /\ WorkerGoto(w, "read_probe")
    /\ UNCHANGED <<buffer, arrays, commit, alt, interface, thread, committer, selector,
                   unanswered, overlapped>>

ReadProbe(w) ==
    /\ pc[w] = "read_probe"
    /\ \E k \in 0 .. 4 :
        /\ buffer' = [buffer EXCEPT ![w] = Arrived(k, probe, @)]
        /\ unanswered' = IF k = 4 THEN unanswered ELSE unanswered \union {w}
    /\ WorkerGoto(w, "keep_probe")
    /\ UNCHANGED <<arrays, camera, thread, committer, selector, overlapped>>

KeepProbe(w) ==
    /\ pc[w] = "keep_probe"
    /\ probed' = buffer[w]
    /\ WorkerGoto(w, "send_commit")
    /\ UNCHANGED <<buffer, final, camera, thread, committer, selector, unanswered, overlapped>>

(* Mutant: commits what the app asked for, not what the camera answered. *)
SendCommitAsked(w) ==
    /\ pc[w] = "send_commit"
    /\ \/ commit' \in Adjusted(Asked) /\ committer' = w
       \/ UNCHANGED <<commit, committer>>
    /\ WorkerGoto(w, "keep_commit")
    /\ UNCHANGED <<buffer, arrays, probe, alt, interface, thread, selector, unanswered, overlapped>>

SendCommit(w) ==
    /\ pc[w] = "send_commit"
    /\ \/ commit' \in Adjusted(buffer[w]) /\ committer' = w
       \/ UNCHANGED <<commit, committer>>
    /\ WorkerGoto(w, "keep_commit")
    /\ UNCHANGED <<buffer, arrays, probe, alt, interface, thread, selector, unanswered, overlapped>>

KeepCommit(w) ==
    /\ pc[w] = "keep_commit"
    /\ final' = buffer[w]
    /\ WorkerGoto(w, "read_commit")
    /\ UNCHANGED <<buffer, probed, camera, thread, committer, selector, unanswered, overlapped>>

(* The values read last are compared with nothing. *)
ReadCommit(w) ==
    /\ pc[w] = "read_commit"
    /\ \E k \in 0 .. 4 : buffer' = [buffer EXCEPT ![w] = Arrived(k, commit, @)]
    /\ WorkerGoto(w, "compare")
    /\ UNCHANGED <<arrays, camera, thread, committer, selector, unanswered, overlapped>>

(* memcmp over sizeof of a parameter: one pointer's bytes of three ints *)
Same(a, b) ==
    /\ a.format = b.format
    /\ PointerBytes >= 8 => a.frame = b.frame

(* compareStreamingParmsValues decides what initStreamingParms returns, and *)
(* the buffer is no more.                                                  *)
Compare(w) ==
    /\ pc[w] = "compare"
    /\ WorkerGoto(w, IF Same(Asked, probed) /\ Same(Asked, final) THEN "ready" ELSE "refused")
    /\ buffer' = [buffer EXCEPT ![w] = Blank]
    /\ UNCHANGED <<arrays, camera, thread, committer, selector, unanswered, overlapped>>

Worker(w) ==
    \/ Begin(w) \/ SelectNone(w) \/ SelectNoneFails(w)
    \/ SendProbe(w) \/ ReadProbe(w) \/ KeepProbe(w)
    \/ SendCommit(w) \/ KeepCommit(w) \/ ReadCommit(w) \/ Compare(w)

-----------------------------------------------------------------------------
(* The preview thread *)

workers == <<pc, buffer, arrays, unanswered, overlapped>>

(* prepare_preview, which the start button leads to once a worker is ready *)
BeginPreview ==
    /\ preview = "idle"
    /\ previews < MaxPreview
    /\ \E w \in Workers : pc[w] = "ready"
    /\ previews' = previews + 1
    /\ ctrl' = Asked
    /\ preview' \in {"first_commit", "idle"}
    /\ UNCHANGED <<workers, camera, altsetting, listed, committer, selector>>

(* A SET of the commit control: done, or failed with or without effect *)
CommitTransfer(done, failed) ==
    \/ commit' \in Adjusted(ctrl) /\ committer' = "preview" /\ preview' = done
    \/ commit' \in Adjusted(ctrl) /\ committer' = "preview" /\ preview' = failed
    \/ UNCHANGED <<commit, committer>> /\ preview' = failed

(* control_TransferUVC asks for the commit control where it says PROBE, so  *)
(* a block is committed before any was probed.                             *)
FirstCommit ==
    /\ preview = "first_commit"
    /\ CommitTransfer("read_back", "idle")
    /\ UNCHANGED <<workers, probe, alt, interface, ctrl, altsetting, listed, previews, selector>>

(* The result of this one is overwritten by the next. *)
ReadBack ==
    /\ preview = "read_back"
    /\ ctrl' \in {ctrl, commit}
    /\ preview' = "send_probe"
    /\ UNCHANGED <<workers, camera, altsetting, listed, previews, committer, selector>>

SendPreviewProbe ==
    /\ preview = "send_probe"
    /\ \/ probe' \in Adjusted(ctrl) /\ preview' \in {"read_probe", "idle"}
       \/ UNCHANGED probe /\ preview' = "idle"
    /\ UNCHANGED <<workers, commit, alt, interface, ctrl, altsetting, listed, previews,
                   committer, selector>>

(* Mutant: the result of this GET is overwritten too. *)
ReadPreviewProbeAnyway ==
    /\ preview = "read_probe"
    /\ ctrl' \in {ctrl, probe}
    /\ preview' = "open"
    /\ UNCHANGED <<workers, camera, altsetting, listed, previews, committer, selector>>

ReadPreviewProbe ==
    /\ preview = "read_probe"
    /\ \/ ctrl' = probe /\ preview' = "open"
       \/ UNCHANGED ctrl /\ preview' = "idle"
    /\ UNCHANGED <<workers, camera, altsetting, listed, previews, committer, selector>>

(* uvc_stream_open_ctrl: the stream of a start that failed is still listed *)
OpenBusy ==
    /\ preview = "open"
    /\ listed
    /\ preview' = "idle"
    /\ UNCHANGED <<workers, camera, ctrl, altsetting, listed, previews, committer, selector>>

Open ==
    /\ preview = "open"
    /\ ~listed
    /\ CommitTransfer("start", "idle")
    /\ listed' = (preview' = "start")
    /\ UNCHANGED <<workers, probe, alt, interface, ctrl, altsetting, previews, selector>>

(* uvc_stream_start_random.  Every failure leaves the stream listed. *)
StartFails ==
    /\ preview \in {"start", "select", "submit"}
    /\ preview' = "idle"
    /\ UNCHANGED <<workers, camera, ctrl, altsetting, listed, previews, committer, selector>>

(* A payload size of 0 is refused for isochronous transfers only. *)
Start ==
    /\ preview = "start"
    /\ \/ ~Isochronous /\ preview' = "submit"
       \/ Isochronous /\ ctrl.payload # 0 /\ preview' = "search"
    /\ altsetting' = 0
    /\ UNCHANGED <<workers, camera, ctrl, listed, previews, committer, selector>>

(* Mutants: the search runs past the last altsetting; it does not stop. *)
LookAtOneMore ==
    /\ preview = "search"
    /\ \/ /\ Packet(altsetting) = MaxPacketSize \/ altsetting = Last + 1
          /\ preview' = "select"
          /\ UNCHANGED altsetting
       \/ /\ Packet(altsetting) # MaxPacketSize /\ altsetting # Last + 1
          /\ altsetting' = altsetting + 1
          /\ UNCHANGED preview
    /\ UNCHANGED <<workers, camera, ctrl, listed, previews, committer, selector>>

LookAtAll ==
    /\ preview = "search"
    /\ \/ altsetting = Last /\ preview' = "select" /\ UNCHANGED altsetting
       \/ altsetting < Last /\ altsetting' = altsetting + 1 /\ UNCHANGED preview
    /\ UNCHANGED <<workers, camera, ctrl, listed, previews, committer, selector>>

(* The loop over the altsettings leaves with the first that has the app's  *)
(* packet size, or else with the last.                                     *)
LookAt ==
    /\ preview = "search"
    /\ \/ /\ Packet(altsetting) = MaxPacketSize \/ altsetting = Last
          /\ preview' = "select"
          /\ UNCHANGED altsetting
       \/ /\ Packet(altsetting) # MaxPacketSize /\ altsetting # Last
          /\ altsetting' = altsetting + 1
          /\ UNCHANGED preview
    /\ UNCHANGED <<workers, camera, ctrl, listed, previews, committer, selector>>

Select ==
    /\ preview = "select"
    /\ Packet(altsetting) # 0
    /\ alt' = altsetting
    /\ selector' = "preview"
    /\ preview' = "submit"
    /\ UNCHANGED <<workers, probe, commit, interface, ctrl, altsetting, listed, previews, committer>>

Submit ==
    /\ preview = "submit"
    /\ preview' = "streaming"
    /\ UNCHANGED <<workers, camera, ctrl, altsetting, listed, previews, committer, selector>>

(* uvc_stream_close releases the interface: the kernel may reset it, while  *)
(* libuvc does not (reset_on_release_if).                                  *)
Close ==
    /\ preview = "streaming"
    /\ listed' = FALSE
    /\ alt' \in {alt, 0}
    /\ preview' = "idle"
    /\ UNCHANGED <<workers, probe, commit, interface, ctrl, altsetting, previews, committer, selector>>

PreviewThread ==
    \/ BeginPreview \/ FirstCommit \/ ReadBack \/ SendPreviewProbe \/ ReadPreviewProbe
    \/ OpenBusy \/ Open \/ StartFails \/ Start \/ LookAt \/ Select \/ Submit \/ Close

Next == PreviewThread \/ \E w \in Workers : Worker(w)

Spec == Init /\ [][Next]_vars

-----------------------------------------------------------------------------
(* Safety *)

(* initStreamingParms returns 0 when compareStreamingParmsValues says that *)
(* the camera's values fit.  In the fields it compares they do fit what    *)
(* the camera has committed to, as long as nobody else committed since and *)
(* workers did not share the arrays, even if a preview negotiates between  *)
(* its transfers - with one exception: nobody notices that the probe       *)
(* control could not be read, and then the app's own values are compared   *)
(* with themselves.                                                        *)
ReadyMeansAgreed ==
    \A w \in Workers :
        pc[w] = "ready" /\ committer = w =>
            \/ overlapped
            \/ w \in unanswered
            \/ Same(Asked, commit)

(* A stream runs with the block its handle has as cur_ctrl, although the   *)
(* preview commits before it probes and a worker may change what is probed *)
(* at any moment, until a worker commits another one.                      *)
StreamsAsAgreed ==
    preview = "streaming" =>
        \/ commit = ctrl
        \/ committer \in Workers

(* An isochronous stream runs on the first altsetting with the app's packet *)
(* size, or on the last if there is none, and never on one without a       *)
(* packet, until a worker takes the altsetting away.                       *)
StreamsOnMatch ==
    preview = "streaming" /\ Isochronous =>
        \/ selector \in Workers
        \/ /\ Packet(alt) # 0
           /\ Packet(alt) # MaxPacketSize => alt = Last
           /\ \A i \in 0 .. alt - 1 : Packet(i) # MaxPacketSize
=============================================================================
