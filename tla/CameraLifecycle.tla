--------------------------- MODULE CameraLifecycle --------------------------
(***************************************************************************)
(* CameraActivity over the native preview: surfaces that come and go, the  *)
(* thread each surface starts (initCamera), the UVCPreview objects behind  *)
(* the one preview_pointer of the camera, and the stream list of the       *)
(* device handle they share.                                               *)
(*                                                                         *)
(* Each run of initCamera makes one preview object, so both have one       *)
(* number.  A preview is reduced to its flag, its window and its preview   *)
(* thread (UVCPreview opens it up); a stream to being listed on            *)
(* devh->streams (UvcStream opens it up).  The main thread is blocked      *)
(* while it joins a preview thread.  finish(), which initCamera calls when *)
(* it gives up, is the system's choice to destroy an activity some time.   *)
(***************************************************************************)
EXTENDS Integers

CONSTANTS
    MaxActivity,  \* bound: CameraActivity instances
    MaxPreview    \* bound: runs of initCamera

ASSUME BoundsAssumption == MaxActivity \in Nat \ {0} /\ MaxPreview \in Nat \ {0}

VARIABLES
    plugged,     \* the camera is on the bus
    detached,    \* activities that have the detach broadcast to receive
    life,        \* new, alive or destroyed
    surface,     \* none or there, or going while surfaceDestroyed runs
    streaming,   \* isStreaming
    found,       \* cameraDevice is set
    connection,  \* the run that opened deviceConnection, 0 if null
    opened,      \* runs whose connection is open
    posts,       \* activities whose stopStreaming is posted to mainHandler
    main,        \* what the main thread is doing
    init,        \* where each run of initCamera stands
    owner,       \* its activity
    pointer,     \* preview_pointer of the uvc_camera_t
    running,     \* mIsRunning
    window,      \* mPreviewWindow is set
    thread,      \* where each preview thread stands
    listed,      \* the previews whose streams are on devh->streams
    refused,     \* uvc_stream_open_ctrl returned UVC_ERROR_BUSY once
    overlapped   \* two uses of the camera have overlapped

activities == <<life, surface, found, detached>>
connections == <<connection, opened>>
runs == <<init, owner>>
previews == <<pointer, running, window, thread, listed, refused>>
vars == <<plugged, activities, streaming, connections, posts, main, runs, previews, overlapped>>

Activity == 1 .. MaxActivity
Preview == 1 .. MaxPreview

InitPc == {"none", "find", "check", "prepare", "start", "mark", "done"}
ThreadPc == {"none", "open", "opening", "start", "run", "ended", "failed", "twice", "freed"}
Reason == {"surface", "destroy", "detach"}
Idle == [pc |-> "idle", activity |-> 1, why |-> "surface", preview |-> 0]

TypeOK ==
    /\ plugged \in BOOLEAN
    /\ detached \subseteq Activity
    /\ life \in [Activity -> {"new", "alive", "destroyed"}]
    /\ surface \in [Activity -> {"none", "there", "going"}]
    /\ streaming \in [Activity -> BOOLEAN]
    /\ found \in [Activity -> BOOLEAN]
    /\ connection \in [Activity -> 0 .. MaxPreview]
    /\ opened \subseteq Preview
    /\ posts \subseteq Activity
    /\ main \in [pc : {"idle", "join", "close"}, activity : Activity,
                 why : Reason, preview : 0 .. MaxPreview]
    /\ init \in [Preview -> InitPc]
    /\ owner \in [Preview -> Activity]
    /\ pointer \in 0 .. MaxPreview
    /\ running \in [Preview -> BOOLEAN]
    /\ window \in [Preview -> BOOLEAN]
    /\ thread \in [Preview -> ThreadPc]
    /\ listed \subseteq Preview
    /\ refused \in BOOLEAN
    /\ overlapped \in BOOLEAN

Init ==
    /\ plugged = TRUE
    /\ detached = {}
    /\ life = [a \in Activity |-> "new"]
    /\ surface = [a \in Activity |-> "none"]
    /\ streaming = [a \in Activity |-> FALSE]
    /\ found = [a \in Activity |-> FALSE]
    /\ connection = [a \in Activity |-> 0]
    /\ opened = {}
    /\ posts = {}
    /\ main = Idle
    /\ init = [i \in Preview |-> "none"]
    /\ owner = [i \in Preview |-> 1]
    /\ pointer = 0
    /\ running = [p \in Preview |-> FALSE]
    /\ window = [p \in Preview |-> FALSE]
    /\ thread = [p \in Preview |-> "none"]
    /\ listed = {}
    /\ refused = FALSE
    /\ overlapped = FALSE

InFlight(i) == init[i] \notin {"none", "done"}
MainIdle == main.pc = "idle"
Active(p) == thread[p] \in {"open", "opening", "start", "run", "twice", "freed"}

-----------------------------------------------------------------------------
(* The system: activities, surfaces, the cable. *)

(* The start button of MainActivity; tapped twice, or again before the last *)
(* CameraActivity is gone, it makes a second one.                          *)
Launch(a) ==
    /\ MainIdle
    /\ life[a] = "new" /\ \A b \in 1 .. a - 1 : life[b] # "new"
    /\ life' = [life EXCEPT ![a] = "alive"]
    /\ UNCHANGED <<plugged, surface, found, detached, streaming, connections, posts,
                   main, runs, previews, overlapped>>

(* surfaceCreated: a thread of its own runs initCamera *)
SurfaceCreated(a, i) ==
    /\ MainIdle
    /\ life[a] = "alive" /\ surface[a] = "none"
    /\ init[i] = "none" /\ \A j \in 1 .. i - 1 : init[j] # "none"
    /\ surface' = [surface EXCEPT ![a] = "there"]
    /\ init' = [init EXCEPT ![i] = "find"]
    /\ owner' = [owner EXCEPT ![i] = a]
    /\ overlapped' = \/ overlapped
                     \/ \E b \in Activity : surface[b] # "none"
                     \/ \E j \in Preview : InFlight(j)
    /\ UNCHANGED <<plugged, life, found, detached, streaming, connections, posts, main, previews>>

Unplug ==
    /\ plugged
    /\ plugged' = FALSE
    /\ detached' = {a \in Activity : life[a] = "alive"}
    /\ UNCHANGED <<life, surface, found, streaming, connections, posts, main, runs,
                   previews, overlapped>>

(* ignored until initCamera has found the device *)
ReceiveDetached(a) ==
    /\ MainIdle
    /\ a \in detached
    /\ detached' = detached \ {a}
    /\ posts' = IF found[a] THEN posts \cup {a} ELSE posts
    /\ UNCHANGED <<plugged, life, surface, found, streaming, connections, main, runs,
                   previews, overlapped>>

-----------------------------------------------------------------------------
(* stopStreaming on the main thread, for three reasons. *)

(* PreviewStopStream only if isStreaming, on the object preview_pointer has *)
(* now; stopPreview joins only if mIsRunning.                              *)
Stops(a, why) ==
    /\ MainIdle
    /\ \E p \in {IF streaming[a] THEN pointer ELSE 0} :
          /\ running' = [q \in Preview |-> running[q] /\ q # p]
          /\ main' = [pc |-> IF p # 0 /\ running[p] THEN "join" ELSE "close",
                      activity |-> a, why |-> why, preview |-> p]
    /\ overlapped' = \/ overlapped
                     \/ \E i \in Preview : owner[i] = a /\ InFlight(i)
    /\ UNCHANGED <<pointer, window, thread, listed, refused>>

SurfaceDestroyed(a) ==
    /\ surface[a] = "there"
    /\ surface' = [surface EXCEPT ![a] = "going"]
    /\ Stops(a, "surface")
    /\ UNCHANGED <<plugged, life, found, detached, streaming, connections, posts, runs>>

Destroy(a) ==
    /\ life[a] = "alive"
    /\ life' = [life EXCEPT ![a] = "destroyed"]
    /\ detached' = detached \ {a}
    /\ Stops(a, "destroy")
    /\ UNCHANGED <<plugged, surface, found, streaming, connections, posts, runs>>

RunDetachStop(a) ==
    /\ a \in posts
    /\ posts' = posts \ {a}
    /\ Stops(a, "detach")
    /\ UNCHANGED <<plugged, activities, streaming, connections, runs>>

(* Mutant: stopPreview does not wait for the thread. *)
JoinPreviewLater ==
    /\ main.pc = "join"
    /\ main' = [main EXCEPT !.pc = "close"]
    /\ UNCHANGED <<plugged, activities, streaming, connections, posts, runs, previews, overlapped>>

JoinPreview ==
    /\ main.pc = "join"
    /\ ~Active(main.preview)
    /\ main' = [main EXCEPT !.pc = "close"]
    /\ UNCHANGED <<plugged, activities, streaming, connections, posts, runs, previews, overlapped>>

(* Mutant: deviceConnection is forgotten, not closed. *)
ForgetConnection ==
    /\ main.pc = "close"
    /\ window' = [p \in Preview |-> window[p] /\ p # main.preview]
    /\ streaming' = [streaming EXCEPT ![main.activity] = @ /\ main.preview = 0]
    /\ connection' = [connection EXCEPT ![main.activity] = 0]
    /\ surface' = IF main.why = "surface"
                  THEN [surface EXCEPT ![main.activity] = "none"] ELSE surface
    /\ main' = Idle
    /\ UNCHANGED <<plugged, opened, life, found, detached, posts, runs, pointer, running, thread,
                   listed, refused, overlapped>>

(* If a preview was stopped, its window is released and isStreaming         *)
(* cleared; the connection is closed.                                      *)
CloseConnection ==
    /\ main.pc = "close"
    /\ window' = [p \in Preview |-> window[p] /\ p # main.preview]
    /\ streaming' = [streaming EXCEPT ![main.activity] = @ /\ main.preview = 0]
    /\ opened' = opened \ {connection[main.activity]}
    /\ connection' = [connection EXCEPT ![main.activity] = 0]
    /\ surface' = IF main.why = "surface"
                  THEN [surface EXCEPT ![main.activity] = "none"] ELSE surface
    /\ main' = Idle
    /\ UNCHANGED <<plugged, life, found, detached, posts, runs, pointer, running, thread,
                   listed, refused, overlapped>>

MainThread ==
    \/ \E a \in Activity :
          \/ Launch(a) \/ ReceiveDetached(a)
          \/ SurfaceDestroyed(a) \/ Destroy(a) \/ RunDetachStop(a)
          \/ \E i \in Preview : SurfaceCreated(a, i)
    \/ JoinPreview \/ CloseConnection

-----------------------------------------------------------------------------
(* initCamera, on its own thread. *)

Goto(i, label) == init' = [init EXCEPT ![i] = label]

(* deviceConnection is overwritten if it was not null *)
OpenDevice(i) ==
    /\ init[i] = "find"
    /\ plugged
    /\ found' = [found EXCEPT ![owner[i]] = TRUE]
    /\ connection' = [connection EXCEPT ![owner[i]] = i]
    /\ opened' = opened \cup {i}
    /\ Goto(i, "check")
    /\ UNCHANGED <<plugged, life, surface, detached, streaming, posts, main, owner,
                   previews, overlapped>>

(* no such device, or openDevice returns null, which replaces the old one *)
OpenDeviceFails(i) ==
    /\ init[i] = "find"
    /\ ~plugged
    /\ connection' = [connection EXCEPT ![owner[i]] = IF found[owner[i]] THEN 0 ELSE @]
    /\ Goto(i, "done")
    /\ UNCHANGED <<plugged, activities, streaming, opened, posts, main, owner, previews,
                   overlapped>>

CheckSurface(i) ==
    /\ init[i] = "check"
    /\ Goto(i, IF surface[owner[i]] # "none" THEN "prepare" ELSE "done")
    /\ UNCHANGED <<plugged, activities, streaming, connections, posts, main, owner,
                   previews, overlapped>>

(* Always a new UVCPreview: the old pointer is lost, running or not. *)
PreviewPrepareStream(i) ==
    /\ init[i] = "prepare"
    /\ pointer' = i
    /\ window' = [window EXCEPT ![i] = TRUE]
    /\ Goto(i, "start")
    /\ UNCHANGED <<plugged, activities, streaming, connections, posts, main, owner,
                   running, thread, listed, refused, overlapped>>

(* startPreview returns when the thread exists: whether it gets a stream is *)
(* not reported to anyone.  When the object's last thread is being stopped *)
(* and has not ended, two threads work on one object: the model ends.      *)
PreviewStartStream(i) ==
    /\ init[i] = "start"
    /\ IF ~running[pointer] /\ window[pointer]
       THEN /\ running' = [running EXCEPT ![pointer] = TRUE]
            /\ thread' = [thread EXCEPT ![pointer] = IF Active(pointer) THEN "twice" ELSE "open"]
            /\ Goto(i, "mark")
       ELSE /\ Goto(i, "done")
            /\ UNCHANGED <<running, thread>>
    /\ UNCHANGED <<plugged, activities, streaming, connections, posts, main, owner,
                   pointer, window, listed, refused, overlapped>>

SetStreaming(i) ==
    /\ init[i] = "mark"
    /\ streaming' = [streaming EXCEPT ![owner[i]] = TRUE]
    /\ Goto(i, "done")
    /\ UNCHANGED <<plugged, activities, connections, posts, main, owner, previews, overlapped>>

InitCamera(i) ==
    \/ OpenDevice(i) \/ OpenDeviceFails(i) \/ CheckSurface(i)
    \/ PreviewPrepareStream(i) \/ PreviewStartStream(i) \/ SetStreaming(i)

-----------------------------------------------------------------------------
(* The preview threads, as far as they share the device handle. *)

others == <<plugged, activities, streaming, connections, posts, main, runs, pointer,
            running, window, overlapped>>
ThreadGoto(p, label) == thread' = [thread EXCEPT ![p] = label]

(* Mutant: the interface is not tested for a stream. *)
TestNothing(p) ==
    /\ thread[p] = "open"
    /\ plugged
    /\ ThreadGoto(p, "opening")
    /\ UNCHANGED <<listed, refused, others>>

(* prepare_preview succeeds and uvc_stream_open_ctrl, which holds no lock,  *)
(* finds no stream of the interface; the camera takes the block.           *)
TestStreams(p) ==
    /\ thread[p] = "open"
    /\ plugged
    /\ listed = {}
    /\ ThreadGoto(p, "opening")
    /\ UNCHANGED <<listed, refused, others>>

(* UVC_ERROR_BUSY: the thread ends, mIsRunning stays set. *)
StreamBusy(p) ==
    /\ thread[p] = "open"
    /\ listed # {}
    /\ refused' = TRUE
    /\ ThreadGoto(p, "ended")
    /\ UNCHANGED <<listed, others>>

(* DL_APPEND, long after the test: what others have appended meanwhile is   *)
(* there, or lost when two appends meet.                                   *)
AppendStream(p) ==
    /\ thread[p] = "opening"
    /\ \E kept \in SUBSET listed : listed' = kept \cup {p}
    /\ ThreadGoto(p, "start")
    /\ UNCHANGED <<refused, others>>

(* prepare_preview, the claim or the commit fails; mIsRunning stays set. *)
OpenStreamFails(p) ==
    /\ thread[p] \in {"open", "opening"}
    /\ ThreadGoto(p, "ended")
    /\ UNCHANGED <<listed, refused, others>>

StartStream(p) ==
    /\ thread[p] = "start"
    /\ plugged
    /\ ThreadGoto(p, "run")
    /\ UNCHANGED <<listed, refused, others>>

(* The stream stays listed, and nobody will close it. *)
StartStreamFails(p) ==
    /\ thread[p] = "start"
    /\ ThreadGoto(p, "failed")
    /\ UNCHANGED <<listed, refused, others>>

(* Mutants: the stream is stopped and not closed; it is freed and stays on  *)
(* the list; a stream whose camera is gone is not stopped.                 *)
StopStreamingOnly(p) ==
    /\ thread[p] = "run"
    /\ ~running[p]
    /\ ThreadGoto(p, "ended")
    /\ UNCHANGED <<listed, refused, others>>

StopStreamingDangling(p) ==
    /\ thread[p] = "run"
    /\ ~running[p]
    /\ listed' = {0}
    /\ ThreadGoto(p, "ended")
    /\ UNCHANGED <<refused, others>>

StopStreamingUnplugged(p) ==
    /\ thread[p] = "run"
    /\ ~running[p] /\ plugged
    /\ listed' = {}
    /\ ThreadGoto(p, "ended")
    /\ UNCHANGED <<refused, others>>

(* uvc_stop_streaming closes and frees whatever is on devh->streams, also a *)
(* stream that another preview thread is about to start.                   *)
StopStreaming(p) ==
    /\ thread[p] = "run"
    /\ ~running[p]
    /\ listed' = {}
    /\ thread' = [q \in Preview |->
                     IF q = p THEN "ended"
                     ELSE IF q \in listed /\ thread[q] = "start" THEN "freed"
                     ELSE thread[q]]
    /\ UNCHANGED <<refused, others>>

PreviewThread(p) ==
    \/ TestStreams(p) \/ StreamBusy(p) \/ AppendStream(p) \/ OpenStreamFails(p)
    \/ StartStream(p) \/ StartStreamFails(p) \/ StopStreaming(p)

(* What follows is undefined: two threads work on one object, or one starts *)
(* a stream that has been freed.  The model ends there.                    *)
Undefined == \E p \in Preview : thread[p] \in {"twice", "freed"}

Next ==
    /\ ~Undefined
    /\ \/ MainThread
       \/ Unplug
       \/ \E i \in Preview : InitCamera(i)
       \/ \E p \in Preview : PreviewThread(p)

Spec == Init /\ [][Next]_vars

(* A stop once begun goes on, and every thread that can take a step does.   *)
FairSpec ==
    /\ Spec
    /\ WF_vars(JoinPreview \/ CloseConnection)
    /\ \A i \in Preview : WF_vars(InitCamera(i))
    /\ \A p \in Preview : WF_vars(PreviewThread(p))

-----------------------------------------------------------------------------
(* Safety *)

(* Bound of exploration: every property of the runs but the type invariant  *)
(* excepts overlapped uses, and what has overlapped once stays so.         *)
UntilOverlapped == ~overlapped

(* uvc_stop_streaming closes all streams of the handle, and previews share  *)
(* it: yet a preview only ever closes its own stream, and none streams      *)
(* whose stream another has closed.                                        *)
StopClosesOwnStream ==
    \A p \in Preview : thread[p] \in {"start", "run"} => listed = {p}

(* It holds as long as no surface is lost while its initCamera runs, and    *)
(* none is created while another is in use.  Two previews that open         *)
(* together both find the list empty.                                      *)
StopClosesOwnStreamUnlessOverlapped == overlapped \/ StopClosesOwnStream

(* As the surface callbacks demand, no preview thread is left when          *)
(* surfaceDestroyed has returned.                                          *)
NoPreviewWithoutSurface ==
    \A p \in Preview : Active(p) => surface[owner[p]] # "none"

(* It holds with the same exception.                                       *)
NoPreviewWithoutSurfaceUnlessOverlapped ==
    overlapped \/ NoPreviewWithoutSurface

(* The camera is refused as busy only when uses overlapped, or when a       *)
(* stream that failed to start was never closed.                           *)
BusyIsExplained ==
    refused => overlapped \/ \E p \in listed : thread[p] = "failed"

(* With the same exception, an activity that is destroyed leaves no         *)
(* connection open.                                                        *)
ConnectionsClosed ==
    \A a \in Activity :
        life[a] = "destroyed" /\ ~overlapped =>
            \/ main.pc # "idle" /\ main.activity = a
            \/ \A i \in opened : owner[i] # a

(* Each preview is used as PreviewObject offers it, until uses overlap:     *)
(* started once, stopped by clearing its flag and joining its thread.       *)
(* UVCPreview keeps this contract from below.                               *)
ObjectThread(p) ==
    CASE thread[p] = "none" -> "none"
      [] thread[p] \in {"open", "opening", "start"} -> "starting"
      [] thread[p] \in {"ended", "failed"} -> "ended"
      [] OTHER -> "streaming"
Object(p) == INSTANCE PreviewObject WITH
                 running  <- running[p],
                 thread   <- ObjectThread(p),
                 stopping <- main.pc = "join" /\ main.preview = p,
                 crashed  <- FALSE
KeepsObjectContract ==
    /\ \A p \in Preview : Object(p)!Init
    /\ [][\A p \in Preview : overlapped' \/ [Object(p)!Next]_(Object(p)!vars)]_vars

-----------------------------------------------------------------------------
(* Liveness *)

(* stopStreaming returns, with the same exception: the main thread waits    *)
(* only for a preview thread that its own stop makes end.                  *)
StopReturnsUnlessOverlapped ==
    (main.pc # "idle") ~> (main.pc = "idle" \/ overlapped)
=============================================================================
