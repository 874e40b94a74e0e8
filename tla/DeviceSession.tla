---------------------------- MODULE DeviceSession ---------------------------
(***************************************************************************)
(* The USB session of the app: MainActivity's receiver, delayed handlers   *)
(* and configuration workers, over the process-wide flags of               *)
(* libuvc_support.c and the device handle of libuvc (device.c).            *)
(*                                                                         *)
(* Every onReceive and every posted Runnable is one step of the main       *)
(* thread.  The workers run native code without a lock: one of their steps *)
(* is one test of a flag or one call that changes the handle.  A device    *)
(* that is plugged in again is a new one, as its device name is new.       *)
(***************************************************************************)
EXTENDS Integers, Sequences, FiniteSets

CONSTANTS
    MaxAttach,     \* bound: times a camera is plugged in
    MaxActivity,   \* bound: MainActivity instances the process sees
    MaxHandle,     \* bound: device handles wrapped
    MaxAsk,        \* bound: permission dialogs at a time
    MaxInbox,      \* bound: broadcasts not received yet
    MaxPosts,      \* bound: Runnables posted and not run yet
    Files,         \* file descriptors the process can have on the camera
    Workers        \* bound: configuration threads

ASSUME BoundsAssumption == /\ MaxAttach \in Nat \ {0}
                           /\ MaxActivity \in Nat \ {0}
                           /\ MaxHandle \in Nat \ {0}
                           /\ MaxAsk \in Nat \ {0}
                           /\ MaxInbox \in Nat \ {0}
                           /\ MaxPosts \in Nat \ {0}
ASSUME FilesAssumption  == 0 \notin Files

VARIABLES
    plugged,      \* the camera on the bus, 0 if none
    attachments,  \* cameras plugged in so far
    permitted,    \* the app may open the plugged camera
    asked,        \* permission dialogs that wait for the user
    files,        \* the camera a file descriptor is open on, 0 if closed
    life,         \* new, alive or destroyed, for each MainActivity
    device,       \* cameraDevice
    connection,   \* file descriptor of deviceConnection, 0 if null
    ready,        \* startButton is enabled
    inbox,        \* broadcasts not received yet
    later,        \* Runnables posted to mainHandler
    initialized,  \* libusb_Is_initialized
    wrapped,      \* cameraDevice_is_wraped
    open,         \* camIsOpen
    context,      \* camera_context of an activity's uvc_camera_t is set
    handleOf,     \* camera_deviceHandle of an activity's uvc_camera_t
    handle,       \* what became of each uvc_device_handle_t
    fileOf,       \* file descriptor a handle wraps
    pc,           \* where each worker stands
    call,         \* the native function it is in
    owner,        \* the activity that started it
    fd,           \* its file descriptor
    crash         \* what ended the process

usb == <<plugged, attachments, permitted>>
main == <<life, device, connection, ready>>
posts == <<inbox, later>>
native == <<initialized, wrapped, open, context, handleOf, handle, fileOf>>
threads == <<pc, call, owner, fd>>
vars == <<usb, asked, files, main, posts, native, threads, crash>>

Camera == 1 .. MaxAttach
Activity == 1 .. MaxActivity
Handle == 1 .. MaxHandle

Broadcast == [what : {"attached", "detached", "granted", "denied"}, device : Camera]
Runnable == [what : {"find", "ready"}, activity : Activity, device : {0}]
            \cup [what : {"again", "retry"}, activity : Activity, device : Camera]

WorkerPc == {"none", "enter", "init", "wrap", "opened", "open", "claim", "compare", "info", "done"}
Crash == {"no", "null device", "null context", "null handle", "freed handle"}

Post(what, a, d) == [what |-> what, activity |-> a, device |-> d]

TypeOK ==
    /\ plugged \in 0 .. MaxAttach /\ attachments \in 0 .. MaxAttach
    /\ permitted \in BOOLEAN
    /\ asked \in [Camera -> 0 .. MaxAsk]
    /\ files \in [Files -> 0 .. MaxAttach]
    /\ life \in [Activity -> {"new", "alive", "destroyed"}]
    /\ device \in [Activity -> 0 .. MaxAttach]
    /\ connection \in [Activity -> Files \cup {0}]
    /\ ready \in [Activity -> BOOLEAN]
    /\ inbox \in [Activity -> Seq(Broadcast)]
    /\ later \subseteq Runnable
    /\ initialized \in BOOLEAN /\ wrapped \in BOOLEAN /\ open \in BOOLEAN
    /\ context \in [Activity -> BOOLEAN]
    /\ handleOf \in [Activity -> 0 .. MaxHandle]
    /\ handle \in [Handle -> {"none", "wrapped", "opened", "freed"}]
    /\ fileOf \in [Handle -> Files \cup {0}]
    /\ pc \in [Workers -> WorkerPc]
    /\ call \in [Workers -> {"init", "list"}]
    /\ owner \in [Workers -> Activity]
    /\ fd \in [Workers -> Files \cup {0}]
    /\ crash \in Crash

Init ==
    /\ plugged = 0 /\ attachments = 0
    /\ permitted = FALSE
    /\ asked = [d \in Camera |-> 0]
    /\ files = [f \in Files |-> 0]
    /\ life = [a \in Activity |-> "new"]
    /\ device = [a \in Activity |-> 0]
    /\ connection = [a \in Activity |-> 0]
    /\ ready = [a \in Activity |-> FALSE]
    /\ inbox = [a \in Activity |-> <<>>]
    /\ later = {}
    /\ initialized = FALSE /\ wrapped = FALSE /\ open = FALSE
    /\ context = [a \in Activity |-> FALSE]
    /\ handleOf = [a \in Activity |-> 0]
    /\ handle = [h \in Handle |-> "none"]
    /\ fileOf = [h \in Handle |-> 0]
    /\ pc = [w \in Workers |-> "none"]
    /\ call = [w \in Workers |-> "init"]
    /\ owner = [w \in Workers |-> 1]
    /\ fd = [w \in Workers |-> 0]
    /\ crash = "no"

-----------------------------------------------------------------------------
(* The bus, and the user who answers the permission dialog. *)

(* Every registered receiver gets a broadcast. *)
Announce(what, d) ==
    /\ \A a \in Activity : Len(inbox[a]) < MaxInbox
    /\ inbox' = [a \in Activity |->
                    IF life[a] = "alive"
                    THEN Append(inbox[a], [what |-> what, device |-> d])
                    ELSE inbox[a]]

PlugIn ==
    /\ plugged = 0 /\ attachments < MaxAttach
    /\ plugged' = attachments + 1
    /\ attachments' = attachments + 1
    /\ permitted' = FALSE
    /\ Announce("attached", plugged')
    /\ UNCHANGED <<asked, files, main, later, native, threads, crash>>

Unplug ==
    /\ plugged # 0
    /\ plugged' = 0
    /\ permitted' = FALSE
    /\ Announce("detached", plugged)
    /\ UNCHANGED <<attachments, asked, files, main, later, native, threads, crash>>

(* A dialog may outlive its camera; the answer is broadcast all the same. *)
Answer(d, granted) ==
    /\ asked[d] > 0
    /\ asked' = [asked EXCEPT ![d] = @ - 1]
    /\ permitted' = (permitted \/ (granted /\ d = plugged))
    /\ Announce(IF granted THEN "granted" ELSE "denied", d)
    /\ UNCHANGED <<plugged, attachments, files, main, later, native, threads, crash>>

-----------------------------------------------------------------------------
(* MainActivity's methods, as parts of the steps below. *)

Closed(f) == [g \in Files |-> IF g = f THEN 0 ELSE files[g]]

(* The worker starts with the descriptor of its own connection. *)
StartWorker(a, f) ==
    \E w \in Workers :
        /\ pc[w] = "none"
        /\ pc' = [pc EXCEPT ![w] = "enter"]
        /\ call' = [call EXCEPT ![w] = "init"]
        /\ owner' = [owner EXCEPT ![w] = a]
        /\ fd' = [fd EXCEPT ![w] = f]

(* Mutant: the old connection is closed whichever camera it was for. *)
InitializeCameraAfresh(a, d, known) ==
    LET left == Closed(connection[a])
    IN  /\ device' = [device EXCEPT ![a] = d]
        /\ plugged = d
        /\ \E f \in Files :
              /\ left[f] = 0
              /\ files' = [left EXCEPT ![f] = d]
              /\ connection' = [connection EXCEPT ![a] = f]
              /\ StartWorker(a, f)

(* known is cameraDevice when initializeCamera is called.  The connection  *)
(* is closed only if it was for another camera, and overwritten in any     *)
(* case; openDevice returns null for a camera that is gone.                *)
InitializeCamera(a, d, known) ==
    LET left == IF known # 0 /\ known # d THEN Closed(connection[a]) ELSE files
    IN  /\ device' = [device EXCEPT ![a] = d]
        /\ \/ /\ plugged = d
              /\ \E f \in Files :
                    /\ left[f] = 0
                    /\ files' = [left EXCEPT ![f] = d]
                    /\ connection' = [connection EXCEPT ![a] = f]
                    /\ StartWorker(a, f)
           \/ /\ plugged # d
              /\ files' = left
              /\ connection' = [connection EXCEPT ![a] = 0]
              /\ UNCHANGED threads

HasPermission(d) == permitted /\ plugged = d

(* Mutant: a dialog for every request. *)
AskEachTime(d) == asked' = [asked EXCEPT ![d] = @ + 1]

Ask(d) == asked' = [asked EXCEPT ![d] = IF @ < MaxAsk THEN @ + 1 ELSE @]

(* rest: the Runnables left when requestPermission is called *)
RequestPermission(a, d, known, rest) ==
    \/ /\ HasPermission(d)
       /\ InitializeCamera(a, d, known)
       /\ later' = rest
       /\ UNCHANGED asked
    \/ /\ ~HasPermission(d)
       /\ Ask(d)
       /\ device' = [device EXCEPT ![a] = known]
       /\ later' = rest \cup {Post("again", a, d)}
       /\ UNCHANGED <<files, connection, threads>>

(* Mutant: the connection is closed and kept. *)
CloseCameraOnly(a) ==
    /\ files' = Closed(connection[a])
    /\ device' = [device EXCEPT ![a] = 0]
    /\ UNCHANGED connection

(* Neither the native session nor the button is reset. *)
CloseCamera(a) ==
    /\ files' = Closed(connection[a])
    /\ connection' = [connection EXCEPT ![a] = 0]
    /\ device' = [device EXCEPT ![a] = 0]

-----------------------------------------------------------------------------
(* Life cycle, handlers and receiver of MainActivity. *)

(* onCreate: each instance has a uvc_camera_t of its own.  A second one is  *)
(* created beside the first when the app is launched by plugging in.        *)
Launch(a) ==
    /\ life[a] = "new"
    /\ \A b \in 1 .. a - 1 : life[b] # "new"
    /\ life' = [life EXCEPT ![a] = "alive"]
    /\ later' = later \cup {Post("find", a, 0)}
    /\ UNCHANGED <<usb, asked, files, device, connection, ready, inbox, native, threads, crash>>

(* onDestroy: the posted Runnables and the workers go on. *)
Destroy(a) ==
    /\ life[a] = "alive"
    /\ life' = [life EXCEPT ![a] = "destroyed"]
    /\ CloseCamera(a)
    /\ inbox' = [inbox EXCEPT ![a] = <<>>]
    /\ UNCHANGED <<usb, asked, ready, later, native, threads, crash>>

FindCamera(a) ==
    /\ Post("find", a, 0) \in later
    /\ \/ /\ plugged # 0
          /\ RequestPermission(a, plugged, plugged, later \ {Post("find", a, 0)})
       \/ /\ plugged = 0
          /\ later' = later \ {Post("find", a, 0)}
          /\ UNCHANGED <<asked, files, device, connection, threads>>
    /\ UNCHANGED <<usb, life, ready, inbox, native, crash>>

(* two seconds after a request *)
AskAgain(a, d) ==
    /\ Post("again", a, d) \in later
    /\ later' = later \ {Post("again", a, d)}
    /\ IF ~HasPermission(d) /\ device[a] = d THEN Ask(d) ELSE UNCHANGED asked
    /\ UNCHANGED <<usb, files, main, inbox, native, threads, crash>>

(* one second after a denial *)
RetryPermission(a, d) ==
    /\ Post("retry", a, d) \in later
    /\ \/ /\ device[a] = d
          /\ RequestPermission(a, d, d, later \ {Post("retry", a, d)})
       \/ /\ device[a] # d
          /\ later' = later \ {Post("retry", a, d)}
          /\ UNCHANGED <<asked, files, device, connection, threads>>
    /\ UNCHANGED <<usb, life, ready, inbox, native, crash>>

EnableStart(a) ==
    /\ Post("ready", a, 0) \in later
    /\ later' = later \ {Post("ready", a, 0)}
    /\ ready' = [ready EXCEPT ![a] = TRUE]
    /\ UNCHANGED <<usb, asked, files, life, device, connection, inbox, native, threads, crash>>

(* The listener calls getDeviceName on cameraDevice; with a camera, it just *)
(* starts the CameraActivity.                                              *)
PressStartWithoutDevice(a) ==
    /\ life[a] = "alive" /\ ready[a]
    /\ device[a] = 0
    /\ crash' = "null device"
    /\ UNCHANGED <<usb, asked, files, main, posts, native, threads>>

Receives(a, what, d) ==
    /\ inbox[a] # <<>>
    /\ Head(inbox[a]) = [what |-> what, device |-> d]
    /\ inbox' = [inbox EXCEPT ![a] = Tail(@)]

PermissionGranted(a, d) ==
    /\ Receives(a, "granted", d)
    /\ InitializeCamera(a, d, device[a])
    /\ UNCHANGED <<usb, asked, life, ready, later, native, crash>>

PermissionDenied(a, d) ==
    /\ Receives(a, "denied", d)
    /\ later' = IF device[a] = d THEN later \cup {Post("retry", a, d)} ELSE later
    /\ UNCHANGED <<usb, asked, files, main, native, threads, crash>>

DeviceDetached(a, d) ==
    /\ Receives(a, "detached", d)
    /\ \/ /\ device[a] = d
          /\ CloseCamera(a)
          /\ later' = later \cup {Post("find", a, 0)}
       \/ /\ device[a] # d
          /\ UNCHANGED <<files, connection, device, later>>
    /\ UNCHANGED <<usb, asked, life, ready, native, threads, crash>>

(* cameraDevice stays null until the permission is granted *)
DeviceAttached(a, d) ==
    /\ Receives(a, "attached", d)
    /\ \/ /\ device[a] = 0
          /\ RequestPermission(a, d, 0, later)
       \/ /\ device[a] # 0
          /\ UNCHANGED <<asked, files, device, connection, later, threads>>
    /\ UNCHANGED <<usb, life, ready, native, crash>>

Main(a) ==
    \/ Launch(a) \/ Destroy(a)
    \/ FindCamera(a) \/ EnableStart(a) \/ PressStartWithoutDevice(a)
    \/ \E d \in Camera :
          \/ AskAgain(a, d) \/ RetryPermission(a, d)
          \/ PermissionGranted(a, d) \/ PermissionDenied(a, d)
          \/ DeviceDetached(a, d) \/ DeviceAttached(a, d)

-----------------------------------------------------------------------------
(* The configuration workers in native code: initStreamingParms, then      *)
(* listDeviceUvc, on the uvc_camera_t of the activity that started them.   *)
(* setNativeValues stores the same values each time.                       *)

Goto(w, label) == pc' = [pc EXCEPT ![w] = label]
Step(w, label) == Goto(w, label) /\ UNCHANGED <<call, owner, fd>>

(* initStreamingParms has returned 0: on to listDeviceUvc *)
Returns(w) ==
    /\ Goto(w, "enter")
    /\ call' = [call EXCEPT ![w] = "list"]
    /\ UNCHANGED <<owner, fd>>

Ends(w) ==
    /\ Goto(w, "done")
    /\ call' = [call EXCEPT ![w] = "init"]
    /\ owner' = [owner EXCEPT ![w] = 1]
    /\ fd' = [fd EXCEPT ![w] = 0]

Crashes(what) ==
    /\ crash' = what
    /\ UNCHANGED <<usb, asked, files, main, posts, native, threads>>

HandleOf(w) == handleOf[owner[w]]
Usable(h) == h # 0 /\ handle[h] \in {"wrapped", "opened"}

(* Calls on the handle reach the camera its descriptor is open on now. *)
Reaches(h) == fileOf[h] # 0 /\ files[fileOf[h]] # 0 /\ files[fileOf[h]] = plugged

(* what a call that takes the handle of w does when there is none *)
CrashesOnHandle(w) ==
    /\ ~Usable(HandleOf(w))
    /\ Crashes(IF HandleOf(w) = 0 THEN "null handle" ELSE "freed handle")

(* on to wrapping, if cameraDevice_is_wraped is not set *)
Initialized(w) == Step(w, IF wrapped THEN "opened" ELSE "wrap")

TestInitialized(w) ==
    /\ pc[w] = "enter"
    /\ IF initialized THEN Initialized(w) ELSE Step(w, "init")
    /\ UNCHANGED <<usb, asked, files, main, posts, native, crash>>

(* uvc_init2 gives this uvc_camera_t a context, another one if it had one, *)
(* and the flag is set behind it: a worker that tests the flag in between  *)
(* finds what it would have found before.                                  *)
InitLibusb(w) ==
    /\ pc[w] = "init"
    /\ context' = [context EXCEPT ![owner[w]] = TRUE]
    /\ initialized' = TRUE
    /\ Initialized(w)
    /\ UNCHANGED <<usb, asked, files, main, posts, wrapped, open, handleOf, handle, fileOf,
                   crash>>

(* The result is not looked at. *)
InitLibusbFails(w) ==
    /\ pc[w] = "init"
    /\ Initialized(w)
    /\ UNCHANGED <<usb, asked, files, main, posts, native, crash>>

(* uvc_get_device_with_fd *)
WrapDevice(w) ==
    /\ pc[w] = "wrap"
    /\ context[owner[w]]
    /\ files[fd[w]] # 0 /\ files[fd[w]] = plugged
    /\ \E h \in Handle :
          /\ handle[h] = "none"
          /\ \A g \in 1 .. h - 1 : handle[g] # "none"
          /\ handle' = [handle EXCEPT ![h] = "wrapped"]
          /\ fileOf' = [fileOf EXCEPT ![h] = fd[w]]
          /\ handleOf' = [handleOf EXCEPT ![owner[w]] = h]
    /\ wrapped' = TRUE
    /\ Step(w, "opened")
    /\ UNCHANGED <<usb, asked, files, main, posts, initialized, open, context, crash>>

(* Mutant: the flag is set before the result is tested. *)
WrapFailsUnnoticed(w) ==
    /\ pc[w] = "wrap"
    /\ context[owner[w]]
    /\ wrapped' = TRUE
    /\ IF call[w] = "init" THEN Returns(w) ELSE Ends(w)
    /\ UNCHANGED <<usb, asked, files, main, posts, initialized, open, context, handleOf,
                   handle, fileOf, crash>>

(* Mutant: listDeviceUvc returns what it has without a handle, too. *)
WrapFailsButLists(w) ==
    /\ pc[w] = "wrap"
    /\ context[owner[w]]
    /\ IF call[w] = "init"
       THEN Returns(w) /\ UNCHANGED later
       ELSE Ends(w) /\ later' = later \cup {Post("ready", owner[w], 0)}
    /\ UNCHANGED <<usb, asked, files, main, inbox, native, crash>>

(* initStreamingParms then returns (int) NULL, which Java takes for success *)
WrapFails(w) ==
    /\ pc[w] = "wrap"
    /\ context[owner[w]]
    /\ IF call[w] = "init" THEN Returns(w) ELSE Ends(w)
    /\ UNCHANGED <<usb, asked, files, main, posts, native, crash>>

WrapWithoutContext(w) ==
    /\ pc[w] = "wrap"
    /\ ~context[owner[w]]
    /\ Crashes("null context")

Opened(w) == Step(w, IF call[w] = "init" THEN "claim" ELSE "info")

TestOpen(w) ==
    /\ pc[w] = "opened"
    /\ IF open THEN Opened(w) ELSE Step(w, "open")
    /\ UNCHANGED <<usb, asked, files, main, posts, native, crash>>

OpenDevice(w) ==
    /\ pc[w] = "open"
    /\ Usable(HandleOf(w)) /\ Reaches(HandleOf(w))
    /\ handle' = [handle EXCEPT ![HandleOf(w)] = "opened"]
    /\ open' = TRUE
    /\ Opened(w)
    /\ UNCHANGED <<usb, asked, files, main, posts, initialized, wrapped, context,
                   handleOf, fileOf, crash>>

(* uvc_open frees the device and the handle it was given; the flag that     *)
(* there is one stays, and so do the pointers in uvc_camera_t.              *)
OpenDeviceFails(w) ==
    /\ pc[w] = "open"
    /\ Usable(HandleOf(w))
    /\ handle' = [handle EXCEPT ![HandleOf(w)] = "freed"]
    /\ IF call[w] = "init" THEN Ends(w) ELSE Opened(w)
    /\ UNCHANGED <<usb, asked, files, main, posts, initialized, wrapped, open, context,
                   handleOf, fileOf, crash>>

(* Errors of libusb_claim_interface are ignored, one of                     *)
(* libusb_set_interface_alt_setting is returned.                           *)
ClaimInterfaces(w) ==
    /\ pc[w] = "claim"
    /\ Usable(HandleOf(w))
    /\ \/ Reaches(HandleOf(w)) /\ Step(w, "compare")
       \/ Ends(w)
    /\ UNCHANGED <<usb, asked, files, main, posts, native, crash>>

(* The camera may answer with other values.  When the transfers fail, the   *)
(* buffer still has the values sent, and they compare equal.  With other    *)
(* values camIsOpen is cleared although the device is open.                 *)
CompareValues(w) ==
    /\ pc[w] = "compare"
    /\ Usable(HandleOf(w))
    /\ \E equal \in BOOLEAN :
          /\ equal \/ Reaches(HandleOf(w))
          /\ open' = equal
          /\ IF equal THEN Returns(w) ELSE Ends(w)
    /\ UNCHANGED <<usb, asked, files, main, posts, initialized, wrapped, context,
                   handleOf, handle, fileOf, crash>>

(* info is NULL until uvc_open has filled it in. *)
ListDevice(w) ==
    /\ pc[w] = "info"
    /\ ~open \/ Usable(HandleOf(w))
    /\ later' = IF open /\ handle[HandleOf(w)] = "opened"
                THEN later \cup {Post("ready", owner[w], 0)}
                ELSE later
    /\ Ends(w)
    /\ UNCHANGED <<usb, asked, files, main, inbox, native, crash>>

UseBadHandle(w) ==
    /\ \/ pc[w] \in {"open", "claim", "compare"}
       \/ pc[w] = "info" /\ open
    /\ CrashesOnHandle(w)

Worker(w) ==
    \/ TestInitialized(w) \/ InitLibusb(w) \/ InitLibusbFails(w)
    \/ WrapDevice(w) \/ WrapFails(w) \/ WrapWithoutContext(w)
    \/ TestOpen(w) \/ OpenDevice(w) \/ OpenDeviceFails(w)
    \/ ClaimInterfaces(w) \/ CompareValues(w) \/ ListDevice(w)
    \/ UseBadHandle(w)

Environment ==
    \/ PlugIn \/ Unplug
    \/ \E d \in Camera, granted \in BOOLEAN : Answer(d, granted)

Next ==
    /\ crash = "no"
    /\ \/ Environment
       \/ \E a \in Activity : Main(a)
       \/ \E w \in Workers : Worker(w)
    /\ Cardinality(later') <= MaxPosts

Spec == Init /\ [][Next]_vars

-----------------------------------------------------------------------------
(* Safety *)

OneActivity == \A a \in Activity \ {1} : life[a] = "new"
NoOpenFailed == \A h \in Handle : handle[h] # "freed"

(* As long as the process has seen one MainActivity and no uvc_open has    *)
(* failed, every native call that takes the handle gets one that is        *)
(* wrapped and not freed: neither the (int) NULL of initStreamingParms nor *)
(* the unlocked flags, with several workers, lead to one that is missing.  *)
NativeUseIsSafe ==
    OneActivity /\ NoOpenFailed =>
        \A w \in Workers :
            \/ pc[w] \in {"open", "claim", "compare"}
            \/ pc[w] = "info" /\ open
            => Usable(HandleOf(w))

(* The start button of an activity is enabled only when its uvc_camera_t   *)
(* has a handle, opened if it was the only one wrapped: that is the handle *)
(* PreviewPrepareStream gives to the preview.                              *)
ReadyMeansOpened ==
    NoOpenFailed =>
        \A a \in Activity :
            ready[a] => /\ Usable(handleOf[a])
                        /\ (\A h \in Handle : handle[h] # "none" => h = handleOf[a])
                              => handle[handleOf[a]] = "opened"

(* Every descriptor that is open belongs to one connection at most, and a   *)
(* connection that is not null is open, whatever the order of permissions, *)
(* detaches and destroyed activities.                                      *)
ConnectionsAreOpen ==
    \A a \in Activity :
        connection[a] # 0 =>
            /\ files[connection[a]] # 0
            /\ \A b \in Activity \ {a} : connection[b] # connection[a]

(* An uvc_camera_t that has no handle is not used: onDestroy's comment      *)
(* says no teardown of the native library is required.                     *)
NoNullHandle == crash # "null handle"

(* An activity closes the descriptor of the camera that is plugged in only  *)
(* when it is destroyed or when it is told, late, that another camera may   *)
(* be opened.                                                              *)
ClosesOnlyWhenGone ==
    [][\A f \in Files :
          files[f] # 0 /\ files[f] = plugged /\ files'[f] = 0 =>
              \E a \in Activity :
                  /\ connection[a] = f
                  /\ \/ life'[a] = "destroyed"
                     \/ /\ inbox[a] # <<>>
                        /\ Head(inbox[a]).what = "granted"
                        /\ Head(inbox[a]).device # plugged]_vars
=============================================================================
