------------------------ MODULE DeviceSession_proofs ------------------------
(* Theorems about DeviceSession, for any bounds, descriptors and workers. *)
EXTENDS DeviceSession, TLAPS

(* The type invariant in the parts that actions change together. *)
TypeUsb ==
    /\ plugged \in 0 .. MaxAttach /\ attachments \in 0 .. MaxAttach
    /\ permitted \in BOOLEAN
    /\ asked \in [Camera -> 0 .. MaxAsk]
    /\ files \in [Files -> 0 .. MaxAttach]

TypeMain ==
    /\ life \in [Activity -> {"new", "alive", "destroyed"}]
    /\ device \in [Activity -> 0 .. MaxAttach]
    /\ connection \in [Activity -> Files \cup {0}]
    /\ ready \in [Activity -> BOOLEAN]

TypePosts ==
    /\ inbox \in [Activity -> Seq(Broadcast)]
    /\ later \subseteq Runnable

TypeNative ==
    /\ initialized \in BOOLEAN /\ wrapped \in BOOLEAN /\ open \in BOOLEAN
    /\ context \in [Activity -> BOOLEAN]
    /\ handleOf \in [Activity -> 0 .. MaxHandle]
    /\ handle \in [Handle -> {"none", "wrapped", "opened", "freed"}]
    /\ fileOf \in [Handle -> Files \cup {0}]

TypeThreads ==
    /\ pc \in [Workers -> WorkerPc]
    /\ call \in [Workers -> {"init", "list"}]
    /\ owner \in [Workers -> Activity]
    /\ fd \in [Workers -> Files \cup {0}]

LEMMA TypeParts ==
    TypeOK <=> /\ TypeUsb /\ TypeMain /\ TypePosts /\ TypeNative /\ TypeThreads
               /\ crash \in Crash
BY DEF TypeOK, TypeUsb, TypeMain, TypePosts, TypeNative, TypeThreads

LEMMA TypePartsNext ==
    /\ TypeUsb' /\ TypeMain' /\ TypePosts' /\ TypeNative' /\ TypeThreads'
    /\ crash' \in Crash
    => TypeOK'
BY DEF TypeOK, TypeUsb, TypeMain, TypePosts, TypeNative, TypeThreads

(* A part keeps its type when its variables stay. *)
LEMMA SameUsb == TypeUsb /\ UNCHANGED <<usb, asked, files>> => TypeUsb'
BY DEF TypeUsb, usb

LEMMA SameMain == TypeMain /\ UNCHANGED main => TypeMain'
BY DEF TypeMain, main

LEMMA SamePosts == TypePosts /\ UNCHANGED posts => TypePosts'
BY DEF TypePosts, posts

LEMMA SameNative == TypeNative /\ UNCHANGED native => TypeNative'
BY DEF TypeNative, native

LEMMA SameThreads == TypeThreads /\ UNCHANGED threads => TypeThreads'
BY DEF TypeThreads, threads

LEMMA Zero == 0 \in 0 .. MaxAttach /\ 0 \in 0 .. MaxAsk /\ 0 \in 0 .. MaxHandle
BY BoundsAssumption

LEMMA SomeActivity == 1 \in Activity
BY BoundsAssumption DEF Activity

LEMMA CameraNumber == \A d \in Camera : d \in 0 .. MaxAttach /\ d # 0
BY BoundsAssumption DEF Camera

LEMMA SomeCamera == 1 \in Camera
BY BoundsAssumption DEF Camera

(* Every Runnable the code posts is one. *)
LEMMA PostTypes ==
    ASSUME NEW a \in Activity, NEW d \in Camera
    PROVE  /\ Post("find", a, 0) \in Runnable /\ Post("ready", a, 0) \in Runnable
           /\ Post("again", a, d) \in Runnable /\ Post("retry", a, d) \in Runnable
BY DEF Post, Runnable

LEMMA ClosedType ==
    ASSUME TypeUsb, NEW f
    PROVE  Closed(f) \in [Files -> 0 .. MaxAttach]
BY BoundsAssumption DEF TypeUsb, Closed

LEMMA AnnounceType ==
    ASSUME TypePosts, NEW d \in Camera,
           NEW what \in {"attached", "detached", "granted", "denied"},
           Announce(what, d)
    PROVE  inbox' \in [Activity -> Seq(Broadcast)]
<1>1. [what |-> what, device |-> d] \in Broadcast
  BY DEF Broadcast
<1>2. \A a \in Activity : Append(inbox[a], [what |-> what, device |-> d]) \in Seq(Broadcast)
  BY <1>1 DEF TypePosts
<1> QED  BY <1>2 DEF Announce, TypePosts

LEMMA InitializeType ==
    ASSUME TypeUsb, TypeMain, TypeThreads,
           NEW a \in Activity, NEW d \in Camera, NEW known,
           InitializeCamera(a, d, known)
    PROVE  /\ files' \in [Files -> 0 .. MaxAttach]
           /\ device' \in [Activity -> 0 .. MaxAttach]
           /\ connection' \in [Activity -> Files \cup {0}]
           /\ TypeThreads'
<1> DEFINE left == IF known # 0 /\ known # d THEN Closed(connection[a]) ELSE files
<1>1. left \in [Files -> 0 .. MaxAttach]
  BY ClosedType DEF TypeUsb
<1>2. device' \in [Activity -> 0 .. MaxAttach]
  BY CameraNumber DEF InitializeCamera, TypeMain
<1>3. CASE /\ plugged # d
           /\ files' = left
           /\ connection' = [connection EXCEPT ![a] = 0]
           /\ UNCHANGED threads
  BY <1>1, <1>2, <1>3 DEF TypeMain, TypeThreads, threads
<1>4. ASSUME NEW f \in Files,
             files' = [left EXCEPT ![f] = d],
             connection' = [connection EXCEPT ![a] = f],
             StartWorker(a, f)
      PROVE  /\ files' \in [Files -> 0 .. MaxAttach]
             /\ connection' \in [Activity -> Files \cup {0}]
             /\ TypeThreads'
  <2>1. files' \in [Files -> 0 .. MaxAttach]
    <3> HIDE DEF left
    <3> QED  BY <1>1, <1>4, CameraNumber
  <2>2. TypeThreads'
    BY <1>4 DEF TypeThreads, StartWorker, WorkerPc
  <2> QED  BY <1>4, <2>1, <2>2 DEF TypeMain
<1> QED  BY <1>2, <1>3, <1>4 DEF InitializeCamera

LEMMA RequestType ==
    ASSUME TypeUsb, TypeMain, TypeThreads,
           NEW a \in Activity, NEW d \in Camera, NEW known \in 0 .. MaxAttach,
           NEW rest \in SUBSET Runnable,
           RequestPermission(a, d, known, rest)
    PROVE  /\ asked' \in [Camera -> 0 .. MaxAsk]
           /\ files' \in [Files -> 0 .. MaxAttach]
           /\ device' \in [Activity -> 0 .. MaxAttach]
           /\ connection' \in [Activity -> Files \cup {0}]
           /\ later' \subseteq Runnable
           /\ TypeThreads'
<1>1. CASE /\ HasPermission(d)
           /\ InitializeCamera(a, d, known)
           /\ later' = rest
           /\ UNCHANGED asked
  BY <1>1, InitializeType DEF TypeUsb
<1>2. CASE /\ ~HasPermission(d)
           /\ Ask(d)
           /\ device' = [device EXCEPT ![a] = known]
           /\ later' = rest \cup {Post("again", a, d)}
           /\ UNCHANGED <<files, connection, threads>>
  <2>1. asked' \in [Camera -> 0 .. MaxAsk]
    BY <1>2, BoundsAssumption DEF Ask, TypeUsb
  <2>2. TypeThreads'
    BY <1>2 DEF TypeThreads, threads
  <2> QED  BY <1>2, <2>1, <2>2, PostTypes DEF TypeUsb, TypeMain
<1> QED  BY <1>1, <1>2 DEF RequestPermission

LEMMA CloseType ==
    ASSUME TypeUsb, TypeMain, NEW a \in Activity, CloseCamera(a)
    PROVE  /\ files' \in [Files -> 0 .. MaxAttach]
           /\ device' \in [Activity -> 0 .. MaxAttach]
           /\ connection' \in [Activity -> Files \cup {0}]
BY ClosedType, BoundsAssumption DEF CloseCamera, TypeMain

LEMMA ReceivesType ==
    ASSUME TypePosts, NEW a \in Activity, NEW what, NEW d, Receives(a, what, d)
    PROVE  inbox' \in [Activity -> Seq(Broadcast)]
<1>1. inbox[a] \in Seq(Broadcast) /\ inbox[a] # <<>>
  BY DEF Receives, TypePosts
<1>2. Tail(inbox[a]) \in Seq(Broadcast)
  BY <1>1
<1> QED  BY <1>2 DEF Receives, TypePosts

LEMMA TypeInit == Init => TypeOK
<1> SUFFICES ASSUME Init PROVE TypeOK
  OBVIOUS
<1>1. TypeUsb
  <2>1. plugged \in 0 .. MaxAttach /\ attachments \in 0 .. MaxAttach
    BY Zero DEF Init
  <2>2. asked \in [Camera -> 0 .. MaxAsk] /\ files \in [Files -> 0 .. MaxAttach]
    BY Zero DEF Init
  <2> QED  BY <2>1, <2>2 DEF Init, TypeUsb
<1>2. TypeMain
  BY Zero DEF Init, TypeMain
<1>3. TypePosts
  <2>1. <<>> \in Seq(Broadcast)
    OBVIOUS
  <2> QED  BY <2>1 DEF Init, TypePosts
<1>4. TypeNative
  <2>1. handleOf \in [Activity -> 0 .. MaxHandle]
    BY Zero DEF Init
  <2> QED  BY <2>1 DEF Init, TypeNative
<1>5. TypeThreads
  BY SomeActivity DEF Init, TypeThreads, WorkerPc
<1> QED  BY <1>1, <1>2, <1>3, <1>4, <1>5, TypeParts DEF Init, Crash

LEMMA TypeMainStep ==
    ASSUME TypeOK, NEW a \in Activity, Main(a)
    PROVE  TypeOK'
<1> USE TypeParts, TypePartsNext, SameUsb, SameMain, SamePosts, SameNative, SameThreads
<1>1. CASE Launch(a)
  <2>1. TypeMain'
    BY <1>1 DEF Launch, TypeMain
  <2>2. TypePosts'
    BY <1>1, PostTypes, SomeCamera DEF Launch, TypePosts
  <2> QED  BY <1>1, <2>1, <2>2 DEF Launch
<1>2. CASE Destroy(a)
  <2>1. TypeUsb'
    BY <1>2, CloseType DEF Destroy, TypeUsb, usb
  <2>2. TypeMain'
    BY <1>2, CloseType DEF Destroy, TypeMain
  <2>3. TypePosts'
    <3>1. <<>> \in Seq(Broadcast)
      OBVIOUS
    <3> QED  BY <1>2, <3>1 DEF Destroy, TypePosts
  <2> QED  BY <1>2, <2>1, <2>2, <2>3 DEF Destroy
<1>3. CASE FindCamera(a)
  <2>1. CASE RequestPermission(a, plugged, plugged, later \ {Post("find", a, 0)}) /\ plugged # 0
    <3>1. plugged \in Camera /\ plugged \in 0 .. MaxAttach
      BY <2>1 DEF TypeUsb, Camera
    <3>2. later \ {Post("find", a, 0)} \in SUBSET Runnable
      BY DEF TypePosts
    <3>3. /\ asked' \in [Camera -> 0 .. MaxAsk]
          /\ files' \in [Files -> 0 .. MaxAttach]
          /\ device' \in [Activity -> 0 .. MaxAttach]
          /\ connection' \in [Activity -> Files \cup {0}]
          /\ later' \subseteq Runnable
          /\ TypeThreads'
      BY <2>1, <3>1, <3>2, RequestType
    <3> QED  BY <1>3, <3>3 DEF FindCamera, TypeUsb, TypeMain, TypePosts, usb
  <2>2. CASE later' = later \ {Post("find", a, 0)} /\ UNCHANGED <<asked, files, device, connection, threads>>
    BY <1>3, <2>2 DEF FindCamera, TypeUsb, TypeMain, TypePosts, usb
  <2> QED  BY <1>3, <2>1, <2>2 DEF FindCamera
<1>4. CASE EnableStart(a)
  BY <1>4 DEF EnableStart, TypeMain, TypePosts
<1>5. CASE PressStartWithoutDevice(a)
  BY <1>5 DEF PressStartWithoutDevice, Crash
<1>6. ASSUME NEW d \in Camera, AskAgain(a, d) PROVE TypeOK'
  <2>1. asked' \in [Camera -> 0 .. MaxAsk]
    BY <1>6, BoundsAssumption DEF AskAgain, Ask, TypeUsb
  <2> QED  BY <1>6, <2>1 DEF AskAgain, TypeUsb, TypePosts, usb
<1>7. ASSUME NEW d \in Camera, RetryPermission(a, d) PROVE TypeOK'
  <2>1. CASE RequestPermission(a, d, d, later \ {Post("retry", a, d)})
    <3>1. d \in 0 .. MaxAttach
      BY CameraNumber
    <3>2. later \ {Post("retry", a, d)} \in SUBSET Runnable
      BY DEF TypePosts
    <3>3. /\ asked' \in [Camera -> 0 .. MaxAsk]
          /\ files' \in [Files -> 0 .. MaxAttach]
          /\ device' \in [Activity -> 0 .. MaxAttach]
          /\ connection' \in [Activity -> Files \cup {0}]
          /\ later' \subseteq Runnable
          /\ TypeThreads'
      BY <2>1, <3>1, <3>2, RequestType
    <3> QED  BY <1>7, <3>3 DEF RetryPermission, TypeUsb, TypeMain, TypePosts, usb
  <2>2. CASE later' = later \ {Post("retry", a, d)} /\ UNCHANGED <<asked, files, device, connection, threads>>
    BY <1>7, <2>2 DEF RetryPermission, TypeUsb, TypeMain, TypePosts, usb
  <2> QED  BY <1>7, <2>1, <2>2 DEF RetryPermission
<1>8. ASSUME NEW d \in Camera, PermissionGranted(a, d) PROVE TypeOK'
  <2>1. /\ files' \in [Files -> 0 .. MaxAttach]
        /\ device' \in [Activity -> 0 .. MaxAttach]
        /\ connection' \in [Activity -> Files \cup {0}]
        /\ TypeThreads'
    BY <1>8, InitializeType DEF PermissionGranted
  <2>2. inbox' \in [Activity -> Seq(Broadcast)]
    BY <1>8, ReceivesType DEF PermissionGranted
  <2> QED  BY <1>8, <2>1, <2>2 DEF PermissionGranted, TypeUsb, TypeMain, TypePosts, usb
<1>9. ASSUME NEW d \in Camera, PermissionDenied(a, d) PROVE TypeOK'
  <2>1. inbox' \in [Activity -> Seq(Broadcast)]
    BY <1>9, ReceivesType DEF PermissionDenied
  <2> QED  BY <1>9, <2>1, PostTypes DEF PermissionDenied, TypePosts
<1>10. ASSUME NEW d \in Camera, DeviceDetached(a, d) PROVE TypeOK'
  <2>1. inbox' \in [Activity -> Seq(Broadcast)]
    BY <1>10, ReceivesType DEF DeviceDetached
  <2>2. CASE CloseCamera(a) /\ later' = later \cup {Post("find", a, 0)}
    BY <1>10, <2>1, <2>2, CloseType, PostTypes
       DEF DeviceDetached, TypeUsb, TypeMain, TypePosts, usb
  <2>3. CASE UNCHANGED <<files, connection, device, later>>
    BY <1>10, <2>1, <2>3 DEF DeviceDetached, TypeUsb, TypeMain, TypePosts, usb
  <2> QED  BY <1>10, <2>2, <2>3 DEF DeviceDetached
<1>11. ASSUME NEW d \in Camera, DeviceAttached(a, d) PROVE TypeOK'
  <2>1. inbox' \in [Activity -> Seq(Broadcast)]
    BY <1>11, ReceivesType DEF DeviceAttached
  <2>2. CASE RequestPermission(a, d, 0, later)
    <3>1. /\ asked' \in [Camera -> 0 .. MaxAsk]
          /\ files' \in [Files -> 0 .. MaxAttach]
          /\ device' \in [Activity -> 0 .. MaxAttach]
          /\ connection' \in [Activity -> Files \cup {0}]
          /\ later' \subseteq Runnable
          /\ TypeThreads'
      BY <2>2, Zero, RequestType DEF TypePosts
    <3> QED  BY <1>11, <2>1, <3>1 DEF DeviceAttached, TypeUsb, TypeMain, TypePosts, usb
  <2>3. CASE UNCHANGED <<asked, files, device, connection, later, threads>>
    BY <1>11, <2>1, <2>3 DEF DeviceAttached, TypeUsb, TypeMain, TypePosts, usb
  <2> QED  BY <1>11, <2>2, <2>3 DEF DeviceAttached
<1> QED  BY <1>1, <1>2, <1>3, <1>4, <1>5, <1>6, <1>7, <1>8, <1>9, <1>10, <1>11 DEF Main

LEMMA TypeEnvironmentStep ==
    ASSUME TypeOK, Environment
    PROVE  TypeOK'
<1> USE TypeParts, TypePartsNext, SameUsb, SameMain, SamePosts, SameNative, SameThreads
<1>1. CASE PlugIn
  <2>1. plugged' \in 0 .. MaxAttach /\ attachments' \in 0 .. MaxAttach /\ plugged' \in Camera
    BY <1>1, BoundsAssumption DEF PlugIn, TypeUsb, Camera
  <2>2. inbox' \in [Activity -> Seq(Broadcast)]
    BY <1>1, <2>1, AnnounceType DEF PlugIn
  <2> QED  BY <1>1, <2>1, <2>2 DEF PlugIn, TypeUsb, TypePosts
<1>2. CASE Unplug
  <2>1. plugged \in Camera
    BY <1>2 DEF Unplug, TypeUsb, Camera
  <2>2. inbox' \in [Activity -> Seq(Broadcast)]
    BY <1>2, <2>1, AnnounceType DEF Unplug
  <2> QED  BY <1>2, <2>2, Zero DEF Unplug, TypeUsb, TypePosts
<1>3. ASSUME NEW d \in Camera, NEW granted \in BOOLEAN, Answer(d, granted) PROVE TypeOK'
  <2>1. asked' \in [Camera -> 0 .. MaxAsk]
    BY <1>3, BoundsAssumption DEF Answer, TypeUsb
  <2>2. inbox' \in [Activity -> Seq(Broadcast)]
    BY <1>3, AnnounceType DEF Answer
  <2>3. permitted' \in BOOLEAN
    BY <1>3 DEF Answer
  <2> QED  BY <1>3, <2>1, <2>2, <2>3 DEF Answer, TypeUsb, TypePosts
<1> QED  BY <1>1, <1>2, <1>3 DEF Environment

LEMMA GoesType ==
    ASSUME TypeThreads, NEW w \in Workers, NEW label \in WorkerPc
    PROVE  /\ Step(w, label) => TypeThreads'
           /\ Returns(w) => TypeThreads'
           /\ Ends(w) => TypeThreads'
<1>1. Step(w, label) => TypeThreads'
  BY DEF Step, Goto, TypeThreads
<1>2. Returns(w) => TypeThreads'
  BY DEF Returns, Goto, TypeThreads, WorkerPc
<1>3. Ends(w) => TypeThreads'
  BY SomeActivity DEF Ends, Goto, TypeThreads, WorkerPc
<1> QED  BY <1>1, <1>2, <1>3

LEMMA OwnerType ==
    ASSUME TypeThreads, TypeNative, NEW w \in Workers
    PROVE  /\ owner[w] \in Activity
           /\ Usable(HandleOf(w)) => HandleOf(w) \in Handle
BY DEF TypeThreads, TypeNative, Usable, HandleOf, Handle

LEMMA CrashType ==
    ASSUME TypeOK, NEW what \in Crash, Crashes(what)
    PROVE  TypeOK'
BY TypeParts, TypePartsNext, SameUsb, SameMain, SamePosts, SameNative, SameThreads DEF Crashes

LEMMA TypeWorkerStep ==
    ASSUME TypeOK, NEW w \in Workers, Worker(w)
    PROVE  TypeOK'
<1> USE TypeParts, TypePartsNext, SameUsb, SameMain, SamePosts, SameNative, SameThreads
<1> USE GoesType, OwnerType
<1>0. WorkerPc = {"none", "enter", "init", "wrap", "opened", "open", "claim", "compare", "info", "done"}
  BY DEF WorkerPc
<1>1. CASE TestInitialized(w) \/ InitLibusb(w) \/ InitLibusbFails(w)
  <2>1. TypeThreads'
    BY <1>0, <1>1 DEF TestInitialized, InitLibusb, InitLibusbFails, Initialized
  <2>2. TypeNative'
    BY <1>1 DEF TestInitialized, InitLibusb, InitLibusbFails, TypeNative
  <2> QED  BY <1>1, <2>1, <2>2 DEF TestInitialized, InitLibusb, InitLibusbFails
<1>2. CASE WrapDevice(w)
  <2>1. TypeThreads'
    BY <1>0, <1>2 DEF WrapDevice
  <2>2. TypeNative'
    <3>1. PICK h \in Handle : /\ handle' = [handle EXCEPT ![h] = "wrapped"]
                              /\ fileOf' = [fileOf EXCEPT ![h] = fd[w]]
                              /\ handleOf' = [handleOf EXCEPT ![owner[w]] = h]
      BY <1>2 DEF WrapDevice
    <3>2. handleOf' \in [Activity -> 0 .. MaxHandle]
      BY <3>1, BoundsAssumption DEF TypeNative, Handle
    <3>3. fileOf' \in [Handle -> Files \cup {0}] /\ handle' \in [Handle -> {"none", "wrapped", "opened", "freed"}]
      BY <3>1 DEF TypeNative, TypeThreads
    <3> QED  BY <1>2, <3>2, <3>3 DEF WrapDevice, TypeNative
  <2> QED  BY <1>2, <2>1, <2>2 DEF WrapDevice
<1>3. CASE WrapFails(w)
  BY <1>0, <1>3 DEF WrapFails
<1>4. CASE WrapWithoutContext(w)
  BY <1>4, CrashType DEF WrapWithoutContext, Crash
<1>5. CASE TestOpen(w)
  BY <1>0, <1>5 DEF TestOpen, Opened
<1>6. CASE OpenDevice(w)
  <2>1. TypeThreads'
    BY <1>0, <1>6 DEF OpenDevice, Opened
  <2>2. TypeNative'
    BY <1>6 DEF OpenDevice, TypeNative
  <2> QED  BY <1>6, <2>1, <2>2 DEF OpenDevice
<1>7. CASE OpenDeviceFails(w)
  <2>1. TypeThreads'
    BY <1>0, <1>7 DEF OpenDeviceFails, Opened
  <2>2. TypeNative'
    BY <1>7 DEF OpenDeviceFails, TypeNative
  <2> QED  BY <1>7, <2>1, <2>2 DEF OpenDeviceFails
<1>8. CASE ClaimInterfaces(w)
  BY <1>0, <1>8 DEF ClaimInterfaces
<1>9. CASE CompareValues(w)
  <2>1. TypeThreads'
    BY <1>0, <1>9 DEF CompareValues
  <2>2. TypeNative'
    BY <1>9 DEF CompareValues, TypeNative
  <2> QED  BY <1>9, <2>1, <2>2 DEF CompareValues
<1>10. CASE ListDevice(w)
  <2>1. TypeThreads'
    BY <1>0, <1>10 DEF ListDevice
  <2>2. TypePosts'
    BY <1>10, PostTypes, SomeCamera DEF ListDevice, TypePosts
  <2> QED  BY <1>10, <2>1, <2>2 DEF ListDevice
<1>11. CASE UseBadHandle(w)
  BY <1>11, CrashType DEF UseBadHandle, CrashesOnHandle, Crash
<1> QED  BY <1>1, <1>2, <1>3, <1>4, <1>5, <1>6, <1>7, <1>8, <1>9, <1>10, <1>11 DEF Worker

LEMMA TypeNext == TypeOK /\ [Next]_vars => TypeOK'
<1> SUFFICES ASSUME TypeOK, [Next]_vars PROVE TypeOK'
  OBVIOUS
<1>1. CASE Next
  BY <1>1, TypeMainStep, TypeEnvironmentStep, TypeWorkerStep DEF Next
<1>2. CASE UNCHANGED vars
  BY <1>2, TypeParts, TypePartsNext, SameUsb, SameMain, SamePosts, SameNative, SameThreads DEF vars
<1> QED  BY <1>1, <1>2

(* Every variable keeps to its type: the main thread's steps and the       *)
(* workers' native calls, for any number of cameras and activities.        *)
THEOREM TypeCorrect == Spec => []TypeOK
BY TypeInit, TypeNext, PTL DEF Spec

-----------------------------------------------------------------------------
(* Connections *)

LEMMA InitializeConnections ==
    ASSUME TypeOK, ConnectionsAreOpen,
           NEW a \in Activity, NEW d \in Camera, NEW known,
           InitializeCamera(a, d, known)
    PROVE  ConnectionsAreOpen'
<1> DEFINE left == IF known # 0 /\ known # d THEN Closed(connection[a]) ELSE files
<1>1. \A b \in Activity \ {a} :
          connection[b] # 0 => /\ connection[b] \in Files
                               /\ connection[b] # connection[a]
                               /\ left[connection[b]] # 0
  BY DEF TypeOK, ConnectionsAreOpen, Closed
<1>2. \A b, c \in Activity \ {a} :
          b # c /\ connection[b] # 0 => connection[c] # connection[b]
  BY DEF ConnectionsAreOpen
<1>3. CASE files' = left /\ connection' = [connection EXCEPT ![a] = 0]
  <2> HIDE DEF left
  <2> QED  BY <1>1, <1>2, <1>3 DEF TypeOK, ConnectionsAreOpen
<1>4. ASSUME NEW f \in Files,
             left[f] = 0,
             files' = [left EXCEPT ![f] = d],
             connection' = [connection EXCEPT ![a] = f]
      PROVE  ConnectionsAreOpen'
  <2>1. left \in [Files -> 0 .. MaxAttach]
    BY ClosedType, TypeParts DEF TypeUsb
  <2> HIDE DEF left
  <2>2. files'[f] = d /\ \A g \in Files \ {f} : files'[g] = left[g]
    BY <1>4, <2>1
  <2>3. d # 0
    BY CameraNumber
  <2>4. connection'[a] = f /\ \A b \in Activity \ {a} : connection'[b] = connection[b]
    BY <1>4 DEF TypeOK
  <2>5. \A b \in Activity \ {a} : connection[b] # 0 => connection[b] # f
    BY <1>1, <1>4
  <2>6. f # 0
    BY FilesAssumption
  <2> QED  BY <1>1, <1>2, <2>2, <2>3, <2>4, <2>5, <2>6 DEF ConnectionsAreOpen
<1> QED  BY <1>3, <1>4 DEF InitializeCamera

LEMMA CloseConnections ==
    ASSUME TypeOK, ConnectionsAreOpen, NEW a \in Activity, CloseCamera(a)
    PROVE  ConnectionsAreOpen'
BY DEF TypeOK, ConnectionsAreOpen, CloseCamera, Closed

LEMMA SameConnections ==
    ASSUME ConnectionsAreOpen, UNCHANGED <<files, connection>>
    PROVE  ConnectionsAreOpen'
BY DEF ConnectionsAreOpen

LEMMA RequestConnections ==
    ASSUME TypeOK, ConnectionsAreOpen,
           NEW a \in Activity, NEW d \in Camera, NEW known, NEW rest,
           RequestPermission(a, d, known, rest)
    PROVE  ConnectionsAreOpen'
BY InitializeConnections, SameConnections DEF RequestPermission

(* Only the main thread opens and closes. *)
LEMMA ConnectionsNext ==
    ASSUME TypeOK, ConnectionsAreOpen, [Next]_vars
    PROVE  ConnectionsAreOpen'
<1>1. ASSUME NEW a \in Activity, Main(a) PROVE ConnectionsAreOpen'
  <2>1. CASE Launch(a) \/ EnableStart(a) \/ PressStartWithoutDevice(a)
    BY <2>1, SameConnections DEF Launch, EnableStart, PressStartWithoutDevice, main
  <2>2. CASE Destroy(a)
    BY <2>2, CloseConnections DEF Destroy
  <2>3. CASE FindCamera(a)
    <3>1. plugged # 0 => plugged \in Camera
      BY DEF TypeOK, Camera
    <3> QED  BY <2>3, <3>1, RequestConnections, SameConnections DEF FindCamera
  <2>4. ASSUME NEW d \in Camera,
               AskAgain(a, d) \/ RetryPermission(a, d)
               \/ PermissionGranted(a, d) \/ PermissionDenied(a, d)
               \/ DeviceDetached(a, d) \/ DeviceAttached(a, d)
        PROVE  ConnectionsAreOpen'
    BY <2>4, InitializeConnections, CloseConnections, RequestConnections, SameConnections
       DEF AskAgain, RetryPermission, PermissionGranted, PermissionDenied,
           DeviceDetached, DeviceAttached, main
  <2> QED  BY <1>1, <2>1, <2>2, <2>3, <2>4 DEF Main
<1>2. CASE Environment
  BY <1>2, SameConnections DEF Environment, PlugIn, Unplug, Answer, main
<1>3. ASSUME NEW w \in Workers, Worker(w) PROVE ConnectionsAreOpen'
  BY <1>3, SameConnections
     DEF Worker, TestInitialized, InitLibusb, InitLibusbFails,
         WrapDevice, WrapFails, WrapWithoutContext, TestOpen,
         OpenDevice, OpenDeviceFails, ClaimInterfaces, CompareValues, ListDevice,
         UseBadHandle, CrashesOnHandle, Crashes, main
<1>4. CASE UNCHANGED vars
  BY <1>4, SameConnections DEF vars, main
<1> QED  BY <1>1, <1>2, <1>3, <1>4 DEF Next

(* A connection that is not null is open and nobody else's: closing,       *)
(* overwriting and reopening never leave an activity with a descriptor     *)
(* that is closed or has become another's.                                 *)
THEOREM OpenConnections == Spec => []ConnectionsAreOpen
<1>1. Init => ConnectionsAreOpen
  BY DEF Init, ConnectionsAreOpen
<1> QED  BY <1>1, TypeCorrect, ConnectionsNext, PTL DEF Spec

-----------------------------------------------------------------------------
(* Handles *)

(* What is posted, received or run is of an activity that was created. *)
Launched ==
    /\ \A r \in later : life[r.activity] # "new"
    /\ \A a \in Activity : inbox[a] # <<>> => life[a] # "new"
    /\ \A w \in Workers : pc[w] \notin {"none", "done"} => life[owner[w]] # "new"

(* A uvc_camera_t's handle exists or existed; with one activity, the flag   *)
(* says that there is one; and who is past the flag has seen it set.       *)
HandleInv ==
    /\ \A a \in Activity : handleOf[a] # 0 => handle[handleOf[a]] # "none"
    /\ OneActivity /\ wrapped => handleOf[1] # 0
    /\ \A w \in Workers :
          pc[w] \in {"opened", "open", "claim", "compare", "info"} => wrapped

(* The start button, or the Runnable that enables it *)
Readied(a) == ready[a] \/ Post("ready", a, 0) \in later

ReadyInv ==
    NoOpenFailed =>
        \A a \in Activity :
            Readied(a) => /\ handleOf[a] # 0
                          /\ (\A h \in Handle : handle[h] # "none" => h = handleOf[a])
                                => handle[handleOf[a]] = "opened"

LEMMA InitializeLaunched ==
    ASSUME TypeOK, \A w \in Workers : pc[w] \notin {"none", "done"} => life[owner[w]] # "new",
           NEW a \in Activity, NEW d, NEW known, life[a] # "new", UNCHANGED life,
           InitializeCamera(a, d, known)
    PROVE  \A w \in Workers : pc'[w] \notin {"none", "done"} => life'[owner'[w]] # "new"
BY DEF InitializeCamera, StartWorker, TypeOK, threads

LEMMA RequestLaunched ==
    ASSUME TypeOK, Launched, NEW a \in Activity, NEW d, NEW known,
           NEW rest \in SUBSET later, life[a] # "new", UNCHANGED life,
           RequestPermission(a, d, known, rest)
    PROVE  /\ \A r \in later' : life'[r.activity] # "new"
           /\ \A w \in Workers : pc'[w] \notin {"none", "done"} => life'[owner'[w]] # "new"
<1>1. CASE /\ InitializeCamera(a, d, known)
           /\ later' = rest
  BY <1>1, InitializeLaunched DEF Launched
<1>2. CASE /\ later' = rest \cup {Post("again", a, d)}
           /\ UNCHANGED threads
  BY <1>2 DEF Launched, Post, threads
<1> QED  BY <1>1, <1>2 DEF RequestPermission

LEMMA LaunchedMain ==
    ASSUME TypeOK, Launched, NEW a \in Activity, Main(a)
    PROVE  Launched'
<1> USE DEF Launched, Post
<1>1. CASE Launch(a)
  BY <1>1 DEF Launch, TypeOK, threads, Runnable
<1>2. CASE Destroy(a)
  BY <1>2 DEF Destroy, TypeOK, threads, Runnable
<1>3. CASE FindCamera(a)
  <2>1. life[a] # "new"
    BY <1>3 DEF FindCamera
  <2>2. CASE RequestPermission(a, plugged, plugged, later \ {Post("find", a, 0)})
    BY <1>3, <2>1, <2>2, RequestLaunched DEF FindCamera
  <2>3. CASE later' = later \ {Post("find", a, 0)} /\ UNCHANGED threads
    BY <1>3, <2>3 DEF FindCamera, threads
  <2> QED  BY <1>3, <2>2, <2>3 DEF FindCamera
<1>4. CASE EnableStart(a)
  BY <1>4 DEF EnableStart, threads
<1>5. CASE PressStartWithoutDevice(a)
  BY <1>5 DEF PressStartWithoutDevice, main, posts, threads
<1>6. ASSUME NEW d \in Camera, AskAgain(a, d) PROVE Launched'
  BY <1>6 DEF AskAgain, main, threads
<1>7. ASSUME NEW d \in Camera, RetryPermission(a, d) PROVE Launched'
  <2>1. life[a] # "new"
    BY <1>7 DEF RetryPermission
  <2>2. CASE RequestPermission(a, d, d, later \ {Post("retry", a, d)})
    BY <1>7, <2>1, <2>2, RequestLaunched DEF RetryPermission
  <2>3. CASE later' = later \ {Post("retry", a, d)} /\ UNCHANGED threads
    BY <1>7, <2>3 DEF RetryPermission, threads
  <2> QED  BY <1>7, <2>2, <2>3 DEF RetryPermission
<1>8. ASSUME NEW d \in Camera, NEW what, Receives(a, what, d), UNCHANGED life
      PROVE  /\ life[a] # "new"
             /\ \A b \in Activity : inbox'[b] # <<>> => life'[b] # "new"
  BY <1>8 DEF Receives, TypeOK
<1>9. ASSUME NEW d \in Camera, PermissionGranted(a, d) PROVE Launched'
  BY <1>8, <1>9, InitializeLaunched DEF PermissionGranted
<1>10. ASSUME NEW d \in Camera, PermissionDenied(a, d) PROVE Launched'
  BY <1>8, <1>10 DEF PermissionDenied, main, threads
<1>11. ASSUME NEW d \in Camera, DeviceDetached(a, d) PROVE Launched'
  BY <1>8, <1>11 DEF DeviceDetached, threads
<1>12. ASSUME NEW d \in Camera, DeviceAttached(a, d) PROVE Launched'
  <2>1. life[a] # "new"
    BY <1>8, <1>12 DEF DeviceAttached
  <2>2. \A b \in Activity : inbox'[b] # <<>> => life'[b] # "new"
    BY <1>8, <1>12 DEF DeviceAttached
  <2>3. CASE RequestPermission(a, d, 0, later)
    BY <1>12, <2>1, <2>2, <2>3, RequestLaunched DEF DeviceAttached
  <2>4. CASE UNCHANGED <<later, threads>>
    BY <1>12, <2>2, <2>4 DEF DeviceAttached, threads
  <2> QED  BY <1>12, <2>3, <2>4 DEF DeviceAttached
<1> QED  BY <1>1, <1>2, <1>3, <1>4, <1>5, <1>6, <1>7, <1>9, <1>10, <1>11, <1>12 DEF Main

LEMMA LaunchedEnvironment ==
    ASSUME TypeOK, Launched, Environment
    PROVE  Launched'
<1>1. /\ UNCHANGED <<life, later, threads>>
      /\ \A a \in Activity : life[a] # "alive" => inbox'[a] = inbox[a]
  BY DEF Environment, PlugIn, Unplug, Answer, Announce, main
<1> QED  BY <1>1 DEF Launched, threads

(* A worker that goes on was started by an activity that was created. *)
LEMMA LaunchedGoes ==
    ASSUME TypeOK, Launched, NEW w \in Workers, pc[w] \notin {"none", "done"},
           UNCHANGED <<life, inbox>>,
           \A r \in later' : r \in later \/ r.activity = owner[w],
           \/ \E label \in WorkerPc : Step(w, label)
           \/ Returns(w)
           \/ Ends(w)
    PROVE  Launched'
<1>1. \A r \in later' : life'[r.activity] # "new"
  BY DEF Launched
<1>2. \A v \in Workers \ {w} : pc'[v] = pc[v] /\ owner'[v] = owner[v]
  BY DEF Step, Returns, Ends, Goto, TypeOK
<1>3. pc'[w] \notin {"none", "done"} => owner'[w] = owner[w]
  BY DEF Step, Returns, Ends, Goto, TypeOK
<1> QED  BY <1>1, <1>2, <1>3 DEF Launched

LEMMA LaunchedWorker ==
    ASSUME TypeOK, Launched, NEW w \in Workers, Worker(w)
    PROVE  Launched'
<1> USE LaunchedGoes DEF WorkerPc, main, posts
<1>1. CASE TestInitialized(w) \/ InitLibusb(w) \/ InitLibusbFails(w)
  BY <1>1 DEF TestInitialized, InitLibusb, InitLibusbFails, Initialized
<1>2. CASE WrapDevice(w)
  BY <1>2 DEF WrapDevice
<1>3. CASE WrapFails(w)
  BY <1>3 DEF WrapFails
<1>4. CASE WrapWithoutContext(w) \/ UseBadHandle(w)
  BY <1>4 DEF WrapWithoutContext, UseBadHandle, CrashesOnHandle, Crashes, Launched, threads
<1>5. CASE TestOpen(w)
  BY <1>5 DEF TestOpen, Opened
<1>6. CASE OpenDevice(w)
  BY <1>6 DEF OpenDevice, Opened
<1>7. CASE OpenDeviceFails(w)
  BY <1>7 DEF OpenDeviceFails, Opened
<1>8. CASE ClaimInterfaces(w)
  BY <1>8 DEF ClaimInterfaces
<1>9. CASE CompareValues(w)
  BY <1>9 DEF CompareValues
<1>10. CASE ListDevice(w)
  BY <1>10 DEF ListDevice, Post
<1> QED  BY <1>1, <1>2, <1>3, <1>4, <1>5, <1>6, <1>7, <1>8, <1>9, <1>10 DEF Worker

(* Main thread and environment leave the handles alone, start workers at   *)
(* the beginning, and post no "ready".                                     *)
LEMMA NoNativeStep ==
    ASSUME TypeOK,
           Environment \/ \E a \in Activity : Main(a)
    PROVE  /\ UNCHANGED native
           /\ \A a \in Activity : life'[a] = "new" => life[a] = "new"
           /\ \A w \in Workers : pc'[w] = pc[w] \/ pc'[w] = "enter"
           /\ \A a \in Activity : ready'[a] => Readied(a)
           /\ \A a \in Activity : Post("ready", a, 0) \in later' => Post("ready", a, 0) \in later
<1>1. CASE Environment
  BY <1>1 DEF Environment, PlugIn, Unplug, Answer, main, threads, Readied
<1>2. ASSUME NEW a \in Activity, Main(a)
      PROVE  /\ UNCHANGED native
             /\ \A b \in Activity : life'[b] = "new" => life[b] = "new"
             /\ \A w \in Workers : pc'[w] = pc[w] \/ pc'[w] = "enter"
             /\ \A b \in Activity : ready'[b] => Readied(b)
             /\ \A b \in Activity : Post("ready", b, 0) \in later' => Post("ready", b, 0) \in later
  <2>1. ASSUME NEW d, NEW known, InitializeCamera(a, d, known)
        PROVE  \A w \in Workers : pc'[w] = pc[w] \/ pc'[w] = "enter"
    BY <2>1 DEF InitializeCamera, StartWorker, TypeOK, threads
  <2>2. ASSUME NEW d, NEW known, NEW rest \in SUBSET later, RequestPermission(a, d, known, rest)
        PROVE  /\ \A w \in Workers : pc'[w] = pc[w] \/ pc'[w] = "enter"
               /\ \A b \in Activity : Post("ready", b, 0) \in later' => Post("ready", b, 0) \in later
    BY <2>1, <2>2 DEF RequestPermission, Post, threads
  <2>3. CASE Launch(a) \/ Destroy(a) \/ PressStartWithoutDevice(a)
    BY <2>3 DEF Launch, Destroy, PressStartWithoutDevice, TypeOK, Post, posts, main, threads, Readied
  <2>4. CASE FindCamera(a)
    BY <2>2, <2>4 DEF FindCamera, threads, Readied
  <2>5. CASE EnableStart(a)
    BY <2>5 DEF EnableStart, TypeOK, threads, Readied
  <2>6. ASSUME NEW d \in Camera, AskAgain(a, d) \/ RetryPermission(a, d)
        PROVE  /\ UNCHANGED native
               /\ \A b \in Activity : life'[b] = "new" => life[b] = "new"
               /\ \A w \in Workers : pc'[w] = pc[w] \/ pc'[w] = "enter"
               /\ \A b \in Activity : ready'[b] => Readied(b)
               /\ \A b \in Activity : Post("ready", b, 0) \in later' => Post("ready", b, 0) \in later
    BY <2>2, <2>6 DEF AskAgain, RetryPermission, main, threads, Readied
  <2>7. ASSUME NEW d \in Camera,
               PermissionGranted(a, d) \/ PermissionDenied(a, d)
               \/ DeviceDetached(a, d) \/ DeviceAttached(a, d)
        PROVE  /\ UNCHANGED native
               /\ \A b \in Activity : life'[b] = "new" => life[b] = "new"
               /\ \A w \in Workers : pc'[w] = pc[w] \/ pc'[w] = "enter"
               /\ \A b \in Activity : ready'[b] => Readied(b)
               /\ \A b \in Activity : Post("ready", b, 0) \in later' => Post("ready", b, 0) \in later
    <3>1. CASE PermissionGranted(a, d)
      BY <2>1, <3>1 DEF PermissionGranted, Readied
    <3>2. CASE PermissionDenied(a, d)
      BY <3>2 DEF PermissionDenied, Post, main, threads, Readied
    <3>3. CASE DeviceDetached(a, d)
      BY <3>3 DEF DeviceDetached, Post, threads, Readied
    <3>4. CASE DeviceAttached(a, d)
      BY <2>2, <3>4 DEF DeviceAttached, threads, Readied
    <3> QED  BY <2>7, <3>1, <3>2, <3>3, <3>4
  <2> QED  BY <1>2, <2>3, <2>4, <2>5, <2>6, <2>7 DEF Main
<1> QED  BY <1>1, <1>2

LEMMA HandlesStay ==
    ASSUME TypeOK, HandleInv, ReadyInv,
           Environment \/ \E a \in Activity : Main(a)
    PROVE  HandleInv' /\ ReadyInv'
<1> USE NoNativeStep DEF native
<1>1. HandleInv'
  BY DEF HandleInv, OneActivity
<1>2. ReadyInv'
  BY DEF ReadyInv, NoOpenFailed, Readied
<1> QED  BY <1>1, <1>2

(* Steps that only move a worker on, or clear camIsOpen. *)
LEMMA HandlesKept ==
    ASSUME TypeOK, HandleInv, ReadyInv, NEW w \in Workers,
           UNCHANGED <<life, ready, later, wrapped, handleOf, handle>>,
           \A v \in Workers \ {w} : pc'[v] = pc[v],
           pc'[w] \in {"opened", "open", "claim", "compare", "info"} => wrapped
    PROVE  HandleInv' /\ ReadyInv'
<1>1. HandleInv'
  BY DEF HandleInv, OneActivity
<1>2. ReadyInv'
  BY DEF ReadyInv, NoOpenFailed, Readied
<1> QED  BY <1>1, <1>2

LEMMA MovesOne ==
    ASSUME TypeOK, NEW w \in Workers
    PROVE  /\ \A label \in WorkerPc :
                 Step(w, label) => /\ pc'[w] = label
                                   /\ \A v \in Workers \ {w} : pc'[v] = pc[v]
           /\ Returns(w) => /\ pc'[w] = "enter"
                            /\ \A v \in Workers \ {w} : pc'[v] = pc[v]
           /\ Ends(w) => /\ pc'[w] = "done"
                         /\ \A v \in Workers \ {w} : pc'[v] = pc[v]
BY DEF Step, Returns, Ends, Goto, TypeOK

LEMMA HandlesWrapped ==
    ASSUME TypeOK, Launched, HandleInv, ReadyInv, NEW w \in Workers, WrapDevice(w)
    PROVE  HandleInv' /\ ReadyInv'
<1>1. PICK h \in Handle : /\ handle[h] = "none"
                          /\ handle' = [handle EXCEPT ![h] = "wrapped"]
                          /\ handleOf' = [handleOf EXCEPT ![owner[w]] = h]
  BY DEF WrapDevice
<1>2. owner[w] \in Activity /\ h # 0
  BY BoundsAssumption DEF TypeOK, Handle
<1>3. /\ handle'[h] = "wrapped" /\ \A g \in Handle \ {h} : handle'[g] = handle[g]
      /\ handleOf'[owner[w]] = h /\ \A a \in Activity \ {owner[w]} : handleOf'[a] = handleOf[a]
  BY <1>1, <1>2 DEF TypeOK
<1>4. pc'[w] = "opened" /\ \A v \in Workers \ {w} : pc'[v] = pc[v]
  BY MovesOne DEF WrapDevice, WorkerPc
<1>5. \A a \in Activity : handleOf[a] # 0 => handleOf[a] \in Handle /\ handleOf[a] # h
  BY <1>1 DEF HandleInv, TypeOK, Handle
<1>6. wrapped' /\ UNCHANGED <<life, ready, later>>
  BY DEF WrapDevice, main, posts
<1>7. HandleInv'
  <2>1. \A a \in Activity : handleOf'[a] # 0 => handle'[handleOf'[a]] # "none"
    BY <1>2, <1>3, <1>5 DEF HandleInv
  <2>2. OneActivity' => owner[w] = 1
    BY <1>2, <1>6 DEF OneActivity, Launched, WrapDevice
  <2>3. OneActivity' => handleOf'[1] # 0
    BY <2>2, <1>2, <1>3
  <2> QED  BY <1>6, <2>1, <2>3 DEF HandleInv
<1>8. ReadyInv'
  <2> SUFFICES ASSUME NoOpenFailed', NEW a \in Activity, Readied(a)'
               PROVE  /\ handleOf'[a] # 0
                      /\ ~ \A g \in Handle : handle'[g] # "none" => g = handleOf'[a]
    BY DEF ReadyInv
  <2>1. NoOpenFailed
    BY <1>1, <1>3 DEF NoOpenFailed
  <2>2. handleOf[a] # 0 /\ handle[handleOf[a]] # "none"
    BY <2>1, <1>6 DEF ReadyInv, Readied, HandleInv
  <2>3. handleOf[a] \in Handle /\ handleOf[a] # h
    BY <1>5, <2>2
  <2>4. handle'[h] # "none" /\ handle'[handleOf[a]] # "none"
    BY <1>3, <2>2, <2>3
  <2>5. handleOf'[a] \in {h, handleOf[a]}
    BY <1>3
  <2> QED  BY <1>2, <2>2, <2>3, <2>4, <2>5
<1> QED  BY <1>7, <1>8

LEMMA HandlesOpened ==
    ASSUME TypeOK, HandleInv, ReadyInv, NEW w \in Workers, OpenDevice(w)
    PROVE  HandleInv' /\ ReadyInv'
<1> DEFINE h == HandleOf(w)
<1>1. /\ h \in Handle /\ handle[h] \in {"wrapped", "opened"}
      /\ handle' = [handle EXCEPT ![h] = "opened"]
  BY TypeParts, OwnerType DEF OpenDevice, Usable
<1>2. UNCHANGED <<life, ready, later, wrapped, handleOf>>
  BY DEF OpenDevice, main, posts
<1> HIDE DEF h
<1>3. handle'[h] = "opened" /\ \A g \in Handle \ {h} : handle'[g] = handle[g]
  BY <1>1 DEF TypeOK
<1>4. \A a \in Activity : handleOf[a] # 0 => handleOf[a] \in Handle
  BY DEF TypeOK, Handle
<1>5. HandleInv'
  <2>1. \A v \in Workers : pc'[v] \in {"opened", "open", "claim", "compare", "info"} => wrapped
    BY MovesOne DEF OpenDevice, Opened, HandleInv, WorkerPc
  <2> QED  BY <1>1, <1>2, <1>3, <1>4, <2>1 DEF HandleInv, OneActivity
<1>6. ReadyInv'
  <2>1. NoOpenFailed' => NoOpenFailed
    BY <1>1, <1>3 DEF NoOpenFailed
  <2> QED  BY <1>1, <1>2, <1>3, <1>4, <2>1 DEF ReadyInv, Readied
<1> QED  BY <1>5, <1>6

LEMMA HandlesFreed ==
    ASSUME TypeOK, HandleInv, ReadyInv, NEW w \in Workers, OpenDeviceFails(w)
    PROVE  HandleInv' /\ ReadyInv'
<1> DEFINE h == HandleOf(w)
<1>1. /\ h \in Handle
      /\ handle' = [handle EXCEPT ![h] = "freed"]
  BY TypeParts, OwnerType DEF OpenDeviceFails
<1>2. UNCHANGED <<life, ready, later, wrapped, handleOf>>
  BY DEF OpenDeviceFails, main, posts
<1> HIDE DEF h
<1>3. handle'[h] = "freed" /\ \A g \in Handle \ {h} : handle'[g] = handle[g]
  BY <1>1 DEF TypeOK
<1>4. \A a \in Activity : handleOf[a] # 0 => handleOf[a] \in Handle
  BY DEF TypeOK, Handle
<1>5. HandleInv'
  <2>1. \A v \in Workers : pc'[v] \in {"opened", "open", "claim", "compare", "info"} => wrapped
    BY MovesOne DEF OpenDeviceFails, Opened, HandleInv, WorkerPc
  <2> QED  BY <1>1, <1>2, <1>3, <1>4, <2>1 DEF HandleInv, OneActivity
<1>6. ~NoOpenFailed'
  BY <1>1, <1>3 DEF NoOpenFailed
<1> QED  BY <1>5, <1>6 DEF ReadyInv

LEMMA HandlesListed ==
    ASSUME TypeOK, HandleInv, ReadyInv, NEW w \in Workers, ListDevice(w)
    PROVE  HandleInv' /\ ReadyInv'
<1>1. UNCHANGED <<life, ready, wrapped, handleOf, handle>>
  BY DEF ListDevice, main, native
<1>2. HandleInv'
  BY <1>1, MovesOne DEF HandleInv, OneActivity, ListDevice
<1>3. ASSUME NEW a \in Activity, Post("ready", a, 0) \in later', Post("ready", a, 0) \notin later
      PROVE  handleOf[a] # 0 /\ handle[handleOf[a]] = "opened"
  <2>1. a = owner[w] /\ open /\ handle[HandleOf(w)] = "opened"
    BY <1>3 DEF ListDevice, Post
  <2>2. Usable(HandleOf(w))
    BY <2>1 DEF ListDevice
  <2> QED  BY <2>1, <2>2 DEF Usable, HandleOf
<1>4. ReadyInv'
  BY <1>1, <1>3 DEF ReadyInv, Readied, NoOpenFailed
<1> QED  BY <1>2, <1>4

LEMMA HandlesWorker ==
    ASSUME TypeOK, Launched, HandleInv, ReadyInv, NEW w \in Workers, Worker(w)
    PROVE  HandleInv' /\ ReadyInv'
<1> USE MovesOne, HandlesKept DEF main, posts, native
<1>1. CASE TestInitialized(w) \/ InitLibusb(w) \/ InitLibusbFails(w)
  BY <1>1 DEF TestInitialized, InitLibusb, InitLibusbFails, Initialized, WorkerPc
<1>2. CASE WrapFails(w)
  BY <1>2 DEF WrapFails
<1>3. CASE WrapWithoutContext(w) \/ UseBadHandle(w)
  BY <1>3 DEF WrapWithoutContext, UseBadHandle, CrashesOnHandle, Crashes, threads, HandleInv
<1>4. CASE TestOpen(w)
  BY <1>4 DEF TestOpen, Opened, HandleInv, WorkerPc
<1>5. CASE ClaimInterfaces(w)
  BY <1>5 DEF ClaimInterfaces, HandleInv, WorkerPc
<1>6. CASE CompareValues(w)
  BY <1>6 DEF CompareValues
<1> QED  BY <1>1, <1>2, <1>3, <1>4, <1>5, <1>6, HandlesWrapped, HandlesOpened,
            HandlesFreed, HandlesListed DEF Worker

SessionInv == Launched /\ HandleInv /\ ReadyInv

LEMMA SessionNext == TypeOK /\ SessionInv /\ [Next]_vars => SessionInv'
<1> SUFFICES ASSUME TypeOK, SessionInv, [Next]_vars PROVE SessionInv'
  OBVIOUS
<1> USE DEF SessionInv
<1>1. CASE Next
  BY <1>1, LaunchedMain, LaunchedEnvironment, LaunchedWorker, HandlesStay, HandlesWorker DEF Next
<1>2. CASE UNCHANGED vars
  BY <1>2 DEF vars, main, posts, native, threads, Launched, HandleInv, ReadyInv,
              Readied, OneActivity, NoOpenFailed
<1> QED  BY <1>1, <1>2

LEMMA SessionAlways == Spec => []SessionInv
<1>1. Init => SessionInv
  BY DEF Init, SessionInv, Launched, HandleInv, ReadyInv, Readied, OneActivity
<1> QED  BY <1>1, TypeCorrect, SessionNext, PTL DEF Spec

(* With one MainActivity and no failed uvc_open, no native call is given a *)
(* missing or freed handle, however many workers race on the flags.        *)
THEOREM SafeUse == Spec => []NativeUseIsSafe
<1>1. TypeOK /\ SessionInv => NativeUseIsSafe
  <2> SUFFICES ASSUME TypeOK, SessionInv, OneActivity, NoOpenFailed, NEW w \in Workers,
                      \/ pc[w] \in {"open", "claim", "compare"}
                      \/ pc[w] = "info" /\ open
               PROVE  Usable(HandleOf(w))
    BY DEF NativeUseIsSafe
  <2>1. owner[w] = 1
    BY DEF SessionInv, Launched, OneActivity, TypeOK
  <2>2. handleOf[1] # 0
    BY DEF SessionInv, HandleInv
  <2>3. handle[handleOf[1]] # "none" /\ handleOf[1] \in Handle
    BY <2>2, SomeActivity DEF SessionInv, HandleInv, TypeOK, Handle
  <2> QED  BY <2>1, <2>2, <2>3 DEF NoOpenFailed, Usable, HandleOf, TypeOK
<1> QED  BY <1>1, TypeCorrect, SessionAlways, PTL

(* An enabled start button has a handle behind it, opened if it is the     *)
(* only one: a failed initialisation never enables it.                     *)
THEOREM ReadyOpened == Spec => []ReadyMeansOpened
<1>1. TypeOK /\ SessionInv => ReadyMeansOpened
  <2> SUFFICES ASSUME TypeOK, SessionInv, NoOpenFailed, NEW a \in Activity, ready[a]
               PROVE  /\ Usable(handleOf[a])
                      /\ (\A h \in Handle : handle[h] # "none" => h = handleOf[a])
                            => handle[handleOf[a]] = "opened"
    BY DEF ReadyMeansOpened
  <2>1. /\ handleOf[a] # 0
        /\ (\A h \in Handle : handle[h] # "none" => h = handleOf[a])
              => handle[handleOf[a]] = "opened"
    BY DEF SessionInv, ReadyInv, Readied
  <2>2. handle[handleOf[a]] # "none" /\ handleOf[a] \in Handle
    BY <2>1 DEF SessionInv, HandleInv, TypeOK, Handle
  <2> QED  BY <2>1, <2>2 DEF NoOpenFailed, Usable, TypeOK
<1> QED  BY <1>1, TypeCorrect, SessionAlways, PTL

-----------------------------------------------------------------------------
(* Closing *)

(* Cameras are numbered as they are plugged in: what has been heard, asked  *)
(* or posted is of a camera that was there, and one said to be detached is *)
(* not plugged.                                                            *)
Heard == {m \in Broadcast : /\ m.device <= attachments
                            /\ m.what = "detached" => m.device # plugged}

PlugInv ==
    /\ plugged \in {0, attachments}
    /\ \A a \in Activity : device[a] <= attachments
    /\ \A a \in Activity : inbox[a] \in Seq(Heard)
    /\ \A d \in Camera : asked[d] > 0 => d <= attachments
    /\ \A r \in later : r.device <= attachments

(* A connection is to cameraDevice or to an earlier camera. *)
Earlier ==
    \A a \in Activity : connection[a] # 0 => files[connection[a]] <= device[a]

LEMMA SeqMonotone ==
    ASSUME NEW S, NEW T, S \subseteq T, NEW s \in Seq(S)
    PROVE  s \in Seq(T)
OBVIOUS

LEMMA InitializeEarlier ==
    ASSUME TypeOK, ConnectionsAreOpen, Earlier,
           NEW a \in Activity, NEW d \in Camera, NEW known,
           InitializeCamera(a, d, known)
    PROVE  Earlier'
<1> DEFINE left == IF known # 0 /\ known # d THEN Closed(connection[a]) ELSE files
<1>1. \A b \in Activity \ {a} :
          connection[b] # 0 => /\ connection[b] \in Files
                               /\ left[connection[b]] = files[connection[b]]
                               /\ left[connection[b]] # 0
  BY DEF TypeOK, ConnectionsAreOpen, Closed
<1>2. device'[a] = d /\ \A b \in Activity \ {a} : device'[b] = device[b]
  BY DEF InitializeCamera, TypeOK
<1>3. CASE files' = left /\ connection' = [connection EXCEPT ![a] = 0]
  <2> HIDE DEF left
  <2> QED  BY <1>1, <1>2, <1>3 DEF TypeOK, Earlier
<1>4. ASSUME NEW f \in Files,
             left[f] = 0,
             files' = [left EXCEPT ![f] = d],
             connection' = [connection EXCEPT ![a] = f]
      PROVE  Earlier'
  <2>1. left \in [Files -> 0 .. MaxAttach]
    BY ClosedType, TypeParts DEF TypeUsb
  <2> HIDE DEF left
  <2>2. files'[f] = d /\ \A g \in Files \ {f} : files'[g] = left[g]
    BY <1>4, <2>1
  <2>3. connection'[a] = f /\ \A b \in Activity \ {a} : connection'[b] = connection[b]
    BY <1>4 DEF TypeOK
  <2>4. d <= d
    BY DEF Camera
  <2>5. \A b \in Activity \ {a} : connection[b] # 0 => files'[connection[b]] = files[connection[b]]
    BY <1>1, <1>4, <2>2
  <2> QED  BY <1>2, <2>2, <2>3, <2>4, <2>5 DEF Earlier
<1> QED  BY <1>3, <1>4 DEF InitializeCamera

LEMMA RequestEarlier ==
    ASSUME TypeOK, ConnectionsAreOpen, Earlier,
           NEW a \in Activity, NEW d \in Camera, NEW known \in 0 .. MaxAttach,
           NEW rest, device[a] <= known,
           RequestPermission(a, d, known, rest)
    PROVE  Earlier'
<1>1. CASE InitializeCamera(a, d, known)
  BY <1>1, InitializeEarlier
<1>2. CASE /\ device' = [device EXCEPT ![a] = known]
           /\ UNCHANGED <<files, connection>>
  BY <1>2, BoundsAssumption DEF TypeOK, Earlier
<1> QED  BY <1>1, <1>2 DEF RequestPermission

LEMMA CloseEarlier ==
    ASSUME TypeOK, ConnectionsAreOpen, Earlier, NEW a \in Activity, CloseCamera(a)
    PROVE  Earlier'
BY DEF TypeOK, ConnectionsAreOpen, Earlier, CloseCamera, Closed

LEMMA SameEarlier ==
    ASSUME Earlier, UNCHANGED <<files, connection, device>>
    PROVE  Earlier'
BY DEF Earlier

LEMMA ReceivesHeard ==
    ASSUME PlugInv, NEW a \in Activity, NEW what, NEW d, Receives(a, what, d),
           TypeOK, UNCHANGED <<plugged, attachments>>
    PROVE  /\ \A b \in Activity : inbox'[b] \in Seq(Heard')
           /\ d <= attachments /\ (what = "detached" => d # plugged)
<1>1. Heard' = Heard
  BY DEF Heard
<1>2. inbox[a] \in Seq(Heard) /\ inbox[a] # <<>>
  BY DEF PlugInv, Receives
<1>3. Head(inbox[a]) \in Heard /\ Tail(inbox[a]) \in Seq(Heard)
  BY <1>2
<1>4. \A b \in Activity : inbox'[b] \in Seq(Heard)
  BY <1>3 DEF Receives, PlugInv, TypeOK
<1>5. [what |-> what, device |-> d] \in Heard
  BY <1>3 DEF Receives
<1> QED  BY <1>1, <1>4, <1>5 DEF Heard

LEMMA AnnounceHeard ==
    ASSUME TypeOK, NEW d \in Camera,
           NEW what \in {"attached", "detached", "granted", "denied"},
           Announce(what, d),
           \A a \in Activity : inbox[a] \in Seq(Heard'),
           d <= attachments', what = "detached" => d # plugged'
    PROVE  \A a \in Activity : inbox'[a] \in Seq(Heard')
<1>1. [what |-> what, device |-> d] \in Heard'
  BY DEF Heard, Broadcast
<1>2. \A a \in Activity : Append(inbox[a], [what |-> what, device |-> d]) \in Seq(Heard')
  BY <1>1
<1> QED  BY <1>2 DEF Announce

LEMMA EarlierNext ==
    ASSUME TypeOK, ConnectionsAreOpen, PlugInv, Earlier, [Next]_vars
    PROVE  Earlier'
<1>1. ASSUME NEW a \in Activity, Main(a) PROVE Earlier'
  <2>1. CASE Launch(a) \/ EnableStart(a) \/ PressStartWithoutDevice(a)
    BY <2>1, SameEarlier DEF Launch, EnableStart, PressStartWithoutDevice, main
  <2>2. CASE Destroy(a)
    BY <2>2, CloseEarlier DEF Destroy
  <2>3. CASE FindCamera(a)
    <3>1. plugged # 0 => plugged \in Camera /\ plugged \in 0 .. MaxAttach /\ device[a] <= plugged
      BY DEF TypeOK, Camera, PlugInv
    <3> QED  BY <2>3, <3>1, RequestEarlier, SameEarlier DEF FindCamera
  <2>4. ASSUME NEW d \in Camera,
               AskAgain(a, d) \/ PermissionGranted(a, d) \/ PermissionDenied(a, d)
               \/ DeviceDetached(a, d)
        PROVE  Earlier'
    BY <2>4, InitializeEarlier, CloseEarlier, SameEarlier
       DEF AskAgain, PermissionGranted, PermissionDenied, DeviceDetached, main
  <2>5. ASSUME NEW d \in Camera, RetryPermission(a, d) PROVE Earlier'
    <3>1. d \in 0 .. MaxAttach /\ d <= d
      BY CameraNumber
    <3> QED  BY <2>5, <3>1, RequestEarlier, SameEarlier DEF RetryPermission
  <2>6. ASSUME NEW d \in Camera, DeviceAttached(a, d) PROVE Earlier'
    BY <2>6, Zero, RequestEarlier, SameEarlier DEF DeviceAttached
  <2> QED  BY <1>1, <2>1, <2>2, <2>3, <2>4, <2>5, <2>6 DEF Main
<1>2. CASE Environment
  BY <1>2, SameEarlier DEF Environment, PlugIn, Unplug, Answer, main
<1>3. ASSUME NEW w \in Workers, Worker(w) PROVE Earlier'
  BY <1>3, SameEarlier
     DEF Worker, TestInitialized, InitLibusb, InitLibusbFails,
         WrapDevice, WrapFails, WrapWithoutContext, TestOpen,
         OpenDevice, OpenDeviceFails, ClaimInterfaces, CompareValues, ListDevice,
         UseBadHandle, CrashesOnHandle, Crashes, main
<1>4. CASE UNCHANGED vars
  BY <1>4, SameEarlier DEF vars, main
<1> QED  BY <1>1, <1>2, <1>3, <1>4 DEF Next

LEMMA RequestPlug ==
    ASSUME TypeOK, PlugInv, UNCHANGED usb,
           NEW a \in Activity, NEW d \in Camera, NEW known \in 0 .. MaxAttach,
           NEW rest \in SUBSET later, d <= attachments, known <= attachments,
           RequestPermission(a, d, known, rest)
    PROVE  /\ \A b \in Activity : device'[b] <= attachments'
           /\ \A e \in Camera : asked'[e] > 0 => e <= attachments'
           /\ \A r \in later' : r.device <= attachments'
<1>1. \A b \in Activity : device'[b] \in {device[b], d, known}
  BY DEF RequestPermission, InitializeCamera, TypeOK
<1>2. \A e \in Camera : e # d => asked'[e] = asked[e]
  BY DEF RequestPermission, Ask, TypeOK
<1>3. \A r \in later' : r \in later \/ r.device = d
  BY DEF RequestPermission, Post
<1> QED  BY <1>1, <1>2, <1>3 DEF PlugInv, usb

LEMMA PlugMain ==
    ASSUME TypeOK, PlugInv, NEW a \in Activity, Main(a)
    PROVE  PlugInv'
<1>0. UNCHANGED usb
  BY DEF Main, Launch, Destroy, FindCamera, AskAgain, RetryPermission, EnableStart,
         PressStartWithoutDevice, PermissionGranted, PermissionDenied,
         DeviceDetached, DeviceAttached
<1>1. UNCHANGED <<plugged, attachments>> /\ Heard' = Heard /\ plugged' \in {0, attachments'}
      /\ attachments \in 0 .. MaxAttach
  BY <1>0 DEF usb, Heard, PlugInv, TypeOK
<1>2. CASE Launch(a)
  BY <1>1, <1>2 DEF Launch, PlugInv, Post
<1>3. CASE Destroy(a)
  <2>1. \A b \in Activity : inbox'[b] \in Seq(Heard)
    <3>1. <<>> \in Seq(Heard)
      OBVIOUS
    <3> QED  BY <1>3, <3>1 DEF Destroy, PlugInv, TypeOK
  <2>2. \A b \in Activity : device'[b] \in {device[b], 0}
    BY <1>3 DEF Destroy, CloseCamera, TypeOK
  <2> QED  BY <1>1, <1>3, <2>1, <2>2 DEF Destroy, PlugInv
<1>4. CASE FindCamera(a)
  <2>1. CASE RequestPermission(a, plugged, plugged, later \ {Post("find", a, 0)}) /\ plugged # 0
    <3>1. plugged \in Camera /\ plugged \in 0 .. MaxAttach /\ plugged <= attachments
      BY <2>1 DEF TypeOK, Camera, PlugInv
    <3>2. later \ {Post("find", a, 0)} \in SUBSET later
      OBVIOUS
    <3>3. /\ \A b \in Activity : device'[b] <= attachments'
          /\ \A e \in Camera : asked'[e] > 0 => e <= attachments'
          /\ \A r \in later' : r.device <= attachments'
      BY <1>0, <2>1, <3>1, <3>2, RequestPlug
    <3> QED  BY <1>1, <1>4, <3>3 DEF FindCamera, PlugInv
  <2>2. CASE later' = later \ {Post("find", a, 0)} /\ UNCHANGED <<asked, device>>
    BY <1>1, <1>4, <2>2 DEF FindCamera, PlugInv
  <2> QED  BY <1>4, <2>1, <2>2 DEF FindCamera
<1>5. CASE EnableStart(a)
  BY <1>1, <1>5 DEF EnableStart, PlugInv
<1>6. CASE PressStartWithoutDevice(a)
  BY <1>1, <1>6 DEF PressStartWithoutDevice, PlugInv, main, posts
<1>7. ASSUME NEW d \in Camera, AskAgain(a, d) PROVE PlugInv'
  <2>1. d <= attachments
    BY <1>7 DEF AskAgain, PlugInv, Post
  <2>2. \A e \in Camera : e # d => asked'[e] = asked[e]
    BY <1>7 DEF AskAgain, Ask, TypeOK
  <2> QED  BY <1>1, <1>7, <2>1, <2>2 DEF AskAgain, PlugInv, main
<1>8. ASSUME NEW d \in Camera, RetryPermission(a, d) PROVE PlugInv'
  <2>1. d <= attachments /\ d \in 0 .. MaxAttach
    BY <1>8, CameraNumber DEF RetryPermission, PlugInv, Post
  <2>2. later \ {Post("retry", a, d)} \in SUBSET later
    OBVIOUS
  <2>3. CASE RequestPermission(a, d, d, later \ {Post("retry", a, d)})
    <3>1. /\ \A b \in Activity : device'[b] <= attachments'
          /\ \A e \in Camera : asked'[e] > 0 => e <= attachments'
          /\ \A r \in later' : r.device <= attachments'
      BY <1>0, <2>1, <2>2, <2>3, RequestPlug
    <3> QED  BY <1>1, <1>8, <3>1 DEF RetryPermission, PlugInv
  <2>4. CASE later' = later \ {Post("retry", a, d)} /\ UNCHANGED <<asked, device>>
    BY <1>1, <1>8, <2>4 DEF RetryPermission, PlugInv
  <2> QED  BY <1>8, <2>3, <2>4 DEF RetryPermission
<1>9. ASSUME NEW d \in Camera, NEW what, Receives(a, what, d)
      PROVE  (\A b \in Activity : inbox'[b] \in Seq(Heard')) /\ d <= attachments
  BY <1>1, <1>9, ReceivesHeard
<1>10. ASSUME NEW d \in Camera, PermissionGranted(a, d) PROVE PlugInv'
  <2>1. \A b \in Activity : device'[b] \in {device[b], d}
    BY <1>10 DEF PermissionGranted, InitializeCamera, TypeOK
  <2>2. (\A b \in Activity : inbox'[b] \in Seq(Heard')) /\ d <= attachments
    BY <1>9, <1>10 DEF PermissionGranted
  <2> QED  BY <1>1, <1>10, <2>1, <2>2 DEF PermissionGranted, PlugInv
<1>11. ASSUME NEW d \in Camera, PermissionDenied(a, d) PROVE PlugInv'
  <2>1. (\A b \in Activity : inbox'[b] \in Seq(Heard')) /\ d <= attachments
    BY <1>9, <1>11 DEF PermissionDenied
  <2> QED  BY <1>1, <1>11, <2>1 DEF PermissionDenied, PlugInv, Post, main
<1>12. ASSUME NEW d \in Camera, DeviceDetached(a, d) PROVE PlugInv'
  <2>1. \A b \in Activity : device'[b] \in {device[b], 0}
    BY <1>12 DEF DeviceDetached, CloseCamera, TypeOK
  <2>2. \A b \in Activity : inbox'[b] \in Seq(Heard')
    BY <1>9, <1>12 DEF DeviceDetached
  <2>3. \A r \in later' : r \in later \/ r.device = 0
    BY <1>12 DEF DeviceDetached, Post
  <2> QED  BY <1>1, <1>12, <2>1, <2>2, <2>3 DEF DeviceDetached, PlugInv
<1>13. ASSUME NEW d \in Camera, DeviceAttached(a, d) PROVE PlugInv'
  <2>1. (\A b \in Activity : inbox'[b] \in Seq(Heard')) /\ d <= attachments
    BY <1>9, <1>13 DEF DeviceAttached
  <2>2. CASE RequestPermission(a, d, 0, later)
    <3>1. 0 <= attachments /\ later \in SUBSET later
      BY <1>1
    <3>2. /\ \A b \in Activity : device'[b] <= attachments'
          /\ \A e \in Camera : asked'[e] > 0 => e <= attachments'
          /\ \A r \in later' : r.device <= attachments'
      BY <1>0, <2>1, <2>2, <3>1, Zero, RequestPlug
    <3> QED  BY <1>1, <2>1, <3>2 DEF PlugInv
  <2>3. CASE UNCHANGED <<asked, device, later>>
    BY <1>1, <2>1, <2>3 DEF PlugInv
  <2> QED  BY <1>13, <2>2, <2>3 DEF DeviceAttached
<1> QED  BY <1>2, <1>3, <1>4, <1>5, <1>6, <1>7, <1>8, <1>10, <1>11, <1>12, <1>13 DEF Main

LEMMA PlugEnvironment ==
    ASSUME TypeOK, PlugInv, Environment
    PROVE  PlugInv'
<1>0. /\ attachments \in 0 .. MaxAttach /\ plugged \in 0 .. MaxAttach
      /\ \A a \in Activity : device[a] \in 0 .. MaxAttach
      /\ \A m \in Broadcast : m.device \in 0 .. MaxAttach /\ m.device # 0
      /\ \A r \in later : r.device \in 0 .. MaxAttach
  BY Zero, CameraNumber DEF TypeOK, Broadcast, Runnable
<1>1. CASE PlugIn
  <2>1. /\ attachments' = attachments + 1 /\ plugged' = attachments + 1
        /\ attachments < MaxAttach
        /\ UNCHANGED <<asked, device, later>>
    BY <1>1 DEF PlugIn, main
  <2>2. Heard \subseteq Heard'
    BY <1>0, <2>1 DEF Heard
  <2>3. \A a \in Activity : inbox[a] \in Seq(Heard')
    BY <2>2, SeqMonotone DEF PlugInv
  <2>4. plugged' \in Camera
    BY <1>0, <2>1, BoundsAssumption DEF Camera
  <2>5. \A a \in Activity : inbox'[a] \in Seq(Heard')
    BY <1>0, <1>1, <2>1, <2>3, <2>4, AnnounceHeard DEF PlugIn
  <2> QED  BY <1>0, <2>1, <2>5, CameraNumber DEF PlugInv
<1>2. CASE Unplug
  <2>1. plugged' = 0 /\ plugged # 0 /\ UNCHANGED <<attachments, asked, device, later>>
    BY <1>2 DEF Unplug, main
  <2>2. Heard \subseteq Heard'
    BY <1>0, <2>1 DEF Heard
  <2>3. \A a \in Activity : inbox[a] \in Seq(Heard')
    BY <2>2, SeqMonotone DEF PlugInv
  <2>4. plugged \in Camera /\ plugged <= attachments'
    BY <1>0, <2>1 DEF PlugInv, Camera
  <2>5. \A a \in Activity : inbox'[a] \in Seq(Heard')
    BY <1>2, <2>1, <2>3, <2>4, AnnounceHeard DEF Unplug
  <2> QED  BY <2>1, <2>5 DEF PlugInv
<1>3. ASSUME NEW d \in Camera, NEW granted \in BOOLEAN, Answer(d, granted) PROVE PlugInv'
  <2>1. UNCHANGED <<plugged, attachments, device, later>> /\ asked[d] > 0
    BY <1>3 DEF Answer, main
  <2>2. Heard' = Heard /\ d <= attachments'
    BY <2>1 DEF Heard, PlugInv
  <2>3. \A a \in Activity : inbox'[a] \in Seq(Heard')
    BY <1>3, <2>2, AnnounceHeard DEF Answer, PlugInv
  <2>4. \A e \in Camera : e # d => asked'[e] = asked[e]
    BY <1>3 DEF Answer, TypeOK
  <2> QED  BY <2>1, <2>2, <2>3, <2>4 DEF PlugInv
<1> QED  BY <1>1, <1>2, <1>3 DEF Environment

LEMMA PlugWorker ==
    ASSUME TypeOK, PlugInv, NEW w \in Workers, Worker(w)
    PROVE  PlugInv'
<1>1. UNCHANGED <<plugged, attachments, asked, device, inbox>>
  BY DEF Worker, TestInitialized, InitLibusb, InitLibusbFails,
         WrapDevice, WrapFails, WrapWithoutContext, TestOpen,
         OpenDevice, OpenDeviceFails, ClaimInterfaces, CompareValues, ListDevice,
         UseBadHandle, CrashesOnHandle, Crashes, usb, main, posts
<1>2. \A r \in later' : r \in later \/ r.device = 0
  <2>1. CASE ListDevice(w)
    <3>1. later' = later \/ later' = later \cup {Post("ready", owner[w], 0)}
      BY <2>1 DEF ListDevice
    <3>2. Post("ready", owner[w], 0).device = 0
      BY DEF Post
    <3> QED  BY <3>1, <3>2
  <2>2. CASE ~ListDevice(w)
    <3>1. later' = later
      BY <2>2 DEF Worker, TestInitialized, InitLibusb, InitLibusbFails,
                  WrapDevice, WrapFails, WrapWithoutContext, TestOpen,
            OpenDevice, OpenDeviceFails, ClaimInterfaces, CompareValues,
            UseBadHandle, CrashesOnHandle, Crashes, posts
    <3> QED  BY <3>1
  <2> QED  BY <2>1, <2>2
<1>3. Heard' = Heard /\ 0 <= attachments
  BY <1>1, BoundsAssumption DEF Heard, TypeOK
<1> QED  BY <1>1, <1>2, <1>3 DEF PlugInv

LEMMA PlugNext == TypeOK /\ PlugInv /\ [Next]_vars => PlugInv'
<1> SUFFICES ASSUME TypeOK, PlugInv, [Next]_vars PROVE PlugInv'
  OBVIOUS
<1>1. CASE Next
  BY <1>1, PlugMain, PlugEnvironment, PlugWorker DEF Next
<1>2. CASE UNCHANGED vars
  <2>1. Heard' = Heard
    BY <1>2 DEF vars, usb, Heard
  <2> QED  BY <1>2, <2>1 DEF vars, usb, main, posts, PlugInv
<1> QED  BY <1>1, <1>2

ClosingInv == ConnectionsAreOpen /\ PlugInv /\ Earlier

LEMMA ClosingAlways == Spec => []ClosingInv
<1>1. Init => ClosingInv
  <2> SUFFICES ASSUME Init PROVE ClosingInv
    OBVIOUS
  <2>1. \A a \in Activity : inbox[a] \in Seq(Heard)
    <3>1. <<>> \in Seq(Heard)
      OBVIOUS
    <3> QED  BY <3>1 DEF Init
  <2>2. ConnectionsAreOpen /\ Earlier
    BY DEF Init, ConnectionsAreOpen, Earlier
  <2>3. PlugInv
    BY <2>1 DEF Init, PlugInv
  <2> QED  BY <2>2, <2>3 DEF ClosingInv
<1>2. TypeOK /\ ClosingInv /\ [Next]_vars => ClosingInv'
  BY ConnectionsNext, PlugNext, EarlierNext DEF ClosingInv
<1> QED  BY <1>1, <1>2, TypeCorrect, PTL DEF Spec

(* the step that ClosesOnlyWhenGone allows *)
ClosesJustly ==
    \A f \in Files :
        files[f] # 0 /\ files[f] = plugged /\ files'[f] = 0 =>
            \E a \in Activity :
                /\ connection[a] = f
                /\ \/ life'[a] = "destroyed"
                   \/ /\ inbox[a] # <<>>
                      /\ Head(inbox[a]).what = "granted"
                      /\ Head(inbox[a]).device # plugged

LEMMA InitializeCloses ==
    ASSUME TypeOK, NEW a \in Activity, NEW d \in Camera, NEW known,
           InitializeCamera(a, d, known),
           NEW f \in Files, files[f] # 0, files'[f] = 0
    PROVE  known # 0 /\ known # d /\ connection[a] = f
<1> DEFINE left == IF known # 0 /\ known # d THEN Closed(connection[a]) ELSE files
<1>1. left \in [Files -> 0 .. MaxAttach]
  BY ClosedType, TypeParts DEF TypeUsb
<1>2. left[f] = 0
  <2> HIDE DEF left
  <2>1. \/ files' = left
        \/ \E g \in Files : files' = [left EXCEPT ![g] = d]
    BY DEF InitializeCamera, left
  <2> QED  BY <1>1, <2>1, CameraNumber
<1> QED  BY <1>2 DEF Closed

LEMMA CloseCloses ==
    ASSUME TypeOK, NEW a \in Activity, CloseCamera(a),
           NEW f \in Files, files[f] # 0, files'[f] = 0
    PROVE  connection[a] = f
BY DEF CloseCamera, Closed

LEMMA RequestCloses ==
    ASSUME TypeOK, NEW a \in Activity, NEW d \in Camera, NEW known, NEW rest,
           known \in {0, d}, RequestPermission(a, d, known, rest),
           NEW f \in Files, files[f] # 0
    PROVE  files'[f] # 0
BY InitializeCloses DEF RequestPermission

LEMMA ClosingStep == TypeOK /\ ClosingInv /\ [Next]_vars => ClosesJustly \/ UNCHANGED vars
<1> SUFFICES ASSUME TypeOK, ClosingInv, Next,
                    NEW f \in Files, files[f] # 0, files[f] = plugged, files'[f] = 0
             PROVE  \E a \in Activity :
                        /\ connection[a] = f
                        /\ \/ life'[a] = "destroyed"
                           \/ /\ inbox[a] # <<>>
                              /\ Head(inbox[a]).what = "granted"
                              /\ Head(inbox[a]).device # plugged
  BY DEF ClosesJustly
<1> USE DEF ClosingInv
<1>1. CASE Environment
  BY <1>1 DEF Environment, PlugIn, Unplug, Answer
<1>2. ASSUME NEW w \in Workers, Worker(w) PROVE FALSE
  BY <1>2 DEF Worker, TestInitialized, InitLibusb, InitLibusbFails,
              WrapDevice, WrapFails, WrapWithoutContext, TestOpen,
         OpenDevice, OpenDeviceFails, ClaimInterfaces, CompareValues, ListDevice,
         UseBadHandle, CrashesOnHandle, Crashes
<1>3. ASSUME NEW a \in Activity, Main(a)
      PROVE  /\ connection[a] = f
             /\ \/ life'[a] = "destroyed"
                \/ /\ inbox[a] # <<>>
                   /\ Head(inbox[a]).what = "granted"
                   /\ Head(inbox[a]).device # plugged
  <2>0. plugged = attachments /\ plugged \in Camera /\ attachments \in 0 .. MaxAttach
    BY DEF PlugInv, TypeOK, Camera
  <2>1. CASE Launch(a) \/ EnableStart(a) \/ PressStartWithoutDevice(a)
    BY <2>1 DEF Launch, EnableStart, PressStartWithoutDevice
  <2>2. CASE Destroy(a)
    BY <2>2, CloseCloses DEF Destroy, TypeOK
  <2>3. CASE FindCamera(a)
    BY <2>0, <2>3, RequestCloses DEF FindCamera
  <2>4. ASSUME NEW d \in Camera, AskAgain(a, d) \/ RetryPermission(a, d) \/ PermissionDenied(a, d)
                                 \/ DeviceAttached(a, d)
        PROVE  FALSE
    BY <2>4, RequestCloses DEF AskAgain, RetryPermission, PermissionDenied, DeviceAttached
  <2>5. ASSUME NEW d \in Camera, DeviceDetached(a, d) PROVE FALSE
    <3>1. connection[a] = f /\ device[a] = d
      BY <2>5, CloseCloses DEF DeviceDetached
    <3>2. f # 0
      BY FilesAssumption
    <3>3. plugged <= d
      BY <3>1, <3>2 DEF Earlier
    <3>4. UNCHANGED <<plugged, attachments>>
      BY <2>5 DEF DeviceDetached, usb
    <3>5. d <= attachments /\ d # plugged
      BY <2>5, <3>4, ReceivesHeard DEF DeviceDetached
    <3> QED  BY <2>0, <3>3, <3>5, CameraNumber
  <2>6. ASSUME NEW d \in Camera, PermissionGranted(a, d)
        PROVE  /\ connection[a] = f
               /\ inbox[a] # <<>>
               /\ Head(inbox[a]).what = "granted"
               /\ Head(inbox[a]).device # plugged
    <3>1. connection[a] = f /\ device[a] # d
      BY <2>6, InitializeCloses DEF PermissionGranted
    <3>2. f # 0
      BY FilesAssumption
    <3>3. plugged <= device[a] /\ device[a] <= attachments /\ device[a] \in 0 .. MaxAttach
      BY <3>1, <3>2 DEF Earlier, PlugInv, TypeOK
    <3>4. device[a] = plugged
      BY <2>0, <3>3
    <3> QED  BY <2>6, <3>1, <3>4 DEF PermissionGranted, Receives
  <2> QED  BY <1>3, <2>1, <2>2, <2>3, <2>4, <2>5, <2>6 DEF Main
<1> QED  BY <1>1, <1>2, <1>3 DEF Next

(* An activity closes the descriptor of the plugged camera only when it is  *)
(* destroyed, or for the late permission of another camera.                *)
THEOREM ClosesRightly == Spec => ClosesOnlyWhenGone
<1>1. TypeOK /\ ClosingInv /\ [Next]_vars => [ClosesJustly]_vars
  BY ClosingStep
<1> QED  BY <1>1, TypeCorrect, ClosingAlways, PTL DEF Spec, ClosesOnlyWhenGone, ClosesJustly
=============================================================================
