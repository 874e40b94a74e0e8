------------------------ MODULE CameraLifecycle_proofs -----------------------
(***************************************************************************)
(* Proofs about CameraLifecycle, for any number of activities and of runs  *)
(* of initCamera.                                                          *)
(***************************************************************************)
EXTENDS CameraLifecycle, TLAPS

(* The type invariant in the parts that actions change together. *)
TypeSystem ==
    /\ plugged \in BOOLEAN
    /\ detached \subseteq Activity
    /\ life \in [Activity -> {"new", "alive", "destroyed"}]
    /\ surface \in [Activity -> {"none", "there", "going"}]
    /\ found \in [Activity -> BOOLEAN]

TypeUse ==
    /\ streaming \in [Activity -> BOOLEAN]
    /\ connection \in [Activity -> 0 .. MaxPreview]
    /\ opened \subseteq Preview

TypeMain ==
    /\ posts \subseteq Activity
    /\ main \in [pc : {"idle", "join", "close"}, activity : Activity,
                 why : Reason, preview : 0 .. MaxPreview]

TypeRuns ==
    /\ init \in [Preview -> InitPc]
    /\ owner \in [Preview -> Activity]

TypePreviews ==
    /\ pointer \in 0 .. MaxPreview
    /\ running \in [Preview -> BOOLEAN]
    /\ window \in [Preview -> BOOLEAN]
    /\ thread \in [Preview -> ThreadPc]
    /\ listed \subseteq Preview
    /\ refused \in BOOLEAN

LEMMA TypeParts ==
    TypeOK <=> /\ TypeSystem /\ TypeUse /\ TypeMain /\ TypeRuns /\ TypePreviews
               /\ overlapped \in BOOLEAN
BY DEF TypeOK, TypeSystem, TypeUse, TypeMain, TypeRuns, TypePreviews

LEMMA TypePartsNext ==
    /\ TypeSystem' /\ TypeUse' /\ TypeMain' /\ TypeRuns' /\ TypePreviews'
    /\ overlapped' \in BOOLEAN
    => TypeOK'
BY DEF TypeOK, TypeSystem, TypeUse, TypeMain, TypeRuns, TypePreviews

(* A part keeps its type when its variables stay. *)
LEMMA SameSystem == TypeSystem /\ UNCHANGED <<plugged, activities>> => TypeSystem'
BY DEF TypeSystem, activities

LEMMA SameUse == TypeUse /\ UNCHANGED <<streaming, connections>> => TypeUse'
BY DEF TypeUse, connections

LEMMA SameMain == TypeMain /\ UNCHANGED <<posts, main>> => TypeMain'
BY DEF TypeMain

LEMMA SameRuns == TypeRuns /\ UNCHANGED runs => TypeRuns'
BY DEF TypeRuns, runs

LEMMA SamePreviews == TypePreviews /\ UNCHANGED previews => TypePreviews'
BY DEF TypePreviews, previews

LEMMA Numbers ==
    /\ 0 \in 0 .. MaxPreview /\ 0 \notin Preview
    /\ \A p \in Preview : p \in 0 .. MaxPreview
    /\ \A p \in 0 .. MaxPreview : p # 0 => p \in Preview
BY BoundsAssumption DEF Preview

LEMMA IdleType ==
    Idle \in [pc : {"idle", "join", "close"}, activity : Activity,
              why : Reason, preview : 0 .. MaxPreview]
<1>1. 1 \in Activity
  BY BoundsAssumption DEF Activity
<1> QED  BY <1>1, Numbers DEF Idle, Reason

LEMMA TypeInit == Init => TypeOK
<1> SUFFICES ASSUME Init PROVE TypeOK
  OBVIOUS
<1>1. TypeSystem
  BY DEF Init, TypeSystem
<1>2. TypeUse
  BY Numbers DEF Init, TypeUse
<1>3. TypeMain
  BY IdleType DEF Init, TypeMain
<1>4. TypeRuns
  <2>1. 1 \in Activity
    BY BoundsAssumption DEF Activity
  <2> QED  BY <2>1 DEF Init, TypeRuns, InitPc
<1>5. TypePreviews
  BY Numbers DEF Init, TypePreviews, ThreadPc
<1>6. overlapped \in BOOLEAN
  BY DEF Init
<1> QED  BY <1>1, <1>2, <1>3, <1>4, <1>5, <1>6, TypeParts

(* Of what a stop changes at once: the flag and the main thread. *)
LEMMA StopsType ==
    ASSUME TypeOK, NEW a \in Activity, NEW why \in Reason, Stops(a, why)
    PROVE  /\ main' \in [pc : {"idle", "join", "close"}, activity : Activity,
                         why : Reason, preview : 0 .. MaxPreview]
           /\ TypePreviews'
           /\ overlapped' \in BOOLEAN
<1> DEFINE p == IF streaming[a] THEN pointer ELSE 0
<1>1. p \in 0 .. MaxPreview
  BY Numbers DEF TypeOK
<1>2. /\ running' = [q \in Preview |-> running[q] /\ q # p]
      /\ main' = [pc |-> IF p # 0 /\ running[p] THEN "join" ELSE "close",
                  activity |-> a, why |-> why, preview |-> p]
      /\ UNCHANGED <<pointer, window, thread, listed, refused>>
  BY DEF Stops
<1>3. overlapped' \in BOOLEAN
  BY DEF Stops, TypeOK
<1> HIDE DEF p
<1>4. running' \in [Preview -> BOOLEAN]
  BY <1>2
<1>5. main' \in [pc : {"idle", "join", "close"}, activity : Activity,
                 why : Reason, preview : 0 .. MaxPreview]
  BY <1>1, <1>2
<1> QED  BY <1>2, <1>3, <1>4, <1>5 DEF TypePreviews, TypeOK

LEMMA TypeMainThread == TypeOK /\ MainThread => TypeOK'
<1> SUFFICES ASSUME TypeOK, MainThread PROVE TypeOK'
  OBVIOUS
<1> USE DEF activities, connections, runs, previews
<1>0. /\ TypeSystem /\ TypeUse /\ TypeMain /\ TypeRuns /\ TypePreviews
      /\ overlapped \in BOOLEAN
  BY TypeParts
<1>1. ASSUME NEW a \in Activity, Launch(a) PROVE TypeOK'
  <2>1. TypeSystem'
    BY <1>0, <1>1 DEF Launch, TypeSystem
  <2> QED  BY <1>0, <1>1, <2>1, TypePartsNext, SameUse, SameMain, SameRuns, SamePreviews DEF Launch
<1>2. ASSUME NEW a \in Activity, ReceiveDetached(a) PROVE TypeOK'
  <2>1. TypeSystem' /\ TypeMain'
    BY <1>0, <1>2 DEF ReceiveDetached, TypeSystem, TypeMain
  <2> QED  BY <1>0, <1>2, <2>1, TypePartsNext, SameUse, SameRuns, SamePreviews DEF ReceiveDetached
<1>3. ASSUME NEW a \in Activity, SurfaceDestroyed(a) PROVE TypeOK'
  <2>1. Stops(a, "surface") /\ "surface" \in Reason
    BY <1>3 DEF SurfaceDestroyed, Reason
  <2>2. TypeSystem'
    BY <1>0, <1>3 DEF SurfaceDestroyed, TypeSystem
  <2>3. TypeMain'
    BY <1>0, <1>3, <2>1, StopsType DEF SurfaceDestroyed, TypeMain
  <2> QED  BY <1>0, <1>3, <2>1, <2>2, <2>3, StopsType, TypePartsNext, SameUse, SameRuns
           DEF SurfaceDestroyed
<1>4. ASSUME NEW a \in Activity, Destroy(a) PROVE TypeOK'
  <2>1. Stops(a, "destroy") /\ "destroy" \in Reason
    BY <1>4 DEF Destroy, Reason
  <2>2. TypeSystem'
    BY <1>0, <1>4 DEF Destroy, TypeSystem
  <2>3. TypeMain'
    BY <1>0, <1>4, <2>1, StopsType DEF Destroy, TypeMain
  <2> QED  BY <1>0, <1>4, <2>1, <2>2, <2>3, StopsType, TypePartsNext, SameUse, SameRuns
           DEF Destroy
<1>5. ASSUME NEW a \in Activity, RunDetachStop(a) PROVE TypeOK'
  <2>1. Stops(a, "detach") /\ "detach" \in Reason
    BY <1>5 DEF RunDetachStop, Reason
  <2>2. TypeMain'
    BY <1>0, <1>5, <2>1, StopsType DEF RunDetachStop, TypeMain
  <2> QED  BY <1>0, <1>5, <2>1, <2>2, StopsType, TypePartsNext, SameSystem, SameUse, SameRuns
           DEF RunDetachStop
<1>6. ASSUME NEW a \in Activity, NEW i \in Preview, SurfaceCreated(a, i) PROVE TypeOK'
  <2>1. TypeSystem' /\ TypeRuns'
    BY <1>0, <1>6 DEF SurfaceCreated, TypeSystem, TypeRuns, InitPc
  <2>2. overlapped' \in BOOLEAN
    BY <1>0, <1>6 DEF SurfaceCreated
  <2> QED  BY <1>0, <1>6, <2>1, <2>2, TypePartsNext, SameUse, SameMain, SamePreviews DEF SurfaceCreated
<1>7. CASE JoinPreview
  <2>1. TypeMain'
    BY <1>0, <1>7 DEF JoinPreview, TypeMain
  <2> QED  BY <1>0, <1>7, <2>1, TypePartsNext, SameSystem, SameUse, SameRuns, SamePreviews DEF JoinPreview
<1>8. CASE CloseConnection
  <2>1. main.activity \in Activity
    BY <1>0 DEF TypeMain
  <2>2. TypeMain'
    BY <1>0, <1>8, IdleType DEF CloseConnection, TypeMain
  <2>3. TypeSystem'
    BY <1>0, <1>8, <2>1 DEF CloseConnection, TypeSystem
  <2>4. TypeUse'
    <3>1. streaming' \in [Activity -> BOOLEAN]
      BY <1>0, <1>8, <2>1 DEF CloseConnection, TypeUse
    <3> QED  BY <1>0, <1>8, <2>1, <3>1, Numbers DEF CloseConnection, TypeUse
  <2>5. TypePreviews'
    BY <1>0, <1>8 DEF CloseConnection, TypePreviews
  <2> QED  BY <1>0, <1>8, <2>2, <2>3, <2>4, <2>5, TypePartsNext, SameRuns DEF CloseConnection
<1> QED  BY <1>1, <1>2, <1>3, <1>4, <1>5, <1>6, <1>7, <1>8 DEF MainThread

LEMMA TypeInitCamera ==
    ASSUME TypeOK, NEW i \in Preview, InitCamera(i)
    PROVE  TypeOK'
<1> USE DEF activities, connections, runs, previews
<1>0. /\ TypeSystem /\ TypeUse /\ TypeMain /\ TypeRuns /\ TypePreviews
      /\ overlapped \in BOOLEAN
  BY TypeParts
<1>1. owner[i] \in Activity
  BY <1>0 DEF TypeRuns
<1>2. TypeRuns'
  BY <1>0 DEF TypeRuns, InitCamera, OpenDevice, OpenDeviceFails, CheckSurface,
         PreviewPrepareStream, PreviewStartStream, SetStreaming, Goto, InitPc
<1>3. CASE OpenDevice(i)
  <2>1. TypeSystem' /\ TypeUse'
    BY <1>0, <1>1, <1>3, Numbers DEF OpenDevice, TypeSystem, TypeUse
  <2> QED  BY <1>0, <1>2, <1>3, <2>1, TypePartsNext, SameMain, SamePreviews DEF OpenDevice
<1>4. CASE OpenDeviceFails(i)
  <2>1. TypeUse'
    BY <1>0, <1>1, <1>4, Numbers DEF OpenDeviceFails, TypeUse
  <2> QED  BY <1>0, <1>2, <1>4, <2>1, TypePartsNext, SameSystem, SameMain, SamePreviews DEF OpenDeviceFails
<1>5. CASE CheckSurface(i)
  BY <1>0, <1>2, <1>5, TypePartsNext, SameSystem, SameUse, SameMain, SamePreviews DEF CheckSurface
<1>6. CASE PreviewPrepareStream(i)
  <2>1. TypePreviews'
    BY <1>0, <1>6, Numbers DEF PreviewPrepareStream, TypePreviews
  <2> QED  BY <1>0, <1>2, <1>6, <2>1, TypePartsNext, SameSystem, SameUse, SameMain DEF PreviewPrepareStream
<1>7. CASE PreviewStartStream(i)
  <2>1. TypePreviews'
    BY <1>0, <1>7 DEF PreviewStartStream, TypePreviews, ThreadPc
  <2> QED  BY <1>0, <1>2, <1>7, <2>1, TypePartsNext, SameSystem, SameUse, SameMain DEF PreviewStartStream
<1>8. CASE SetStreaming(i)
  <2>1. TypeUse'
    BY <1>0, <1>1, <1>8 DEF SetStreaming, TypeUse
  <2> QED  BY <1>0, <1>2, <1>8, <2>1, TypePartsNext, SameSystem, SameMain, SamePreviews DEF SetStreaming
<1> QED  BY <1>3, <1>4, <1>5, <1>6, <1>7, <1>8 DEF InitCamera

LEMMA TypePreviewThread ==
    ASSUME TypeOK, NEW p \in Preview, PreviewThread(p)
    PROVE  TypeOK'
<1>0. /\ TypeSystem /\ TypeUse /\ TypeMain /\ TypeRuns /\ TypePreviews
      /\ overlapped \in BOOLEAN
  BY TypeParts
<1>1. UNCHANGED others
  BY DEF PreviewThread, TestStreams, StreamBusy, AppendStream,
         OpenStreamFails, StartStream, StartStreamFails, StopStreaming
<1>2. thread' \in [Preview -> ThreadPc]
  BY <1>0 DEF PreviewThread, TestStreams, StreamBusy, AppendStream,
         OpenStreamFails, StartStream, StartStreamFails,
         StopStreaming, ThreadGoto, TypePreviews, ThreadPc
<1>3. listed' \subseteq Preview
  BY <1>0, Numbers DEF PreviewThread, TestStreams, StreamBusy, AppendStream,
         OpenStreamFails, StartStream, StartStreamFails,
         StopStreaming, TypePreviews
<1>4. refused' \in BOOLEAN
  BY <1>0 DEF PreviewThread, TestStreams, StreamBusy, AppendStream,
         OpenStreamFails, StartStream, StartStreamFails,
         StopStreaming, TypePreviews
<1>5. TypePreviews'
  BY <1>0, <1>1, <1>2, <1>3, <1>4 DEF others, TypePreviews
<1> QED  BY <1>0, <1>1, <1>5, TypePartsNext, SameSystem, SameUse, SameMain, SameRuns DEF others

LEMMA TypeNext == TypeOK /\ [Next]_vars => TypeOK'
<1> SUFFICES ASSUME TypeOK, [Next]_vars PROVE TypeOK'
  OBVIOUS
<1> USE DEF activities, connections, runs, previews
<1>0. /\ TypeSystem /\ TypeUse /\ TypeMain /\ TypeRuns /\ TypePreviews
      /\ overlapped \in BOOLEAN
  BY TypeParts
<1>1. CASE Unplug
  <2>1. TypeSystem'
    BY <1>0, <1>1 DEF Unplug, TypeSystem
  <2> QED  BY <1>0, <1>1, <2>1, TypePartsNext, SameUse, SameMain, SameRuns, SamePreviews DEF Unplug
<1>2. CASE UNCHANGED vars
  BY <1>0, <1>2, TypePartsNext, SameSystem, SameUse, SameMain, SameRuns, SamePreviews DEF vars
<1> QED  BY <1>1, <1>2, TypeMainThread, TypeInitCamera, TypePreviewThread DEF Next

(* Type correctness, for every number of activities and previews. *)
THEOREM TypeCorrect == Spec => []TypeOK
<1> QED  BY TypeInit, TypeNext, PTL DEF Spec

-----------------------------------------------------------------------------
(* As long as uses of the camera do not overlap. *)

(* One surface at a time, and the run of initCamera belongs to it. *)
OneUse ==
    /\ \A a, b \in Activity : surface[a] # "none" /\ surface[b] # "none" => a = b
    /\ \A i, j \in Preview : InFlight(i) /\ InFlight(j) => i = j
    /\ \A i \in Preview :
          InFlight(i) => /\ surface[owner[i]] = "there"
                         /\ life[owner[i]] = "alive"
                         /\ main.pc = "idle" \/ main.activity # owner[i]

(* What a run has done to its preview object so far. *)
Progress ==
    \A i \in Preview :
        /\ init[i] \in {"none", "find", "check", "prepare", "start"} =>
              thread[i] = "none" /\ ~running[i]
        /\ init[i] \in {"none", "find", "check", "prepare"} => pointer # i
        /\ init[i] \in {"start", "mark"} => pointer = i
        /\ init[i] = "start" => window[i]
        /\ init[i] = "mark" => running[i]
        /\ thread[i] \notin {"twice", "freed"}

(* A preview thread that has not ended has its run, its activity's flag or *)
(* the main thread to answer for it.                                       *)
ActiveIsOwned ==
    \A p \in Preview :
        Active(p) =>
            /\ pointer = p
            /\ surface[owner[p]] # "none"
            /\ \A i \in Preview : InFlight(i) => i = p
            /\ init[p] = "mark" \/ streaming[owner[p]]
            /\ main.pc # "idle" /\ main.activity = owner[p] => main.pc = "join"

StreamingHasSurface ==
    \A a \in Activity :
        streaming[a] =>
            /\ surface[a] # "none"
            /\ pointer # 0
            /\ \A i \in Preview : ~InFlight(i)
            /\ running[pointer] \/ (main.pc # "idle" /\ main.activity = a)

(* What the main thread stops is what isStreaming stands for. *)
StopIsCurrent ==
    main.pc # "idle" =>
        /\ main.preview = IF streaming[main.activity] THEN pointer ELSE 0
        /\ main.pc = "close" /\ main.preview # 0 => ~Active(main.preview)
        /\ main.pc = "join" => main.preview # 0
        /\ main.why = "surface" => surface[main.activity] = "going"

OpenedIsConnected ==
    /\ \A i \in opened : /\ connection[owner[i]] = i
                         /\ surface[owner[i]] # "none"
                         /\ init[i] \notin {"none", "find"}
    /\ \A i \in Preview :
          init[i] = "find" => \A j \in opened : owner[j] # owner[i]
    /\ \A a \in Activity :
          life[a] = "destroyed" =>
              \/ main.pc # "idle" /\ main.activity = a
              \/ \A i \in opened : owner[i] # a

(* A stream that was started and not stopped is the only one on the list;   *)
(* what else is there failed to start, and bars every other.               *)
ListedIsThere ==
    /\ \A p \in listed : thread[p] \in {"start", "run", "failed"}
    /\ \A p \in Preview : thread[p] = "opening" => listed = {}
    /\ StopClosesOwnStream
    /\ refused => \E p \in listed : thread[p] = "failed"

Alone == /\ OneUse /\ Progress /\ ActiveIsOwned /\ StreamingHasSurface
         /\ StopIsCurrent /\ OpenedIsConnected /\ ListedIsThere

IInv == overlapped \/ Alone

LEMMA AloneInit == Init => IInv
<1> SUFFICES ASSUME Init PROVE Alone
  BY DEF IInv
<1> USE DEF Init, InFlight, Active
<1>1. OneUse /\ Progress /\ ActiveIsOwned
  BY Numbers DEF OneUse, Progress, ActiveIsOwned
<1>2. StreamingHasSurface /\ StopIsCurrent /\ OpenedIsConnected /\ ListedIsThere
  BY DEF StreamingHasSurface, StopIsCurrent, OpenedIsConnected, ListedIsThere, Idle,
         StopClosesOwnStream
<1> QED  BY <1>1, <1>2 DEF Alone

(* A part stays true when its variables stay. *)
LEMMA SameOneUse ==
    OneUse /\ UNCHANGED <<surface, init, owner, life, main>> => OneUse'
BY DEF OneUse, InFlight

LEMMA SameProgress ==
    Progress /\ UNCHANGED <<init, thread, running, pointer, window>> => Progress'
BY DEF Progress, InFlight

LEMMA SameActiveIsOwned ==
    ActiveIsOwned /\ UNCHANGED <<thread, pointer, surface, owner, init, streaming, main>> => ActiveIsOwned'
BY DEF ActiveIsOwned, InFlight, Active

LEMMA SameStreamingHasSurface ==
    StreamingHasSurface /\ UNCHANGED <<streaming, surface, pointer, init, running, main>> => StreamingHasSurface'
BY DEF StreamingHasSurface, InFlight

LEMMA SameStopIsCurrent ==
    StopIsCurrent /\ UNCHANGED <<main, streaming, pointer, thread, surface>> => StopIsCurrent'
BY DEF StopIsCurrent, Active

LEMMA SameOpenedIsConnected ==
    OpenedIsConnected /\ UNCHANGED <<opened, owner, connection, surface, init, life, main>> => OpenedIsConnected'
BY DEF OpenedIsConnected, InFlight

LEMMA SameListedIsThere ==
    ListedIsThere /\ UNCHANGED <<listed, thread, refused>> => ListedIsThere'
BY DEF ListedIsThere, StopClosesOwnStream

LEMMA AloneLaunch ==
    ASSUME TypeOK, Alone, NEW a \in Activity, Launch(a)
    PROVE  overlapped' \/ Alone'
<1> USE DEF TypeOK, Alone
<1>1. Progress' /\ ActiveIsOwned' /\ StreamingHasSurface' /\ StopIsCurrent' /\
      ListedIsThere'
  BY SameProgress, SameActiveIsOwned, SameStreamingHasSurface,
     SameStopIsCurrent, SameListedIsThere
  DEF Launch, connections, runs, previews
<1>2. OneUse'
  BY Numbers DEF Launch, connections, runs, previews, MainIdle, OneUse,
         InFlight, Active
<1>3. OpenedIsConnected'
  BY Numbers DEF Launch, connections, runs, previews, MainIdle,
         OpenedIsConnected, InFlight, Active
<1> QED  BY <1>1, <1>2, <1>3

LEMMA AloneSurfaceCreated ==
    ASSUME TypeOK, Alone, NEW a \in Activity, NEW i \in Preview, SurfaceCreated(a, i)
    PROVE  overlapped' \/ Alone'
<1> SUFFICES ASSUME ~overlapped' PROVE Alone'
  OBVIOUS
<1> USE DEF TypeOK, Alone
<1>1. ListedIsThere'
  BY SameListedIsThere
  DEF SurfaceCreated, connections, previews
<1>2. OneUse'
  BY Numbers DEF SurfaceCreated, connections, previews, MainIdle, OneUse,
         InFlight, Active
<1>3. Progress'
  BY Numbers DEF SurfaceCreated, connections, previews, MainIdle, Progress,
         InFlight, Active
<1>4. ActiveIsOwned'
  BY Numbers DEF SurfaceCreated, connections, previews, MainIdle, ActiveIsOwned,
         InFlight, Active
<1>5. StreamingHasSurface'
  BY Numbers DEF SurfaceCreated, connections, previews, MainIdle,
         StreamingHasSurface, InFlight, Active
<1>6. StopIsCurrent'
  BY Numbers DEF SurfaceCreated, connections, previews, MainIdle, StopIsCurrent,
         InFlight, Active
<1>7. OpenedIsConnected'
  BY Numbers DEF SurfaceCreated, connections, previews, MainIdle,
         OpenedIsConnected, InFlight, Active
<1> QED  BY <1>1, <1>2, <1>3, <1>4, <1>5, <1>6, <1>7

LEMMA AloneJoinPreview ==
    ASSUME TypeOK, Alone, JoinPreview
    PROVE  overlapped' \/ Alone'
<1> USE DEF TypeOK, Alone
<1>1. Progress' /\ ListedIsThere'
  BY SameProgress, SameListedIsThere
  DEF JoinPreview, activities, connections, runs, previews
<1>2. OneUse'
  BY Numbers DEF JoinPreview, activities, connections, runs, previews, Active,
         OneUse, InFlight
<1>3. ActiveIsOwned'
  BY Numbers DEF JoinPreview, activities, connections, runs, previews, Active,
         ActiveIsOwned, OneUse, StopIsCurrent, InFlight
<1>4. StreamingHasSurface'
  BY Numbers DEF JoinPreview, activities, connections, runs, previews, Active,
         StreamingHasSurface, InFlight
<1>5. StopIsCurrent'
  BY Numbers DEF JoinPreview, activities, connections, runs, previews, Active,
         StopIsCurrent, InFlight
<1>6. OpenedIsConnected'
  BY Numbers DEF JoinPreview, activities, connections, runs, previews, Active,
         OpenedIsConnected, InFlight
<1> QED  BY <1>1, <1>2, <1>3, <1>4, <1>5, <1>6

LEMMA AloneCloseConnection ==
    ASSUME TypeOK, Alone, CloseConnection
    PROVE  overlapped' \/ Alone'
<1> USE DEF TypeOK, Alone
<1>1. ListedIsThere'
  BY SameListedIsThere
  DEF CloseConnection, runs
<1>2. OneUse'
  BY Numbers DEF CloseConnection, runs, Idle, OneUse, InFlight, Active
<1>3. Progress'
  BY Numbers DEF CloseConnection, runs, Idle, Progress, StopIsCurrent,
         StreamingHasSurface, InFlight, Active
<1>4. ActiveIsOwned'
  BY Numbers DEF CloseConnection, runs, Idle, ActiveIsOwned, StopIsCurrent,
         OneUse, InFlight, Active
<1>5. StreamingHasSurface'
  BY Numbers DEF CloseConnection, runs, Idle, StreamingHasSurface,
         StopIsCurrent, InFlight, Active
<1>6. StopIsCurrent'
  BY Numbers DEF CloseConnection, runs, Idle, StopIsCurrent, InFlight, Active
<1>7. OpenedIsConnected'
  BY Numbers DEF CloseConnection, runs, Idle, OpenedIsConnected, InFlight,
         Active
<1> QED  BY <1>1, <1>2, <1>3, <1>4, <1>5, <1>6, <1>7

LEMMA AloneOpenDevice ==
    ASSUME TypeOK, Alone, NEW i \in Preview, OpenDevice(i)
    PROVE  overlapped' \/ Alone'
<1> USE DEF TypeOK, Alone
<1>1. StopIsCurrent' /\ ListedIsThere'
  BY SameStopIsCurrent, SameListedIsThere
  DEF OpenDevice, previews
<1>2. OneUse'
  BY Numbers DEF OpenDevice, Goto, previews, OneUse, InFlight, Active
<1>3. Progress'
  BY Numbers DEF OpenDevice, Goto, previews, Progress, InFlight, Active
<1>4. ActiveIsOwned'
  BY Numbers DEF OpenDevice, Goto, previews, ActiveIsOwned, InFlight, Active
<1>5. StreamingHasSurface'
  BY Numbers DEF OpenDevice, Goto, previews, StreamingHasSurface, InFlight,
         Active
<1>6. OpenedIsConnected'
  BY Numbers DEF OpenDevice, Goto, previews, OpenedIsConnected, OneUse,
         InFlight, Active
<1> QED  BY <1>1, <1>2, <1>3, <1>4, <1>5, <1>6

LEMMA AloneOpenDeviceFails ==
    ASSUME TypeOK, Alone, NEW i \in Preview, OpenDeviceFails(i)
    PROVE  overlapped' \/ Alone'
<1> USE DEF TypeOK, Alone
<1>1. StopIsCurrent' /\ ListedIsThere'
  BY SameStopIsCurrent, SameListedIsThere
  DEF OpenDeviceFails, activities, previews
<1>2. OneUse'
  BY Numbers DEF OpenDeviceFails, Goto, activities, previews, OneUse, InFlight,
         Active
<1>3. Progress'
  BY Numbers DEF OpenDeviceFails, Goto, activities, previews, Progress,
         InFlight, Active
<1>4. ActiveIsOwned'
  BY Numbers DEF OpenDeviceFails, Goto, activities, previews, ActiveIsOwned,
         InFlight, Active
<1>5. StreamingHasSurface'
  BY Numbers DEF OpenDeviceFails, Goto, activities, previews,
         StreamingHasSurface, InFlight, Active
<1>6. OpenedIsConnected'
  BY Numbers DEF OpenDeviceFails, Goto, activities, previews, OpenedIsConnected,
         InFlight, Active
<1> QED  BY <1>1, <1>2, <1>3, <1>4, <1>5, <1>6

LEMMA AloneCheckSurface ==
    ASSUME TypeOK, Alone, NEW i \in Preview, CheckSurface(i)
    PROVE  overlapped' \/ Alone'
<1> USE DEF TypeOK, Alone
<1>1. StopIsCurrent' /\ ListedIsThere'
  BY SameStopIsCurrent, SameListedIsThere
  DEF CheckSurface, activities, connections, previews
<1>2. OneUse'
  BY Numbers DEF CheckSurface, Goto, activities, connections, previews, OneUse,
         InFlight, Active
<1>3. Progress'
  BY Numbers DEF CheckSurface, Goto, activities, connections, previews,
         Progress, InFlight, Active
<1>4. ActiveIsOwned'
  BY Numbers DEF CheckSurface, Goto, activities, connections, previews,
         ActiveIsOwned, InFlight, Active
<1>5. StreamingHasSurface'
  BY Numbers DEF CheckSurface, Goto, activities, connections, previews,
         StreamingHasSurface, InFlight, Active
<1>6. OpenedIsConnected'
  BY Numbers DEF CheckSurface, Goto, activities, connections, previews,
         OpenedIsConnected, InFlight, Active
<1> QED  BY <1>1, <1>2, <1>3, <1>4, <1>5, <1>6

LEMMA AlonePreviewPrepareStream ==
    ASSUME TypeOK, Alone, NEW i \in Preview, PreviewPrepareStream(i)
    PROVE  overlapped' \/ Alone'
<1> USE DEF TypeOK, Alone
<1>1. ListedIsThere'
  BY SameListedIsThere
  DEF PreviewPrepareStream, activities, connections
<1>2. OneUse'
  BY Numbers DEF PreviewPrepareStream, Goto, activities, connections, OneUse,
         InFlight, Active
<1>3. Progress'
  BY Numbers DEF PreviewPrepareStream, Goto, activities, connections, Progress,
         OneUse, InFlight, Active
<1>4. ActiveIsOwned'
  BY Numbers DEF PreviewPrepareStream, Goto, activities, connections,
         ActiveIsOwned, Progress, InFlight, Active
<1>5. StreamingHasSurface'
  BY Numbers DEF PreviewPrepareStream, Goto, activities, connections,
         StreamingHasSurface, InFlight, Active
<1>6. StopIsCurrent'
  BY Numbers DEF PreviewPrepareStream, Goto, activities, connections,
         StopIsCurrent, StreamingHasSurface, InFlight, Active
<1>7. OpenedIsConnected'
  BY Numbers DEF PreviewPrepareStream, Goto, activities, connections,
         OpenedIsConnected, InFlight, Active
<1> QED  BY <1>1, <1>2, <1>3, <1>4, <1>5, <1>6, <1>7

LEMMA AlonePreviewStartStream ==
    ASSUME TypeOK, Alone, NEW i \in Preview, PreviewStartStream(i)
    PROVE  overlapped' \/ Alone'
<1> USE DEF TypeOK, Alone
<1>1. /\ pointer = i /\ thread[i] = "none" /\ ~running[i] /\ window[i]
      /\ init[i] = "start"
  BY DEF PreviewStartStream, Progress
<1>2. /\ running' = [running EXCEPT ![i] = TRUE]
      /\ thread' = [thread EXCEPT ![i] = "open"]
      /\ init' = [init EXCEPT ![i] = "mark"]
      /\ UNCHANGED <<activities, streaming, connections, main, owner, pointer, window, listed, refused>>
  BY <1>1 DEF PreviewStartStream, Goto, Active
<1>3. OneUse'
  BY Numbers, <1>1, <1>2 DEF activities, connections, OneUse, InFlight, Active
<1>4. Progress'
  BY Numbers, <1>1, <1>2 DEF activities, connections, Progress, InFlight, Active
<1>5. ActiveIsOwned'
  BY Numbers, <1>1, <1>2 DEF activities, connections, ActiveIsOwned, OneUse,
         InFlight, Active
<1>6. StreamingHasSurface'
  BY Numbers, <1>1, <1>2 DEF activities, connections, StreamingHasSurface,
         InFlight, Active
<1>7. StopIsCurrent'
  BY Numbers, <1>1, <1>2 DEF activities, connections, StopIsCurrent,
         StreamingHasSurface, InFlight, Active
<1>8. OpenedIsConnected'
  BY Numbers, <1>1, <1>2 DEF activities, connections, OpenedIsConnected,
         InFlight, Active
<1>9. ListedIsThere'
  BY <1>1, <1>2 DEF ListedIsThere, StopClosesOwnStream
<1> QED  BY <1>3, <1>4, <1>5, <1>6, <1>7, <1>8, <1>9

LEMMA AloneSetStreaming ==
    ASSUME TypeOK, Alone, NEW i \in Preview, SetStreaming(i)
    PROVE  overlapped' \/ Alone'
<1> USE DEF TypeOK, Alone
<1>1. ListedIsThere'
  BY SameListedIsThere
  DEF SetStreaming, activities, connections, previews
<1>2. OneUse'
  BY Numbers DEF SetStreaming, Goto, activities, connections, previews, OneUse,
         InFlight, Active
<1>3. Progress'
  BY Numbers DEF SetStreaming, Goto, activities, connections, previews,
         Progress, InFlight, Active
<1>4. ActiveIsOwned'
  BY Numbers DEF SetStreaming, Goto, activities, connections, previews,
         ActiveIsOwned, InFlight, Active
<1>5. StreamingHasSurface'
  BY Numbers DEF SetStreaming, Goto, activities, connections, previews,
         StreamingHasSurface, OneUse, Progress, InFlight, Active
<1>6. StopIsCurrent'
  BY Numbers DEF SetStreaming, Goto, activities, connections, previews,
         StopIsCurrent, OneUse, InFlight, Active
<1>7. OpenedIsConnected'
  BY Numbers DEF SetStreaming, Goto, activities, connections, previews,
         OpenedIsConnected, InFlight, Active
<1> QED  BY <1>1, <1>2, <1>3, <1>4, <1>5, <1>6, <1>7

(* A step of the one preview thread that is active, but for the list: p     *)
(* goes on or ends, and no other thread moves.                             *)
LEMMA AloneThreadMoves ==
    ASSUME TypeOK, Alone, NEW p \in Preview, Active(p), UNCHANGED others,
           NEW label \in ThreadPc \ {"none", "twice", "freed"},
           thread' = [thread EXCEPT ![p] = label],
           ListedIsThere'
    PROVE  Alone'
<1> USE DEF TypeOK, Alone, others, activities, connections, runs
<1>1. OneUse' /\ StreamingHasSurface' /\ OpenedIsConnected'
  BY SameOneUse, SameStreamingHasSurface, SameOpenedIsConnected
<1>2. Progress'
  BY DEF Progress, Active
<1>3. ActiveIsOwned'
  BY DEF ActiveIsOwned, InFlight, Active
<1>4. StopIsCurrent'
  BY DEF StopIsCurrent, Active
<1> QED  BY <1>1, <1>2, <1>3, <1>4

LEMMA AlonePreviewThread ==
    ASSUME TypeOK, Alone, NEW p \in Preview, PreviewThread(p)
    PROVE  Alone'
<1>0. /\ thread \in [Preview -> ThreadPc]
      /\ \A q \in Preview : Active(p) /\ Active(q) => q = p
  BY DEF Alone, ActiveIsOwned, TypeOK
<1>1. ListedIsThere
  BY DEF Alone
<1> USE DEF ListedIsThere, StopClosesOwnStream, Active, ThreadGoto, ThreadPc
<1>2. CASE TestStreams(p)
  BY <1>0, <1>1, <1>2, AloneThreadMoves DEF TestStreams
<1>3. CASE StreamBusy(p)
  <2>1. \E q \in listed : thread[q] = "failed"
    BY <1>0, <1>1, <1>3 DEF StreamBusy, TypeOK
  <2>2. ListedIsThere'
    BY <1>0, <1>1, <1>3, <2>1 DEF StreamBusy, TypeOK
  <2> QED  BY <1>0, <1>3, <2>2, AloneThreadMoves DEF StreamBusy
<1>4. CASE AppendStream(p)
  <2>1. listed' = {p}
    BY <1>1, <1>4 DEF AppendStream
  <2>2. ~refused
    BY <1>1, <1>4 DEF AppendStream, TypeOK
  <2>3. ListedIsThere'
    BY <1>0, <1>1, <1>4, <2>1, <2>2 DEF AppendStream, TypeOK
  <2> QED  BY <1>0, <1>4, <2>3, AloneThreadMoves DEF AppendStream
<1>5. CASE OpenStreamFails(p)
  <2>1. ListedIsThere'
    BY <1>0, <1>1, <1>5 DEF OpenStreamFails, TypeOK
  <2> QED  BY <1>0, <1>5, <2>1, AloneThreadMoves DEF OpenStreamFails
<1>6. CASE StartStream(p)
  <2>1. ListedIsThere'
    BY <1>0, <1>1, <1>6 DEF StartStream, TypeOK
  <2> QED  BY <1>0, <1>6, <2>1, AloneThreadMoves DEF StartStream
<1>7. CASE StartStreamFails(p)
  <2>1. ListedIsThere'
    BY <1>0, <1>1, <1>7 DEF StartStreamFails, TypeOK
  <2> QED  BY <1>0, <1>7, <2>1, AloneThreadMoves DEF StartStreamFails
<1>8. CASE StopStreaming(p)
  <2>1. listed = {p}
    BY <1>1, <1>8 DEF StopStreaming
  <2>2. thread' = [thread EXCEPT ![p] = "ended"]
    BY <1>0, <1>8, <2>1 DEF StopStreaming
  <2>3. ~refused
    BY <1>1, <1>8, <2>1 DEF StopStreaming, TypeOK
  <2>4. ListedIsThere'
    BY <1>0, <1>8, <2>2, <2>3 DEF StopStreaming, TypeOK
  <2> QED  BY <1>8, <2>2, <2>4, AloneThreadMoves DEF StopStreaming
<1> QED  BY <1>2, <1>3, <1>4, <1>5, <1>6, <1>7, <1>8 DEF PreviewThread

LEMMA AloneUnplug == TypeOK /\ Alone /\ Unplug => Alone'
BY SameOneUse, SameProgress, SameActiveIsOwned, SameStreamingHasSurface, SameStopIsCurrent,
   SameOpenedIsConnected, SameListedIsThere
   DEF Alone, Unplug, connections, runs, previews

LEMMA AloneReceiveDetached ==
    ASSUME TypeOK, Alone, NEW a \in Activity, ReceiveDetached(a)
    PROVE  Alone'
BY SameOneUse, SameProgress, SameActiveIsOwned, SameStreamingHasSurface, SameStopIsCurrent,
   SameOpenedIsConnected, SameListedIsThere
   DEF Alone, ReceiveDetached, connections, runs, previews

LEMMA AloneUnchanged == Alone /\ UNCHANGED vars => Alone'
BY SameOneUse, SameProgress, SameActiveIsOwned, SameStreamingHasSurface, SameStopIsCurrent,
   SameOpenedIsConnected, SameListedIsThere
   DEF Alone, vars, activities, connections, runs, previews

(* A stop of a that nothing overlaps.  lives: Destroy may end a's life;    *)
(* goes: SurfaceDestroyed takes its surface.                               *)
LEMMA AloneStops ==
    ASSUME TypeOK, Alone, NEW a \in Activity, NEW why \in Reason, Stops(a, why),
           ~overlapped',
           UNCHANGED <<streaming, connections, runs>>,
           life' \in {life, [life EXCEPT ![a] = "destroyed"]},
           \/ why # "surface" /\ UNCHANGED surface
           \/ surface[a] = "there" /\ surface' = [surface EXCEPT ![a] = "going"]
    PROVE  Alone'
<1> USE DEF TypeOK, Alone, connections, runs
<1> DEFINE p == IF streaming[a] THEN pointer ELSE 0
<1>1. /\ main.pc = "idle"
      /\ running' = [q \in Preview |-> running[q] /\ q # p]
      /\ main' = [pc |-> IF p # 0 /\ running[p] THEN "join" ELSE "close",
                  activity |-> a, why |-> why, preview |-> p]
      /\ UNCHANGED <<pointer, window, thread, listed, refused>>
      /\ \A i \in Preview : owner[i] = a => ~InFlight(i)
  BY DEF Stops, MainIdle
<1>2. streaming[a] => p # 0 /\ running[p] /\ p = pointer /\ \A i \in Preview : ~InFlight(i)
  BY <1>1 DEF StreamingHasSurface
<1>3. ~streaming[a] => p = 0
  OBVIOUS
<1>4. /\ main'.pc = (IF streaming[a] THEN "join" ELSE "close")
      /\ main'.activity = a /\ main'.why = why /\ main'.preview = p
  BY <1>1, <1>2, <1>3
<1>5. \A b \in Activity : surface'[b] # "none" <=> surface[b] # "none"
  OBVIOUS
<1>6. \A b \in Activity : b # a => surface'[b] = surface[b]
  OBVIOUS
<1> HIDE DEF p
<1>7. OneUse'
  BY <1>1, <1>4, <1>5, <1>6 DEF OneUse, InFlight
<1>8. Progress'
  <2>1. \A i \in Preview : init[i] = "mark" => i # p
    BY <1>2, <1>3, Numbers DEF InFlight
  <2> QED  BY <1>1, <2>1 DEF Progress
<1>9. ActiveIsOwned'
  <2> SUFFICES ASSUME NEW q \in Preview, Active(q), owner[q] = a
               PROVE  main'.pc = "join"
    BY <1>1, <1>4, <1>5 DEF ActiveIsOwned, Active, InFlight
  <2>1. init[q] # "mark"
    BY <1>1 DEF InFlight
  <2> QED  BY <1>4, <2>1 DEF ActiveIsOwned
<1>10. StreamingHasSurface'
  <2>1. \A b \in Activity : streaming[b] => b = a \/ ~streaming[a]
    BY DEF StreamingHasSurface, OneUse
  <2>2. \A b \in Activity : streaming[b] /\ b # a => running'[pointer]
    BY <1>1, <1>3, <2>1, Numbers DEF StreamingHasSurface
  <2> QED  BY <1>1, <1>4, <1>5, <2>2 DEF StreamingHasSurface, InFlight
<1>11. StopIsCurrent'
  BY <1>1, <1>2, <1>3, <1>4 DEF StopIsCurrent, Active
<1>12. OpenedIsConnected'
  BY <1>1, <1>4, <1>5 DEF OpenedIsConnected
<1>13. ListedIsThere'
  BY <1>1, SameListedIsThere
<1> QED  BY <1>7, <1>8, <1>9, <1>10, <1>11, <1>12, <1>13

LEMMA OverlapStays == overlapped /\ [Next]_vars => overlapped'
BY DEF Next, MainThread, Launch, ReceiveDetached, SurfaceDestroyed, Destroy, RunDetachStop,
       SurfaceCreated, JoinPreview, CloseConnection, Stops, Unplug, InitCamera, OpenDevice,
       OpenDeviceFails, CheckSurface, PreviewPrepareStream, PreviewStartStream, SetStreaming,
       PreviewThread, TestStreams, StreamBusy, AppendStream,
       OpenStreamFails, StartStream, StartStreamFails,
       StopStreaming, others, vars

LEMMA AloneMainThread ==
    TypeOK /\ Alone /\ MainThread => overlapped' \/ Alone'
<1> SUFFICES ASSUME TypeOK, Alone, MainThread, ~overlapped' PROVE Alone'
  OBVIOUS
<1>1. ASSUME NEW a \in Activity, SurfaceDestroyed(a) PROVE Alone'
  <2>1. Stops(a, "surface") /\ "surface" \in Reason
    BY <1>1 DEF SurfaceDestroyed, Reason
  <2>2. /\ UNCHANGED <<streaming, connections, runs, life>>
        /\ surface[a] = "there" /\ surface' = [surface EXCEPT ![a] = "going"]
    BY <1>1 DEF SurfaceDestroyed
  <2> QED  BY <2>1, <2>2, AloneStops
<1>2. ASSUME NEW a \in Activity, Destroy(a) PROVE Alone'
  <2>1. Stops(a, "destroy") /\ "destroy" \in Reason
    BY <1>2 DEF Destroy, Reason
  <2>2. /\ UNCHANGED <<streaming, connections, runs, surface>>
        /\ life' = [life EXCEPT ![a] = "destroyed"]
    BY <1>2 DEF Destroy
  <2> QED  BY <2>1, <2>2, AloneStops
<1>3. ASSUME NEW a \in Activity, RunDetachStop(a) PROVE Alone'
  <2>1. Stops(a, "detach") /\ "detach" \in Reason
    BY <1>3 DEF RunDetachStop, Reason
  <2>2. UNCHANGED <<streaming, connections, runs, surface, life>>
    BY <1>3 DEF RunDetachStop, activities
  <2> QED  BY <2>1, <2>2, AloneStops
<1> QED  BY <1>1, <1>2, <1>3, AloneLaunch, AloneReceiveDetached, AloneSurfaceCreated,
            AloneJoinPreview, AloneCloseConnection DEF MainThread

LEMMA AloneInitCamera ==
    ASSUME TypeOK, Alone, NEW i \in Preview, InitCamera(i)
    PROVE  overlapped' \/ Alone'
BY AloneOpenDevice, AloneOpenDeviceFails, AloneCheckSurface, AlonePreviewPrepareStream,
   AlonePreviewStartStream, AloneSetStreaming DEF InitCamera

LEMMA AloneNext ==
    TypeOK /\ IInv /\ [Next]_vars => IInv'
<1> SUFFICES ASSUME TypeOK, IInv, [Next]_vars PROVE IInv'
  OBVIOUS
<1>1. CASE overlapped
  BY <1>1, OverlapStays DEF IInv
<1>2. CASE Alone
  <2>1. CASE Next
    BY <1>2, <2>1, AloneMainThread, AloneUnplug, AloneInitCamera, AlonePreviewThread
    DEF Next, IInv
  <2>2. CASE UNCHANGED vars
    BY <1>2, <2>2, AloneUnchanged DEF IInv
  <2> QED  BY <2>1, <2>2
<1> QED  BY <1>1, <1>2 DEF IInv

LEMMA AloneAlways == Spec => []IInv
<1> QED  BY TypeCorrect, AloneInit, AloneNext, PTL DEF Spec

(* While uses do not overlap, uvc_stop_streaming, which closes whatever is   *)
(* on the list, never closes the stream of another preview.                *)
THEOREM OwnStream == Spec => []StopClosesOwnStreamUnlessOverlapped
<1>1. IInv => StopClosesOwnStreamUnlessOverlapped
  BY DEF IInv, Alone, ListedIsThere, StopClosesOwnStreamUnlessOverlapped
<1> QED  BY <1>1, AloneAlways, PTL

(* While uses do not overlap, no preview thread outlives its surface.      *)
THEOREM SurfaceKept == Spec => []NoPreviewWithoutSurfaceUnlessOverlapped
<1>1. IInv => NoPreviewWithoutSurfaceUnlessOverlapped
  BY DEF IInv, Alone, ActiveIsOwned, NoPreviewWithoutSurfaceUnlessOverlapped,
         NoPreviewWithoutSurface
<1> QED  BY <1>1, AloneAlways, PTL

(* While uses do not overlap, the camera is busy only for the stream that  *)
(* failed to start and that nobody closes.                                 *)
THEOREM BusyExplained == Spec => []BusyIsExplained
<1>1. IInv => BusyIsExplained
  BY DEF IInv, Alone, ListedIsThere, BusyIsExplained
<1> QED  BY <1>1, AloneAlways, PTL

(* While uses do not overlap, a destroyed activity leaves no connection.   *)
THEOREM AllClosed == Spec => []ConnectionsClosed
<1>1. IInv => ConnectionsClosed
  BY DEF IInv, Alone, OpenedIsConnected, ConnectionsClosed
<1> QED  BY <1>1, AloneAlways, PTL

(* While uses do not overlap the model does not end: no UVCPreview object    *)
(* ever has two threads, and no thread starts a stream that another has     *)
(* freed.                                                                  *)
THEOREM NothingUndefined == Spec => [](overlapped \/ ~Undefined)
<1>1. IInv => overlapped \/ ~Undefined
  BY DEF IInv, Alone, Progress, Undefined
<1> QED  BY <1>1, AloneAlways, PTL

-----------------------------------------------------------------------------
(* The contract with each preview. *)

(* A preview that runs or is being joined has been given a thread. *)
BegunInv ==
    \A p \in Preview :
        running[p] \/ (main.pc = "join" /\ main.preview = p) => thread[p] # "none"

(* What a stop does to the previews: at most it ends one that runs. *)
LEMMA StopsOne ==
    ASSUME TypeOK, BegunInv, NEW a \in Activity, NEW why \in Reason, Stops(a, why),
           NEW p \in Preview
    PROVE  /\ main.pc = "idle" /\ thread' = thread
           /\ \/ running'[p] = running[p] /\ ~(main'.pc = "join" /\ main'.preview = p)
              \/ running[p] /\ ~running'[p] /\ main'.pc = "join" /\ main'.preview = p
<1> DEFINE q == IF streaming[a] THEN pointer ELSE 0
<1>1. /\ main.pc = "idle" /\ thread' = thread
      /\ running' = [r \in Preview |-> running[r] /\ r # q]
      /\ main' = [pc |-> IF q # 0 /\ running[q] THEN "join" ELSE "close",
                  activity |-> a, why |-> why, preview |-> q]
  BY DEF Stops, MainIdle
<1> HIDE DEF q
<1>2. running'[p] = (running[p] /\ p # q) /\ main'.preview = q
  BY <1>1
<1>3. running[p] \in BOOLEAN
  BY DEF TypeOK
<1>4. CASE p = q
  <2>1. p # 0  BY Numbers
  <2>2. main'.pc = IF running[p] THEN "join" ELSE "close"
    BY <1>1, <1>4, <2>1
  <2> QED  BY <1>1, <1>2, <1>3, <1>4, <2>2
<1>5. CASE p # q
  BY <1>1, <1>2, <1>3, <1>5
<1> QED  BY <1>4, <1>5

LEMMA BegunNext == TypeOK /\ BegunInv /\ [Next]_vars => BegunInv'
<1> SUFFICES ASSUME TypeOK, BegunInv, [Next]_vars, NEW p \in Preview
             PROVE  running'[p] \/ (main'.pc = "join" /\ main'.preview = p)
                        => thread'[p] # "none"
  BY DEF BegunInv
<1>0. /\ thread \in [Preview -> ThreadPc] /\ running \in [Preview -> BOOLEAN]
      /\ pointer \in 0 .. MaxPreview
  BY DEF TypeOK
<1>1. running[p] \/ (main.pc = "join" /\ main.preview = p) => thread[p] # "none"
  BY DEF BegunInv
<1> USE DEF activities, connections, runs, previews, others
<1>2. ASSUME NEW a \in Activity, NEW why \in Reason, Stops(a, why)
      PROVE  running'[p] \/ (main'.pc = "join" /\ main'.preview = p)
                        => thread'[p] # "none"
  BY <1>1, <1>2, StopsOne
<1>3. CASE \E a \in Activity : SurfaceDestroyed(a) \/ Destroy(a) \/ RunDetachStop(a)
  BY <1>2, <1>3 DEF SurfaceDestroyed, Destroy, RunDetachStop, Reason
<1>4. CASE \E a \in Activity : \/ Launch(a) \/ ReceiveDetached(a)
                               \/ \E i \in Preview : SurfaceCreated(a, i)
  BY <1>1, <1>4 DEF Launch, ReceiveDetached, SurfaceCreated
<1>5. CASE JoinPreview \/ CloseConnection
  <2>1. main'.pc # "join" /\ UNCHANGED <<thread, running>>
    BY <1>5 DEF JoinPreview, CloseConnection, Idle, TypeOK
  <2> QED  BY <1>1, <2>1
<1>6. CASE Unplug \/ UNCHANGED vars
  BY <1>1, <1>6 DEF Unplug, vars
<1>7. ASSUME NEW i \in Preview, InitCamera(i)
      PROVE  running'[p] \/ (main'.pc = "join" /\ main'.preview = p)
                        => thread'[p] # "none"
  <2>1. CASE PreviewStartStream(i)
    BY <1>0, <1>1, <2>1 DEF PreviewStartStream
  <2>2. CASE \/ OpenDevice(i) \/ OpenDeviceFails(i) \/ CheckSurface(i)
             \/ PreviewPrepareStream(i) \/ SetStreaming(i)
    BY <1>1, <2>2 DEF OpenDevice, OpenDeviceFails, CheckSurface, PreviewPrepareStream,
       SetStreaming
  <2> QED  BY <1>7, <2>1, <2>2 DEF InitCamera
<1>8. ASSUME NEW i \in Preview, PreviewThread(i)
      PROVE  running'[p] \/ (main'.pc = "join" /\ main'.preview = p)
                        => thread'[p] # "none"
  BY <1>0, <1>1, <1>8 DEF PreviewThread, TestStreams, StreamBusy, AppendStream,
         OpenStreamFails, StartStream,
     StartStreamFails, StopStreaming, ThreadGoto
<1> QED  BY <1>3, <1>4, <1>5, <1>6, <1>7, <1>8 DEF Next, MainThread

LEMMA ObjectStep ==
    ASSUME TypeOK, BegunInv, Alone, ~overlapped', [Next]_vars, NEW p \in Preview
    PROVE  [Object(p)!Next]_(Object(p)!vars)
<1>0. /\ thread \in [Preview -> ThreadPc] /\ running \in [Preview -> BOOLEAN]
  BY DEF TypeOK
<1> DEFINE Joins == main.pc = "join" /\ main.preview = p
<1> USE DEF activities, connections, runs, previews, others
<1>a. ASSUME thread'[p] = thread[p], running'[p] = running[p], Joins' = Joins
      PROVE  UNCHANGED Object(p)!vars
  BY <1>a DEF Object!vars, ObjectThread
<1>1. ASSUME NEW a \in Activity, NEW why \in Reason, Stops(a, why)
      PROVE  [Object(p)!Next]_(Object(p)!vars)
  <2>1. main.pc = "idle" /\ thread' = thread
    BY <1>1, StopsOne
  <2>2. CASE running'[p] = running[p] /\ ~(main'.pc = "join" /\ main'.preview = p)
    BY <1>a, <2>1, <2>2
  <2>3. CASE running[p] /\ ~running'[p] /\ main'.pc = "join" /\ main'.preview = p
    <3>1. ObjectThread(p)' = ObjectThread(p)
      BY <2>1 DEF ObjectThread
    <3>2. running'[p] = FALSE /\ running[p] = TRUE
      <4>1. running' \in [Preview -> BOOLEAN]
        BY TypeNext DEF TypeOK
      <4> QED  BY <1>0, <2>3, <4>1
    <3> QED  BY <2>1, <2>3, <3>1, <3>2 DEF Object!Next, Object!BeginStop
  <2> QED  BY <1>1, <2>2, <2>3, StopsOne
<1>2. CASE \E a \in Activity : SurfaceDestroyed(a) \/ Destroy(a) \/ RunDetachStop(a)
  BY <1>1, <1>2 DEF SurfaceDestroyed, Destroy, RunDetachStop, Reason
<1>3. CASE \E a \in Activity : \/ Launch(a) \/ ReceiveDetached(a)
                               \/ \E i \in Preview : SurfaceCreated(a, i)
  BY <1>a, <1>3 DEF Launch, ReceiveDetached, SurfaceCreated
<1>4. CASE JoinPreview
  <2>1. /\ main.pc = "join" /\ main'.pc = "close" /\ ~Active(main.preview)
        /\ UNCHANGED <<thread, running>>
    BY <1>4 DEF JoinPreview, TypeOK
  <2>2. CASE main.preview = p
    <3>1. thread[p] \in {"ended", "failed"}
      BY <1>0, <2>1, <2>2 DEF BegunInv, Active, ThreadPc
    <3>2. ObjectThread(p) = "ended" /\ ObjectThread(p)' = "ended"
      BY <2>1, <3>1 DEF ObjectThread
    <3> QED  BY <2>1, <2>2, <3>2 DEF Object!Next, Object!EndStop
  <2>3. CASE main.preview # p
    BY <1>a, <2>1, <2>3
  <2> QED  BY <2>2, <2>3
<1>5. CASE CloseConnection
  BY <1>a, <1>5 DEF CloseConnection, Idle
<1>6. CASE Unplug \/ UNCHANGED vars
  BY <1>a, <1>6 DEF Unplug, vars
<1>7. ASSUME NEW i \in Preview, InitCamera(i) PROVE [Object(p)!Next]_(Object(p)!vars)
  <2>1. CASE PreviewStartStream(i)
    <3>1. /\ pointer = i /\ thread[i] = "none" /\ ~running[i] /\ window[i]
      BY <2>1 DEF Alone, PreviewStartStream, Progress
    <3>2. /\ running' = [running EXCEPT ![i] = TRUE] /\ main' = main
          /\ thread' = [thread EXCEPT ![i] = "open"]
      BY <2>1, <3>1 DEF PreviewStartStream, Active
    <3>3. CASE p = i
      <4>1. /\ ObjectThread(p) = "none" /\ ObjectThread(p)' = "starting"
            /\ running'[p] = TRUE /\ Joins' = Joins
        BY <1>0, <3>1, <3>2, <3>3 DEF ObjectThread
      <4> QED  BY <4>1 DEF Object!Next, Object!Start
    <3>4. CASE p # i
      BY <1>0, <1>a, <3>2, <3>4
    <3> QED  BY <3>3, <3>4
  <2>2. CASE \/ OpenDevice(i) \/ OpenDeviceFails(i) \/ CheckSurface(i)
             \/ PreviewPrepareStream(i) \/ SetStreaming(i)
    BY <1>a, <2>2 DEF OpenDevice, OpenDeviceFails, CheckSurface, PreviewPrepareStream,
       SetStreaming
  <2> QED  BY <1>7, <2>1, <2>2 DEF InitCamera
<1>8. ASSUME NEW q \in Preview, PreviewThread(q) PROVE [Object(p)!Next]_(Object(p)!vars)
  <2>a. ASSUME StopStreaming(q) PROVE thread' = [thread EXCEPT ![q] = "ended"]
    <3>1. listed = {q}
      BY <2>a DEF StopStreaming, Alone, ListedIsThere, StopClosesOwnStream
    <3> QED  BY <1>0, <2>a, <3>1 DEF StopStreaming
  <2>0. /\ running' = running /\ main' = main
        /\ p # q => thread'[p] = thread[p]
    BY <1>0, <1>8, <2>a DEF PreviewThread, TestStreams, StreamBusy, AppendStream,
       OpenStreamFails, StartStream, StartStreamFails, StopStreaming, ThreadGoto
  <2>1. CASE p # q
    BY <1>a, <2>0, <2>1
  <2>2. CASE p = q /\ (TestStreams(q) \/ AppendStream(q))
    <3>1. ObjectThread(p)' = ObjectThread(p)
      BY <1>0, <2>2 DEF TestStreams, AppendStream, ThreadGoto, ObjectThread
    <3> QED  BY <2>0, <3>1 DEF Object!vars
  <2>3. CASE p = q /\ (StreamBusy(q) \/ OpenStreamFails(q) \/ StartStreamFails(q))
    <3>1. ObjectThread(p) = "starting" /\ ObjectThread(p)' = "ended"
      BY <1>0, <2>3 DEF StreamBusy, OpenStreamFails, StartStreamFails, ThreadGoto, ObjectThread
    <3> QED  BY <2>0, <3>1 DEF Object!Next, Object!GiveUp
  <2>4. CASE p = q /\ StartStream(q)
    <3>1. ObjectThread(p) = "starting" /\ ObjectThread(p)' = "streaming"
      BY <1>0, <2>4 DEF StartStream, ThreadGoto, ObjectThread
    <3> QED  BY <2>0, <3>1 DEF Object!Next, Object!Stream
  <2>5. CASE p = q /\ StopStreaming(q)
    <3>1. /\ ObjectThread(p) = "streaming" /\ ObjectThread(p)' = "ended" /\ ~running[p]
      BY <1>0, <2>5 DEF StopStreaming, ThreadGoto, ObjectThread
    <3> QED  BY <2>0, <3>1 DEF Object!Next, Object!Finish
  <2> QED  BY <1>8, <2>1, <2>2, <2>3, <2>4, <2>5 DEF PreviewThread
<1> QED  BY <1>2, <1>3, <1>4, <1>5, <1>6, <1>7, <1>8 DEF Next, MainThread

(* Until uses of the camera overlap, the app uses each preview as its       *)
(* contract allows: one start, one stop at a time, and the stop of a running *)
(* preview returns when its thread has ended.                              *)
THEOREM PreviewsAreUsedAsPromised == Spec => KeepsObjectContract
<1>1. Init => BegunInv /\ \A p \in Preview : Object(p)!Init
  BY DEF Init, Idle, BegunInv, Object!Init, ObjectThread
<1>2. TypeOK /\ BegunInv /\ IInv /\ [Next]_vars
         => [\A p \in Preview : overlapped' \/ [Object(p)!Next]_(Object(p)!vars)]_vars
  BY ObjectStep, OverlapStays DEF IInv
<1> QED  BY <1>1, <1>2, TypeCorrect, BegunNext, AloneAlways, PTL
            DEF Spec, KeepsObjectContract

-----------------------------------------------------------------------------
(* What a stop waits for. *)

(* While uses do not overlap, nobody sets mIsRunning of the preview that is *)
(* being stopped.                                                          *)
JoinedInv == overlapped \/ (main.pc = "join" => ~running[main.preview])

LEMMA JoinedNext == TypeOK /\ IInv /\ JoinedInv /\ [Next]_vars => JoinedInv'
<1> SUFFICES ASSUME TypeOK, IInv, JoinedInv, [Next]_vars, ~overlapped', main'.pc = "join"
             PROVE  ~running'[main'.preview]
  BY DEF JoinedInv
<1>0. /\ Alone /\ ~overlapped
      /\ main.pc = "join" => ~running[main.preview]
      /\ running \in [Preview -> BOOLEAN]
  BY OverlapStays DEF IInv, JoinedInv, TypeOK
<1> USE DEF activities, connections, runs, previews, others
<1>1. ASSUME NEW a \in Activity, NEW why \in Reason, Stops(a, why)
      PROVE  ~running'[main'.preview]
  <2> DEFINE q == IF streaming[a] THEN pointer ELSE 0
  <2>1. /\ running' = [r \in Preview |-> running[r] /\ r # q]
        /\ main' = [pc |-> IF q # 0 /\ running[q] THEN "join" ELSE "close",
                    activity |-> a, why |-> why, preview |-> q]
    BY <1>1 DEF Stops
  <2>2. q \in 0 .. MaxPreview
    BY Numbers DEF TypeOK
  <2> HIDE DEF q
  <2>3. main'.preview = q /\ q # 0
    BY <2>1
  <2>4. q \in Preview
    BY <2>2, <2>3, Numbers
  <2> QED  BY <2>1, <2>3, <2>4
<1>2. CASE \E a \in Activity : SurfaceDestroyed(a) \/ Destroy(a) \/ RunDetachStop(a)
  BY <1>1, <1>2 DEF SurfaceDestroyed, Destroy, RunDetachStop, Reason
<1>3. CASE \E a \in Activity : \/ Launch(a) \/ ReceiveDetached(a)
                               \/ \E i \in Preview : SurfaceCreated(a, i)
  BY <1>0, <1>3 DEF Launch, ReceiveDetached, SurfaceCreated
<1>4. CASE JoinPreview \/ CloseConnection
  <2>1. main'.pc # "join"
    BY <1>4 DEF JoinPreview, CloseConnection, Idle, TypeOK
  <2> QED  BY <2>1
<1>5. CASE Unplug \/ UNCHANGED vars
  BY <1>0, <1>5 DEF Unplug, vars
<1>6. ASSUME NEW i \in Preview, InitCamera(i) PROVE ~running'[main'.preview]
  <2>1. CASE PreviewStartStream(i)
    <3>1. InFlight(i) /\ main' = main
      BY <2>1 DEF PreviewStartStream, InFlight
    <3>2. main.preview # 0 /\ streaming[main.activity]
      BY <1>0, <3>1 DEF Alone, StopIsCurrent
    <3>3. ~InFlight(i)
      BY <1>0, <3>2 DEF Alone, StreamingHasSurface, TypeOK
    <3> QED  BY <3>1, <3>3
  <2>2. CASE \/ OpenDevice(i) \/ OpenDeviceFails(i) \/ CheckSurface(i)
             \/ PreviewPrepareStream(i) \/ SetStreaming(i)
    BY <1>0, <2>2 DEF OpenDevice, OpenDeviceFails, CheckSurface, PreviewPrepareStream,
       SetStreaming
  <2> QED  BY <1>6, <2>1, <2>2 DEF InitCamera
<1>7. ASSUME NEW i \in Preview, PreviewThread(i) PROVE ~running'[main'.preview]
  BY <1>0, <1>7 DEF PreviewThread, TestStreams, StreamBusy, AppendStream,
         OpenStreamFails, StartStream,
     StartStreamFails, StopStreaming
<1> QED  BY <1>2, <1>3, <1>4, <1>5, <1>6, <1>7 DEF Next, MainThread

(* The places of a preview thread where nothing keeps it from its next step. *)
ThreadCanStep(p) ==
    \/ thread[p] \in {"open", "opening", "start"}
    \/ thread[p] = "run" /\ ~running[p]

StopIsDriven ==
    main.pc = "join" =>
        \/ overlapped
        \/ thread[main.preview] \in {"ended", "failed"}
        \/ ThreadCanStep(main.preview)

(* While uses do not overlap, the main thread, blocked in stopPreview, waits *)
(* for a preview thread that has ended or has a step to take: its camera    *)
(* opens or it gives up, and once it streams its mIsRunning is cleared.     *)
THEOREM StopNeverStuck == Spec => []StopIsDriven
<1>1. Init => BegunInv /\ JoinedInv
  BY DEF Init, Idle, BegunInv, JoinedInv
<1>2. TypeOK /\ IInv /\ BegunInv /\ JoinedInv => StopIsDriven
  <2> SUFFICES ASSUME TypeOK, IInv, BegunInv, JoinedInv, main.pc = "join", ~overlapped
               PROVE  \/ thread[main.preview] \in {"ended", "failed"}
                      \/ ThreadCanStep(main.preview)
    BY DEF StopIsDriven
  <2>1. main.preview \in Preview
    <3>1. main.preview \in 0 .. MaxPreview
      BY DEF TypeOK
    <3> QED  BY <3>1, Numbers DEF IInv, Alone, StopIsCurrent
  <2>2. /\ thread[main.preview] \in ThreadPc \ {"none", "twice", "freed"}
        /\ ~running[main.preview]
    BY <2>1 DEF IInv, Alone, Progress, BegunInv, JoinedInv, TypeOK
  <2> QED  BY <2>2 DEF ThreadCanStep, ThreadPc
<1> QED  BY <1>1, <1>2, TypeCorrect, BegunNext, AloneAlways, JoinedNext, PTL DEF Spec
=============================================================================
