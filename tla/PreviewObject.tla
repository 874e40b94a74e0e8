--------------------------- MODULE PreviewObject ---------------------------
(***************************************************************************)
(* What a UVCPreview promises the app that owns it, with no frames in it:  *)
(* startPreview makes one thread, the thread ends by itself only when it   *)
(* cannot start its stream, a stop of a running preview makes it end, and  *)
(* the stop returns when it has.                                           *)
(***************************************************************************)

VARIABLES
    running,   \* mIsRunning
    thread,    \* none, starting, streaming or ended
    stopping,  \* stopPreview has begun to stop the thread and not returned
    crashed    \* the process has ended

vars == <<running, thread, stopping, crashed>>

Init ==
    /\ running = FALSE
    /\ thread = "none"
    /\ stopping = FALSE
    /\ crashed = FALSE

Start ==
    /\ thread = "none"
    /\ running' = TRUE
    /\ thread' = "starting"
    /\ UNCHANGED <<stopping, crashed>>

(* mIsRunning stays set when the thread gives up. *)
GiveUp ==
    /\ thread = "starting"
    /\ thread' = "ended"
    /\ UNCHANGED <<running, stopping, crashed>>

Stream ==
    /\ thread = "starting"
    /\ thread' = "streaming"
    /\ UNCHANGED <<running, stopping, crashed>>

Finish ==
    /\ thread = "streaming" /\ ~running
    /\ thread' = "ended"
    /\ UNCHANGED <<running, stopping, crashed>>

BeginStop ==
    /\ running /\ ~stopping
    /\ running' = FALSE
    /\ stopping' = TRUE
    /\ UNCHANGED <<thread, crashed>>

EndStop ==
    /\ stopping /\ thread = "ended"
    /\ stopping' = FALSE
    /\ UNCHANGED <<running, thread, crashed>>

Crash ==
    /\ crashed' = TRUE
    /\ stopping' = FALSE
    /\ UNCHANGED <<running, thread>>

Next ==
    /\ ~crashed
    /\ \/ Start \/ GiveUp \/ Stream \/ Finish
       \/ BeginStop \/ EndStop \/ Crash

Spec == Init /\ [][Next]_vars
=============================================================================
