---------------------------- MODULE FrameSource ----------------------------
(***************************************************************************)
(* What a started stream promises the user it calls back, with no          *)
(* transfers, locks or hold buffer in it: one callback at a time, never    *)
(* with an older frame than the last, none before the start and none once  *)
(* the stream has been stopped.  A frame may come twice, or never.         *)
(***************************************************************************)
EXTENDS Naturals

VARIABLES
    phase,    \* the stream is off, on or ended
    calling,  \* the user's callback runs
    number    \* number of the frame the callback is given, 0 before the first

Init ==
    /\ phase = "off"
    /\ calling = FALSE
    /\ number = 0

Start ==
    /\ phase = "off"
    /\ phase' = "on"
    /\ UNCHANGED <<calling, number>>

(* The stream cannot be started; nobody is called back. *)
Refuse ==
    /\ phase = "off"
    /\ phase' = "ended"
    /\ UNCHANGED <<calling, number>>

(* No frame is touched while the user looks at it. *)
NextFrame == number' \in Nat /\ number <= number'

Fill ==
    /\ phase = "on" /\ ~calling
    /\ NextFrame
    /\ UNCHANGED <<phase, calling>>

Call ==
    /\ phase = "on" /\ ~calling
    /\ calling' = TRUE
    /\ NextFrame
    /\ UNCHANGED phase

Return ==
    /\ phase = "on" /\ calling
    /\ calling' = FALSE
    /\ UNCHANGED <<phase, number>>

(* The stop waits for the callback under way. *)
End ==
    /\ phase = "on" /\ ~calling
    /\ phase' = "ended"
    /\ UNCHANGED <<calling, number>>

Next == Start \/ Refuse \/ Fill \/ Call \/ Return \/ End

Spec == Init /\ [][Next]_<<phase, calling, number>>
=============================================================================
