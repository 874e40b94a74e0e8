--------------------------- MODULE PictureChannel ---------------------------
(***************************************************************************)
(* What the preview promises the Java side about pictures, with no threads *)
(* in it: the camera numbers its frames, and the callback receives some of *)
(* them, each at most once and never an older one after a newer one.       *)
(* Frames may be skipped; nothing is ever invented.                        *)
(***************************************************************************)
EXTENDS Naturals

VARIABLES
    sent,       \* number of the last frame the camera handed to the app
    delivered,  \* number of the last frame the Java callback received
    calls       \* how often the callback was called

Init ==
    /\ sent = 0
    /\ delivered = 0
    /\ calls = 0

(* The camera produces its next frame. *)
Send ==
    /\ sent' = sent + 1
    /\ UNCHANGED <<delivered, calls>>

(* The callback receives a frame newer than the last one it received. *)
Deliver ==
    /\ \E n \in (delivered + 1) .. sent : delivered' = n
    /\ calls' = calls + 1
    /\ UNCHANGED sent

Next == Send \/ Deliver

Spec == Init /\ [][Next]_<<sent, delivered, calls>>
=============================================================================
