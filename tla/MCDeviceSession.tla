--------------------------- MODULE MCDeviceSession --------------------------
(* Small instances of DeviceSession for TLC. *)
EXTENDS DeviceSession, TLC

(* Descriptors and workers are interchangeable. *)
SessionSymmetry == Permutations(Workers) \cup Permutations(Files)

(* The exploration goes on until a uvc_open fails, or a second camera meets *)
(* two handles.                                                            *)
Explored ==
    /\ NoOpenFailed
    /\ attachments < 2 \/ \A h \in Handle : h > 1 => handle[h] = "none"
=============================================================================
