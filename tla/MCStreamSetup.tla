---------------------------- MODULE MCStreamSetup ---------------------------
(* A small instance of StreamSetup for TLC. *)
EXTENDS StreamSetup, TLC

(* The camera has what the app asks for, and with another interval or frame *)
MCSupported ==
    {[format |-> 1, frame |-> 1, interval |-> 1, payload |-> 1],
     [format |-> 1, frame |-> 1, interval |-> 2, payload |-> 1],
     [format |-> 1, frame |-> 2, interval |-> 1, payload |-> 0]}

MCAsked == [format |-> 1, frame |-> 1, interval |-> 1, payload |-> 0]

(* A bulk camera, and isochronous ones with the packet size of the app in   *)
(* the middle or not at all.                                               *)
MCInterfaces == {<<1>>, <<0, 1, 2, 3>>, <<0, 1>>, <<1, 0>>}

(* Workers are interchangeable. *)
WorkerSymmetry == Permutations(Workers)
=============================================================================
