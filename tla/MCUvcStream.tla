----------------------------- MODULE MCUvcStream ----------------------------
(* Small instances of UvcStream for TLC. *)
EXTENDS UvcStream, TLC

(* Transfers are interchangeable: all end in the same array. *)
TransferSymmetry == Permutations(Transfers)
=============================================================================
