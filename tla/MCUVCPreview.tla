---------------------------- MODULE MCUVCPreview ----------------------------
(* Small instances of UVCPreview for TLC. *)
EXTENDS UVCPreview, TLC

(* Buffers are interchangeable: no action prefers one to another. *)
BufferSymmetry == Permutations(Buffers)
=============================================================================
