--------------------------- MODULE MCUploadQueue ---------------------------
(* Small instances of UploadQueue for TLC. *)
EXTENDS UploadQueue, TLC

Interchangeable == Permutations(Jobs) \cup Permutations(Bindings) \cup Permutations(Callers)
============================================================================
