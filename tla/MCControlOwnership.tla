----------------------- MODULE MCControlOwnership -----------------------
(* Small instances of ControlOwnership for TLC. *)
EXTENDS ControlOwnership, TLC

Interchangeable == Permutations(Instances) \cup Permutations(Devices) \cup Permutations(Peers)
=========================================================================
