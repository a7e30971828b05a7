-------------------------- MODULE MCInterventionApi --------------------------
(* Small instances of InterventionApi for TLC. *)
EXTENDS InterventionApi, TLC

\* no action tells one request id from another
Interchangeable == Permutations(Ids)
=============================================================================
