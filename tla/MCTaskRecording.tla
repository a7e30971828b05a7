-------------------------- MODULE MCTaskRecording --------------------------
(* A model of TaskRecording for TLC.                                       *)
EXTENDS TaskRecording, TLC

Interchangeable ==
  Permutations(Recordings) \cup Permutations(Requests) \cup Permutations(Tasks)
=============================================================================
