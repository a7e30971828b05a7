--------------------------- MODULE MCTopicPlayer ---------------------------
(* A model of TopicPlayer for TLC.                                         *)
EXTENDS TopicPlayer, TLC

Interchangeable == Permutations(Threads)
=============================================================================
