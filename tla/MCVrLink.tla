------------------------------ MODULE MCVrLink ------------------------------
(* Small instances of VrLink for TLC. *)
EXTENDS VrLink

\* every address on a host of its own
OwnHost(s) == s
=============================================================================
