-------------------------- MODULE MCLiveForwarding --------------------------
(* Small instances of LiveForwarding for TLC. *)
EXTENDS LiveForwarding

GripSamples == {s \in AllSamples : s.valid /\ ~s.pause /\ (s.resume => ~s.gripped)}
=============================================================================
