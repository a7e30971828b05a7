-------------------------- MODULE MCHardwareReset --------------------------
(* Small instances of HardwareReset for TLC. *)
EXTENDS HardwareReset

(* The frame of a released Grip that asks to resume; the authority's other *)
(* moves come from the requests.                                           *)
ResumeSamples == {s \in AllSamples : s.valid /\ ~s.pause /\ s.resume /\ ~s.gripped}
============================================================================
