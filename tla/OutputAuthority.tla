-------------------------- MODULE OutputAuthority --------------------------
(***************************************************************************)
(* What the control transaction promises, without peers, samples, phases   *)
(* or timers: at any time the robot's joints belong to nobody, to the      *)
(* program or to the human.                                                *)
(*                                                                         *)
(*   - Ownership is never passed on: it is first withdrawn, which opens a  *)
(*     new generation, and given later within that generation.             *)
(*   - The program may be given the robot only under a licence, and only   *)
(*     an explicit start issues one.                                       *)
(*   - The human owns the robot only while holding the Grip.               *)
(*   - A trip withdraws ownership and the licence; it only escalates until *)
(*     an explicit reset, and nobody is given the robot meanwhile.         *)
(*                                                                         *)
(* Two of these may follow each other within one step, with a generation   *)
(* each: one frame may let go of the Grip and ask for the program, and a   *)
(* reset may find a fault.                                                 *)
(***************************************************************************)
EXTENDS Naturals

VARIABLES
  owner,       (* "none", "program" or "human"    *)
  generation,  (* fencing number of the ownership *)
  licensed,    (* the program may be given the robot *)
  trip,        (* 0: none, 1: fault, 2: emergency stop *)
  held         (* the human is seen to hold the Grip *)

authority == <<owner, generation, licensed, trip, held>>

Init ==
  /\ owner = "none" /\ generation = 0
  /\ licensed = FALSE /\ trip = 0 /\ held = FALSE

NewGeneration ==
  /\ owner' = "none"
  /\ generation' \in Nat /\ generation' > generation

Withdraw == NewGeneration /\ trip = 0 /\ trip' = 0 /\ (licensed' => licensed)
Start    == NewGeneration /\ trip = 0 /\ trip' = 0 /\ owner = "none" /\ licensed'
Trip     == NewGeneration /\ trip' \in {1, 2} /\ trip' > trip /\ ~licensed'
Reset    == NewGeneration /\ trip' = 0 /\ ~licensed'

(* Withdraw and Start; Reset and Trip.                                     *)
TwoGenerations == NewGeneration /\ generation' > generation + 1
LetGoAndStart ==
  /\ TwoGenerations /\ trip = 0 /\ trip' = 0
  /\ owner = "human" /\ ~held' /\ licensed'
ResetAndTrip == TwoGenerations /\ trip > 0 /\ trip' = 1 /\ ~licensed'

Give(who) ==
  /\ owner = "none" /\ trip = 0
  /\ who = "program" => licensed
  /\ owner' = who
  /\ UNCHANGED <<generation, licensed, trip>>

HandMoves == UNCHANGED <<owner, generation, licensed, trip>>

DeadMan == held' \in BOOLEAN /\ licensed' \in BOOLEAN /\ (owner' = "human" => held')

Next ==
  /\ Withdraw \/ Start \/ Trip \/ Reset \/ LetGoAndStart \/ ResetAndTrip \/ HandMoves
       \/ \E who \in {"program", "human"} : Give(who)
  /\ DeadMan

Spec == Init /\ [][Next]_authority
============================================================================
