-------------------------- MODULE PermitHandshake --------------------------
(***************************************************************************)
(* The robot's side of a handover as its peers see it: what ControlOwner-  *)
(* ship (middleware/core/control_ownership.py) does with epochs, phases    *)
(* and acknowledgements, without the operator, the input gate, recording   *)
(* and the reasons for which an authority is withdrawn.  ControlOwnership  *)
(* implements it; HandoverPeers adds the peers and the topics.             *)
(***************************************************************************)
EXTENDS Naturals

CONSTANTS
  Peers,             (* the receivers that must acknowledge                  *)
  Instances,         (* process identities a peer can start with             *)
  NoInstance         (* a peer that was never heard of                       *)

VARIABLES
  mode,              (* off, hold, handover, open or stopped                 *)
  epoch, phase, source,  (* the permit: token and phase                      *)
  acks,              (* who acknowledged this phase, and as which process    *)
  known              (* the process each peer is known as                    *)

handshake == <<mode, epoch, phase, source, acks, known>>

Unanswered == [p \in Peers |-> NoInstance]
AllAnswered == \A p \in Peers : acks[p] # NoInstance

Init ==
  /\ mode = "off" /\ epoch = 0 /\ phase = "none" /\ source = "none"
  /\ acks = Unanswered /\ known = Unanswered

(* Faulty variant of CanFollow: a fault revokes nothing.                   *)
CanFollowFreely(next) ==
  CASE mode = "off" -> next \in {"off", "hold", "handover"}
    [] mode = "stopped" -> next \in {"off", "hold", "stopped"}
    [] OTHER -> next \in {"off", "hold", "handover"}

(* A stop is left for HOLD or the session's end only, and a session begins *)
(* in HOLD or with its program's start.                                    *)
CanFollow(next) ==
  CASE mode = "off" -> next \in {"off", "hold", "handover"}
    [] mode = "stopped" -> next \in {"off", "hold", "stopped"}
    [] OTHER -> next \in {"off", "hold", "handover", "stopped"}

(* Every change of authority is a new epoch, and some calls make two: by   *)
(* way of HOLD to the program's start, from off or from a permission that  *)
(* is let go, or to a fault.                                               *)
Twice(next) ==
  \/ next = "handover" /\ mode \in {"off", "handover", "open"}
  \/ next = "stopped" /\ mode \in {"handover", "open", "stopped"}

SourcesOf(next) == IF next = "handover" THEN {"vr", "motion"} ELSE {"none"}

Withdraw(next) ==
  /\ CanFollow(next)
  /\ mode' = next /\ phase' = "revoke" /\ acks' = Unanswered
  /\ source' \in SourcesOf(next)
  /\ \/ epoch' = epoch + 1
     \/ Twice(next) /\ epoch' = epoch + 2 /\ source' # "vr"

Modes == {"off", "hold", "handover", "stopped"}
Running == mode \notin {"off", "stopped"}

WithdrawAny == UNCHANGED known /\ \E next \in Modes : Withdraw(next)

(* A process that replaces a known one stops what is running.              *)
Hear(p, i) ==
  /\ known' = [known EXCEPT ![p] = i]
  /\ IF known[p] \notin {NoInstance, i} /\ Running
       THEN Withdraw("stopped")
       ELSE UNCHANGED <<mode, epoch, phase, source, acks>>

Acknowledge(p, i) ==
  /\ mode # "off" /\ known[p] = i /\ i # NoInstance /\ acks[p] = NoInstance
  /\ acks' = [acks EXCEPT ![p] = i]
  /\ UNCHANGED <<mode, epoch, phase, source, known>>

(* Faulty variant of Grant: one answer is as good as all.                  *)
GrantOnAnswer ==
  /\ mode = "handover" /\ phase = "revoke" /\ acks # Unanswered
  /\ phase' = "grant" /\ acks' = Unanswered
  /\ UNCHANGED <<mode, epoch, source, known>>

Grant ==
  /\ mode = "handover" /\ phase = "revoke" /\ AllAnswered
  /\ phase' = "grant" /\ acks' = Unanswered
  /\ UNCHANGED <<mode, epoch, source, known>>

Open ==
  /\ mode = "handover" /\ phase = "grant" /\ AllAnswered
  /\ mode' = "open"
  /\ UNCHANGED <<epoch, phase, source, acks, known>>

Next ==
  \/ WithdrawAny \/ Grant \/ Open
  \/ \E p \in Peers, i \in Instances : Hear(p, i) \/ Acknowledge(p, i)

Spec == Init /\ [][Next]_handshake
============================================================================
