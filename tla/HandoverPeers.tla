--------------------------- MODULE HandoverPeers ---------------------------
(***************************************************************************)
(* The receivers of the motion permit, behind the topics that join them to *)
(* the authority transaction: the teleoperation (InterventionTeleop of     *)
(* adapters/core/intervention.py) and the solver (V23Intervention of       *)
(* adapters/core/v23_intervention.py).                                     *)
(*                                                                         *)
(* The permit topic keeps one message for each receiver, and a receiver    *)
(* drops a permit that is too old.  Of a peer's answers one is kept in     *)
(* flight: it may be read any number of times, late, or never, and a newer *)
(* answer may be lost instead of replacing it.  Permits are stamped by one *)
(* writer and arrive in order, so the stamp check of a receiver never      *)
(* decides; tokens are told apart by their epoch.  The robot's side is the *)
(* handshake that ControlOwnership implements.                             *)
(***************************************************************************)
EXTENDS PermitHandshake

CONSTANT MaxEpoch    (* bound: callers withdraw below it, peers restart up to it *)

ASSUME RequiredPeers == Peers = {"solver", "teleop"}
ASSUME NobodyAssumption == NoInstance \notin Instances
ASSUME EpochBound == MaxEpoch \in Nat

VARIABLES
  process,           (* the instance each peer runs as                       *)
  permits,           (* per receiver: the permit in the topic                *)
  adopted,           (* token and phase a peer follows                       *)
  failed,            (* ack_error, error                                     *)
  granted,           (* the teleoperation moves the arms                     *)
  ready,             (* the solver has reset to the measured position        *)
  answers            (* per peer: the answer in flight                       *)

peerState == <<adopted, failed, granted, ready>>
network == <<permits, answers>>
system == <<handshake, process, peerState, network>>

NoPermit == [epoch |-> 0, source |-> "none", phase |-> "none", to |-> NoInstance]
NoAnswer == [epoch |-> 0, phase |-> "none", from |-> NoInstance, success |-> TRUE]
Nothing == [epoch |-> 0, source |-> "none", phase |-> "none"]

Phases == {"none", "revoke", "grant", "off"}
Sources == {"none", "vr", "motion"}
Tokens == [epoch: Nat, source: Sources, phase: Phases]
Someone == Instances \cup {NoInstance}

(* The variables keep their types, and the hand moves the arms only as the *)
(* adopted grant says (InterventionTeleop.can_home, tick).                 *)
PeersTypeOK ==
  /\ mode \in Modes \cup {"open"} /\ epoch \in Nat
  /\ phase \in Phases \ {"off"} /\ source \in Sources
  /\ acks \in [Peers -> Someone] /\ known \in [Peers -> Someone]
  /\ process \in [Peers -> Instances]
  /\ permits \in [Peers -> [epoch: Nat, source: Sources, phase: Phases, to: Someone]]
  /\ answers \in [Peers -> [epoch: Nat, phase: Phases, from: Someone, success: BOOLEAN]]
  /\ adopted \in [Peers -> Tokens]
  /\ failed \in [Peers -> BOOLEAN] /\ granted \in BOOLEAN /\ ready \in BOOLEAN
  /\ granted => adopted["teleop"].phase = "grant" /\ adopted["teleop"].source = "vr"

PeersInit ==
  /\ Init
  /\ process \in [Peers -> Instances]
  /\ permits = [p \in Peers |-> NoPermit] /\ answers = [p \in Peers |-> NoAnswer]
  /\ adopted = [p \in Peers |-> Nothing] /\ failed = [p \in Peers |-> FALSE]
  /\ granted = FALSE /\ ready = FALSE

---------------------------------------------------------------------------
(* send: each permit names the processes known when it is sent.            *)
CurrentPermit(p) ==
  [epoch |-> epoch, source |-> source, phase |-> IF mode # "off" THEN phase ELSE "off",
   to |-> known[p]]

(* Every revocation and every grant is announced in its own step.          *)
Announced ==
  permits' = IF <<epoch', phase'>> = <<epoch, phase>> THEN permits
             ELSE [p \in Peers |-> CurrentPermit(p)']

(* Whatever ends an ownership or begins a handover.                        *)
Caller ==
  /\ epoch < MaxEpoch /\ WithdrawAny
  /\ Announced /\ UNCHANGED <<process, peerState, answers>>

(* advance, in the control tick.                                           *)
Tick ==
  /\ Grant \/ Open
  /\ Announced /\ UNCHANGED <<process, peerState, answers>>

(* publish_motion_permit: a session's permit is repeated.                  *)
RepeatPermit ==
  /\ mode # "off"
  /\ permits' = [p \in Peers |-> CurrentPermit(p)]
  /\ UNCHANGED <<handshake, process, peerState, answers>>

(* A permit that is replaced in the topic before it is read, by one of a   *)
(* receiver's next phase or by the permit "vr:<epoch>" of the time after   *)
(* the session, or that arrives too old.                                   *)
LosePermit(p) ==
  /\ permits[p] # NoPermit
  /\ permits' = [permits EXCEPT ![p] = NoPermit]
  /\ UNCHANGED <<handshake, process, peerState, answers>>

---------------------------------------------------------------------------
(* The peers.                                                              *)

AnswerOf(p) ==
  [epoch |-> IF p = "solver" /\ ~ready THEN 0 ELSE adopted[p].epoch,
   phase |-> adopted[p].phase, from |-> process[p], success |-> ~failed[p]]

Answered(p) == answers' = [answers EXCEPT ![p] = AnswerOf(p)']

Follows(p) == adopted[p].phase \in {"revoke", "grant"}

(* A grant is taken only by who already follows its token: the teleopera-  *)
(* tion has not been sent off, the solver has reset since.                 *)
MayGrant(p, m) ==
  /\ adopted[p].epoch = m.epoch
  /\ p = "teleop" => adopted[p].phase # "off"
  /\ p = "solver" => Follows(p) /\ ready

Accepts(p, m) ==
  /\ m.phase # "none" /\ m.to = process[p]
  /\ m.phase = "grant" => MayGrant(p, m)

Adopt(p, m) ==
  /\ adopted' = [adopted EXCEPT ![p] = [epoch |-> m.epoch, source |-> m.source, phase |-> m.phase]]
  /\ CASE p = "solver" ->
            /\ failed' = [failed EXCEPT ![p] = FALSE]
            /\ ready' = FALSE /\ UNCHANGED granted
       [] p = "teleop" ->
            /\ UNCHANGED ready
            /\ IF m.phase = "grant" /\ m.source = "vr"
                 THEN granted' \in BOOLEAN /\ failed' = [failed EXCEPT ![p] = ~granted']
                 ELSE granted' = FALSE /\ failed' = [failed EXCEPT ![p] = FALSE]

(* permit: adopts a new token or phase (for the hand, by anchoring to the  *)
(* measured pose, which may fail), and answers in any case.                *)
TakePermit(p) ==
  LET m == permits[p] IN
  /\ m # NoPermit
  /\ permits' = [permits EXCEPT ![p] = NoPermit]
  /\ UNCHANGED <<handshake, process>>
  /\ IF Accepts(p, m)
       THEN /\ IF <<m.epoch, m.phase>> = <<adopted[p].epoch, adopted[p].phase>>
                 THEN UNCHANGED peerState ELSE Adopt(p, m)
            /\ Answered(p)
       ELSE UNCHANGED <<peerState, answers>>

(* feedback newer than the permit resets the integrator, or fails to.      *)
SolverResets ==
  /\ adopted["solver"].phase # "none" /\ ~ready
  /\ \/ ready' = TRUE /\ UNCHANGED failed
     \/ failed' = [failed EXCEPT !["solver"] = TRUE] /\ UNCHANGED ready
  /\ UNCHANGED <<handshake, process, adopted, granted, permits>>
  /\ Answered("solver")

(* An open grant is a lease of 0.3 s; the hand also gives it up when its   *)
(* reference is revoked.                                                   *)
GrantFails(p) ==
  /\ adopted[p].phase = "grant" /\ ~failed[p]
  /\ failed' = [failed EXCEPT ![p] = TRUE]
  /\ granted' = (granted /\ p # "teleop")
  /\ UNCHANGED <<handshake, process, adopted, ready, permits>>
  /\ Answered(p)

(* observe: a device that starts anew ends the grant without an error.     *)
InputRestarts ==
  /\ granted /\ granted' = FALSE
  /\ UNCHANGED <<handshake, process, adopted, failed, ready, network>>

PeerHeartbeat(p) ==
  /\ UNCHANGED <<handshake, process, peerState, permits>>
  /\ Answered(p)

(* A restarted peer has an identity of its own (uuid4): none that is still *)
(* remembered or in flight.                                                *)
Remembered(p) == {process[p], known[p], acks[p], permits[p].to, answers[p].from}

Restart(p) ==
  /\ epoch <= MaxEpoch
  /\ \E i \in Instances \ Remembered(p) : process' = [process EXCEPT ![p] = i]
  /\ adopted' = [adopted EXCEPT ![p] = Nothing]
  /\ failed' = [failed EXCEPT ![p] = FALSE]
  /\ granted' = (granted /\ p # "teleop") /\ ready' = (ready /\ p # "solver")
  /\ permits' = [permits EXCEPT ![p] = NoPermit]
  /\ UNCHANGED <<handshake, answers>>

---------------------------------------------------------------------------
(* ack: what the bridge makes of an answer, in two locked steps: peer and  *)
(* acknowledge.                                                            *)
HearAnswer(p) ==
  /\ answers[p] # NoAnswer /\ Hear(p, answers[p].from)
  /\ Announced /\ UNCHANGED <<process, peerState, answers>>

(* Faulty variant of Current: the phase is not compared.                   *)
CurrentEpoch(a) == a.epoch = epoch /\ epoch # 0

Current(a) == a.epoch = epoch /\ epoch # 0 /\ a.phase = phase

Refuse(p) ==
  /\ known[p] = answers[p].from /\ Running
  /\ UNCHANGED known /\ Withdraw("stopped")

Count(p) ==
  /\ Current(answers[p])
  /\ IF answers[p].success THEN Acknowledge(p, answers[p].from) ELSE Refuse(p)
  /\ Announced /\ UNCHANGED <<process, peerState, answers>>

LoseAnswer(p) ==
  /\ answers[p] # NoAnswer
  /\ answers' = [answers EXCEPT ![p] = NoAnswer]
  /\ UNCHANGED <<handshake, process, peerState, permits>>

---------------------------------------------------------------------------
PeersNext ==
  \/ Caller \/ Tick \/ RepeatPermit \/ SolverResets \/ InputRestarts
  \/ \E p \in Peers :
       \/ TakePermit(p) \/ GrantFails(p) \/ PeerHeartbeat(p) \/ Restart(p)
       \/ HearAnswer(p) \/ Count(p) \/ LosePermit(p) \/ LoseAnswer(p)

PeersSpec == PeersInit /\ [][PeersNext]_system

(* Answers are sent again and again, and some are read.                    *)
PeersFairSpec ==
  /\ PeersSpec
  /\ \A p \in Peers :
       WF_system(PeerHeartbeat(p)) /\ SF_system(HearAnswer(p) \/ Count(p))

(* So are permits, as long as the timer repeats them.                      *)
TopicFairSpec ==
  /\ PeersSpec
  /\ WF_system(RepeatPermit) /\ \A p \in Peers : SF_system(TakePermit(p))

---------------------------------------------------------------------------
(* Properties.                                                             *)

(* Permission is open only while every peer that granted it, unless it was *)
(* restarted since, itself follows the grant of this very epoch: an answer *)
(* to the revocation, to an earlier epoch, or of an earlier process, read  *)
(* late, never opens it.                                                   *)
PermissionMeansPeersSwitched ==
  mode = "open" =>
    \A p \in Peers : process[p] = acks[p] =>
      adopted[p].epoch = epoch /\ adopted[p].phase = "grant" /\ adopted[p].source = source

(* Two peers never follow grants of different epochs: before one of them   *)
(* is given the next owner's grant, every other one has left the last.     *)
GrantsAgree ==
  \A p, q \in Peers :
    adopted[p].phase = "grant" /\ adopted[q].phase = "grant" =>
      adopted[p].epoch = adopted[q].epoch

(* An open permission does not outlive the lease or the reference of a     *)
(* peer that granted it: its failing answer, or its successor's first one, *)
(* stops the session.                                                      *)
BrokenPeerStops ==
  (mode = "open" /\ \E p \in Peers : failed[p] /\ process[p] = acks[p]) ~> (mode # "open")

(* "Keep-last heartbeats repeat the transaction until both receivers con-  *)
(* firm it" (ros_bridge.py:1074): a peer that follows a session's permit   *)
(* when the session ends leaves it in the end, unless another session      *)
(* begins.  The timer repeats the permits of a running session only.       *)
OffReachesPeers ==
  \A p \in Peers :
    (mode = "off" /\ known[p] = process[p] /\ Follows(p)) ~> (mode # "off" \/ ~Follows(p))
============================================================================
