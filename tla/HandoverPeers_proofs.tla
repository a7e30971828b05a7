------------------------ MODULE HandoverPeers_proofs ------------------------
(***************************************************************************)
(* Safety of the handover with its peers, for any identities and any       *)
(* number of epochs; and of the teleoperation node with its solver outside *)
(* of a session (ArmTeleop), for any number of disturbances.  The two parts *)
(* share no state.                                                         *)
(***************************************************************************)
EXTENDS HandoverPeers, ArmTeleop, TLAPS

(* What is in the topic is what the bridge would send now, but perhaps for *)
(* processes that have been replaced since.                                *)
PermitsAreCurrent ==
  \A p \in Peers : permits[p] # NoPermit =>
    /\ permits[p].epoch = epoch /\ permits[p].source = source
    /\ permits[p].phase = IF mode # "off" THEN phase ELSE "off"

PermissionOrder ==
  /\ mode = "off" => phase # "grant"
  /\ phase = "none" => mode = "off"
  /\ mode = "open" => phase = "grant" /\ AllAnswered

Switched(p) ==
  adopted[p].epoch = epoch /\ adopted[p].phase = "grant" /\ adopted[p].source = source

(* An answer of the running process speaks of what it follows, as long as  *)
(* the epoch lasts.                                                        *)
AnswersAreTrue ==
  \A p \in Peers :
    /\ answers[p].epoch <= epoch
    /\ answers[p].epoch = epoch /\ epoch # 0 /\ answers[p].phase = "grant" => phase = "grant"
    /\ Current(answers[p]) /\ phase = "grant" /\ answers[p].from = process[p] => Switched(p)
    /\ Current(answers[p]) /\ phase = "revoke" => adopted[p].phase # "grant"

AcksAreTrue ==
  \A p \in Peers :
    /\ acks[p] = process[p] /\ phase = "grant" => Switched(p)
    /\ acks[p] # NoInstance /\ phase # "grant" => adopted[p].phase # "grant"

(* While a grant is out, nobody follows an earlier one.                    *)
OneGrant ==
  phase = "grant" => \A p \in Peers : adopted[p].phase = "grant" => adopted[p].epoch = epoch

AdoptedBefore ==
  \A p \in Peers :
    /\ adopted[p].epoch <= epoch
    /\ adopted[p].phase = "grant" /\ adopted[p].epoch = epoch
         => phase = "grant" /\ adopted[p].source = source

PeersInv ==
  /\ PermitsAreCurrent /\ PermissionOrder /\ AnswersAreTrue /\ AcksAreTrue
  /\ OneGrant /\ AdoptedBefore /\ GrantsAgree

---------------------------------------------------------------------------
(* What the steps do, by their effect.                                     *)

Withdrawn ==
  /\ epoch' \in Nat /\ epoch' > epoch /\ phase' = "revoke" /\ acks' = Unanswered
  /\ mode' \in Modes /\ source' \in Sources

(* The robot's side moves and announces it; the peers do not.              *)
RobotStep == Announced /\ UNCHANGED <<process, peerState, answers>>

(* A peer reads a permit, answers, or loses one of the two.                *)
PeerStep(p) ==
  /\ UNCHANGED handshake /\ UNCHANGED process
  /\ \A q \in Peers : permits'[q] \in {permits[q], NoPermit}
  /\ \/ /\ adopted' = adopted
        /\ \/ answers' = answers \/ Answered(p) \/ answers' = [answers EXCEPT ![p] = NoAnswer]
     \/ /\ permits[p] # NoPermit /\ permits[p].phase # "none" /\ Answered(p)
        /\ adopted' = [adopted EXCEPT ![p] = [epoch |-> permits[p].epoch,
                          source |-> permits[p].source, phase |-> permits[p].phase]]

LEMMA WithdrawEffect ==
  ASSUME PeersTypeOK, NEW next \in Modes, Withdraw(next)
  PROVE  Withdrawn
<1>1. epoch' = epoch + 1 \/ epoch' = epoch + 2
  BY DEF Withdraw
<1>2. epoch' \in Nat /\ epoch' > epoch
  BY <1>1 DEF PeersTypeOK
<1>3. source' \in Sources
  BY DEF Withdraw, SourcesOf, Sources
<1> QED
  BY <1>2, <1>3 DEF Withdraw, Withdrawn

LEMMA AnsweredEffect ==
  ASSUME PeersTypeOK, NEW p \in Peers, Answered(p), adopted' \in [Peers -> Tokens]
  PROVE  /\ \A q \in Peers : q # p => answers'[q] = answers[q]
         /\ answers'[p].epoch \in {0, adopted'[p].epoch}
         /\ answers'[p].phase = adopted'[p].phase /\ answers'[p].from = process'[p]
<1>1. answers' = [answers EXCEPT ![p] = AnswerOf(p)']
  BY DEF Answered
<1>2. answers'[p] = AnswerOf(p)' /\ \A q \in Peers : q # p => answers'[q] = answers[q]
  BY <1>1 DEF PeersTypeOK
<1> QED
  BY <1>2 DEF AnswerOf

---------------------------------------------------------------------------
(* The invariant under each kind of step.                                  *)

(* A peer follows nothing but the permit of the present epoch and phase,   *)
(* and answers for what it follows.                                        *)
LEMMA PeerStepKeeps ==
  ASSUME PeersTypeOK, PeersTypeOK', PeersInv, NEW p \in Peers, PeerStep(p)
  PROVE  PeersInv'
<1> USE DEF PeersInv
<1>1. UNCHANGED <<mode, epoch, phase, source, acks, process>>
  BY DEF PeerStep, handshake
<1>2. PermitsAreCurrent'
  BY <1>1 DEF PermitsAreCurrent, PeerStep, NoPermit
<1>3. PermissionOrder'
  BY <1>1 DEF PermissionOrder, AllAnswered
<1>4. \A q \in Peers : adopted'[q] = adopted[q] \/
        (/\ q = p /\ adopted'[q].epoch = epoch /\ adopted'[q].source = source
         /\ adopted'[q].phase = (IF mode # "off" THEN phase ELSE "off"))
  <2>1. CASE adopted' = adopted
    BY <2>1
  <2>2. CASE permits[p] # NoPermit /\ adopted' = [adopted EXCEPT ![p] =
               [epoch |-> permits[p].epoch, source |-> permits[p].source, phase |-> permits[p].phase]]
    BY <2>2 DEF PermitsAreCurrent, PeersTypeOK
  <2> QED
    BY <2>1, <2>2 DEF PeerStep
<1>5. \A q \in Peers :
        /\ adopted[q].phase = "grant" /\ phase = "grant" /\ Switched(q) => Switched(q)'
        /\ phase # "grant" /\ adopted[q].phase # "grant" => adopted'[q].phase # "grant"
  BY <1>1, <1>4 DEF Switched, PermissionOrder
<1>6. AcksAreTrue'
  BY <1>1, <1>5 DEF AcksAreTrue, Switched
<1>7. AdoptedBefore'
  BY <1>1, <1>4 DEF AdoptedBefore, PeersTypeOK
<1>8. OneGrant'
  BY <1>1, <1>4 DEF OneGrant
<1>9. GrantsAgree'
  <2>1. CASE phase = "grant"
    BY <1>1, <1>8, <2>1 DEF OneGrant, GrantsAgree
  <2>2. CASE phase # "grant"
    BY <1>4, <2>2 DEF GrantsAgree
  <2> QED
    BY <2>1, <2>2
<1>10. AnswersAreTrue'
  <2>1. ASSUME NEW q \in Peers, answers'[q] = answers[q]
        PROVE  /\ answers'[q].epoch <= epoch'
               /\ answers'[q].epoch = epoch' /\ epoch' # 0 /\ answers'[q].phase = "grant" => phase' = "grant"
               /\ Current(answers[q])' /\ phase' = "grant" /\ answers'[q].from = process'[q] => Switched(q)'
               /\ Current(answers[q])' /\ phase' = "revoke" => adopted'[q].phase # "grant"
    BY <1>1, <1>5, <2>1 DEF AnswersAreTrue, Current, Switched
  <2>2. ASSUME Answered(p)
        PROVE  /\ answers'[p].epoch <= epoch'
               /\ answers'[p].epoch = epoch' /\ epoch' # 0 /\ answers'[p].phase = "grant" => phase' = "grant"
               /\ Current(answers[p])' /\ phase' = "grant" /\ answers'[p].from = process'[p] => Switched(p)'
               /\ Current(answers[p])' /\ phase' = "revoke" => adopted'[p].phase # "grant"
    <3>1. /\ answers'[p].epoch \in {0, adopted'[p].epoch} /\ answers'[p].phase = adopted'[p].phase
      BY <2>2, AnsweredEffect DEF PeersTypeOK
    <3>2. adopted'[p].epoch <= epoch' /\ epoch' \in Nat
      BY <1>7 DEF AdoptedBefore, PeersTypeOK
    <3>3. adopted'[p].phase = "grant" /\ adopted'[p].epoch = epoch => adopted'[p].source = source /\ phase = "grant"
      BY <1>1, <1>7 DEF AdoptedBefore
    <3> QED
      BY <1>1, <3>1, <3>2, <3>3 DEF Current, Switched
  <2>3. ASSUME answers' = [answers EXCEPT ![p] = NoAnswer]
        PROVE  /\ answers'[p].epoch <= epoch'
               /\ answers'[p].epoch = epoch' /\ epoch' # 0 /\ answers'[p].phase = "grant" => phase' = "grant"
               /\ ~Current(answers[p])'
               /\ \A q \in Peers : q # p => answers'[q] = answers[q]
    BY <1>1, <2>3 DEF PeersTypeOK, Current, NoAnswer
  <2>4. CASE answers' = answers
    BY <2>1, <2>4 DEF AnswersAreTrue
  <2>5. CASE Answered(p)
    <3>1. \A q \in Peers : q # p => answers'[q] = answers[q]
      BY <2>5, AnsweredEffect DEF PeersTypeOK
    <3> QED
      BY <2>1, <2>2, <2>5, <3>1 DEF AnswersAreTrue
  <2>6. CASE answers' = [answers EXCEPT ![p] = NoAnswer]
    BY <2>1, <2>3, <2>6 DEF AnswersAreTrue
  <2> QED
    BY <2>4, <2>5, <2>6 DEF PeerStep
<1> QED
  BY <1>2, <1>3, <1>6, <1>7, <1>8, <1>9, <1>10

(* Nothing a peer says or follows belongs to a new epoch.                  *)
LEMMA WithdrawKeeps ==
  ASSUME PeersTypeOK, PeersTypeOK', PeersInv, Withdrawn, RobotStep
  PROVE  PeersInv'
<1> USE DEF PeersInv, Withdrawn
<1>1. UNCHANGED <<process, adopted, answers>>
  BY DEF RobotStep, peerState
<1>2. permits' = [p \in Peers |-> CurrentPermit(p)']
  BY DEF RobotStep, Announced, PeersTypeOK
<1>3. PermitsAreCurrent'
  BY <1>2 DEF PermitsAreCurrent, CurrentPermit
<1>4. PermissionOrder'
  BY DEF PermissionOrder, Modes
<1>5. \A p \in Peers : answers[p].epoch < epoch' /\ adopted[p].epoch < epoch'
  BY DEF AnswersAreTrue, AdoptedBefore, PeersTypeOK, Tokens
<1>6. AnswersAreTrue'
  BY <1>1, <1>5 DEF AnswersAreTrue, Current, PeersTypeOK
<1>7. AcksAreTrue'
  BY DEF AcksAreTrue, Unanswered
<1>8. AdoptedBefore'
  BY <1>1, <1>5 DEF AdoptedBefore, PeersTypeOK, Tokens
<1>9. OneGrant' /\ GrantsAgree'
  BY <1>1 DEF OneGrant, GrantsAgree
<1> QED
  BY <1>3, <1>4, <1>6, <1>7, <1>8, <1>9

(* The grant is announced when every peer has answered to its revocation.  *)
LEMMA GrantKeeps ==
  ASSUME PeersTypeOK, PeersTypeOK', PeersInv, Grant, RobotStep
  PROVE  PeersInv'
<1> USE DEF PeersInv, Grant
<1>1. UNCHANGED <<process, adopted, answers>>
  BY DEF RobotStep, peerState
<1>2. permits' = [p \in Peers |-> CurrentPermit(p)']
  BY DEF RobotStep, Announced, PeersTypeOK
<1>3. PermitsAreCurrent'
  BY <1>2 DEF PermitsAreCurrent, CurrentPermit
<1>4. PermissionOrder'
  BY DEF PermissionOrder
<1>5. \A p \in Peers : adopted[p].phase # "grant"
  BY DEF AcksAreTrue, AllAnswered
<1>6. AnswersAreTrue'
  <2>1. \A p \in Peers : ~(answers[p].epoch = epoch /\ epoch # 0 /\ answers[p].phase = "grant")
    BY DEF AnswersAreTrue
  <2> QED
    BY <1>1, <2>1 DEF AnswersAreTrue, Current
<1>7. AcksAreTrue'
  BY NobodyAssumption DEF AcksAreTrue, Unanswered, PeersTypeOK
<1>8. AdoptedBefore'
  BY <1>1 DEF AdoptedBefore
<1>9. OneGrant' /\ GrantsAgree'
  BY <1>1, <1>5 DEF OneGrant, GrantsAgree
<1> QED
  BY <1>3, <1>4, <1>6, <1>7, <1>8, <1>9

LEMMA OpenKeeps ==
  ASSUME PeersTypeOK, PeersTypeOK', PeersInv, Open, RobotStep
  PROVE  PeersInv'
<1> USE DEF PeersInv, Open
<1>1. UNCHANGED <<process, adopted, answers, permits>>
  BY DEF RobotStep, Announced, peerState
<1>2. PermitsAreCurrent' /\ PermissionOrder'
  BY <1>1 DEF PermitsAreCurrent, PermissionOrder, AllAnswered
<1>3. AnswersAreTrue' /\ AcksAreTrue'
  BY <1>1 DEF AnswersAreTrue, AcksAreTrue, Current, Switched
<1>4. AdoptedBefore' /\ OneGrant' /\ GrantsAgree'
  BY <1>1 DEF AdoptedBefore, OneGrant, GrantsAgree
<1> QED
  BY <1>2, <1>3, <1>4

(* An answer is counted for what the permit says now, so what it says of   *)
(* its peer is what the acknowledgement has to say.                        *)
LEMMA AcknowledgeKeeps ==
  ASSUME PeersTypeOK, PeersTypeOK', PeersInv, RobotStep, NEW p \in Peers,
         Current(answers[p]), Acknowledge(p, answers[p].from)
  PROVE  PeersInv'
<1> USE DEF PeersInv, Acknowledge
<1>1. UNCHANGED <<process, adopted, answers, permits>>
  BY DEF RobotStep, Announced, peerState
<1>2. \A q \in Peers : acks'[q] = IF q = p THEN answers[p].from ELSE acks[q]
  BY DEF PeersTypeOK
<1>3. PermitsAreCurrent' /\ PermissionOrder'
  BY <1>1, <1>2 DEF PermitsAreCurrent, PermissionOrder, AllAnswered
<1>4. AnswersAreTrue'
  BY <1>1 DEF AnswersAreTrue, Current, Switched
<1>5. AcksAreTrue'
  <2>1. phase \in {"revoke", "grant"}
    BY DEF PermissionOrder, PeersTypeOK, Phases
  <2> QED
    BY <1>1, <1>2, <2>1 DEF AcksAreTrue, AnswersAreTrue, Switched
<1>6. AdoptedBefore' /\ OneGrant' /\ GrantsAgree'
  BY <1>1 DEF AdoptedBefore, OneGrant, GrantsAgree
<1> QED
  BY <1>3, <1>4, <1>5, <1>6

(* A successor follows nothing yet, and nobody remembers its identity.     *)
LEMMA RestartKeeps ==
  ASSUME PeersTypeOK, PeersTypeOK', PeersInv, NEW p \in Peers, Restart(p)
  PROVE  PeersInv'
<1> USE DEF PeersInv, Restart
<1>1. UNCHANGED <<mode, epoch, phase, source, acks, answers>>
  BY DEF handshake
<1>2. /\ process'[p] # acks[p] /\ process'[p] # answers[p].from
      /\ adopted'[p] = Nothing /\ permits'[p] = NoPermit
  BY DEF Remembered, PeersTypeOK
<1>3. \A q \in Peers : q # p =>
        process'[q] = process[q] /\ adopted'[q] = adopted[q] /\ permits'[q] = permits[q]
  BY DEF PeersTypeOK
<1>4. PermitsAreCurrent' /\ PermissionOrder'
  BY <1>1, <1>2, <1>3 DEF PermitsAreCurrent, PermissionOrder, AllAnswered, NoPermit
<1>5. AnswersAreTrue' /\ AcksAreTrue'
  BY <1>1, <1>2, <1>3 DEF AnswersAreTrue, AcksAreTrue, Current, Switched, Nothing
<1>6. AdoptedBefore' /\ OneGrant' /\ GrantsAgree'
  BY <1>1, <1>2, <1>3 DEF AdoptedBefore, OneGrant, GrantsAgree, Nothing, PeersTypeOK
<1> QED
  BY <1>4, <1>5, <1>6

(* A repeated permit and a heartbeat that changes nothing of the permit.   *)
LEMMA QuietKeeps ==
  ASSUME PeersTypeOK, PeersTypeOK', PeersInv,
         UNCHANGED <<mode, epoch, phase, source, acks, process, adopted, answers>>,
         permits' = permits \/ permits' = [p \in Peers |-> CurrentPermit(p)]
  PROVE  PeersInv'
<1> USE DEF PeersInv
<1>1. PermitsAreCurrent' /\ PermissionOrder'
  BY DEF PermitsAreCurrent, CurrentPermit, PermissionOrder, AllAnswered
<1>2. AnswersAreTrue' /\ AcksAreTrue'
  BY DEF AnswersAreTrue, AcksAreTrue, Current, Switched
<1>3. AdoptedBefore' /\ OneGrant' /\ GrantsAgree'
  BY DEF AdoptedBefore, OneGrant, GrantsAgree
<1> QED
  BY <1>1, <1>2, <1>3

---------------------------------------------------------------------------
(* Types.                                                                  *)

HandshakeTypes ==
  /\ mode \in Modes \cup {"open"} /\ epoch \in Nat
  /\ phase \in Phases \ {"off"} /\ source \in Sources
  /\ acks \in [Peers -> Someone] /\ known \in [Peers -> Someone]

PeerTypes ==
  /\ process \in [Peers -> Instances]
  /\ adopted \in [Peers -> Tokens]
  /\ failed \in [Peers -> BOOLEAN] /\ granted \in BOOLEAN /\ ready \in BOOLEAN

HandFollows == granted => adopted["teleop"].phase = "grant" /\ adopted["teleop"].source = "vr"

Permits == [epoch: Nat, source: Sources, phase: Phases, to: Someone]
Answers == [epoch: Nat, phase: Phases, from: Someone, success: BOOLEAN]

LEMMA TypeParts ==
  PeersTypeOK <=> /\ HandshakeTypes /\ PeerTypes /\ HandFollows
                  /\ permits \in [Peers -> Permits] /\ answers \in [Peers -> Answers]
BY DEF PeersTypeOK, HandshakeTypes, PeerTypes, HandFollows, Permits, Answers

LEMMA TypePartsAfter ==
  PeersTypeOK' <=> /\ HandshakeTypes' /\ PeerTypes' /\ HandFollows'
                   /\ permits' \in [Peers -> Permits] /\ answers' \in [Peers -> Answers]
BY DEF PeersTypeOK, HandshakeTypes, PeerTypes, HandFollows, Permits, Answers

LEMMA NothingType == /\ Nothing \in Tokens /\ NoPermit \in Permits /\ NoAnswer \in Answers
                     /\ Unanswered \in [Peers -> Someone]
BY DEF Nothing, NoPermit, NoAnswer, Unanswered, Tokens, Permits, Answers, Sources, Phases, Someone

LEMMA WithdrawTypes ==
  ASSUME HandshakeTypes, Withdrawn, known' \in [Peers -> Someone]
  PROVE  HandshakeTypes'
BY NothingType DEF HandshakeTypes, Withdrawn, Phases

LEMMA CurrentPermitType ==
  ASSUME HandshakeTypes, NEW p \in Peers PROVE CurrentPermit(p) \in Permits
BY DEF HandshakeTypes, CurrentPermit, Permits, Phases

LEMMA AnnouncedTypes ==
  ASSUME HandshakeTypes', permits \in [Peers -> Permits], Announced
  PROVE  permits' \in [Peers -> Permits]
<1>1. \A p \in Peers : CurrentPermit(p)' \in Permits
  BY DEF HandshakeTypes, CurrentPermit, Permits, Phases
<1> QED
  BY <1>1 DEF Announced

LEMMA AnsweredTypes ==
  ASSUME PeerTypes', answers \in [Peers -> Answers], NEW p \in Peers, Answered(p)
  PROVE  answers' \in [Peers -> Answers]
<1>1. adopted'[p] \in Tokens /\ failed'[p] \in BOOLEAN /\ process'[p] \in Instances
  BY DEF PeerTypes
<1>2. (~failed'[p]) \in BOOLEAN
  BY <1>1
<1>3. AnswerOf(p)' \in Answers
  BY <1>1, <1>2 DEF AnswerOf, Answers, Tokens, Someone
<1> QED
  BY <1>3 DEF Answered

(* The robot's side, in the form in which its steps are announced.         *)
RobotMoves ==
  \/ Withdrawn /\ known' \in [Peers -> Someone]
  \/ Grant \/ Open
  \/ \E p \in Peers : Current(answers[p]) /\ Acknowledge(p, answers[p].from)
  \/ UNCHANGED <<mode, epoch, phase, source, acks>> /\ known' \in [Peers -> Someone]

LEMMA RobotSteps ==
  ASSUME PeersTypeOK, Caller \/ Tick \/ \E p \in Peers : HearAnswer(p) \/ Count(p)
  PROVE  RobotStep /\ RobotMoves
<1> USE DEF RobotStep, RobotMoves
<1>1. \A next \in Modes : Withdraw(next) => Withdrawn
  BY WithdrawEffect
<1>2. UNCHANGED known => known' \in [Peers -> Someone]
  BY DEF PeersTypeOK
<1>3. CASE Caller
  BY <1>1, <1>2, <1>3 DEF Caller, WithdrawAny
<1>4. CASE Tick
  BY <1>4 DEF Tick
<1>5. ASSUME NEW p \in Peers, HearAnswer(p) PROVE RobotStep /\ RobotMoves
  <2>1. Hear(p, answers[p].from) /\ RobotStep
    BY <1>5 DEF HearAnswer
  <2>2. known' \in [Peers -> Someone]
    BY <2>1 DEF Hear, PeersTypeOK
  <2>3. Withdraw("stopped") \/ UNCHANGED <<mode, epoch, phase, source, acks>>
    BY <2>1 DEF Hear
  <2> QED
    BY <1>1, <2>1, <2>2, <2>3 DEF Modes
<1>6. ASSUME NEW p \in Peers, Count(p) PROVE RobotStep /\ RobotMoves
  <2>1. Current(answers[p]) /\ RobotStep /\ (Acknowledge(p, answers[p].from) \/ Refuse(p))
    BY <1>6 DEF Count
  <2>2. Refuse(p) => Withdrawn /\ known' \in [Peers -> Someone]
    BY <1>1, <1>2 DEF Refuse, Modes
  <2> QED
    BY <2>1, <2>2
<1> QED
  BY <1>3, <1>4, <1>5, <1>6

LEMMA RobotTypes ==
  ASSUME PeersTypeOK, RobotStep, RobotMoves
  PROVE  PeersTypeOK'
<1>0. HandshakeTypes /\ PeerTypes /\ HandFollows
      /\ permits \in [Peers -> Permits] /\ answers \in [Peers -> Answers]
  BY TypeParts
<1>1. HandshakeTypes'
  <2>1. CASE Withdrawn /\ known' \in [Peers -> Someone]
    BY <1>0, <2>1, WithdrawTypes
  <2>2. CASE Grant \/ Open
    BY <1>0, <2>2, NothingType DEF Grant, Open, HandshakeTypes, Phases
  <2>3. ASSUME NEW p \in Peers, Acknowledge(p, answers[p].from) PROVE HandshakeTypes'
    <3>1. answers[p].from \in Someone
      BY <1>0 DEF Answers
    <3> QED
      BY <1>0, <2>3, <3>1 DEF Acknowledge, HandshakeTypes
  <2>4. CASE UNCHANGED <<mode, epoch, phase, source, acks>> /\ known' \in [Peers -> Someone]
    BY <1>0, <2>4 DEF HandshakeTypes
  <2> QED
    BY <2>1, <2>2, <2>3, <2>4 DEF RobotMoves
<1>2. UNCHANGED <<process, adopted, failed, granted, ready, answers>>
  BY DEF RobotStep, peerState
<1>3. PeerTypes' /\ HandFollows' /\ answers' \in [Peers -> Answers]
  BY <1>0, <1>2 DEF PeerTypes, HandFollows
<1>4. permits' \in [Peers -> Permits]
  BY <1>0, <1>1, AnnouncedTypes DEF RobotStep
<1> QED
  BY <1>1, <1>3, <1>4, TypePartsAfter

LEMMA RobotKeeps ==
  ASSUME PeersTypeOK, PeersTypeOK', PeersInv, RobotStep, RobotMoves
  PROVE  PeersInv'
<1>1. CASE UNCHANGED <<mode, epoch, phase, source, acks>>
  <2>1. UNCHANGED <<process, adopted, answers, permits>>
    BY <1>1 DEF RobotStep, Announced, peerState
  <2> QED
    BY <1>1, <2>1, QuietKeeps
<1> QED
  BY <1>1, WithdrawKeeps, GrantKeeps, OpenKeeps, AcknowledgeKeeps DEF RobotMoves

---------------------------------------------------------------------------
(* The peers' steps are steps of PeerStep and keep the types.              *)

LEMMA AdoptTypes ==
  ASSUME PeerTypes, permits \in [Peers -> Permits], NEW p \in Peers, Adopt(p, permits[p])
  PROVE  /\ adopted' \in [Peers -> Tokens] /\ failed' \in [Peers -> BOOLEAN]
         /\ granted' \in BOOLEAN /\ ready' \in BOOLEAN
         /\ HandFollows => HandFollows'
<1>1. /\ adopted' = [adopted EXCEPT ![p] = [epoch |-> permits[p].epoch,
                        source |-> permits[p].source, phase |-> permits[p].phase]]
      /\ permits[p] \in Permits
  BY DEF Adopt
<1>2. adopted' \in [Peers -> Tokens]
  BY <1>1 DEF PeerTypes, Permits, Tokens
<1>3. CASE p = "solver"
  <2>1. failed' = [failed EXCEPT ![p] = FALSE] /\ ready' = FALSE /\ granted' = granted
    BY <1>3 DEF Adopt
  <2>2. adopted'["teleop"] = adopted["teleop"]
    BY <1>1, <1>3, RequiredPeers DEF PeerTypes
  <2> QED
    BY <1>2, <2>1, <2>2 DEF PeerTypes, HandFollows
<1>4. CASE p = "teleop"
  <2>1. ready' = ready /\ granted' \in BOOLEAN
    BY <1>4 DEF Adopt
  <2>2. failed' \in [Peers -> BOOLEAN]
    BY <1>4, <2>1 DEF Adopt, PeerTypes
  <2>3. granted' => permits[p].phase = "grant" /\ permits[p].source = "vr"
    BY <1>4 DEF Adopt
  <2>4. HandFollows'
    BY <1>1, <1>4, <2>3 DEF PeerTypes, HandFollows
  <2> QED
    BY <1>2, <2>1, <2>2, <2>4 DEF PeerTypes
<1> QED
  BY <1>3, <1>4, RequiredPeers

(* Assembles the types of a step that leaves the robot's side alone.       *)
LEMMA PeerSideTypes ==
  ASSUME PeersTypeOK, UNCHANGED handshake, PeerTypes', HandFollows',
         permits' \in [Peers -> Permits], answers' \in [Peers -> Answers]
  PROVE  PeersTypeOK'
<1>1. HandshakeTypes'
  BY TypeParts DEF HandshakeTypes, handshake
<1> QED
  BY <1>1, TypePartsAfter

LEMMA TakePermitStep ==
  ASSUME PeersTypeOK, NEW p \in Peers, TakePermit(p)
  PROVE  PeersTypeOK' /\ PeerStep(p)
<1> USE TypeParts
<1>1. /\ UNCHANGED <<handshake, process>> /\ permits[p] # NoPermit
      /\ permits' = [permits EXCEPT ![p] = NoPermit]
  BY DEF TakePermit
<1>2. permits' \in [Peers -> Permits] /\ \A q \in Peers : permits'[q] \in {permits[q], NoPermit}
  BY <1>1, NothingType
<1>3. CASE ~Accepts(p, permits[p])
  <2>1. UNCHANGED <<adopted, failed, granted, ready, answers>>
    BY <1>3 DEF TakePermit, peerState
  <2>2. PeerTypes' /\ HandFollows' /\ answers' \in [Peers -> Answers]
    BY <1>1, <2>1 DEF PeerTypes, HandFollows
  <2> QED
    BY <1>1, <1>2, <2>1, <2>2, PeerSideTypes DEF PeerStep
<1>4. CASE Accepts(p, permits[p]) /\ UNCHANGED peerState
  <2>1. UNCHANGED <<adopted, failed, granted, ready>>
    BY <1>4 DEF peerState
  <2>2. Answered(p)
    BY <1>4 DEF TakePermit
  <2>3. PeerTypes' /\ HandFollows'
    BY <1>1, <2>1 DEF PeerTypes, HandFollows
  <2>4. answers' \in [Peers -> Answers]
    BY <2>2, <2>3, AnsweredTypes
  <2> QED
    BY <1>1, <1>2, <2>1, <2>2, <2>3, <2>4, PeerSideTypes DEF PeerStep
<1>5. CASE Accepts(p, permits[p]) /\ Adopt(p, permits[p])
  <2>1. Answered(p) /\ permits[p].phase # "none"
    BY <1>5 DEF TakePermit, Accepts
  <2>2. PeerTypes' /\ HandFollows'
    BY <1>1, <1>5, AdoptTypes DEF PeerTypes
  <2>3. answers' \in [Peers -> Answers]
    BY <2>1, <2>2, AnsweredTypes
  <2>4. PeerStep(p)
    BY <1>1, <1>2, <1>5, <2>1 DEF PeerStep, Adopt
  <2> QED
    BY <1>1, <1>2, <2>2, <2>3, <2>4, PeerSideTypes
<1> QED
  BY <1>3, <1>4, <1>5 DEF TakePermit

(* A step that leaves token, permits and process alone.                    *)
LEMMA OwnStep ==
  ASSUME PeersTypeOK, NEW p \in Peers, UNCHANGED <<handshake, process, adopted, permits>>,
         failed' \in [Peers -> BOOLEAN], granted' \in BOOLEAN, ready' \in BOOLEAN,
         granted' => granted, Answered(p) \/ answers' = answers
  PROVE  PeersTypeOK' /\ PeerStep(p)
<1> USE TypeParts
<1>1. PeerTypes' /\ HandFollows'
  BY DEF PeerTypes, HandFollows
<1>2. answers' \in [Peers -> Answers]
  BY <1>1, AnsweredTypes
<1>3. PeersTypeOK'
  BY <1>1, <1>2, PeerSideTypes
<1> QED
  BY <1>3 DEF PeerStep

LEMMA OwnSteps ==
  ASSUME PeersTypeOK, NEW p \in Peers,
         \/ GrantFails(p) \/ PeerHeartbeat(p)
         \/ InputRestarts
         \/ p = "solver" /\ SolverResets
  PROVE  PeersTypeOK' /\ PeerStep(p)
<1>1. CASE GrantFails(p)
  <2>1. /\ UNCHANGED <<handshake, process, adopted, ready, permits>> /\ Answered(p)
        /\ failed' = [failed EXCEPT ![p] = TRUE]
    BY <1>1 DEF GrantFails
  <2>2. granted' = (granted /\ p # "teleop")
    BY <1>1 DEF GrantFails
  <2>3. granted' \in BOOLEAN /\ (granted' => granted)
    BY <2>2
  <2>4. failed' \in [Peers -> BOOLEAN] /\ ready' \in BOOLEAN
    BY <2>1 DEF PeersTypeOK
  <2> QED
    BY <2>1, <2>3, <2>4, OwnStep
<1>2. CASE PeerHeartbeat(p)
  <2>1. UNCHANGED <<handshake, process, adopted, failed, granted, ready, permits>> /\ Answered(p)
    BY <1>2 DEF PeerHeartbeat, peerState
  <2>2. failed' \in [Peers -> BOOLEAN] /\ granted' \in BOOLEAN /\ ready' \in BOOLEAN
    BY <2>1 DEF PeersTypeOK
  <2> QED
    BY <2>1, <2>2, OwnStep
<1>3. CASE InputRestarts
  <2>1. UNCHANGED <<handshake, process, adopted, failed, ready, permits, answers>> /\ granted' = FALSE
    BY <1>3 DEF InputRestarts, network
  <2>2. failed' \in [Peers -> BOOLEAN] /\ granted' \in BOOLEAN /\ ready' \in BOOLEAN
    BY <2>1 DEF PeersTypeOK
  <2> QED
    BY <2>1, <2>2, OwnStep
<1>4. CASE p = "solver" /\ SolverResets
  <2>1. UNCHANGED <<handshake, process, adopted, granted, permits>> /\ Answered(p)
    BY <1>4 DEF SolverResets
  <2>2. failed' \in [Peers -> BOOLEAN] /\ granted' \in BOOLEAN /\ ready' \in BOOLEAN
    BY <1>4, <2>1 DEF SolverResets, PeersTypeOK
  <2> QED
    BY <2>1, <2>2, OwnStep
<1> QED
  BY <1>1, <1>2, <1>3, <1>4

LEMMA LossStep ==
  ASSUME PeersTypeOK, NEW p \in Peers, LosePermit(p) \/ LoseAnswer(p)
  PROVE  PeersTypeOK' /\ PeerStep(p)
<1> USE TypeParts
<1>1. UNCHANGED <<handshake, process, adopted, failed, granted, ready>>
  BY DEF LosePermit, LoseAnswer, peerState
<1>2. \/ permits' = [permits EXCEPT ![p] = NoPermit] /\ answers' = answers
      \/ answers' = [answers EXCEPT ![p] = NoAnswer] /\ permits' = permits
  BY DEF LosePermit, LoseAnswer
<1>3. permits' \in [Peers -> Permits] /\ answers' \in [Peers -> Answers]
  BY <1>2, NothingType
<1>4. PeerTypes' /\ HandFollows'
  BY <1>1 DEF PeerTypes, HandFollows
<1>5. PeersTypeOK'
  BY <1>1, <1>3, <1>4, PeerSideTypes
<1> QED
  BY <1>1, <1>2, <1>5 DEF PeerStep

LEMMA RestartTypes ==
  ASSUME PeersTypeOK, NEW p \in Peers, Restart(p)
  PROVE  PeersTypeOK'
<1> USE TypeParts
<1>1. /\ adopted' = [adopted EXCEPT ![p] = Nothing] /\ failed' = [failed EXCEPT ![p] = FALSE]
      /\ permits' = [permits EXCEPT ![p] = NoPermit]
      /\ UNCHANGED <<handshake, answers>> /\ process' \in [Peers -> Instances]
  BY DEF Restart, PeerTypes
<1>2. granted' = (granted /\ p # "teleop")
  BY DEF Restart
<1>3. ready' = (ready /\ p # "solver")
  BY DEF Restart
<1>4. granted' \in BOOLEAN /\ ready' \in BOOLEAN
  BY <1>2, <1>3
<1>5. PeerTypes'
  BY <1>1, <1>4, NothingType DEF PeerTypes
<1>6. HandFollows'
  <2>1. granted' => granted /\ p # "teleop"
    BY <1>2
  <2>2. p # "teleop" => adopted'["teleop"] = adopted["teleop"]
    BY <1>1, RequiredPeers DEF PeerTypes
  <2>3. HandFollows
    OBVIOUS
  <2> QED
    BY <2>1, <2>2, <2>3 DEF HandFollows
<1>7. permits' \in [Peers -> Permits]
  BY <1>1, NothingType
<1> QED
  BY <1>1, <1>5, <1>6, <1>7, PeerSideTypes

LEMMA RepeatTypes ==
  ASSUME PeersTypeOK, RepeatPermit
  PROVE  PeersTypeOK'
<1> USE TypeParts
<1>1. UNCHANGED <<handshake, process, adopted, failed, granted, ready, answers>>
  BY DEF RepeatPermit, peerState
<1>2. PeerTypes' /\ HandFollows' /\ answers' \in [Peers -> Answers]
  BY <1>1 DEF PeerTypes, HandFollows
<1>3. permits' \in [Peers -> Permits]
  BY CurrentPermitType DEF RepeatPermit
<1> QED
  BY <1>1, <1>2, <1>3, PeerSideTypes

---------------------------------------------------------------------------
LEMMA PeersInitially == PeersInit => PeersTypeOK /\ PeersInv
<1> SUFFICES ASSUME PeersInit PROVE PeersTypeOK /\ PeersInv
  OBVIOUS
<1> USE DEF PeersInit, Init
<1>1. HandshakeTypes
  BY NothingType DEF HandshakeTypes, Modes, Phases, Sources
<1>2. PeerTypes /\ HandFollows
  BY NothingType DEF PeerTypes, HandFollows
<1>3. permits \in [Peers -> Permits] /\ answers \in [Peers -> Answers]
  BY NothingType
<1>4. PeersTypeOK
  BY <1>1, <1>2, <1>3, TypeParts
<1>5. PermitsAreCurrent /\ PermissionOrder
  BY DEF PermitsAreCurrent, PermissionOrder
<1>6. AnswersAreTrue /\ AdoptedBefore
  BY DEF AnswersAreTrue, AdoptedBefore, NoAnswer, Nothing, Current
<1>7. AcksAreTrue
  BY DEF AcksAreTrue, Unanswered
<1>8. OneGrant /\ GrantsAgree
  BY DEF OneGrant, GrantsAgree, Nothing
<1> QED
  BY <1>4, <1>5, <1>6, <1>7, <1>8 DEF PeersInv

LEMMA PeersStep ==
  PeersTypeOK /\ PeersInv /\ [PeersNext]_system => PeersTypeOK' /\ PeersInv'
<1> SUFFICES ASSUME PeersTypeOK, PeersInv, [PeersNext]_system PROVE PeersTypeOK' /\ PeersInv'
  OBVIOUS
<1>1. CASE Caller \/ Tick \/ \E p \in Peers : HearAnswer(p) \/ Count(p)
  BY <1>1, RobotSteps, RobotTypes, RobotKeeps
<1>2. ASSUME NEW p \in Peers, PeersTypeOK' /\ PeerStep(p) PROVE PeersTypeOK' /\ PeersInv'
  BY <1>2, PeerStepKeeps
<1>3. ASSUME NEW p \in Peers,
             \/ TakePermit(p) \/ GrantFails(p) \/ PeerHeartbeat(p)
             \/ LosePermit(p) \/ LoseAnswer(p) \/ InputRestarts
             \/ p = "solver" /\ SolverResets
      PROVE  PeersTypeOK' /\ PeersInv'
  BY <1>2, <1>3, TakePermitStep, OwnSteps, LossStep
<1>4. SolverResets \/ InputRestarts => PeersTypeOK' /\ PeersInv'
  BY <1>3, RequiredPeers
<1>5. ASSUME NEW p \in Peers, Restart(p) PROVE PeersTypeOK' /\ PeersInv'
  BY <1>5, RestartTypes, RestartKeeps
<1>6. CASE RepeatPermit
  <2>1. /\ UNCHANGED <<mode, epoch, phase, source, acks, process, adopted, answers>>
        /\ permits' = [p \in Peers |-> CurrentPermit(p)]
    BY <1>6 DEF RepeatPermit, handshake, peerState
  <2> QED
    BY <1>6, <2>1, RepeatTypes, QuietKeeps
<1>7. CASE UNCHANGED system
  <2>1. /\ UNCHANGED <<mode, epoch, phase, source, acks, known, process, adopted, answers, permits>>
        /\ UNCHANGED <<failed, granted, ready>>
    BY <1>7 DEF system, handshake, peerState, network
  <2>2. PeersTypeOK'
    BY <2>1 DEF PeersTypeOK
  <2> QED
    BY <2>1, <2>2, QuietKeeps
<1> QED
  BY <1>1, <1>3, <1>4, <1>5, <1>6, <1>7 DEF PeersNext

LEMMA PeersInvariance == PeersSpec => [](PeersTypeOK /\ PeersInv)
BY PeersInitially, PeersStep, PTL DEF PeersSpec

(* The permit, the peers and the topics hold what the code puts there, and *)
(* the hand moves the arms only as the adopted grant says.                 *)
THEOREM PeersTypeCorrect == PeersSpec => []PeersTypeOK
BY PeersInvariance, PTL

(* When the permission is open, every peer that granted it and still runs  *)
(* follows the grant of this epoch: no late answer, answer to a revocation *)
(* or answer of a replaced process opens it.                               *)
THEOREM PermissionSwitched == PeersSpec => []PermissionMeansPeersSwitched
<1>1. PeersInv => PermissionMeansPeersSwitched
  <2>1. ASSUME PeersInv, mode = "open", NEW p \in Peers, process[p] = acks[p]
        PROVE  Switched(p)
    BY <2>1 DEF PeersInv, PermissionOrder, AcksAreTrue
  <2> QED
    BY <2>1, Zenon DEF PermissionMeansPeersSwitched, Switched
<1> QED
  BY <1>1, PeersInvariance, PTL

(* Whatever is lost, repeated or restarted, no two peers follow grants of  *)
(* different epochs.                                                       *)
THEOREM GrantsAlwaysAgree == PeersSpec => []GrantsAgree
<1>1. PeersInv => GrantsAgree
  BY DEF PeersInv
<1> QED
  BY <1>1, PeersInvariance, PTL

-----------------------------------------------------------------------------
(* ArmTeleop.                                                              *)

Gates == {"ready", "homing", "wait_feedback", "wait_ack", "wait_solver", "wait_release",
          "wait_press"}
Nodes ==
  [enabled: BOOLEAN, source: ControlSources, ready: BOOLEAN, feedback: {"never", "fresh", "old"},
   pending: BOOLEAN, homing: BOOLEAN, initialDone: BOOLEAN, gate: Gates, released: BOOLEAN,
   arms: BOOLEAN, body: BOOLEAN, waistRearm: BOOLEAN, prevLeft: BOOLEAN, latched: BOOLEAN,
   blocked: BOOLEAN, waitRight: BOOLEAN, waitLeft: BOOLEAN, right: Hands]
Outputs == [sent: BOOLEAN, fresh: BOOLEAN, afterAck: BOOLEAN, stale: BOOLEAN]

(* The variables keep their types.                                             *)
ArmTypeOK ==
  /\ node \in Nodes
  /\ solver \in [source: ControlSources, reset: BOOLEAN, waits: BOOLEAN]
  /\ reset \in BOOLEAN /\ ack \in {"none", "old", "new"} /\ output \in Outputs
  /\ moved \in BOOLEAN /\ held \in SUBSET Watched

(* Only who may drive is active.                                               *)
Licensed(n) ==
  n.arms \/ n.body => OwnTurn(n) /\ n.enabled = TRUE /\ n.ready = TRUE /\ n.homing = FALSE

(* A gate that has not yet seen an answer of the solver.                       *)
Closed == {"homing", "wait_feedback", "wait_ack", "wait_solver"}
(* Whoever may soon follow the Grip has seen it released since the last break. *)
HandSeen(n, broken) ==
  /\ n.right = "idle" => ~broken
  /\ n.source # "vr" => n.gate \in Closed
  /\ n.source = "vr" /\ (n.released = TRUE \/ n.gate \in {"wait_press", "ready"}) => ~broken
  /\ n.arms = TRUE => ~broken

(* The robot is nobody else's.                                                 *)
Own(n) == n.source = "vr" /\ n.enabled = TRUE /\ n.ready = TRUE
(* The history is of the motion of others: not of the node's own homing, nor  *)
(* of what happens before the first one.                                       *)
ForeignMotion == Watched \cap {"home", "startup"} = {}
(* The further the gate is, the more of the solver's answers follow a reset    *)
(* that nobody's motion outdates.                                              *)
ResetSeen(n, m, out, answer) ==
  ForeignMotion =>
    /\ n.initialDone = FALSE => ~m /\ out.stale = FALSE
    /\ n.ready = FALSE /\ n.initialDone = TRUE =>
         n.gate = "homing" \/ (n.gate = "wait_feedback" /\ n.pending = TRUE)
    /\ Own(n) /\ n.gate = "wait_ack" /\ answer = "new" =>
         ~m /\ (out.afterAck = TRUE => out.stale = FALSE)
    /\ Own(n) /\ n.gate = "wait_solver" => ~m /\ (out.fresh = TRUE => out.stale = FALSE)
    /\ Own(n) /\ n.gate \in {"wait_release", "wait_press", "ready"} => ~m /\ out.stale = FALSE

ArmInv ==
  /\ ArmTypeOK /\ Licensed(node)
  /\ HandSeen(node, "break" \in held) /\ ResetSeen(node, moved, output, ack)
---------------------------------------------------------------------------
(* How an operation changes the node.                                      *)

SameSeat(n, m) ==
  /\ m.enabled = n.enabled /\ m.source = n.source /\ m.ready = n.ready
  /\ m.pending = n.pending /\ m.initialDone = n.initialDone /\ m.right = n.right

(* It gives up what was driven, and a homing may end.                      *)
Eases(n, m) ==
  /\ m \in Nodes /\ SameSeat(n, m)
  /\ (m.homing = n.homing \/ m.homing = FALSE) /\ m.released = n.released
  /\ m.gate = n.gate \/ (n.gate = "homing" /\ m.gate = "wait_feedback" /\ n.ready = TRUE)
  /\ (m.arms = n.arms \/ m.arms = FALSE) /\ (m.body = n.body \/ m.body = FALSE)

(* It starts all over: nothing is driven, and the gate is closed.          *)
Restarts(n, m) ==
  /\ m \in Nodes /\ m.arms = FALSE /\ m.body = FALSE
  /\ m.released = FALSE /\ m.gate \in {"homing", "wait_feedback"}
  /\ m.ready = FALSE /\ m.initialDone = TRUE => m.gate = "homing" \/ m.pending = TRUE
  /\ n.initialDone = TRUE => m.initialDone = TRUE
  /\ m.right = "idle" => n.right = "idle"

LEMMA EasesTwice ==
  ASSUME NEW n, NEW m, NEW l, Eases(n, m), Eases(m, l) PROVE Eases(n, l)
BY DEF Eases, SameSeat

LEMMA RestartsThenEases ==
  ASSUME NEW n, NEW m, NEW l, Restarts(n, m), Eases(m, l) PROVE Restarts(n, l)
BY DEF Restarts, Eases, SameSeat

LEMMA EasesIsSafe ==
  ASSUME NEW n, NEW m, NEW b \in BOOLEAN, NEW mv \in BOOLEAN, NEW out \in Outputs, NEW answer,
         Eases(n, m), Licensed(n), HandSeen(n, b), ResetSeen(n, mv, out, answer)
  PROVE  Licensed(m) /\ HandSeen(m, b) /\ ResetSeen(m, mv, out, answer)
<1>1. Licensed(m)
  BY DEF Eases, SameSeat, Licensed, OwnTurn
<1>2. HandSeen(m, b)
  BY DEF Eases, SameSeat, HandSeen, Closed
<1>3. ResetSeen(m, mv, out, answer)
  BY DEF Eases, SameSeat, ResetSeen, Own
<1> QED
  BY <1>1, <1>2, <1>3

LEMMA RestartsIsSafe ==
  ASSUME NEW n, NEW m, NEW b \in BOOLEAN, NEW mv \in BOOLEAN, NEW out \in Outputs, NEW answer,
         Restarts(n, m), ResetSeen(n, mv, out, answer), m.right = "idle" => ~b
  PROVE  Licensed(m) /\ ResetSeen(m, mv, out, answer)
BY DEF Restarts, Licensed, ResetSeen, Own, Nodes

LEMMA ReleaseAllEases ==
  ASSUME NEW n \in Nodes
  PROVE  Eases(n, ReleaseAll(n)) /\ ReleaseAll(n).arms = FALSE /\ ReleaseAll(n).body = FALSE
         /\ ReleaseAll(n).homing = n.homing /\ ReleaseAll(n).gate = n.gate
BY DEF ReleaseAll, Eases, SameSeat, Nodes, Gates

LEMMA HomingCompleteEases ==
  ASSUME NEW n \in Nodes, n.ready = TRUE
  PROVE  Eases(n, HomingComplete(n))
BY DEF HomingComplete, Eases, SameSeat, Nodes, Gates

LEMMA ClearBlockEases == ASSUME NEW n \in Nodes PROVE Eases(n, ClearBlock(n))
BY DEF ClearBlock, Eases, SameSeat, Nodes, Gates

LEMMA StopHomingEases ==
  ASSUME NEW n \in Nodes PROVE Eases(n, [n EXCEPT !.homing = FALSE])
BY DEF Eases, SameSeat, Nodes, Gates

LEMMA HomingDoneEases ==
  ASSUME NEW n \in Nodes, n.ready = TRUE PROVE Eases(n, HomingDone(n))
<1>1. Eases(n, HomingComplete(n))
  BY HomingCompleteEases
<1>2. ASSUME NEW m \in Nodes
      PROVE  Eases(m, [m EXCEPT !.homing = FALSE, !.arms = FALSE, !.body = FALSE])
  BY DEF Eases, SameSeat, Nodes, Gates
<1>3. HomingComplete(n) \in Nodes
  BY <1>1 DEF Eases
<1> QED
  BY <1>1, <1>2, <1>3, EasesTwice DEF HomingDone

LEMMA CheckedEases ==
  ASSUME NEW n \in Nodes, n.ready = TRUE, NEW check \in Checks
  PROVE  Eases(n, Checked(n, check))
<1>1. CASE Allowed(check)
  BY <1>1, ClearBlockEases DEF Checked
<1>2. ASSUME NEW inside \in BOOLEAN PROVE Eases(n, Block(n, inside))
  <2> DEFINE right == n.waitRight \/ (~inside /\ (n.homing \/ n.arms))
             left == n.waitLeft \/ (~inside /\ n.body)
             free == ~inside
             b == [n EXCEPT !.blocked = free, !.waitRight = right, !.waitLeft = left]
             c == IF n.homing THEN HomingComplete(b) ELSE b
             h == [c EXCEPT !.homing = FALSE]
  <2>1. right \in BOOLEAN /\ left \in BOOLEAN /\ free \in BOOLEAN
    OBVIOUS
  <2> HIDE DEF right, left, free
  <2>3. b \in Nodes
    BY <2>1 DEF Nodes
  <2>4. SameSeat(n, b)
    BY DEF SameSeat, Nodes
  <2>5. /\ b.homing = n.homing /\ b.released = n.released /\ b.gate = n.gate
        /\ b.arms = n.arms /\ b.body = n.body
    BY DEF Nodes
  <2>6. Eases(n, b) /\ b.ready = TRUE
    BY <2>3, <2>4, <2>5 DEF Eases, SameSeat
  <2> HIDE DEF b
  <2>7. Eases(n, c)
    BY <2>6, <2>3, HomingCompleteEases, EasesTwice
  <2> HIDE DEF c
  <2>8. c \in Nodes
    BY <2>7 DEF Eases
  <2>9. Eases(n, h)
    BY <2>7, <2>8, StopHomingEases, EasesTwice
  <2> HIDE DEF h
  <2>10. h \in Nodes
    BY <2>9 DEF Eases
  <2>11. Eases(n, ReleaseAll(h))
    BY <2>9, <2>10, ReleaseAllEases, EasesTwice
  <2>12. Block(n, inside) = IF inside THEN h ELSE ReleaseAll(h)
    BY DEF Block, h, c, b, right, left, free
  <2> QED
    BY <2>9, <2>11, <2>12
<1> QED
  BY <1>1, <1>2 DEF Checked

LEMMA StartHomingRestarts ==
  ASSUME NEW n \in Nodes, NEW m, Eases(n, m), m.arms = FALSE, m.body = FALSE
  PROVE  /\ Restarts(n, StartHoming(m))
         /\ StartHoming(m).homing = m.homing /\ StartHoming(m).gate = "homing"
         /\ SameSeat(m, StartHoming(m))
BY DEF StartHoming, Restarts, Eases, SameSeat, Nodes, Gates

LEMMA SetHomeRestarts ==
  ASSUME NEW n \in Nodes
  PROVE  /\ Restarts(n, SetHomeTargets(n)) /\ SameSeat(n, SetHomeTargets(n))
         /\ SetHomeTargets(n).homing = TRUE /\ SetHomeTargets(n).gate = "homing"
<1>1. Eases(n, ReleaseAll(n)) /\ ReleaseAll(n).arms = FALSE /\ ReleaseAll(n).body = FALSE
  BY ReleaseAllEases
<1>2. /\ Restarts(n, StartHoming(ReleaseAll(n)))
      /\ SameSeat(ReleaseAll(n), StartHoming(ReleaseAll(n)))
      /\ StartHoming(ReleaseAll(n)).gate = "homing"
  BY <1>1, StartHomingRestarts
<1>3. ASSUME NEW m, Restarts(n, m), m.gate = "homing"
      PROVE  LET l == [m EXCEPT !.homing = TRUE]
             IN  Restarts(n, l) /\ SameSeat(m, l) /\ l.homing = TRUE /\ l.gate = "homing"
  BY <1>3 DEF Restarts, SameSeat, Nodes, Gates
<1> QED
  BY <1>1, <1>2, <1>3 DEF SetHomeTargets, SameSeat, Eases

LEMMA ResetReferencesRestarts ==
  ASSUME NEW n \in Nodes
  PROVE  /\ Restarts(n, ResetReferences(n)) /\ ResetReferences(n).pending = TRUE
         /\ ResetReferences(n).enabled = n.enabled /\ ResetReferences(n).source = n.source
         /\ ResetReferences(n).initialDone = n.initialDone /\ ResetReferences(n).right = "none"
         /\ ResetReferences(n).homing = FALSE
<1> DEFINE a == ReleaseAll(n)
           c == [a EXCEPT !.right = "none", !.homing = FALSE, !.pending = TRUE]
           r == StartHoming(c)
<1>1. Eases(n, a) /\ a.arms = FALSE /\ a.body = FALSE /\ a \in Nodes
  BY ReleaseAllEases DEF Eases
<1> HIDE DEF a
<1>2. /\ c \in Nodes /\ c.arms = FALSE /\ c.body = FALSE /\ c.right = "none" /\ c.homing = FALSE
      /\ c.pending = TRUE /\ c.enabled = n.enabled /\ c.source = n.source
      /\ c.initialDone = n.initialDone
  BY <1>1 DEF Eases, SameSeat, Nodes, Hands
<1> HIDE DEF c
<1>3. /\ r \in Nodes /\ r.arms = FALSE /\ r.body = FALSE /\ r.right = "none" /\ r.homing = FALSE
      /\ r.pending = TRUE /\ r.enabled = n.enabled /\ r.source = n.source
      /\ r.initialDone = n.initialDone /\ r.gate = "homing" /\ r.released = FALSE
  BY <1>2 DEF StartHoming, Nodes, Gates
<1> HIDE DEF r
<1> DEFINE l == HomingComplete(r)
<1>4. /\ l \in Nodes /\ l.arms = FALSE /\ l.body = FALSE /\ l.right = "none" /\ l.homing = FALSE
      /\ l.pending = TRUE /\ l.enabled = n.enabled /\ l.source = n.source
      /\ l.initialDone = n.initialDone /\ l.gate = "wait_feedback" /\ l.released = FALSE
  BY <1>3 DEF HomingComplete, Nodes, Gates
<1> HIDE DEF l
<1>5. ResetReferences(n) = IF n.source = "vr" THEN l ELSE r
  BY <1>3 DEF ResetReferences, a, c, r, l
<1>6. Restarts(n, l) /\ Restarts(n, r)
  BY <1>3, <1>4 DEF Restarts
<1> QED
  BY <1>3, <1>4, <1>5, <1>6

---------------------------------------------------------------------------
(* Each step of the node.  A step is harmless to the watch of the Grip when it *)
(* breaks nothing or starts all over.                                      *)
Unbroken(n, m) ==
  /\ m.source = n.source /\ (m.enabled = n.enabled \/ m.enabled = FALSE)
  /\ (m.homing = n.homing \/ m.homing = FALSE) /\ (m.pending = n.pending \/ m.pending = FALSE)
  /\ (m.ready = n.ready \/ m.ready = TRUE)

Broken == "break" \in held

LEMMA EasesIsUnbroken == ASSUME NEW n, NEW m, Eases(n, m) PROVE Unbroken(n, m)
BY DEF Eases, SameSeat, Unbroken

LEMMA UnbrokenIsNoBreak ==
  ASSUME node \in Nodes, node' \in Nodes, Unbroken(node, node') PROVE ~Break
BY DEF Unbroken, Break, Nodes

LEMMA WatchKeeps ==
  ASSUME ArmInv, NEW hit \in BOOLEAN, Watch(hit), node' \in Nodes,
         \/ Unbroken(node, node') /\ HandSeen(node', Broken)
         \/ Restarts(node, node')
  PROVE  held' \in SUBSET Watched /\ HandSeen(node', Broken')
<1>1. held \in SUBSET Watched /\ HandSeen(node, Broken)
  BY DEF ArmInv, ArmTypeOK, Broken
<1>2. held' \in SUBSET Watched
  BY <1>1 DEF Watch
<1>3. CASE Unbroken(node, node') /\ HandSeen(node', Broken)
  <2>1. ~Break
    BY <1>3, UnbrokenIsNoBreak DEF ArmInv, ArmTypeOK
  <2>2. Broken' => Broken
    BY <2>1 DEF Watch, Broken
  <2> QED
    BY <1>2, <1>3, <2>2 DEF HandSeen
<1>4. CASE Restarts(node, node')
  <2>1. node'.right = "idle" => ~Broken'
    BY <1>4 DEF Restarts, Watch, Broken
  <2> QED
    BY <1>2, <1>4, <2>1 DEF Restarts, HandSeen, Closed, Nodes
<1> QED
  BY <1>3, <1>4

(* Nobody else moved the robot.                                            *)
SameMotion == moved' \in BOOLEAN /\ (ForeignMotion => moved' = moved)

LEMMA MotionKept == ASSUME ArmInv, moved' = moved PROVE SameMotion
BY DEF SameMotion, ArmInv, ArmTypeOK

(* A step of the node that moves neither the robot nor its solver, and resets  *)
(* nothing.                                                                *)
LEMMA NodeStep ==
  ASSUME ArmInv, NEW hit \in BOOLEAN, Watch(hit), node' \in Nodes,
         SameMotion, solver' = solver, reset' \in BOOLEAN,
         \/ output' = output /\ ack' = ack
         \/ output' = NoOutput /\ ack' = ack,
         \/ /\ Unbroken(node, node') /\ HandSeen(node', Broken)
            /\ Licensed(node') /\ ResetSeen(node', moved, output, ack)
         \/ Restarts(node, node')
  PROVE  ArmInv'
<1>1. /\ ArmTypeOK /\ Licensed(node) /\ HandSeen(node, Broken)
      /\ ResetSeen(node, moved, output, ack)
  BY DEF ArmInv, Broken
<1>2. held' \in SUBSET Watched /\ HandSeen(node', Broken')
  BY WatchKeeps
<1>3. Licensed(node') /\ ResetSeen(node', moved, output, ack)
  BY <1>1 DEF Restarts, Licensed, ResetSeen, Own, ArmTypeOK, Nodes
<1>4. output' \in Outputs /\ ResetSeen(node', moved', output', ack')
  <2>1. CASE output' = output /\ ack' = ack
    BY <1>1, <1>3, <2>1 DEF ArmTypeOK, ResetSeen, SameMotion
  <2>2. CASE output' = NoOutput /\ ack' = ack
    <3>1. output' \in Outputs /\ output'.stale = FALSE /\ output'.fresh = FALSE
      BY <2>2 DEF NoOutput, Outputs
    <3> QED
      BY <1>3, <2>2, <3>1 DEF ResetSeen, SameMotion
  <2> QED
    BY <2>1, <2>2
<1> QED
  BY <1>1, <1>2, <1>3, <1>4 DEF ArmInv, ArmTypeOK, Broken, SameMotion

(* As it stands, a node that eases keeps all.                              *)
LEMMA EasesStep ==
  ASSUME ArmInv, NEW hit \in BOOLEAN, Watch(hit), NEW n, Eases(n, node'), Unbroken(node, n),
         Licensed(n), HandSeen(n, Broken), ResetSeen(n, moved, output, ack),
         SameMotion, solver' = solver, reset' \in BOOLEAN,
         \/ output' = output /\ ack' = ack
         \/ output' = NoOutput /\ ack' = ack
  PROVE  ArmInv'
<1>1. moved \in BOOLEAN /\ output \in Outputs /\ Broken \in BOOLEAN
  BY DEF ArmInv, ArmTypeOK, Broken
<1>2. Licensed(node') /\ HandSeen(node', Broken) /\ ResetSeen(node', moved, output, ack)
  BY <1>1, EasesIsSafe
<1>3. Unbroken(node, node') /\ node' \in Nodes
  BY DEF Eases, SameSeat, Unbroken
<1> QED
  BY <1>2, <1>3, NodeStep

LEMMA RestartsStep ==
  ASSUME ArmInv, NEW hit \in BOOLEAN, Watch(hit), Restarts(node, node'),
         SameMotion, solver' = solver, reset' \in BOOLEAN,
         \/ output' = output /\ ack' = ack
         \/ output' = NoOutput /\ ack' = ack
  PROVE  ArmInv'
<1>1. node' \in Nodes
  BY DEF Restarts
<1> QED
  BY <1>1, NodeStep

(* A reset that is published as the gate begins to wait for its answer.    *)
LEMMA PublishStep ==
  ASSUME ArmInv, Quiet, NEW n \in Nodes, PublishReset(n), moved' = moved, solver' = solver,
         \/ Unbroken(node, n) /\ HandSeen(n, Broken) /\ Licensed(n)
         \/ Restarts(node, n),
         ResetSeen(n, moved, output, "none")
  PROVE  ArmInv'
<1>1. ArmTypeOK /\ Licensed(node) /\ HandSeen(node, Broken)
  BY DEF ArmInv, Broken
<1>2. node' = n /\ reset' = TRUE /\ ack' \in {"none", "old"}
      /\ output' = [output EXCEPT !.fresh = FALSE]
  BY DEF PublishReset
<1>3. held' \in SUBSET Watched /\ HandSeen(node', Broken')
  BY <1>2, WatchKeeps DEF Quiet
<1>4. Licensed(node')
  BY <1>2 DEF Restarts, Licensed
<1>5. output' \in Outputs /\ output'.stale = output.stale /\ output'.fresh = FALSE
      /\ output'.afterAck = output.afterAck
  BY <1>1, <1>2 DEF ArmTypeOK, Outputs
<1>6. ResetSeen(node', moved', output', ack')
  BY <1>2, <1>5 DEF ResetSeen
<1> QED
  BY <1>1, <1>2, <1>3, <1>4, <1>5, <1>6 DEF ArmInv, ArmTypeOK, Broken

---------------------------------------------------------------------------
(* The timer.                                                              *)

LEMMA SampledIsSafe ==
  ASSUME ArmInv
  PROVE  /\ Sampled \in Nodes /\ SameSeat(node, Sampled) /\ Unbroken(node, Sampled)
         /\ Sampled.homing = node.homing /\ Sampled.arms = node.arms /\ Sampled.body = node.body
         /\ Sampled.feedback = node.feedback
         /\ Licensed(Sampled) /\ HandSeen(Sampled, Broken)
         /\ ResetSeen(Sampled, moved, output, ack)
<1>1. /\ node \in Nodes /\ Licensed(node) /\ HandSeen(node, Broken)
      /\ ResetSeen(node, moved, output, ack)
  BY DEF ArmInv, ArmTypeOK, Broken
<1>2. CASE Sampled = node
  BY <1>1, <1>2 DEF SameSeat, Unbroken
<1>3. CASE Shut(node) /\ node.right # "none"
  <2> DEFINE pressed == node.right = "grip"
             released == node.released \/ (Shut(node) /\ ~pressed)
             gate == CASE node.gate = "wait_release" /\ ~pressed -> "wait_press"
                       [] node.gate = "wait_press" /\ pressed -> "ready"
                       [] OTHER -> node.gate
             m == [node EXCEPT !.released = released, !.gate = gate]
  <2>1. Sampled = m
    BY <1>3 DEF Sampled, ObserveClutch, Shut
  <2>2. released \in BOOLEAN /\ (released => node.released = TRUE \/ node.right = "idle")
    BY <1>1, <1>3 DEF Nodes, Hands
  <2>3. \/ gate = node.gate
        \/ node.gate = "wait_release" /\ gate = "wait_press" /\ node.right = "idle"
        \/ node.gate = "wait_press" /\ gate = "ready"
    BY <1>1, <1>3 DEF Nodes, Hands
  <2> HIDE DEF released, gate
  <2>4. gate \in Gates
    BY <1>1, <2>3 DEF Nodes, Gates
  <2>5. m \in Nodes /\ m.released = released /\ m.gate = gate
    BY <1>1, <2>2, <2>4 DEF Nodes
  <2>6. /\ SameSeat(node, m) /\ m.homing = node.homing /\ m.arms = node.arms /\ m.body = node.body
        /\ m.feedback = node.feedback
    BY <1>1 DEF SameSeat, Nodes
  <2> HIDE DEF m
  <2>7. Licensed(m) /\ Unbroken(node, m)
    BY <1>1, <2>6 DEF Licensed, Unbroken, SameSeat, OwnTurn
  <2>8. HandSeen(m, Broken)
    BY <1>1, <2>2, <2>3, <2>5, <2>6 DEF HandSeen, SameSeat, Closed
  <2>9. ResetSeen(m, moved, output, ack)
    BY <1>1, <2>3, <2>5, <2>6 DEF ResetSeen, SameSeat, Own
  <2> QED
    BY <2>1, <2>5, <2>6, <2>7, <2>8, <2>9
<1> QED
  BY <1>2, <1>3 DEF Sampled

(* What follows the reading of the clutch is judged from there.            *)
LEMMA SampledEasesStep ==
  ASSUME ArmInv, Quiet, Eases(Sampled, node'), SameMotion, solver' = solver,
         reset' \in BOOLEAN, output' = output, ack' = ack
  PROVE  ArmInv'
BY SampledIsSafe, EasesStep DEF Quiet

LEMMA SampledRestartsStep ==
  ASSUME ArmInv, Quiet, Restarts(Sampled, node'), SameMotion, solver' = solver,
         reset' \in BOOLEAN, output' = output, ack' = ack
  PROVE  ArmInv'
<1>1. Restarts(node, node')
  BY SampledIsSafe DEF Restarts, SameSeat
<1> QED
  BY <1>1, RestartsStep DEF Quiet

LEMMA NoResetKeeps ==
  ASSUME ArmInv, NEW n, NoReset(n)
  PROVE  node' = n /\ reset' \in BOOLEAN /\ output' = output /\ ack' = ack
BY DEF NoReset, ArmInv, ArmTypeOK

LEMMA EasesItself == ASSUME NEW n \in Nodes PROVE Eases(n, n)
BY DEF Eases, SameSeat

(* The gesture starts a homing, or is remembered.                          *)
LEMMA GestureMeans ==
  ASSUME NEW n \in Nodes, NEW left \in Hands, NEW sticks \in Sticks
  PROVE  LET g == Gesture(n, left, sticks)
         IN  /\ g \in Nodes /\ g.feedback = n.feedback /\ SameSeat(n, g)
             /\ \/ Eases(n, g) /\ g.homing = n.homing /\ g.gate = n.gate
                \/ Restarts(n, g) /\ g.homing = TRUE
<1> DEFINE g == Gesture(n, left, sticks)
           centred == sticks # "centred"
           l == [n EXCEPT !.latched = centred]
           h == [SetHomeTargets(n) EXCEPT !.latched = TRUE]
<1>1. centred \in BOOLEAN
  OBVIOUS
<1> HIDE DEF centred
<1>2. Eases(n, l) /\ l.homing = n.homing /\ l.gate = n.gate /\ l.feedback = n.feedback
  BY <1>1 DEF Eases, SameSeat, Nodes
<1>3. Restarts(n, h) /\ h.homing = TRUE /\ SameSeat(n, h) /\ h.feedback = n.feedback
  <2>1. /\ Restarts(n, SetHomeTargets(n)) /\ SameSeat(n, SetHomeTargets(n))
        /\ SetHomeTargets(n).homing = TRUE
    BY SetHomeRestarts
  <2>2. SetHomeTargets(n).feedback = n.feedback
    BY DEF SetHomeTargets, StartHoming, ReleaseAll, Nodes
  <2>3. ASSUME NEW m, Restarts(n, m)
        PROVE  LET k == [m EXCEPT !.latched = TRUE]
               IN  Restarts(n, k) /\ SameSeat(m, k) /\ k.homing = m.homing /\ k.feedback = m.feedback
    BY <2>3 DEF Restarts, SameSeat, Nodes
  <2> QED
    BY <2>1, <2>2, <2>3 DEF SameSeat
<1> HIDE DEF l, h
<1>4. g = n \/ g = l \/ g = h
  BY DEF Gesture, l, h, centred
<1>5. l \in Nodes /\ h \in Nodes
  BY <1>2, <1>3 DEF Eases, Restarts
<1> QED
  BY <1>2, <1>3, <1>4, <1>5, EasesItself DEF SameSeat, Eases

LEMMA TickElsewhereStep == ASSUME ArmInv, Quiet, TickElsewhere, UNCHANGED solver PROVE ArmInv'
BY SampledEasesStep, SampledIsSafe, EasesItself, NoResetKeeps, MotionKept DEF TickElsewhere

LEMMA TickUnreadyStep == ASSUME ArmInv, Quiet, TickUnready, UNCHANGED solver PROVE ArmInv'
<1>1. Eases(Sampled, Sampled) /\ Eases(Sampled, ReleaseAll(Sampled))
  BY SampledIsSafe, EasesItself, ReleaseAllEases
<1>2. node' = Sampled \/ node' = ReleaseAll(Sampled)
  BY NoResetKeeps DEF TickUnready
<1>3. Eases(Sampled, node')
  BY ONLY <1>1, <1>2
<1> QED
  BY <1>3, SampledEasesStep, NoResetKeeps, MotionKept DEF TickUnready

LEMMA TickBlindStep == ASSUME ArmInv, Quiet, TickBlind, UNCHANGED solver PROVE ArmInv'
<1>1. Restarts(Sampled, node')
  BY SampledIsSafe, ResetReferencesRestarts, NoResetKeeps DEF TickBlind
<1> QED
  BY <1>1, SampledRestartsStep, NoResetKeeps, MotionKept DEF TickBlind

LEMMA TickDisabledStep == ASSUME ArmInv, Quiet, TickDisabled, UNCHANGED solver PROVE ArmInv'
<1> DEFINE a == IF Sampled.homing THEN HomingComplete(Sampled) ELSE Sampled
           b == ReleaseAll(a)
<1>1. Sampled \in Nodes /\ Sampled.ready = TRUE
  BY SampledIsSafe DEF TickDisabled, Nodes
<1>2. Eases(Sampled, a)
  BY <1>1, HomingCompleteEases, EasesItself
<1>3. a \in Nodes
  BY <1>2 DEF Eases
<1>4. node' = [b EXCEPT !.homing = FALSE]
  BY NoResetKeeps DEF TickDisabled
<1> HIDE DEF a
<1>5. Eases(Sampled, b)
  BY <1>2, <1>3, ReleaseAllEases, EasesTwice
<1>6. b \in Nodes
  BY <1>5 DEF Eases
<1> HIDE DEF b
<1>7. Eases(Sampled, node')
  BY <1>4, <1>5, <1>6, StopHomingEases, EasesTwice
<1> QED
  BY <1>7, SampledEasesStep, NoResetKeeps, MotionKept DEF TickDisabled

LEMMA TickHomeStep ==
  ASSUME ArmInv, Quiet, UNCHANGED solver,
         NEW left \in Hands, NEW sticks \in Sticks, NEW done \in BOOLEAN, NEW check \in Checks,
         TickHome(Gesture(Sampled, left, sticks), done, check)
  PROVE  ArmInv'
<1> DEFINE g == Gesture(Sampled, left, sticks)
           h == IF done THEN HomingDone(g) ELSE g
<1>1. Sampled \in Nodes /\ Sampled.ready = TRUE
  BY SampledIsSafe DEF TickHome, Driving, Nodes
<1>2. /\ g \in Nodes /\ SameSeat(Sampled, g)
      /\ Eases(Sampled, g) \/ Restarts(Sampled, g)
  BY <1>1, GestureMeans
<1>3. node' = Checked(h, check) /\ CollisionReset(check)
      /\ moved' = (moved \/ (Allowed(check) /\ "home" \in Watched))
      /\ UNCHANGED <<ack, output>>
  BY DEF TickHome
<1> HIDE DEF g
<1>4. g.ready = TRUE
  BY <1>1, <1>2 DEF SameSeat
<1>5. Eases(g, h)
  BY <1>2, <1>4, HomingDoneEases, EasesItself
<1> HIDE DEF h
<1>6. h \in Nodes /\ h.ready = TRUE
  BY <1>4, <1>5 DEF Eases, SameSeat
<1>7. Eases(g, node')
  BY <1>3, <1>5, <1>6, CheckedEases, EasesTwice
<1>8. SameMotion /\ reset' \in BOOLEAN
  BY <1>3 DEF ArmInv, ArmTypeOK, CollisionReset, SameMotion, ForeignMotion
<1>9. CASE Eases(Sampled, g)
  BY <1>3, <1>7, <1>8, <1>9, EasesTwice, SampledEasesStep
<1>10. CASE Restarts(Sampled, g)
  BY <1>3, <1>7, <1>8, <1>10, RestartsThenEases, SampledRestartsStep
<1> QED
  BY <1>2, <1>9, <1>10

LEMMA WaistClutchEases ==
  ASSUME NEW n \in Nodes, NEW left \in Hands
  PROVE  LET m == WaistClutch(n, left)
         IN  Eases(n, m) /\ m.homing = n.homing /\ m.gate = n.gate
<1> DEFINE grip == left = "grip"
           rearm == n.waistRearm /\ ~(grip /\ ~n.prevLeft)
<1>1. grip \in BOOLEAN /\ rearm \in BOOLEAN
  BY DEF Nodes
<1>2. WaistClutch(n, left) = [n EXCEPT !.prevLeft = grip, !.waistRearm = rearm]
  BY DEF WaistClutch
<1> HIDE DEF grip, rearm
<1> QED
  BY <1>1, <1>2 DEF Eases, SameSeat, Nodes

LEMMA LatchedEases ==
  ASSUME NEW n \in Nodes, NEW base \in BOOLEAN, NEW arms \in BOOLEAN
  PROVE  LET m == Latched(n, base, arms)
         IN  Eases(n, m) /\ m.homing = n.homing /\ m.gate = n.gate
<1> DEFINE right == n.waitRight /\ arms
           left == n.waitLeft /\ base
           w == [n EXCEPT !.waitRight = right, !.waitLeft = left]
<1>1. right \in BOOLEAN /\ left \in BOOLEAN
  BY DEF Nodes
<1>2. Latched(n, base, arms) \in {n, w, ClearBlock(w)}
  BY DEF Latched
<1> HIDE DEF right, left
<1>3. w \in Nodes /\ Eases(n, w) /\ w.homing = n.homing /\ w.gate = n.gate
  BY <1>1 DEF Eases, SameSeat, Nodes
<1> HIDE DEF w
<1>4. /\ Eases(w, ClearBlock(w)) /\ ClearBlock(w).homing = w.homing
      /\ ClearBlock(w).gate = w.gate
  BY <1>3, ClearBlockEases DEF ClearBlock, Nodes
<1>5. Eases(n, ClearBlock(w))
  BY <1>3, <1>4, EasesTwice
<1> QED
  BY <1>2, <1>3, <1>4, <1>5, EasesItself

(* The Grips are followed by whom the clutch lets through.                 *)
FollowsGrip(n, c, m) ==
  /\ Eases(n, c) /\ c.homing = FALSE /\ c.gate = n.gate
  /\ \E body \in BOOLEAN, hands \in BOOLEAN :
       m = [c EXCEPT !.body = body, !.arms = hands] /\ (hands => n.gate = "ready")

LEMMA DrivenMeans ==
  ASSUME NEW n \in Nodes, NEW left \in Hands, NEW sticks \in Sticks,
         NEW m \in Driven(n, left, sticks)
  PROVE  \E c : FollowsGrip(n, c, m)
<1> DEFINE g == Gesture(n, left, sticks)
           w == WaistClutch(g, left)
           arms == g.right = "grip" /\ ~Shut(g)
           base == left = "grip" \/ (sticks # "centred" /\ (left # "none" \/ g.right # "none"))
           c == Latched(w, base, arms)
           bodies == {FALSE, left = "grip" /\ ~w.waistRearm /\ base /\ ~Holds(c, c.waitLeft)}
           follow == {FALSE, arms /\ ~Holds(c, c.waitRight)}
           Drive(body, hands) == [c EXCEPT !.body = body, !.arms = hands]
           drives == {Drive(body, hands) : body \in bodies, hands \in follow}
<1>1. Driven(n, left, sticks) = IF g.homing THEN {} ELSE drives
  BY DEF Driven
<1>2. /\ g \in Nodes
      /\ \/ Eases(n, g) /\ g.homing = n.homing /\ g.gate = n.gate
         \/ Restarts(n, g) /\ g.homing = TRUE
  BY GestureMeans
<1>3. base \in BOOLEAN /\ arms \in BOOLEAN /\ (arms => g.gate = "ready")
  BY DEF Shut
<1>4. bodies \subseteq BOOLEAN /\ \A hands \in follow : hands \in BOOLEAN /\ (hands => arms)
  OBVIOUS
<1> HIDE DEF g
<1>5. Eases(g, w) /\ w.homing = g.homing /\ w.gate = g.gate
  BY <1>2, WaistClutchEases
<1> HIDE DEF w, base, arms
<1>6. w \in Nodes
  BY <1>5 DEF Eases
<1>7. Eases(w, c) /\ c.homing = w.homing /\ c.gate = w.gate
  BY <1>3, <1>6, LatchedEases
<1> HIDE DEF c, bodies, follow
<1>8. g.homing = FALSE /\ m \in drives
  <2> HIDE DEF drives
  <2>1. g.homing # TRUE
    BY <1>1
  <2>2. g.homing = FALSE
    BY <1>2, <2>1 DEF Nodes
  <2> QED
    BY <1>1, <2>2
<1> HIDE DEF Drive
<1>9. PICK body \in bodies, hands \in follow : m = Drive(body, hands)
  BY <1>8
<1>10. Eases(n, g) /\ g.gate = n.gate
  BY <1>2, <1>8
<1>11. Eases(n, c) /\ c.homing = FALSE /\ c.gate = n.gate
  BY <1>5, <1>7, <1>8, <1>10, EasesTwice
<1>12. body \in BOOLEAN /\ hands \in BOOLEAN /\ (hands => n.gate = "ready")
  BY <1>3, <1>4, <1>10
<1> QED
  BY <1>9, <1>11, <1>12 DEF FollowsGrip, Drive

LEMMA TickDriveStep == ASSUME ArmInv, Quiet, TickDrive, UNCHANGED solver PROVE ArmInv'
<1> PICK left \in Hands, sticks \in Sticks : \E m \in Driven(Sampled, left, sticks) : NoReset(m)
  BY DEF TickDrive
<1> PICK m \in Driven(Sampled, left, sticks) : NoReset(m)
  OBVIOUS
<1>1. /\ Sampled \in Nodes /\ Unbroken(node, Sampled)
      /\ Licensed(Sampled) /\ HandSeen(Sampled, Broken) /\ ResetSeen(Sampled, moved, output, ack)
  BY SampledIsSafe
<1>2. OwnTurn(Sampled) /\ Sampled.ready = TRUE /\ Sampled.enabled = TRUE
  BY <1>1 DEF TickDrive, Driving, Nodes
<1> PICK c : FollowsGrip(Sampled, c, m)
  BY <1>1, DrivenMeans
<1> PICK body \in BOOLEAN, arms \in BOOLEAN :
       m = [c EXCEPT !.body = body, !.arms = arms] /\ (arms => Sampled.gate = "ready")
  BY DEF FollowsGrip
<1>0. Eases(Sampled, c) /\ c.homing = FALSE /\ c.gate = Sampled.gate
  BY DEF FollowsGrip
<1>3. moved \in BOOLEAN /\ output \in Outputs /\ Broken \in BOOLEAN
  BY DEF ArmInv, ArmTypeOK, Broken
<1>4. HandSeen(c, Broken) /\ ResetSeen(c, moved, output, ack)
  BY <1>0, <1>1, <1>3, EasesIsSafe
<1>5. c \in Nodes /\ OwnTurn(c) /\ c.ready = TRUE /\ c.enabled = TRUE
  BY <1>0, <1>2 DEF Eases, SameSeat, OwnTurn
<1>6. m \in Nodes /\ m.arms = arms
  BY <1>5 DEF Nodes
<1>7. /\ SameSeat(c, m) /\ m.homing = c.homing /\ m.gate = c.gate /\ m.released = c.released
  BY <1>5 DEF SameSeat, Nodes
<1>8. Licensed(m)
  BY <1>0, <1>5, <1>7 DEF Licensed, SameSeat, OwnTurn
<1>9. HandSeen(m, Broken)
  BY <1>0, <1>4, <1>5, <1>6, <1>7 DEF HandSeen, SameSeat, OwnTurn
<1>10. ResetSeen(m, moved, output, ack)
  BY <1>4, <1>7 DEF ResetSeen, SameSeat, Own
<1>11. Unbroken(node, m)
  BY <1>0, <1>1, <1>7 DEF Unbroken, SameSeat, Eases
<1> QED
  BY <1>6, <1>8, <1>9, <1>10, <1>11, NodeStep, NoResetKeeps, MotionKept
  DEF Quiet, TickDrive

LEMMA ControlTickStep == ASSUME ArmInv, ControlTick PROVE ArmInv'
<1>1. Quiet /\ UNCHANGED solver
  BY DEF ControlTick
<1>2. CASE TickElsewhere \/ TickUnready \/ TickBlind \/ TickDisabled \/ TickDrive
  BY <1>1, <1>2, TickElsewhereStep, TickUnreadyStep, TickBlindStep, TickDisabledStep,
     TickDriveStep
<1>3. ASSUME NEW g \in Gestured(Sampled), NEW done \in BOOLEAN, NEW check \in Checks,
             TickHome(g, done, check)
      PROVE  ArmInv'
  <2> PICK left \in Hands, sticks \in Sticks : g = Gesture(Sampled, left, sticks)
    BY DEF Gestured
  <2> QED
    BY <1>1, <1>3, TickHomeStep
<1> QED
  BY <1>2, <1>3 DEF ControlTick

---------------------------------------------------------------------------
(* The other callbacks.                                                    *)

LEMMA NodeIsSafe ==
  ASSUME ArmInv
  PROVE  /\ node \in Nodes /\ Licensed(node) /\ HandSeen(node, Broken)
         /\ ResetSeen(node, moved, output, ack)
         /\ moved \in BOOLEAN /\ output \in Outputs /\ Broken \in BOOLEAN /\ reset \in BOOLEAN
BY DEF ArmInv, ArmTypeOK, Broken

(* A callback that gives up what was driven, or starts all over.           *)
LEMMA EasingStep ==
  ASSUME ArmInv, Quiet, NEW n, NoReset(n), Eases(node, n), UNCHANGED <<moved, solver>>
  PROVE  ArmInv'
<1>1. Unbroken(node, node)
  BY DEF Unbroken
<1> QED
  BY <1>1, NodeIsSafe, EasesStep, NoResetKeeps, MotionKept DEF Quiet

LEMMA RestartingStep ==
  ASSUME ArmInv, Quiet, NEW n, NoReset(n), Restarts(node, n), UNCHANGED <<moved, solver>>
  PROVE  ArmInv'
BY RestartsStep, NoResetKeeps, MotionKept DEF Quiet

LEMMA HandStep == ASSUME ArmInv, NEW hand \in Hands, Hand(hand) PROVE ArmInv'
<1>1. /\ node' = [node EXCEPT !.right = hand] /\ reset' \in BOOLEAN /\ output' = output
      /\ ack' = ack /\ moved' = moved /\ solver' = solver /\ Quiet
  BY NoResetKeeps DEF Hand
<1>2. node' \in Nodes /\ node'.right = hand
  BY <1>1, NodeIsSafe DEF Nodes
<1>3. /\ node'.enabled = node.enabled /\ node'.source = node.source /\ node'.ready = node.ready
      /\ node'.pending = node.pending /\ node'.initialDone = node.initialDone
      /\ node'.homing = node.homing /\ node'.gate = node.gate
      /\ node'.released = node.released /\ node'.arms = node.arms /\ node'.body = node.body
  BY <1>1, NodeIsSafe DEF Nodes
<1>4. ~Break
  BY <1>3, NodeIsSafe DEF Break, Nodes
<1>5. held' \in SUBSET Watched /\ (hand = "idle" => ~Broken') /\ (Broken' => Broken)
  BY <1>1, <1>2, <1>4 DEF Quiet, Watch, Broken, ArmInv, ArmTypeOK
<1>6. Licensed(node') /\ HandSeen(node', Broken')
  BY <1>2, <1>3, <1>5, NodeIsSafe DEF Licensed, HandSeen, OwnTurn
<1>7. ResetSeen(node', moved', output', ack')
  BY <1>1, <1>3, NodeIsSafe DEF ResetSeen, Own
<1> QED
  BY <1>1, <1>2, <1>5, <1>6, <1>7 DEF ArmInv, ArmTypeOK, Broken

(* The first homing.                                                       *)
LEMMA InitialHomingMeans ==
  ASSUME NEW n \in Nodes, NEW off \in BOOLEAN
  PROVE  LET c == CheckInitialHoming(n, off)
         IN  \/ c = n
             \/ /\ n.initialDone = FALSE /\ c = [n EXCEPT !.initialDone = TRUE]
             \/ Restarts(n, c) /\ c.gate = "homing"
<1> DEFINE d == [n EXCEPT !.initialDone = TRUE]
<1>1. d \in Nodes /\ d.initialDone = TRUE /\ d.right = n.right
  BY DEF Nodes
<1>2. Restarts(d, SetHomeTargets(d)) /\ SetHomeTargets(d).gate = "homing"
  BY <1>1, SetHomeRestarts
<1>3. Restarts(n, SetHomeTargets(d))
  BY <1>1, <1>2 DEF Restarts
<1>4. CheckInitialHoming(n, off) = n \/ n.initialDone = FALSE
  BY DEF CheckInitialHoming, Nodes
<1> QED
  BY <1>2, <1>3, <1>4 DEF CheckInitialHoming

LEMMA DoneIsSafe ==
  ASSUME NEW n \in Nodes, NEW b, NEW mv, NEW out, NEW answer, n.initialDone = FALSE,
         n.ready = TRUE, Licensed(n), HandSeen(n, b), ResetSeen(n, mv, out, answer)
  PROVE  LET c == [n EXCEPT !.initialDone = TRUE]
         IN  /\ c \in Nodes /\ Licensed(c) /\ HandSeen(c, b) /\ ResetSeen(c, mv, out, answer)
             /\ Unbroken(n, c) /\ c.gate = n.gate /\ c.pending = n.pending /\ c.ready = TRUE
<1> DEFINE c == [n EXCEPT !.initialDone = TRUE]
<1>1. /\ c \in Nodes
      /\ c.enabled = n.enabled /\ c.source = n.source /\ c.ready = n.ready
      /\ c.pending = n.pending /\ c.homing = n.homing /\ c.gate = n.gate
      /\ c.released = n.released /\ c.arms = n.arms /\ c.body = n.body /\ c.right = n.right
      /\ c.initialDone = TRUE
  BY DEF Nodes
<1> HIDE DEF c
<1>2. Licensed(c) /\ HandSeen(c, b) /\ Unbroken(n, c)
  BY <1>1 DEF Licensed, HandSeen, Unbroken, OwnTurn
<1>3. ResetSeen(c, mv, out, answer)
  BY <1>1 DEF ResetSeen, Own
<1>4. c = [n EXCEPT !.initialDone = TRUE]
  BY DEF c
<1> QED
  BY <1>1, <1>2, <1>3, <1>4

LEMMA InitialHomingIsSafe ==
  ASSUME NEW n \in Nodes, NEW off \in BOOLEAN, NEW b, NEW mv \in BOOLEAN, NEW out \in Outputs,
         NEW answer, n.ready = TRUE, Licensed(n), HandSeen(n, b), ResetSeen(n, mv, out, answer),
         Unbroken(node, n), n.initialDone = node.initialDone, n.right = node.right
  PROVE  LET c == CheckInitialHoming(n, off)
         IN  /\ c \in Nodes /\ ResetSeen(c, mv, out, answer)
             /\ \/ /\ Unbroken(node, c) /\ Licensed(c) /\ HandSeen(c, b)
                   /\ c.pending = n.pending /\ c.ready = TRUE
                \/ Restarts(node, c) /\ c.gate = "homing"
<1> DEFINE c == CheckInitialHoming(n, off)
           d == [n EXCEPT !.initialDone = TRUE]
<1>1. c = n \/ (n.initialDone = FALSE /\ c = d) \/ (Restarts(n, c) /\ c.gate = "homing")
  BY InitialHomingMeans
<1>2. CASE c = n
  BY <1>2
<1>3. CASE n.initialDone = FALSE /\ c = d
  <2>1. /\ d \in Nodes /\ Licensed(d) /\ HandSeen(d, b) /\ ResetSeen(d, mv, out, answer)
        /\ Unbroken(n, d) /\ d.pending = n.pending /\ d.ready = TRUE
    BY <1>3, DoneIsSafe
  <2> HIDE DEF d
  <2>2. Unbroken(node, d)
    BY <2>1 DEF Unbroken
  <2> QED
    BY <1>3, <2>1, <2>2
<1>4. CASE Restarts(n, c) /\ c.gate = "homing"
  <2> HIDE DEF c
  <2>1. Restarts(node, c)
    BY <1>4 DEF Restarts
  <2>2. ResetSeen(c, mv, out, answer)
    BY <1>4 DEF Restarts, ResetSeen, Own
  <2>3. c \in Nodes
    BY <1>4 DEF Restarts
  <2> QED
    BY <1>4, <2>1, <2>2, <2>3 DEF c
<1> QED
  BY <1>1, <1>2, <1>3, <1>4

(* What is not a restart, and publishes nothing.                           *)
LEMMA SafeStep ==
  ASSUME ArmInv, Quiet, NEW n \in Nodes, NoReset(n), UNCHANGED <<moved, solver>>,
         \/ /\ Unbroken(node, n) /\ HandSeen(n, Broken) /\ Licensed(n)
            /\ ResetSeen(n, moved, output, ack)
         \/ Restarts(node, n)
  PROVE  ArmInv'
BY NodeStep, NoResetKeeps, MotionKept DEF Quiet

LEMMA JointStateStep ==
  ASSUME ArmInv, NEW late \in BOOLEAN, NEW off \in BOOLEAN, JointState(late, off) PROVE ArmInv'
<1> DEFINE pending == node.pending /\ ~Anchors(late)
           f == [node EXCEPT !.feedback = "fresh", !.pending = pending]
           c == IF f.ready /\ f.source = "vr" THEN CheckInitialHoming(f, off) ELSE f
           n == [c EXCEPT !.gate = "wait_ack"]
<1>1. /\ Quiet /\ UNCHANGED <<moved, solver>>
      /\ IF ~f.pending /\ c.gate = "wait_feedback" THEN PublishReset(n)
         ELSE NoReset(IF f.pending THEN f ELSE c)
  BY DEF JointState
<1>2. /\ pending \in BOOLEAN /\ (pending => node.pending = TRUE)
      /\ node.ready = FALSE => (node.pending = TRUE => pending = TRUE)
  BY NodeIsSafe DEF Anchors, Nodes
<1> HIDE DEF pending
<1>3. /\ f \in Nodes /\ f.pending = pending
      /\ f.enabled = node.enabled /\ f.source = node.source /\ f.ready = node.ready
      /\ f.homing = node.homing /\ f.gate = node.gate /\ f.initialDone = node.initialDone
      /\ f.released = node.released /\ f.arms = node.arms /\ f.body = node.body
      /\ f.right = node.right
  BY <1>2, NodeIsSafe DEF Nodes
<1> HIDE DEF f
<1>4. /\ Unbroken(node, f) /\ Licensed(f) /\ HandSeen(f, Broken)
      /\ ResetSeen(f, moved, output, ack)
  <2>1. Unbroken(node, f)
    BY <1>2, <1>3, NodeIsSafe DEF Unbroken, Nodes
  <2>2. Licensed(f)
    BY <1>2, <1>3, NodeIsSafe DEF Licensed, OwnTurn, Nodes
  <2>3. HandSeen(f, Broken)
    BY <1>3, NodeIsSafe DEF HandSeen
  <2>4. ResetSeen(f, moved, output, ack)
    BY <1>2, <1>3, NodeIsSafe DEF ResetSeen, Own
  <2> QED
    BY <2>1, <2>2, <2>3, <2>4
<1>5. /\ c \in Nodes /\ ResetSeen(c, moved, output, ack)
      /\ \/ /\ Unbroken(node, c) /\ Licensed(c) /\ HandSeen(c, Broken)
            /\ c.pending = f.pending
         \/ Restarts(node, c) /\ c.gate = "homing"
  <2>1. CASE f.ready /\ f.source = "vr"
    <3>1. f.ready = TRUE
      BY <1>3, <2>1 DEF Nodes
    <3> QED
      BY <1>3, <1>4, <2>1, <3>1, NodeIsSafe, InitialHomingIsSafe
  <2>2. CASE ~(f.ready /\ f.source = "vr")
    BY <1>3, <1>4, <2>2
  <2> QED
    BY <2>1, <2>2
<1> HIDE DEF c
<1>6. CASE ~f.pending /\ c.gate = "wait_feedback"
  <2>1. PublishReset(n) /\ c.pending = FALSE
    BY <1>1, <1>3, <1>5, <1>6 DEF Nodes
  <2>2. Unbroken(node, c) /\ Licensed(c) /\ HandSeen(c, Broken)
    BY <1>5, <1>6
  <2>3. /\ n \in Nodes /\ SameSeat(c, n) /\ n.gate = "wait_ack" /\ n.homing = c.homing
        /\ n.released = c.released /\ n.arms = c.arms /\ n.body = c.body
    BY <1>5 DEF SameSeat, Nodes, Gates
  <2> HIDE DEF n
  <2>4. Unbroken(node, n) /\ Licensed(n)
    BY <2>2, <2>3 DEF Unbroken, Licensed, SameSeat, OwnTurn
  <2>5. HandSeen(n, Broken)
    BY <1>6, <2>2, <2>3 DEF HandSeen, SameSeat, Closed
  <2>6. ResetSeen(n, moved, output, "none")
    BY <1>5, <1>6, <2>1, <2>3 DEF ResetSeen, SameSeat, Own
  <2> QED
    BY <1>1, <2>1, <2>3, <2>4, <2>5, <2>6, PublishStep
<1>7. CASE ~(~f.pending /\ c.gate = "wait_feedback")
  <2>1. NoReset(f) \/ NoReset(c)
    BY <1>1, <1>7
  <2> QED
    BY <1>1, <1>3, <1>4, <1>5, <2>1, SafeStep
<1> QED
  BY <1>6, <1>7

LEMMA HardwareLostStep == ASSUME ArmInv, HardwareLost PROVE ArmInv'
<1> DEFINE r == [node EXCEPT !.ready = FALSE]
           m == IF r.arms \/ r.body THEN ReleaseAll(r) ELSE r
<1>1. Quiet /\ UNCHANGED <<moved, solver>> /\ NoReset(StartHoming(m))
  BY DEF HardwareLost
<1>2. r \in Nodes /\ r.initialDone = node.initialDone /\ r.right = node.right
  BY NodeIsSafe DEF Nodes
<1> HIDE DEF r
<1>3. Eases(r, m) /\ m.arms = FALSE /\ m.body = FALSE
  BY <1>2, ReleaseAllEases, EasesItself DEF Nodes
<1> HIDE DEF m
<1>4. Restarts(r, StartHoming(m))
  BY <1>2, <1>3, StartHomingRestarts
<1>5. Restarts(node, StartHoming(m))
  BY <1>2, <1>4 DEF Restarts
<1> QED
  BY <1>1, <1>5, RestartingStep

LEMMA HardwareBackStep == ASSUME ArmInv, NEW off \in BOOLEAN, HardwareBack(off) PROVE ArmInv'
<1> DEFINE r == [node EXCEPT !.ready = TRUE]
           h == HomingComplete(ReleaseAll(r))
           k == [h EXCEPT !.gate = "wait_ack"]
           resets == h.gate = "wait_feedback" /\ h.feedback # "never"
<1>1. /\ node.ready = FALSE /\ Quiet /\ UNCHANGED <<moved, solver>>
      /\ \/ NoReset(r) \/ NoReset(HomingComplete(r))
         \/ resets /\ PublishReset(CheckInitialHoming(k, off))
         \/ NoReset(CheckInitialHoming(h, off))
  BY NodeIsSafe DEF HardwareBack, Nodes
<1>2. /\ r \in Nodes /\ r.ready = TRUE
      /\ r.enabled = node.enabled /\ r.source = node.source /\ r.pending = node.pending
      /\ r.homing = node.homing /\ r.gate = node.gate /\ r.initialDone = node.initialDone
      /\ r.released = node.released /\ r.arms = node.arms /\ r.body = node.body
      /\ r.right = node.right
  BY NodeIsSafe DEF Nodes
<1> HIDE DEF r
<1>3. /\ Unbroken(node, r) /\ Licensed(r) /\ HandSeen(r, Broken)
      /\ ResetSeen(r, moved, output, ack)
  <2>1. Unbroken(node, r)
    BY <1>2 DEF Unbroken
  <2>2. node.arms = FALSE /\ node.body = FALSE
    BY <1>1, NodeIsSafe DEF Licensed, Nodes
  <2>3. Licensed(r) /\ HandSeen(r, Broken)
    BY <1>2, <2>2, NodeIsSafe DEF Licensed, HandSeen
  <2>4. ResetSeen(r, moved, output, ack)
    BY <1>1, <1>2, NodeIsSafe DEF ResetSeen, Own, Nodes
  <2> QED
    BY <2>1, <2>3, <2>4
<1>4. Eases(r, HomingComplete(r)) /\ Eases(r, r)
  BY <1>2, HomingCompleteEases, EasesItself
<1>5. Eases(r, h)
  <2>1. Eases(r, ReleaseAll(r))
    BY <1>2, ReleaseAllEases
  <2>2. ReleaseAll(r) \in Nodes /\ ReleaseAll(r).ready = TRUE
    BY <1>2, <2>1 DEF Eases, SameSeat
  <2> QED
    BY <2>1, <2>2, HomingCompleteEases, EasesTwice
<1> HIDE DEF h
<1>6. /\ h \in Nodes /\ h.ready = TRUE /\ h.initialDone = node.initialDone
      /\ h.right = node.right /\ Unbroken(node, h)
  BY <1>2, <1>3, <1>5 DEF Eases, SameSeat, Unbroken
<1>7. Licensed(h) /\ HandSeen(h, Broken) /\ ResetSeen(h, moved, output, ack)
  BY <1>3, <1>5, NodeIsSafe, EasesIsSafe
<1>8. CASE NoReset(r) \/ NoReset(HomingComplete(r))
  <2>1. Eases(r, node') /\ reset' \in BOOLEAN /\ output' = output /\ ack' = ack
    BY <1>4, <1>8, NoResetKeeps
  <2> QED
    BY <1>1, <1>3, <2>1, EasesStep, MotionKept DEF Quiet
<1>9. CASE NoReset(CheckInitialHoming(h, off))
  <2> DEFINE c == CheckInitialHoming(h, off)
  <2>1. /\ c \in Nodes /\ ResetSeen(c, moved, output, ack)
        /\ \/ Unbroken(node, c) /\ Licensed(c) /\ HandSeen(c, Broken)
           \/ Restarts(node, c)
    BY <1>6, <1>7, NodeIsSafe, InitialHomingIsSafe
  <2> HIDE DEF c
  <2>2. NoReset(c)
    BY <1>9 DEF c
  <2> QED
    BY <1>1, <2>1, <2>2, SafeStep
<1>10. CASE resets /\ PublishReset(CheckInitialHoming(k, off))
  <2> DEFINE c == CheckInitialHoming(k, off)
  <2>1. /\ k \in Nodes /\ SameSeat(h, k) /\ k.gate = "wait_ack" /\ k.homing = h.homing
        /\ k.released = h.released /\ k.arms = h.arms /\ k.body = h.body
    BY <1>6 DEF SameSeat, Nodes, Gates
  <2> HIDE DEF k
  <2>2. Unbroken(node, k) /\ Licensed(k)
    BY <1>6, <1>7, <2>1 DEF Unbroken, Licensed, SameSeat, OwnTurn
  <2>3. HandSeen(k, Broken)
    BY <1>7, <1>10, <2>1 DEF HandSeen, SameSeat, Closed
  <2>4. ResetSeen(k, moved, output, "none")
    BY <1>6, <1>7, <2>1 DEF ResetSeen, SameSeat, Own
  <2>5. k.ready = TRUE /\ k.initialDone = node.initialDone /\ k.right = node.right
    BY <1>6, <2>1 DEF SameSeat
  <2>6. /\ c \in Nodes /\ ResetSeen(c, moved, output, "none")
        /\ \/ Unbroken(node, c) /\ Licensed(c) /\ HandSeen(c, Broken)
           \/ Restarts(node, c)
    BY <2>1, <2>2, <2>3, <2>4, <2>5, NodeIsSafe, InitialHomingIsSafe
  <2> HIDE DEF c
  <2>7. PublishReset(c)
    BY <1>10 DEF c
  <2> QED
    BY <1>1, <2>6, <2>7, PublishStep
<1> QED
  BY <1>1, <1>8, <1>9, <1>10

LEMMA CommandStep == ASSUME ArmInv, NEW check \in Checks, Command(check) PROVE ArmInv'
<1> DEFINE n == ObserveOutput(node, output.fresh)
           moves == ArmsFollow(n) \/ n.body
<1>1. output' = NoOutput /\ UNCHANGED <<ack, moved, solver>>
  BY DEF Command
<1>2. CASE node' = node /\ UNCHANGED reset /\ Quiet
  <2>1. Unbroken(node, node)
    BY DEF Unbroken
  <2> QED
    BY <1>1, <1>2, <2>1, NodeIsSafe, NodeStep, MotionKept DEF Quiet
<1>3. CASE node' = ResetReferences(node) /\ UNCHANGED reset /\ Quiet
  <2>1. Restarts(node, node')
    BY <1>3, NodeIsSafe, ResetReferencesRestarts
  <2> QED
    BY <1>1, <1>3, <2>1, NodeIsSafe, RestartsStep, MotionKept DEF Quiet
<1>4. CASE /\ Listens(node) /\ node' = IF moves THEN Checked(n, check) ELSE n
           /\ IF moves THEN CollisionReset(check) ELSE UNCHANGED reset
           /\ Watch(moves /\ check = "entering" /\ n.arms)
  <2> DEFINE hit == moves /\ check = "entering" /\ n.arms
  <2>1. OwnTurn(node) /\ node.ready = TRUE /\ node.enabled = TRUE
    BY <1>4, NodeIsSafe DEF Listens, Nodes
  <2>2. /\ n \in Nodes /\ SameSeat(node, n) /\ n.homing = node.homing
        /\ n.released = node.released /\ n.arms = node.arms /\ n.body = node.body
        /\ \/ n.gate = node.gate
           \/ /\ node.gate = "wait_solver" /\ output.fresh = TRUE
              /\ \/ n.gate = "wait_press" /\ node.released = TRUE
                 \/ n.gate = "wait_release"
    <3>1. output.fresh \in BOOLEAN /\ node \in Nodes
      BY NodeIsSafe DEF Outputs
    <3>2. CASE n = node
      BY <3>1, <3>2 DEF SameSeat
    <3>3. CASE node.gate = "wait_solver" /\ output.fresh = TRUE
      <4> DEFINE gate == IF node.released THEN "wait_press" ELSE "wait_release"
      <4>1. n = [node EXCEPT !.gate = gate]
        BY <3>3 DEF ObserveOutput
      <4>2. /\ gate \in Gates
            /\ (gate = "wait_press" /\ node.released = TRUE) \/ gate = "wait_release"
        BY <3>1 DEF Gates, Nodes
      <4> HIDE DEF gate, n
      <4> QED
        BY <3>1, <3>3, <4>1, <4>2 DEF SameSeat, Nodes
    <3> QED
      BY <3>1, <3>2, <3>3 DEF ObserveOutput
  <2>3. hit \in BOOLEAN /\ moves \in BOOLEAN /\ Watch(hit)
    BY <1>4, <2>2 DEF Nodes
  <2> HIDE DEF n, moves, hit
  <2>4. Unbroken(node, n) /\ Licensed(n)
    BY <2>2, NodeIsSafe DEF Unbroken, Licensed, SameSeat, OwnTurn
  <2>5. HandSeen(n, Broken)
    BY <2>1, <2>2, NodeIsSafe DEF HandSeen, SameSeat, OwnTurn, Closed
  <2>6. ResetSeen(n, moved, output, ack)
    BY <2>1, <2>2, NodeIsSafe DEF ResetSeen, SameSeat, Own, OwnTurn
  <2>7. Eases(n, node')
    BY <1>4, <2>1, <2>2, CheckedEases, EasesItself DEF SameSeat
  <2>8. reset' \in BOOLEAN
    BY <1>4, NodeIsSafe DEF CollisionReset
  <2> QED
    BY <1>1, <2>3, <2>4, <2>5, <2>6, <2>7, <2>8, EasesStep, MotionKept
<1> QED
  BY <1>2, <1>3, <1>4 DEF Command

LEMMA TakeAckStep == ASSUME ArmInv, TakeAck PROVE ArmInv'
<1> DEFINE taken == node.gate = "wait_ack" /\ ack = "new"
<1>1. /\ ack' = "none" /\ Quiet /\ UNCHANGED <<moved, reset, solver>>
      /\ node' = IF taken THEN [node EXCEPT !.gate = "wait_solver"] ELSE node
      /\ output' = IF taken THEN [output EXCEPT !.fresh = @ /\ output.afterAck] ELSE output
  BY DEF TakeAck
<1>2. /\ node' \in Nodes /\ SameSeat(node, node') /\ node'.homing = node.homing
      /\ node'.released = node.released /\ node'.arms = node.arms /\ node'.body = node.body
      /\ node'.gate = IF taken THEN "wait_solver" ELSE node.gate
  BY <1>1, NodeIsSafe DEF SameSeat, Nodes, Gates
<1>3. /\ output' \in Outputs /\ output'.stale = output.stale
      /\ output'.afterAck = output.afterAck
      /\ taken => (output'.fresh = TRUE => output.afterAck = TRUE)
      /\ ~taken => output' = output
  <2>1. CASE taken
    <3> DEFINE fresh == output.fresh /\ output.afterAck
    <3>1. fresh \in BOOLEAN /\ (fresh => output.afterAck = TRUE)
      BY NodeIsSafe DEF Outputs
    <3>2. output' = [output EXCEPT !.fresh = fresh]
      BY <1>1, <2>1
    <3> HIDE DEF fresh
    <3> QED
      BY <2>1, <3>1, <3>2, NodeIsSafe DEF Outputs
  <2>2. CASE ~taken
    BY <1>1, <2>2, NodeIsSafe
  <2> QED
    BY <2>1, <2>2
<1>4. Unbroken(node, node') /\ Licensed(node')
  BY <1>2, NodeIsSafe DEF Unbroken, Licensed, SameSeat, OwnTurn
<1>5. HandSeen(node', Broken)
  BY <1>2, NodeIsSafe DEF HandSeen, SameSeat, Closed
<1>6. held' \in SUBSET Watched /\ HandSeen(node', Broken')
  BY <1>1, <1>2, <1>4, <1>5, WatchKeeps DEF Quiet
<1>7. ResetSeen(node', moved', output', ack')
  <2>1. CASE taken
    <3>1. /\ moved' = moved /\ node'.gate = "wait_solver"
          /\ node'.enabled = node.enabled /\ node'.source = node.source
          /\ node'.ready = node.ready /\ node'.initialDone = node.initialDone
      BY <1>1, <1>2, <2>1 DEF SameSeat
    <3>2. output'.fresh = TRUE => output.afterAck = TRUE
      BY <1>3, <2>1
    <3>3. node.gate = "wait_ack" /\ ack = "new" /\ output'.stale = output.stale
      BY <1>3, <2>1
    <3> HIDE DEF taken
    <3> QED
      BY <3>1, <3>2, <3>3, NodeIsSafe DEF ResetSeen, Own
  <2>2. CASE ~taken
    BY <1>1, <1>2, <1>3, <2>2, NodeIsSafe DEF ResetSeen, SameSeat, Own
  <2> QED
    BY <2>1, <2>2
<1> QED
  BY <1>1, <1>2, <1>3, <1>4, <1>6, <1>7 DEF ArmInv, ArmTypeOK, Broken

LEMMA ControlSourceStep ==
  ASSUME ArmInv, NEW s \in ControlSources, ControlSource(s) PROVE ArmInv'
<1> DEFINE x == [node EXCEPT !.source = s]
<1>1. Quiet /\ UNCHANGED <<moved, solver>> /\ NoReset(ResetReferences(x))
  BY DEF ControlSource
<1>2. x \in Nodes /\ x.initialDone = node.initialDone
  BY NodeIsSafe DEF Nodes
<1> HIDE DEF x
<1>3. Restarts(node, ResetReferences(x))
  BY <1>2, ResetReferencesRestarts DEF Restarts
<1> QED
  BY <1>1, <1>3, RestartingStep

LEMMA DisableStep == ASSUME ArmInv, Disable PROVE ArmInv'
<1> DEFINE x == [node EXCEPT !.enabled = FALSE]
           y == ReleaseAll(x)
<1>1. Quiet /\ UNCHANGED <<moved, solver>> /\ NoReset(y)
  BY DEF Disable
<1>2. /\ x \in Nodes /\ x.enabled = FALSE /\ x.source = node.source /\ x.ready = node.ready
      /\ x.pending = node.pending /\ x.homing = node.homing /\ x.gate = node.gate
      /\ x.initialDone = node.initialDone /\ x.released = node.released /\ x.right = node.right
  BY NodeIsSafe DEF Nodes
<1> HIDE DEF x
<1>3. Eases(x, y) /\ y.arms = FALSE /\ y.body = FALSE /\ y.homing = x.homing /\ y.gate = x.gate
  BY <1>2, ReleaseAllEases
<1> HIDE DEF y
<1>4. y \in Nodes /\ Unbroken(node, y) /\ Licensed(y)
  BY <1>2, <1>3 DEF Eases, SameSeat, Unbroken, Licensed
<1>5. HandSeen(y, Broken)
  BY <1>2, <1>3, NodeIsSafe DEF Eases, SameSeat, HandSeen
<1>6. ResetSeen(y, moved, output, ack)
  BY <1>2, <1>3, NodeIsSafe DEF Eases, SameSeat, ResetSeen, Own
<1> QED
  BY <1>1, <1>4, <1>5, <1>6, SafeStep

(* Enabling the node while another source has the robot breaks, and leaves the *)
(* gate closed.                                                            *)
LEMMA ResumeStep == ASSUME ArmInv, Resume PROVE ArmInv'
<1> PICK grip \in BOOLEAN : NoReset(Resumed(node, grip))
  BY DEF Resume
<1> DEFINE again == node.source = "vr" /\ (~node.enabled \/ ~node.homing)
           x == ResetReferences(node)
           done == x.initialDone \/ ~node.enabled
           r == IF again THEN [x EXCEPT !.initialDone = done, !.latched = TRUE] ELSE node
           y == [r EXCEPT !.enabled = TRUE, !.body = FALSE, !.waistRearm = TRUE,
                          !.prevLeft = grip]
<1>1. Quiet /\ UNCHANGED <<moved, solver>>
  BY DEF Resume
<1>2. CASE again
  <2>1. /\ Restarts(node, x) /\ x.pending = TRUE /\ x.right = "none"
        /\ x.initialDone = node.initialDone
    BY NodeIsSafe, ResetReferencesRestarts
  <2>2. done \in BOOLEAN /\ (node.initialDone = TRUE => done = TRUE)
    BY <2>1
  <2> DEFINE z == [x EXCEPT !.initialDone = done, !.latched = TRUE]
  <2>3. y = [z EXCEPT !.enabled = TRUE, !.body = FALSE, !.waistRearm = TRUE, !.prevLeft = grip]
    BY <1>2
  <2>4. Resumed(node, grip) = y
    BY <1>2 DEF Resumed
  <2> HIDE DEF x, done, y, r
  <2>5. x \in Nodes
    BY <2>1 DEF Restarts
  <2>6. /\ y \in Nodes /\ y.initialDone = done /\ y.arms = x.arms /\ y.body = FALSE
        /\ y.released = x.released /\ y.gate = x.gate /\ y.pending = x.pending
        /\ y.ready = x.ready /\ y.right = x.right
    <3>1. /\ z \in Nodes /\ z.initialDone = done /\ z.arms = x.arms
          /\ z.released = x.released /\ z.gate = x.gate /\ z.pending = x.pending
          /\ z.ready = x.ready /\ z.right = x.right
      BY <2>2, <2>5 DEF Nodes
    <3> HIDE DEF z
    <3> QED
      BY <2>3, <3>1 DEF Nodes
  <2>7. Restarts(node, y)
    BY <2>1, <2>2, <2>6 DEF Restarts
  <2> QED
    BY <1>1, <2>4, <2>7, RestartingStep
<1>3. CASE ~again
  <2>1. /\ y = [node EXCEPT !.enabled = TRUE, !.body = FALSE, !.waistRearm = TRUE,
                            !.prevLeft = grip]
        /\ Resumed(node, grip) = y
    BY <1>3 DEF Resumed
  <2> HIDE DEF y, r
  <2>2. /\ y \in Nodes /\ y.enabled = TRUE /\ y.source = node.source /\ y.ready = node.ready
        /\ y.pending = node.pending /\ y.homing = node.homing /\ y.gate = node.gate
        /\ y.initialDone = node.initialDone /\ y.released = node.released
        /\ y.arms = node.arms /\ y.body = FALSE /\ y.right = node.right
    BY <2>1, NodeIsSafe DEF Nodes
  <2>3. CASE node.source = "vr"
    <3>1. node.enabled = TRUE
      BY <1>3, <2>3, NodeIsSafe DEF Nodes
    <3>2. Eases(node, y)
      BY <2>2, <3>1 DEF Eases, SameSeat
    <3> QED
      BY <1>1, <2>1, <3>2, EasingStep
  <2>4. CASE node.source # "vr"
    <3>1. node' = y /\ reset' \in BOOLEAN /\ output' = output /\ ack' = ack
      BY <2>1, NoResetKeeps
    <3>2. node.arms = FALSE /\ node.gate \in Closed
      BY <2>4, NodeIsSafe DEF Licensed, HandSeen, OwnTurn, Nodes
    <3>3. Licensed(y) /\ ResetSeen(y, moved, output, ack)
      BY <2>2, <2>4, <3>2, NodeIsSafe DEF Licensed, ResetSeen, Own
    <3>4. held' \in SUBSET Watched /\ (node'.right = "idle" => ~Broken')
      BY <1>1, <2>2, <3>1 DEF Quiet, Watch, Broken, ArmInv, ArmTypeOK
    <3>5. HandSeen(y, Broken')
      BY <2>2, <2>4, <3>1, <3>2, <3>4 DEF HandSeen
    <3> QED
      BY <1>1, <2>2, <3>1, <3>3, <3>4, <3>5 DEF ArmInv, ArmTypeOK, Broken
  <2> QED
    BY <2>3, <2>4
<1> QED
  BY <1>2, <1>3

LEMMA HomeStep == ASSUME ArmInv, Home PROVE ArmInv'
<1> DEFINE x == [node EXCEPT !.enabled = TRUE]
<1>1. Quiet /\ UNCHANGED <<moved, solver>> /\ NoReset(SetHomeTargets(x))
  BY DEF Home
<1>2. x \in Nodes /\ x.initialDone = node.initialDone /\ x.right = node.right
  BY NodeIsSafe DEF Nodes
<1> HIDE DEF x
<1>3. Restarts(node, SetHomeTargets(x))
  BY <1>2, SetHomeRestarts DEF Restarts
<1> QED
  BY <1>1, <1>3, RestartingStep

LEMMA ResetReferenceStep == ASSUME ArmInv, ResetReference PROVE ArmInv'
BY NodeIsSafe, ReleaseAllEases, EasingStep DEF ResetReference

LEMMA FeedbackAgesStep == ASSUME ArmInv, FeedbackAges PROVE ArmInv'
<1>1. Eases(node, [node EXCEPT !.feedback = "old"])
  BY NodeIsSafe DEF Eases, SameSeat, Nodes
<1> QED
  BY <1>1, EasingStep DEF FeedbackAges

---------------------------------------------------------------------------
(* The solver, and whoever else moves the robot.                           *)

LEMMA SolverStays ==
  ASSUME ArmInv, UNCHANGED <<node, held>>,
         solver' \in [source: ControlSources, reset: BOOLEAN, waits: BOOLEAN],
         reset' \in BOOLEAN, ack' \in {"none", "old", "new"}, output' \in Outputs,
         moved' \in BOOLEAN, ResetSeen(node, moved', output', ack')
  PROVE  ArmInv'
BY DEF ArmInv, ArmTypeOK

LEMMA SolverSteps ==
  ASSUME ArmInv,
         SolverReset \/ SolverSource \/ SolverFeedback \/ SolverTarget \/ SolverStep
  PROVE  ArmInv'
<1>1. /\ solver \in [source: ControlSources, reset: BOOLEAN, waits: BOOLEAN]
      /\ ack \in {"none", "old", "new"} /\ node.source \in ControlSources
  BY DEF ArmInv, ArmTypeOK, Nodes
<1>2. CASE SolverReset
  BY <1>1, <1>2, NodeIsSafe, SolverStays DEF SolverReset, SolverAwaitsFeedback
<1>3. CASE SolverSource
  BY <1>1, <1>3, NodeIsSafe, SolverStays DEF SolverSource
<1>4. CASE SolverFeedback
  <2>1. /\ output' \in Outputs /\ output'.stale = output.stale /\ output'.afterAck = FALSE
        /\ output'.fresh = output.fresh
    BY <1>4, NodeIsSafe DEF SolverFeedback, Outputs
  <2>2. ResetSeen(node, moved', output', ack')
    BY <1>4, <2>1, NodeIsSafe DEF SolverFeedback, ResetSeen
  <2> QED
    BY <1>1, <1>4, <2>1, <2>2, NodeIsSafe, SolverStays DEF SolverFeedback
<1>5. CASE SolverTarget
  BY <1>1, <1>5, NodeIsSafe, SolverStays DEF SolverTarget
<1>6. CASE SolverStep
  <2>1. /\ output' \in Outputs /\ output'.stale = moved
    BY <1>6, NodeIsSafe DEF SolverStep, Outputs
  <2>2. ResetSeen(node, moved', output', ack')
    BY <1>6, <2>1, NodeIsSafe DEF SolverStep, ResetSeen
  <2> QED
    BY <1>1, <1>6, <2>1, <2>2, NodeIsSafe, SolverStays DEF SolverStep
<1> QED
  BY <1>2, <1>3, <1>4, <1>5, <1>6

LEMMA OtherMovesStep == ASSUME ArmInv, OtherMoves PROVE ArmInv'
<1>1. ~Own(node) /\ (ForeignMotion => node.initialDone = TRUE)
  BY NodeIsSafe DEF OtherMoves, ForeignMotion, Own, Nodes
<1>2. ResetSeen(node, TRUE, output, ack)
  BY <1>1, NodeIsSafe DEF ResetSeen
<1> QED
  BY <1>2, NodeIsSafe, SolverStays DEF OtherMoves, ArmInv, ArmTypeOK

LEMMA ArmInvInit == ArmInit => ArmInv
<1> SUFFICES ASSUME ArmInit PROVE ArmInv
  OBVIOUS
<1>1. ArmTypeOK
  <2> PICK enabled \in BOOLEAN :
         node = [enabled |-> enabled, source |-> "vr", ready |-> FALSE,
                 feedback |-> "never", pending |-> FALSE, homing |-> FALSE,
                 initialDone |-> FALSE, gate |-> "ready", released |-> FALSE,
                 arms |-> FALSE, body |-> FALSE, waistRearm |-> FALSE,
                 prevLeft |-> FALSE, latched |-> FALSE, blocked |-> FALSE,
                 waitRight |-> FALSE, waitLeft |-> FALSE, right |-> "none"]
    BY DEF ArmInit
  <2>1. node \in Nodes
    BY DEF Nodes, Gates, Hands, ControlSources
  <2>2. output \in Outputs /\ held \in SUBSET Watched
    BY DEF ArmInit, Outputs, NoOutput
  <2> QED
    BY <2>1, <2>2 DEF ArmInit, ArmTypeOK, ControlSources
<1>2. Licensed(node)
  BY DEF ArmInit, Licensed
<1>3. HandSeen(node, "break" \in held) /\ ResetSeen(node, moved, output, ack)
  BY DEF ArmInit, HandSeen, ResetSeen, NoOutput, Own
<1> QED
  BY <1>1, <1>2, <1>3 DEF ArmInv

LEMMA ArmInvStep == ASSUME ArmInv, [ArmNext]_vars PROVE ArmInv'
<1>1. CASE ControlTick \/ HardwareLost \/ TakeAck \/ Disable \/ Resume \/ Home
           \/ ResetReference \/ FeedbackAges
  BY <1>1, ControlTickStep, HardwareLostStep, TakeAckStep, DisableStep, ResumeStep,
     HomeStep, ResetReferenceStep, FeedbackAgesStep
<1>2. CASE SolverReset \/ SolverSource \/ SolverFeedback \/ SolverTarget \/ SolverStep
           \/ OtherMoves
  BY <1>2, SolverSteps, OtherMovesStep
<1>3. CASE \/ \E hand \in Hands : Hand(hand)
           \/ \E late, off \in BOOLEAN : JointState(late, off)
           \/ \E off \in BOOLEAN : HardwareBack(off)
           \/ \E check \in Checks : Command(check)
           \/ \E s \in ControlSources : ControlSource(s)
  BY <1>3, HandStep, JointStateStep, HardwareBackStep, CommandStep, ControlSourceStep
<1>4. CASE UNCHANGED vars
  BY <1>4 DEF vars, ArmInv, ArmTypeOK
<1> QED
  BY <1>1, <1>2, <1>3, <1>4 DEF ArmNext

(* Through any callbacks, ticks and answers of the solver the invariant holds. *)
THEOREM ArmInvariant == ArmSpec => []ArmInv
<1>1. ArmInit => ArmInv
  BY ArmInvInit
<1>2. ArmInv /\ [ArmNext]_vars => ArmInv'
  BY ArmInvStep
<1> QED
  BY <1>1, <1>2, PTL DEF ArmSpec

(* Only who may drive is active: _control_tick and the callbacks release the   *)
(* arms and the body with the source, the enabling, the drives or a homing.    *)
THEOREM ActiveAreLicensed == ArmSpec => []ActiveIsLicensed
<1>1. ArmInv => ActiveIsLicensed
  BY DEF ArmInv, Licensed, ActiveIsLicensed, Listens
<1> QED
  BY <1>1, ArmInvariant, PTL

(* The arms follow a Grip that was pressed after the last break of control     *)
(* (SolverRearmGate, _release_all), never one that was held through it.  A     *)
(* collision is not such a break: ReleasedAfterCollision is refuted.           *)
THEOREM GripsAreNew == ArmSpec => []RightGripIsNew
<1>1. ArmInv => RightGripIsNew
  BY DEF ArmInv, ArmTypeOK, HandSeen, RightGripIsNew, Nodes
<1> QED
  BY <1>1, ArmInvariant, PTL

(* What the arms follow comes from an integrator that was reset after someone  *)
(* else moved the robot (SolverRearmGate with its two cut-offs).               *)
THEOREM ArmsFollowReset == ASSUME ForeignMotion PROVE ArmSpec => []ArmsFollowResetSolver
<1>1. ArmInv => ArmsFollowResetSolver
  BY DEF ArmInv, ArmTypeOK, Nodes, Outputs, ResetSeen, Own, ArmsFollowResetSolver, Listens,
         OwnTurn, ArmsFollow, Shut
<1> QED
  BY <1>1, ArmInvariant, PTL
=============================================================================
