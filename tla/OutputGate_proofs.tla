------------------------- MODULE OutputGate_proofs -------------------------
(***************************************************************************)
(* Proofs about OutputGate and the two modules that extend it.  Composed   *)
(* with the API, the player, the control executor and the hardware, the    *)
(* transaction keeps its invariants, and the output is open to nobody but  *)
(* the owner.  LiveForwarding: with a target in flight between the locked  *)
(* sections that stays so, and what the second check lets through was      *)
(* stamped under the present authority.  HardwareReset: whatever waits in  *)
(* the command queue, the hardware runs in a latched stop only under the   *)
(* pending reset of this very stop, and nothing but a request that is      *)
(* still good switches it on.                                              *)
(***************************************************************************)
EXTENDS LiveForwarding, HardwareReset, ControlOwnership_proofs

LEMMA FaultIfPossibleSteps == \A st \in Latched : FaultIfPossible(st) => Request \/ UNCHANGED vars
BY DEF FaultIfPossible, Request

(* Readiness that is found lost ends every ownership, whatever the caller  *)
(* that found it did before.                                               *)
LEMMA UnreadyFaults ==
  ASSUME SampleFindsUnready \/ TickFindsUnready
  PROVE  /\ Unready /\ state' = "FAULT" /\ source' = "none"
         /\ Revoked(1, FALSE) /\ hardwareReady' = FALSE
         /\ UNCHANGED readyStale \/ readyStale' = TRUE
         /\ UNCHANGED <<replay, apiChecked, resumeOwed>>
<1>1. CASE SampleFindsUnready
  <2>1. PICK s \in Samples : StartFaults(s)
    BY <1>1 DEF SampleFindsUnready
  <2>2. state' = "FAULT" /\ source' = "none"
    BY <2>1, FaultByEffect DEF StartFaults
  <2> QED
    BY <1>1, <2>1, <2>2, Zenon DEF SampleFindsUnready, Unready
<1>2. CASE TickFindsUnready
  <2>1. state' = "FAULT" /\ source' = "none"
    BY <1>2, FaultByEffect DEF TickFindsUnready, RecoverFaults
  <2> QED
    BY <1>2, <2>1, Zenon DEF TickFindsUnready, Unready
<1> QED
  BY <1>1, <1>2

(* A step of the gate that opens no permission is a step of the            *)
(* transaction that opens none.                                            *)
LEMMA GateSteps ==
  ASSUME GateNext
  PROVE  Unopened \/ TickOpen
<1> USE DEF Unopened, Latched
<1>1. CheckNoReplay \/ EnableOutput \/ BeginReplay => UNCHANGED vars
  BY DEF CheckNoReplay, EnableOutput, BeginReplay
<1>2. (\E src \in Sources : SetControlSource(src)) => UNCHANGED vars
  BY DEF SetControlSource
<1>3. (\E requireReset \in BOOLEAN : EndReplay(requireReset)) => UNCHANGED vars
  BY DEF EndReplay
<1>4. CheckedRequest \/ StartRequest \/ SessionRequest \/ DisableOutput \/ TickRecover
        => Request \/ UNCHANGED vars
  BY DEF CheckedRequest, StartRequest, SessionRequest, DisableOutput, TickRecover, Request
<1>5. EmergencyStop \/ ReadyTimesOut => Request \/ UNCHANGED vars
  BY FaultIfPossibleSteps DEF EmergencyStop, ReadyTimesOut
<1>6. (\E ready \in BOOLEAN : ReceiveHardwareReady(ready)) => Request \/ UNCHANGED vars
  BY FaultIfPossibleSteps DEF ReceiveHardwareReady
<1>7. SampleOrPeer => Request \/ Message
  BY DEF SampleOrPeer, Request
<1>8. PeerAcknowledges => Reply
  BY DEF PeerAcknowledges, Reply
<1>9. TickAuthority => Watchdog \/ HandoverTimeout \/ TakeoverInputLost \/ Request \/ GrantPermission
  BY DEF TickAuthority, Request
<1>10. GateTime => Time \/ UNCHANGED vars
  BY DEF GateTime
<1>11. SampleFindsUnready \/ TickFindsUnready => Unready
  BY UnreadyFaults
<1> QED
  BY <1>1, <1>2, <1>3, <1>4, <1>5, <1>6, <1>7, <1>8, <1>9, <1>10, <1>11
     DEF GateNext, Caller, Internal

LEMMA GateTakesSteps == [GateNext]_allVars => [Step]_vars
<1>1. TickOpen => OpenPermission \/ UNCHANGED vars
  BY DEF TickOpen
<1>2. UNCHANGED allVars => UNCHANGED vars
  BY DEF allVars
<1> QED
  BY GateSteps, <1>1, <1>2 DEF Unopened, Step, Advance

(* The transaction keeps its invariants under the gate's callers.          *)
LEMMA GateKeepsInv == GateSpec => []Inv
BY InvInit, InvStep, GateTakesSteps, PTL DEF GateSpec, GateInit

(* A step that opens no permission and no new epoch leaves the owner alone. *)
LEMMA StableOwner ==
  ASSUME Inv, Unopened
  PROVE  /\ epoch' = epoch => UNCHANGED <<state, source>>
         /\ state' \in {"AUTO", "MANUAL"} => UNCHANGED <<state, epoch>>
<1>0. CountersOK
  BY DEF Inv, TypeOK
<1>1. CASE SameAuthority \/ PeerHeard
  BY <1>1 DEF SameAuthority, PeerHeard, AuthorityUnchanged, authorityVars
<1>2. CASE Halted
  BY <1>0, <1>2, GenerationMoves, StopEffect DEF Halted, Latched, CountersOK
<1>3. CASE Returned
  BY <1>0, <1>3, GenerationMoves, HandBackEffect DEF Returned, CountersOK
<1>4. CASE Taken
  BY <1>0, <1>4, GenerationMoves, TakeControlEffect DEF Taken, CountersOK
<1>5. CASE Started \/ Faulted
  <2>1. epoch' > epoch
    BY <1>0, <1>5, GenerationMoves
  <2>2. state' \in {"RETURNING", "FAULT"}
    BY <1>5, InvalidateEffect, InvalidateByEffect, FaultByEffect DEF Started, Faulted
  <2> QED
    BY <1>0, <2>1, <2>2 DEF CountersOK
<1>6. CASE SessionOpened
  BY <1>0, <1>6, GenerationMoves, SessionEffect DEF SessionOpened, CountersOK
<1>7. CASE QuietField
  BY <1>7 DEF QuietField, Acknowledge, GrantPermission, Sent, DeadlinePasses, authorityVars
<1> QED
  BY UnopenedMoves, <1>1, <1>2, <1>3, <1>4, <1>5, <1>6, <1>7 DEF QuietMoves

(* An owner that fell silent to the hardware would have been faulted.      *)
OwnerIsReady == state \in {"AUTO", "MANUAL"} => hardwareReady

GateInv == OutputOnlyForOwner /\ OwnerIsReady

LEMMA GateStepKeeps ==
  ASSUME Inv, GateInv, GateNext
  PROVE  GateInv'
<1> USE DEF GateInv, OutputOnlyForOwner, OwnerIsReady, active
<1>1. CASE TickOpen
  <2>1. CASE OpenPermission
    <3>1. /\ hardwareReady' /\ outputEnabled' /\ source' = source
          /\ state' \in {"AUTO", "MANUAL"} /\ ~outputEnabled
      BY <1>1, <2>1 DEF TickOpen, Ready, OpenPermission, HandoverReady, Handover, readyVars
    <3>2. commandSource' = source
      BY <1>1, <3>1 DEF TickOpen
    <3> QED
      BY <3>1, <3>2
  <2>2. CASE UNCHANGED vars /\ ~outputEnabled /\ state \in {"AUTO", "MANUAL"}
    BY <1>1, <2>2 DEF TickOpen, vars, authorityVars, readyVars
  <2> QED
    BY <1>1, <2>1, <2>2 DEF TickOpen
<1>2. CASE Unopened
  <2>1. /\ epoch' = epoch => UNCHANGED <<state, source>>
        /\ state' \in {"AUTO", "MANUAL"} => UNCHANGED <<state, epoch>>
    BY <1>2, StableOwner
  <2>2. ASSUME outputEnabled' => outputEnabled /\ epoch' = epoch /\ commandSource' = commandSource,
               hardwareReady => hardwareReady'
        PROVE  GateInv'
    BY <2>1, <2>2
  <2>3. ASSUME NEW extra, Revoked(extra, outputEnabled) \/ Revoked(extra, FALSE),
               UNCHANGED hardwareReady
        PROVE  GateInv'
    BY <2>2, <2>3 DEF Revoked
  <2>4. ASSUME UNCHANGED vars, ~active PROVE GateInv'
    BY <2>4 DEF vars, authorityVars
  <2>5. ASSUME NEW st \in Latched, FaultIfPossible(st), Revoked(1, FALSE) PROVE GateInv'
    <3>1. state' \notin {"AUTO", "MANUAL"}
      BY <2>5, StopEffect DEF FaultIfPossible, Fault, Latched, vars, authorityVars
    <3> QED
      BY <2>5, <3>1 DEF Revoked
  <2>6. ASSUME Caller \/ TickRecover \/ TickFindsUnready PROVE GateInv'
    <3>1. CASE CheckNoReplay \/ BeginReplay
      BY <2>2, <3>1 DEF CheckNoReplay, BeginReplay, vars, authorityVars, selectorVars, readyVars
    <3>2. CASE CheckedRequest \/ StartRequest \/ SessionRequest \/ SampleOrPeer \/ TickRecover
      <4>1. Hooked /\ UNCHANGED readyVars
        BY <3>2, Zenon
           DEF CheckedRequest, StartRequest, SessionRequest, SampleOrPeer, TickRecover
      <4>2. UNCHANGED hardwareReady
        BY <4>1 DEF readyVars
      <4> QED
        BY <2>3, <4>1, <4>2 DEF Hooked
    <3>3. CASE EmergencyStop \/ DisableOutput
      BY <2>3, <3>3 DEF EmergencyStop, DisableOutput, readyVars
    <3>4. CASE EnableOutput \/ \E src \in Sources : SetControlSource(src)
      BY <2>4, <3>4 DEF EnableOutput, SetControlSource
    <3>5. CASE \E requireReset \in BOOLEAN : EndReplay(requireReset)
      <4>1. PICK requireReset \in BOOLEAN :
              Revoked(1, outputEnabled /\ ~requireReset) /\ UNCHANGED <<vars, readyVars>>
        BY <3>5 DEF EndReplay
      <4>2. UNCHANGED <<epoch, hardwareReady>>
        BY <4>1 DEF vars, authorityVars, readyVars
      <4>3. outputEnabled' = (outputEnabled /\ ~requireReset) /\ commandSource' = commandSource
        BY <4>1, <4>2, Zenon DEF Revoked
      <4> QED
        BY <2>2, <4>2, <4>3
    <3>6. ASSUME NEW ready \in BOOLEAN, ReceiveHardwareReady(ready) PROVE GateInv'
      <4>1. CASE hardwareReady /\ ~ready
        BY <2>5, <3>6, <4>1 DEF ReceiveHardwareReady, Latched
      <4>2. CASE ~(hardwareReady /\ ~ready)
        BY <2>2, <3>6, <4>2 DEF ReceiveHardwareReady, vars, authorityVars, selectorVars
      <4> QED
        BY <4>1, <4>2
    <3>7. CASE SampleFindsUnready \/ TickFindsUnready
      BY <3>7, UnreadyFaults DEF Revoked
    <3> QED
      BY <2>6, <3>1, <3>2, <3>3, <3>4, <3>5, <3>6, <3>7 DEF Caller
  <2>7. ASSUME Internal, ~TickOpen PROVE GateInv'
    <3>1. CASE PeerAcknowledges \/ TickAuthority
      BY <2>3, <3>1 DEF PeerAcknowledges, TickAuthority, Hooked, readyVars
    <3>2. CASE ReadyTimesOut
      BY <2>5, <3>2 DEF ReadyTimesOut, Latched
    <3>3. CASE GateTime
      <4>1. epoch' = epoch
        BY <3>3
           DEF GateTime, Time, InputExpires, DeadlinePasses, PeerLapses, vars, authorityVars
      <4> QED
        BY <2>2, <3>3, <4>1 DEF GateTime, selectorVars
    <3> QED
      BY <2>7, <3>1, <3>2, <3>3 DEF Internal
  <2> QED
    BY <1>1, <2>6, <2>7 DEF GateNext
<1> QED
  BY <1>1, <1>2, GateSteps

LEMMA GateInvariance == GateSpec => []GateInv
<1>1. GateInit => GateInv
  BY DEF GateInit, Init, GateInv, OutputOnlyForOwner, OwnerIsReady, active
<1>2. Inv /\ GateInv /\ [GateNext]_allVars => GateInv'
  <2>1. Inv /\ GateInv /\ UNCHANGED allVars => GateInv'
    BY DEF GateInv, OutputOnlyForOwner, OwnerIsReady, active, allVars, vars, authorityVars,
           gateVars, selectorVars, readyVars
  <2> QED
    BY <2>1, GateStepKeeps
<1> QED
  BY <1>1, <1>2, GateKeepsInv, PTL DEF GateSpec

(* During a session the output is open only to the owner of a completed    *)
(* handover, with that owner selected and the hardware reported ready.     *)
THEOREM OutputForOwner == GateSpec => []OutputOnlyForOwner
<1>1. GateInv => OutputOnlyForOwner
  BY DEF GateInv
<1> QED
  BY <1>1, GateInvariance, PTL

(* Composed with its callers, the transaction still implements the abstract *)
(* authority.                                                              *)
THEOREM GateKeepsAuthority == GateSpec => AuthorityKept
<1>1. GateInit => Authority!Init
  BY InitMaps DEF GateInit
<1> QED
  BY <1>1, StepMaps, GateKeepsInv, GateTakesSteps, PTL DEF GateSpec, AuthorityKept, Authority!Spec

---------------------------------------------------------------------------
(* The token of a handover names the stream of the coming owner.           *)
SourceFits ==
  /\ state \in Human => source = "vr"
  /\ state \in {"RETURNING", "AUTO"} => source = "motion"

LEMMA SourceEffect ==
  /\ \A st, src : Invalidate(st, src) => state' = st /\ source' = src
  /\ Started => state' = "RETURNING" /\ source' = "motion"
  /\ Faulted => state' = "FAULT" /\ source' = "none"
  /\ StartModel => state' = "RETURNING" /\ source' = "motion"
  /\ \A prepare : Enable(prepare) => state' = "HOLD"
<1>1. \A prepare, dag, st, src, n :
        EnableWith(prepare, dag, st, src, n) => state' = st /\ source' = src
  BY DEF EnableWith, Revoke
<1>2. Started => state' = "RETURNING" /\ source' = "motion"
  BY InvalidateByEffect DEF Started, Invalidate
<1>3. Faulted => state' = "FAULT" /\ source' = "none"
  BY FaultByEffect DEF Faulted
<1> QED
  BY <1>1, <1>2, <1>3, InvalidateEffect, Zenon DEF StartModel, Enable

LEMMA SourceStep == SourceFits /\ [Step]_vars => SourceFits'
<1> SUFFICES ASSUME SourceFits, [Step]_vars PROVE SourceFits'
  OBVIOUS
<1> USE DEF SourceFits, Human
<1>1. CASE SameAuthority \/ PeerHeard
  BY <1>1, UnchangedEffect DEF SameAuthority, PeerHeard
<1>2. CASE Halted
  BY <1>2, StopEffect DEF Halted, Latched
<1>3. CASE Returned \/ Taken \/ Started \/ Faulted
  BY <1>3, SourceEffect DEF Returned, HandBack, Taken, TakeControl
<1>4. CASE SessionOpened
  BY <1>4, SourceEffect DEF SessionOpened
<1>5. CASE FieldStep
  BY <1>5
     DEF FieldStep, QuietField, Acknowledge, GrantPermission, OpenPermission, HandoverReady,
         Handover, Sent, DeadlinePasses, authorityVars
<1> QED
  BY EveryStepMoves, <1>1, <1>2, <1>3, <1>4, <1>5 DEF Moves, QuietMoves, FieldStep

LEMMA GateKeepsSource == GateSpec => []SourceFits
<1>1. GateInit => SourceFits
  BY DEF GateInit, Init, SourceFits, Human
<1> QED
  BY <1>1, SourceStep, GateTakesSteps, PTL DEF GateSpec

---------------------------------------------------------------------------
(* Revocations are counted: the output epoch grows with every epoch of the *)
(* transaction, and a closed output opens in a session only by the tick.   *)
NewOutputEpoch == outputEpoch' \in Nat /\ outputEpoch' > outputEpoch
Counted ==
  /\ NewOutputEpoch \/ outputEpoch' = outputEpoch
  /\ epoch' # epoch => NewOutputEpoch

(* The authority within one epoch: whether there is a session, and the     *)
(* phase of the transaction, which only turns to the grant.                *)
SameGeneration ==
  /\ epoch' = epoch
  /\ state' = "OFF" <=> state = "OFF"
  /\ phase' = phase \/ phase' = "grant"

LEMMA EpochMoves ==
  ASSUME Inv, [Step]_vars
  PROVE  SameGeneration \/ (epoch' \in Nat /\ epoch' > epoch)
<1>0. CountersOK
  BY DEF Inv, TypeOK
<1>1. CASE SameAuthority \/ PeerHeard
  BY <1>1 DEF SameAuthority, PeerHeard, AuthorityUnchanged, authorityVars, SameGeneration
<1>2. CASE Halted \/ Returned \/ Taken \/ Started \/ Faulted \/ SessionOpened
  BY <1>0, <1>2, GenerationMoves DEF Halted, Returned, Taken, SessionOpened
<1>3. CASE FieldStep
  BY <1>3
     DEF FieldStep, QuietField, Acknowledge, GrantPermission, OpenPermission, HandoverReady,
         Handover, Sent, DeadlinePasses, authorityVars, SameGeneration
<1> QED
  BY EveryStepMoves, <1>1, <1>2, <1>3 DEF Moves, QuietMoves, FieldStep

LEMMA RevokedCounts ==
  ASSUME Inv, outputEpoch \in Nat, epoch' = epoch \/ (epoch' \in Nat /\ epoch' > epoch)
  PROVE  /\ \A enabled : Revoked(0, enabled) => Counted
         /\ \A enabled : Revoked(1, enabled) => NewOutputEpoch
<1>1. \A enabled : Revoked(0, enabled) => outputEpoch' = outputEpoch + (epoch' - epoch) + 0
  BY Zenon DEF Revoked
<1>2. \A enabled : Revoked(1, enabled) => outputEpoch' = outputEpoch + (epoch' - epoch) + 1
  BY Zenon DEF Revoked
<1>3. epoch \in Nat
  BY DEF Inv, TypeOK, CountersOK
<1> QED
  BY <1>1, <1>2, <1>3 DEF Counted, NewOutputEpoch

LEMMA GateCounts ==
  ASSUME Inv, outputEpoch \in Nat, [GateNext]_allVars
  PROVE  Counted
<1>1. epoch' = epoch \/ (epoch' \in Nat /\ epoch' > epoch)
  BY EpochMoves, GateTakesSteps DEF SameGeneration
<1> USE DEF Counted
<1>2. ASSUME UNCHANGED <<epoch, outputEpoch>> PROVE Counted
  BY <1>2
<1>3. CheckNoReplay \/ BeginReplay => Counted
  BY <1>2 DEF CheckNoReplay, BeginReplay, vars, authorityVars, selectorVars
<1>4. CheckedRequest \/ StartRequest \/ SessionRequest \/ SampleOrPeer \/ TickRecover => Counted
  BY <1>1, RevokedCounts, Zenon
     DEF CheckedRequest, StartRequest, SessionRequest, SampleOrPeer, TickRecover, Hooked
<1>5. EmergencyStop \/ EnableOutput \/ DisableOutput => Counted
  BY <1>1, RevokedCounts DEF EmergencyStop, EnableOutput, DisableOutput
<1>6. (\E requireReset \in BOOLEAN : EndReplay(requireReset)) => Counted
  BY <1>1, RevokedCounts, Zenon DEF EndReplay
<1>7. (\E src \in Sources : SetControlSource(src)) => Counted
  <2>1. (\E src \in Sources : SetControlSource(src)) => outputEpoch' = outputEpoch + 1
    BY DEF SetControlSource
  <2> QED
    BY <2>1 DEF NewOutputEpoch
<1>8. (\E ready \in BOOLEAN : ReceiveHardwareReady(ready)) => Counted
  BY <1>1, <1>2, RevokedCounts DEF ReceiveHardwareReady, vars, authorityVars, selectorVars
<1>9. PeerAcknowledges \/ TickAuthority => Counted
  BY <1>1, RevokedCounts, Zenon DEF PeerAcknowledges, TickAuthority, Hooked
<1>10. ReadyTimesOut \/ SampleFindsUnready \/ TickFindsUnready => Counted
  BY <1>1, RevokedCounts, UnreadyFaults DEF ReadyTimesOut
<1>11. TickOpen => Counted
  BY <1>2 DEF TickOpen, OpenPermission, vars, authorityVars
<1>12. GateTime => Counted
  BY <1>2
     DEF GateTime, Time, InputExpires, DeadlinePasses, PeerLapses, vars, authorityVars, selectorVars
<1>13. UNCHANGED allVars => Counted
  BY <1>2 DEF allVars, vars, authorityVars, gateVars, selectorVars
<1> QED
  BY <1>3, <1>4, <1>5, <1>6, <1>7, <1>8, <1>9, <1>10, <1>11, <1>12, <1>13
     DEF GateNext, Caller, Internal

---------------------------------------------------------------------------
(* The types of the gate's own state.                                      *)
SelectorOK == commandSource \in Sources /\ outputEnabled \in BOOLEAN
FlagsOK ==
  /\ hardwareReady \in BOOLEAN /\ readyStale \in BOOLEAN
  /\ replay \in BOOLEAN /\ apiChecked \in BOOLEAN /\ resumeOwed \in BOOLEAN

LEMMA RevokedTypes ==
  ASSUME SelectorOK
  PROVE  \A extra, enabled : Revoked(extra, enabled) => SelectorOK'
BY SourcesAssumption, Zenon DEF SelectorOK, Revoked

LEMMA SelectorStep ==
  ASSUME SelectorOK, SourceFits', [GateNext]_allVars
  PROVE  SelectorOK'
<1>1. UNCHANGED selectorVars => SelectorOK'
  BY DEF SelectorOK, selectorVars
<1>2. CheckNoReplay \/ BeginReplay \/ GateTime \/ UNCHANGED allVars => SelectorOK'
  BY <1>1 DEF CheckNoReplay, BeginReplay, GateTime, allVars, gateVars, selectorVars
<1>3. CheckedRequest \/ StartRequest \/ SessionRequest \/ SampleOrPeer \/ TickRecover
        \/ PeerAcknowledges \/ TickAuthority => SelectorOK'
  BY RevokedTypes, Zenon
     DEF CheckedRequest, StartRequest, SessionRequest, SampleOrPeer, TickRecover,
         PeerAcknowledges, TickAuthority, Hooked
<1>4. EmergencyStop \/ EnableOutput \/ DisableOutput \/ ReadyTimesOut
        \/ SampleFindsUnready \/ TickFindsUnready => SelectorOK'
  BY RevokedTypes, UnreadyFaults DEF EmergencyStop, EnableOutput, DisableOutput, ReadyTimesOut
<1>5. (\E requireReset \in BOOLEAN : EndReplay(requireReset)) => SelectorOK'
  BY RevokedTypes, Zenon DEF EndReplay
<1>6. (\E src \in Sources : SetControlSource(src)) => SelectorOK'
  BY DEF SetControlSource, SelectorOK
<1>7. (\E ready \in BOOLEAN : ReceiveHardwareReady(ready)) => SelectorOK'
  BY <1>1, RevokedTypes DEF ReceiveHardwareReady
<1>8. ASSUME TickOpen PROVE SelectorOK'
  <2>1. outputEnabled' = TRUE /\ (commandSource' = commandSource \/ commandSource' = source)
    BY <1>8 DEF TickOpen
  <2>2. source' = source /\ state' \in {"AUTO", "MANUAL"}
    BY <1>8 DEF TickOpen, OpenPermission, HandoverReady, Handover, vars, authorityVars
  <2> QED
    BY <2>1, <2>2, SourcesAssumption DEF SelectorOK, SourceFits, Human
<1> QED
  BY <1>2, <1>3, <1>4, <1>5, <1>6, <1>7, <1>8 DEF GateNext, Caller, Internal

LEMMA FlagsKept ==
  FlagsOK /\ UNCHANGED <<readyVars, replay>> /\ apiChecked' \in BOOLEAN /\ resumeOwed' \in BOOLEAN
    => FlagsOK'
BY DEF FlagsOK, readyVars

LEMMA FlagsStep == FlagsOK /\ [GateNext]_allVars => FlagsOK'
<1> SUFFICES ASSUME FlagsOK, [GateNext]_allVars PROVE FlagsOK'
  OBVIOUS
<1>1. CheckNoReplay \/ BeginReplay \/ StartRequest \/ SessionRequest \/ EmergencyStop => FlagsOK'
  BY DEF CheckNoReplay, BeginReplay, StartRequest, SessionRequest, EmergencyStop, FlagsOK, readyVars
<1>2. ASSUME CheckedRequest PROVE FlagsOK'
  <2>1. UNCHANGED <<readyVars, replay>> /\ apiChecked' \in BOOLEAN
    BY <1>2, Zenon DEF CheckedRequest
  <2>2. resumeOwed' \in BOOLEAN
    <3>1. resumeOwed' = (resumeOwed /\ ~resumeAuto')
      BY <1>2, Zenon DEF CheckedRequest
    <3> QED
      BY <3>1
  <2> QED
    BY <2>1, <2>2, FlagsKept, Zenon
<1>3. ASSUME SampleOrPeer PROVE FlagsOK'
  <2>1. UNCHANGED <<readyVars, replay>> /\ apiChecked' = apiChecked
    BY <1>3, Zenon DEF SampleOrPeer
  <2>2. resumeOwed' \in BOOLEAN
    <3>1. resumeOwed' = (resumeOwed /\ ~Starts)
      BY <1>3, Zenon DEF SampleOrPeer
    <3> QED
      BY <3>1
  <2>3. apiChecked' \in BOOLEAN
    BY <2>1, Zenon DEF FlagsOK
  <2> QED
    BY <2>1, <2>2, <2>3, FlagsKept, Zenon
<1>4. EnableOutput \/ DisableOutput \/ (\E src \in Sources : SetControlSource(src)) => FlagsOK'
  BY DEF EnableOutput, DisableOutput, SetControlSource, FlagsOK, readyVars
<1>5. ASSUME NEW requireReset \in BOOLEAN, EndReplay(requireReset) PROVE FlagsOK'
  <2>1. resumeOwed' \in BOOLEAN
    <3>1. resumeOwed' = (resumeOwed \/ requireReset)
      BY <1>5, Zenon DEF EndReplay
    <3> QED
      BY <3>1
  <2>2. replay' = FALSE /\ UNCHANGED <<readyVars, apiChecked>>
    BY <1>5, Zenon DEF EndReplay
  <2> QED
    BY <2>1, <2>2 DEF FlagsOK, readyVars
<1>6. (\E ready \in BOOLEAN : ReceiveHardwareReady(ready)) => FlagsOK'
  BY DEF ReceiveHardwareReady, FlagsOK, readyVars
<1>7. PeerAcknowledges \/ ReadyTimesOut \/ TickAuthority \/ TickOpen \/ TickRecover => FlagsOK'
  BY DEF PeerAcknowledges, ReadyTimesOut, TickAuthority, TickOpen, TickRecover, FlagsOK, readyVars
<1>8. GateTime \/ UNCHANGED allVars => FlagsOK'
  BY DEF GateTime, allVars, gateVars, FlagsOK, readyVars
<1>9. SampleFindsUnready \/ TickFindsUnready => FlagsOK'
  BY UnreadyFaults DEF FlagsOK
<1> QED
  BY <1>1, <1>2, <1>3, <1>4, <1>5, <1>6, <1>7, <1>8, <1>9, Zenon DEF GateNext, Caller, Internal

GateTypes == SelectorOK /\ FlagsOK /\ outputEpoch \in Nat

LEMMA GateTypesInit == GateInit => GateTypes
<1>1. GateInit => SelectorOK
  BY SourcesAssumption DEF GateInit, SelectorOK
<1>2. GateInit => FlagsOK
  BY DEF GateInit, FlagsOK
<1>3. GateInit => outputEpoch \in Nat
  BY DEF GateInit
<1> QED
  BY <1>1, <1>2, <1>3 DEF GateTypes

LEMMA GateTypesStep ==
  ASSUME Inv, SourceFits', GateTypes, [GateNext]_allVars
  PROVE  GateTypes'
BY SelectorStep, FlagsStep, GateCounts DEF GateTypes, Counted, NewOutputEpoch

LEMMA GateTypesKept == GateTypes /\ UNCHANGED gateVars => GateTypes'
BY DEF GateTypes, SelectorOK, FlagsOK, gateVars, selectorVars, readyVars

LEMMA GateTypesMean == Inv /\ GateTypes => GateTypeOK
BY DEF Inv, GateTypes, SelectorOK, FlagsOK, GateTypeOK

(* The fields of the final gate hold what the code lets them hold; the     *)
(* selected source is a stream at all times, also after a handover.        *)
THEOREM GateTypeCorrect == GateSpec => []GateTypeOK
<1>1. GateSpec => []GateTypes
  BY GateTypesInit, GateTypesStep, GateKeepsInv, GateKeepsSource, PTL DEF GateSpec
<1> QED
  BY <1>1, GateTypesMean, GateKeepsInv, PTL

---------------------------------------------------------------------------
(* LiveForwarding.                                                         *)

(* The path of a target changes neither the gate nor the authority.        *)
LEMMA ForwardLeaves ==
  ASSUME Forward
  PROVE  /\ UNCHANGED <<gateVars, authorityVars>> /\ [Step]_vars
         /\ target' = NoTarget \/ UNCHANGED <<vars, manualOutputs>>
<1>1. CASE (\E src \in Sources, token \in {0, epoch} : Mint(src, token)) \/ Check \/ Drop
  BY <1>1 DEF Mint, Check, Drop, allVars, vars
<1>2. CASE Publish
  BY <1>2 DEF Publish, Step, Sent, vars
<1>3. CASE PublishThenRaise
  BY <1>3 DEF PublishThenRaise, Step, Time, InputExpires
<1> QED
  BY <1>1, <1>2, <1>3 DEF Forward

LEMMA LiveTakesSteps == [LiveNext]_liveVars => [Step]_vars
<1>1. GateStep => [Step]_vars
  BY GateTakesSteps DEF GateStep
<1>2. UNCHANGED liveVars => UNCHANGED vars
  BY DEF liveVars, allVars
<1> QED
  BY <1>1, <1>2, ForwardLeaves DEF LiveNext

LEMMA LiveKeepsInv == LiveSpec => []Inv
<1>1. LiveInit => Init
  BY DEF LiveInit, GateInit
<1> QED
  BY <1>1, InvInit, InvStep, LiveTakesSteps, PTL DEF LiveSpec

LEMMA LiveKeepsSource == LiveSpec => []SourceFits
<1>1. LiveInit => SourceFits
  BY DEF LiveInit, GateInit, Init, SourceFits, Human
<1> QED
  BY <1>1, SourceStep, LiveTakesSteps, PTL DEF LiveSpec

LEMMA LiveGateStep == Inv /\ GateInv /\ [LiveNext]_liveVars => GateInv'
<1> SUFFICES ASSUME Inv, GateInv, [LiveNext]_liveVars PROVE GateInv'
  OBVIOUS
<1>1. CASE GateStep
  BY <1>1, GateStepKeeps DEF GateStep
<1>2. ASSUME UNCHANGED <<gateVars, authorityVars>> PROVE GateInv'
  BY <1>2 DEF GateInv, OutputOnlyForOwner, OwnerIsReady, active, authorityVars, gateVars,
              selectorVars, readyVars
<1>3. CASE UNCHANGED liveVars
  BY <1>2, <1>3 DEF liveVars, allVars, vars
<1> QED
  BY <1>1, <1>2, <1>3, ForwardLeaves DEF LiveNext

LEMMA LiveGateInvariance == LiveSpec => []GateInv
<1>1. LiveInit => GateInv
  BY DEF LiveInit, GateInit, Init, GateInv, OutputOnlyForOwner, OwnerIsReady, active
<1> QED
  BY <1>1, LiveGateStep, LiveKeepsInv, PTL DEF LiveSpec

---------------------------------------------------------------------------
(* The types, with the record of the target in flight.                     *)
LEMMA LiveGateTypes ==
  ASSUME Inv, SourceFits', GateTypes, [LiveNext]_liveVars
  PROVE  GateTypes'
<1>1. UNCHANGED liveVars => UNCHANGED gateVars
  BY DEF liveVars, allVars
<1> QED
  BY <1>1, GateTypesStep, GateTypesKept, ForwardLeaves DEF LiveNext, GateStep

TargetOK == target = NoTarget \/ target \in Targets

(* A step of the gate leaves a target its stage, its token and its epochs. *)
LEMMA StampedFields ==
  ASSUME target \in Targets, target' = Stamped
  PROVE  /\ target' \in Targets \/ target' = NoTarget
         /\ target' # NoTarget =>
              /\ target'.stage = target.stage /\ target'.minted = target.minted
              /\ target'.checked = target.checked
              /\ target'.granted <=> target.granted /\ (phase' = phase \/ phase' # "grant")
              /\ outputEpoch' # outputEpoch => ~target'.fresh
              /\ outputEpoch' = outputEpoch /\ target'.fresh =>
                   \/ active /\ ~outputEnabled /\ outputEnabled' /\ target.granted
                   \/ ~(active /\ ~outputEnabled /\ outputEnabled') /\ target.fresh
<1>1. CASE target = NoTarget
  BY <1>1 DEF Stamped
<1>2. CASE target # NoTarget
  <2> DEFINE g == target.granted /\ (phase' = phase \/ phase' # "grant")
             f == IF outputEpoch' # outputEpoch THEN FALSE
                  ELSE IF active /\ ~outputEnabled /\ outputEnabled' THEN target.granted
                  ELSE target.fresh
  <2>1. target' = [target EXCEPT !.granted = g, !.fresh = f]
    BY <1>2 DEF Stamped
  <2>2. g \in BOOLEAN /\ f \in BOOLEAN
    BY DEF Targets
  <2> HIDE DEF g, f
  <2>3. /\ target' \in Targets
        /\ target'.stage = target.stage /\ target'.minted = target.minted
        /\ target'.checked = target.checked
        /\ target'.granted = g /\ target'.fresh = f
    BY <2>1, <2>2 DEF Targets
  <2> QED
    BY <2>3 DEF g, f
<1> QED
  BY <1>1, <1>2

LEMMA TargetTypes ==
  ASSUME Inv, GateTypes, TargetOK, [LiveNext]_liveVars
  PROVE  TargetOK'
<1> USE DEF TargetOK
<1>1. CASE GateStep
  <2>1. target = NoTarget => target' = NoTarget
    BY <1>1 DEF GateStep, Stamped
  <2> QED
    BY <1>1, <2>1, StampedFields DEF GateStep
<1>2. ASSUME NEW src \in Sources, NEW token \in {0, epoch}, Mint(src, token) PROVE TargetOK'
  <2>1. token \in Nat /\ outputEpoch \in Nat
    BY DEF Inv, TypeOK, CountersOK, GateTypes
  <2>2. target' = [stage |-> "received", source |-> src, token |-> token, minted |-> outputEpoch,
                   checked |-> 0, fresh |-> TRUE, granted |-> TRUE]
    BY <1>2 DEF Mint
  <2> QED
    BY <2>1, <2>2 DEF Targets
<1>3. CASE Check
  <2>1. target # NoTarget
    BY <1>3 DEF Check, NoTarget
  <2>2. target' = [target EXCEPT !.stage = "checked", !.checked = outputEpoch]
    BY <1>3 DEF Check
  <2> QED
    BY <2>1, <2>2 DEF Targets, GateTypes
<1>4. CASE Drop \/ Publish \/ PublishThenRaise
  BY <1>4 DEF Drop, Publish, PublishThenRaise
<1>5. CASE UNCHANGED liveVars
  BY <1>5 DEF liveVars, forwardVars
<1> QED
  BY <1>1, <1>2, <1>3, <1>4, <1>5 DEF LiveNext, Forward

HistoryOK == executorUp \in BOOLEAN /\ manualOutputs \in Nat

LEMMA HistoryTypes == HistoryOK /\ [LiveNext]_liveVars => HistoryOK'
<1> SUFFICES ASSUME HistoryOK, [LiveNext]_liveVars PROVE HistoryOK'
  OBVIOUS
<1>1. UNCHANGED executorUp \/ executorUp' = FALSE
  <2>1. GateStep \/ UNCHANGED liveVars => UNCHANGED executorUp
    BY DEF GateStep, liveVars, forwardVars
  <2>2. (\E src \in Sources, token \in {0, epoch} : Mint(src, token)) => UNCHANGED executorUp
    BY DEF Mint
  <2>3. Check \/ Drop \/ Publish => UNCHANGED executorUp
    BY DEF Check, Drop, Publish
  <2>4. PublishThenRaise => executorUp' = FALSE
    BY DEF PublishThenRaise
  <2> QED
    BY <2>1, <2>2, <2>3, <2>4, Zenon DEF LiveNext, Forward
<1>2. manualOutputs' \in Nat
  <2>1. manualOutputs' \in {0, manualOutputs, manualOutputs + 1}
    BY DEF LiveNext, GateStep, Forward, Mint, Check, Drop, Publish, PublishThenRaise, liveVars,
           forwardVars
  <2> QED
    BY <2>1 DEF HistoryOK
<1>3. executorUp' \in BOOLEAN
  BY <1>1, Zenon DEF HistoryOK
<1> QED
  BY <1>2, <1>3, Zenon DEF HistoryOK

LiveTypes == GateTypes /\ TargetOK /\ HistoryOK

LEMMA LiveTypesHold == LiveSpec => []LiveTypes
<1>1. LiveInit => LiveTypes
  <2>1. LiveInit => GateTypes
    BY GateTypesInit DEF LiveInit
  <2>2. LiveInit => TargetOK /\ manualOutputs \in Nat
    BY DEF LiveInit, TargetOK
  <2>3. LiveInit => executorUp \in BOOLEAN
    BY DEF LiveInit
  <2> QED
    BY <2>1, <2>2, <2>3, Zenon DEF HistoryOK, LiveTypes
<1>2. Inv /\ SourceFits' /\ LiveTypes /\ [LiveNext]_liveVars => LiveTypes'
  BY LiveGateTypes, TargetTypes, HistoryTypes DEF LiveTypes
<1> QED
  BY <1>1, <1>2, LiveKeepsInv, LiveKeepsSource, PTL DEF LiveSpec

(* The target in flight, the executor and the gate hold what the code lets *)
(* them hold.                                                              *)
THEOREM LiveTypeCorrect == LiveSpec => []LiveTypeOK
<1>1. Inv /\ LiveTypes => LiveTypeOK
  BY GateTypesMean DEF LiveTypes, TargetOK, HistoryOK, LiveTypeOK
<1> QED
  BY <1>1, LiveTypesHold, LiveKeepsInv, PTL

(* Also with targets in flight the output is open during a session only to *)
(* the owner of a completed handover, selected, with the hardware ready.   *)
THEOREM LiveOutputForOwner == LiveSpec => []OutputOnlyForOwner
<1>1. GateInv => OutputOnlyForOwner
  BY DEF GateInv
<1> QED
  BY <1>1, LiveGateInvariance, PTL

---------------------------------------------------------------------------
(* What can happen to the gate without a new output epoch: the session,    *)
(* the phase behind an open output and the open output itself stay, and    *)
(* only the tick of a session opens a closed one.                          *)
Steady ==
  /\ active' = active
  /\ outputEnabled => outputEnabled'
  /\ active /\ outputEnabled => phase' = phase
  /\ outputEnabled' /\ ~outputEnabled => active /\ phase' = phase

LEMMA OnlyTickOpens ==
  ASSUME Inv, outputEpoch \in Nat, GateNext, ~TickOpen, outputEpoch' = outputEpoch
  PROVE  outputEnabled' <=> outputEnabled
<1>1. epoch' = epoch
  BY GateCounts DEF Counted, NewOutputEpoch
<1>2. \A enabled : ~Revoked(1, enabled)
  BY <1>1, RevokedCounts DEF NewOutputEpoch
<1>3. Hooked => (outputEnabled' <=> outputEnabled)
  <2>1. Hooked => outputEnabled' = (outputEnabled /\ epoch' = epoch)
    BY Zenon DEF Hooked, Revoked
  <2> QED
    BY <1>1, <2>1
<1>4. CheckNoReplay \/ BeginReplay \/ GateTime => (outputEnabled' <=> outputEnabled)
  BY DEF CheckNoReplay, BeginReplay, GateTime, selectorVars
<1>5. CheckedRequest \/ StartRequest \/ SessionRequest \/ SampleOrPeer \/ TickRecover
        \/ PeerAcknowledges \/ TickAuthority => Hooked
  BY Zenon
     DEF CheckedRequest, StartRequest, SessionRequest, SampleOrPeer, TickRecover,
         PeerAcknowledges, TickAuthority
<1>6. /\ ~EmergencyStop /\ ~EnableOutput /\ ~DisableOutput /\ ~ReadyTimesOut
      /\ ~SampleFindsUnready /\ ~TickFindsUnready
  BY <1>2, UnreadyFaults, Zenon DEF EmergencyStop, EnableOutput, DisableOutput, ReadyTimesOut
<1>7. \A requireReset \in BOOLEAN : ~EndReplay(requireReset)
  BY <1>2, Zenon DEF EndReplay
<1>8. \A src \in Sources : ~SetControlSource(src)
  <2>1. outputEpoch' # outputEpoch + 1
    OBVIOUS
  <2> QED
    BY <2>1, Zenon DEF SetControlSource
<1>9. \A ready \in BOOLEAN : ReceiveHardwareReady(ready) => (outputEnabled' <=> outputEnabled)
  BY <1>2, Zenon DEF ReceiveHardwareReady, selectorVars
<1> QED
  BY <1>3, <1>4, <1>5, <1>6, <1>7, <1>8, <1>9, Zenon DEF GateNext, Caller, Internal

LEMMA OpeningKeepsPhase ==
  ASSUME TickOpen
  PROVE  outputEnabled' /\ UNCHANGED phase /\ (~outputEnabled => active)
BY DEF TickOpen, OpenPermission, HandoverReady, Handover, vars, authorityVars, active

LEMMA GateIsSteady ==
  ASSUME Inv, GateInv, outputEpoch \in Nat, GateNext, outputEpoch' = outputEpoch
  PROVE  Steady
<1>1. epoch' = epoch
  BY GateCounts DEF Counted, NewOutputEpoch
<1>2. SameGeneration
  BY <1>1, EpochMoves, GateTakesSteps DEF Inv, TypeOK, CountersOK
<1>3. active /\ outputEnabled => phase = "grant"
  BY DEF Inv, PermissionByCurrentPeers, GateInv, OutputOnlyForOwner
<1>4. active' <=> active
  BY <1>2 DEF SameGeneration, active
<1>5. active /\ outputEnabled => phase' = phase
  BY <1>2, <1>3 DEF SameGeneration
<1>6. CASE TickOpen
  BY <1>4, <1>5, <1>6, OpeningKeepsPhase DEF Steady
<1>7. CASE ~TickOpen
  BY <1>4, <1>5, <1>7, OnlyTickOpens DEF Steady
<1> QED
  BY <1>6, <1>7

---------------------------------------------------------------------------
(* Why the target in flight belongs to the present authority: fresh means  *)
(* stamped after the last revocation outside a session, and after the      *)
(* grant once a session has opened the output; and a check that the output *)
(* epoch still confirms found the output open and the target fresh.        *)
FreshIsPresent ==
  /\ target.fresh /\ ~active => target.minted = outputEpoch
  /\ target.fresh /\ active /\ outputEnabled => target.granted

CheckIsPresent ==
  target.stage = "checked" /\ target.checked = outputEpoch =>
    /\ outputEnabled
    /\ IF active THEN target.granted ELSE target.minted = outputEpoch

Fenced ==
  target # NoTarget =>
    target.checked <= outputEpoch /\ FreshIsPresent /\ CheckIsPresent

LEMMA GateKeepsFenced ==
  ASSUME Inv, GateInv, LiveTypes, Fenced, GateStep
  PROVE  Fenced'
<1> SUFFICES ASSUME target' # NoTarget
             PROVE  (target.checked <= outputEpoch /\ FreshIsPresent /\ CheckIsPresent)'
  BY DEF Fenced
<1>1. target # NoTarget /\ target \in Targets /\ target' = Stamped /\ GateNext
  BY DEF GateStep, Stamped, LiveTypes, TargetOK
<1>2. outputEpoch \in Nat /\ target.checked \in Nat /\ target.checked <= outputEpoch
  BY <1>1 DEF LiveTypes, GateTypes, Targets, Fenced
<1>3. /\ target'.stage = target.stage /\ target'.minted = target.minted
      /\ target'.checked = target.checked
  BY <1>1, StampedFields
<1>4. /\ target'.granted <=> target.granted /\ (phase' = phase \/ phase' # "grant")
      /\ outputEpoch' # outputEpoch => ~target'.fresh
      /\ outputEpoch' = outputEpoch /\ target'.fresh =>
           \/ active /\ ~outputEnabled /\ outputEnabled' /\ target.granted
           \/ ~(active /\ ~outputEnabled /\ outputEnabled') /\ target.fresh
  BY <1>1, StampedFields
<1>5. CASE outputEpoch' # outputEpoch
  <2>1. outputEpoch' \in Nat /\ outputEpoch' > outputEpoch
    BY <1>1, <1>2, <1>5, GateCounts DEF Counted, NewOutputEpoch
  <2>2. target'.checked < outputEpoch'
    BY <1>2, <1>3, <2>1
  <2>3. (target.checked <= outputEpoch)' /\ target'.checked # outputEpoch'
    BY <1>2, <1>3, <2>1, <2>2
  <2> QED
    BY <1>4, <1>5, <2>3 DEF FreshIsPresent, CheckIsPresent
<1>6. CASE outputEpoch' = outputEpoch
  <2>1. Steady
    BY <1>1, <1>2, <1>6, GateIsSteady
  <2>2. (target.checked <= outputEpoch)'
    BY <1>2, <1>3, <1>6
  <2>3. FreshIsPresent /\ CheckIsPresent
    BY <1>1 DEF Fenced
  <2>4. FreshIsPresent'
    BY <1>3, <1>4, <1>6, <2>1, <2>3 DEF FreshIsPresent, Steady
  <2>5. CheckIsPresent'
    BY <1>3, <1>4, <1>6, <2>1, <2>3 DEF CheckIsPresent, Steady
  <2> QED
    BY <2>2, <2>4, <2>5
<1> QED
  BY <1>5, <1>6

LEMMA ForwardKeepsFenced ==
  ASSUME LiveTypes, Fenced, Forward
  PROVE  Fenced'
<1>1. ASSUME NEW src \in Sources, NEW token \in {0, epoch}, Mint(src, token) PROVE Fenced'
  <2>1. /\ target' = [stage |-> "received", source |-> src, token |-> token,
                      minted |-> outputEpoch, checked |-> 0, fresh |-> TRUE, granted |-> TRUE]
        /\ outputEpoch' = outputEpoch /\ outputEpoch \in Nat
    BY <1>1 DEF Mint, allVars, gateVars, selectorVars, LiveTypes, GateTypes
  <2> QED
    BY <2>1 DEF Fenced, FreshIsPresent, CheckIsPresent
<1>2. CASE Check
  <2>1. target # NoTarget /\ target \in Targets
    BY <1>2 DEF Check, NoTarget, LiveTypes, TargetOK
  <2>2. /\ target' = [target EXCEPT !.stage = "checked", !.checked = outputEpoch]
        /\ target.fresh /\ outputEnabled
        /\ UNCHANGED allVars
    BY <1>2 DEF Check, MayForward
  <2>3. /\ target'.checked = outputEpoch /\ target'.minted = target.minted
        /\ target'.fresh = target.fresh /\ target'.granted = target.granted
    BY <2>1, <2>2 DEF Targets
  <2>4. outputEpoch' = outputEpoch /\ outputEnabled' = outputEnabled /\ active' = active
        /\ outputEpoch \in Nat
    BY <2>2
       DEF allVars, vars, authorityVars, gateVars, selectorVars, active, LiveTypes, GateTypes
  <2>5. (target.checked <= outputEpoch)'
    BY <2>3, <2>4
  <2>6. FreshIsPresent
    BY <2>1 DEF Fenced
  <2> QED
    BY <2>2, <2>3, <2>4, <2>5, <2>6 DEF Fenced, FreshIsPresent, CheckIsPresent
<1>3. CASE Drop \/ Publish \/ PublishThenRaise
  BY <1>3 DEF Drop, Publish, PublishThenRaise, Fenced
<1> QED
  BY <1>1, <1>2, <1>3 DEF Forward

LEMMA FencedAlways == LiveSpec => []Fenced
<1>1. LiveInit => Fenced
  BY DEF LiveInit, Fenced
<1>2. Inv /\ GateInv /\ LiveTypes /\ Fenced /\ [LiveNext]_liveVars => Fenced'
  <2>1. Fenced /\ UNCHANGED liveVars => Fenced'
    BY DEF Fenced, FreshIsPresent, CheckIsPresent, active, liveVars, forwardVars, allVars, vars,
           authorityVars, gateVars, selectorVars
  <2> QED
    BY <2>1, GateKeepsFenced, ForwardKeepsFenced DEF LiveNext
<1> QED
  BY <1>1, <1>2, LiveKeepsInv, LiveGateInvariance, LiveTypesHold, PTL DEF LiveSpec

(* What the second check publishes was stamped under the authority it is   *)
(* published under, whatever the callers, the tick and the clock did while *)
(* the target was prepared.                                                *)
THEOREM TargetsAreFenced == LiveSpec => []FencedTargets
<1>1. Fenced => FencedTargets
  <2> SUFFICES ASSUME Fenced, Publishable PROVE FencedTargets
    BY DEF FencedTargets
  <2>1. target # NoTarget
    BY DEF Publishable, NoTarget
  <2>2. IF active THEN target.granted ELSE target.minted = outputEpoch
    BY <2>1 DEF Fenced, CheckIsPresent, Publishable
  <2>3. active => target.token = epoch
    BY DEF Publishable, MayForward, Allows
  <2> QED
    BY <2>2, <2>3 DEF FencedTargets
<1> QED
  BY <1>1, FencedAlways, PTL

---------------------------------------------------------------------------
(* HardwareReset.                                                          *)

(* The two steps that the gate's own next-state relation does not hold: a  *)
(* request that came with a sample, and the completion of a reset.         *)
Rehooked == [Step]_vars /\ Hooked /\ UNCHANGED <<readyVars, replay, apiChecked, resumeOwed>>

HardwareSteps ==
  TickAbandons \/ PermitHeartbeat \/ DrainRecover \/ DrainOutput \/ DrainEnds \/ TenthOfASecond

LEMMA HardwareLeavesGate == HardwareSteps => UNCHANGED allVars
BY DEF HardwareSteps, TickAbandons, PermitHeartbeat, DrainRecover, DrainOutput, DrainEnds,
       TenthOfASecond

LEMMA ResetGateSteps ==
  ASSUME [ResetNext]_everything
  PROVE  [GateNext]_allVars \/ Rehooked
<1>1. GateMoves \/ ReportReady \/ EmergencyStops \/ SwitchOutput => GateNext
  BY Zenon
     DEF GateMoves, ReportReady, EmergencyStops, SwitchOutput, OtherCaller, GateNext, Caller
<1>2. RequestReset => Rehooked
  <2>1. RequestReset => [Step]_vars
    BY DEF RequestReset, Step, Message
  <2> QED
    BY <2>1, Zenon DEF RequestReset, Rehooked
<1>3. TickCompletes => GateNext \/ Rehooked
  <2>1. Recover => [Step]_vars
    BY DEF Step, Request
  <2>2. TickRecover => Rehooked
    BY <2>1, Zenon DEF TickRecover, Rehooked
  <2> QED
    BY <2>2, Zenon DEF TickCompletes, GateNext
<1>4. UNCHANGED everything => UNCHANGED allVars
  BY DEF everything
<1> QED
  BY <1>1, <1>2, <1>3, <1>4, HardwareLeavesGate DEF ResetNext, HardwareSteps

LEMMA ResetTakesSteps == [ResetNext]_everything => [Step]_vars
BY ResetGateSteps, GateTakesSteps DEF Rehooked

LEMMA ResetKeepsInv == ResetSpec => []Inv
<1>1. ResetInit => Init
  BY DEF ResetInit, GateInit
<1> QED
  BY <1>1, InvInit, InvStep, ResetTakesSteps, PTL DEF ResetSpec

LEMMA ResetKeepsSource == ResetSpec => []SourceFits
<1>1. ResetInit => SourceFits
  BY DEF ResetInit, GateInit, Init, SourceFits, Human
<1> QED
  BY <1>1, SourceStep, ResetTakesSteps, PTL DEF ResetSpec

---------------------------------------------------------------------------
(* The types.                                                              *)
LEMMA ResetGateTypes ==
  ASSUME Inv, SourceFits', GateTypes, [ResetNext]_everything
  PROVE  GateTypes'
<1>1. CASE [GateNext]_allVars
  BY <1>1, GateTypesStep
<1>2. CASE Rehooked
  <2>1. SelectorOK'
    BY <1>2, RevokedTypes DEF Rehooked, Hooked, GateTypes
  <2>2. FlagsOK'
    <3>1. apiChecked' \in BOOLEAN /\ resumeOwed' \in BOOLEAN
      BY <1>2, Zenon DEF Rehooked, GateTypes, FlagsOK
    <3> QED
      BY <1>2, <3>1, FlagsKept, Zenon DEF Rehooked, GateTypes
  <2>3. outputEpoch' \in Nat
    <3>1. epoch' = epoch \/ (epoch' \in Nat /\ epoch' > epoch)
      BY <1>2, EpochMoves DEF Rehooked, SameGeneration
    <3>2. outputEpoch \in Nat
      BY DEF GateTypes
    <3>3. Counted
      BY <1>2, <3>1, <3>2, RevokedCounts, Zenon DEF Rehooked, Hooked
    <3> QED
      BY <3>2, <3>3 DEF Counted, NewOutputEpoch
  <2> QED
    BY <2>1, <2>2, <2>3 DEF GateTypes
<1> QED
  BY <1>1, <1>2, ResetGateSteps

(* A queued reset is one that was asked for.                               *)
GoodCommands == {c \in Commands : c.kind = "recover" => c.of # NoRecovery}

QueueOK == queue \in Seq(GoodCommands) /\ Len(queue) <= QueueSize
RequestOK == recovery \in Recoveries /\ resets \in Nat
MarksOK == reported \in BOOLEAN /\ stopAsked \in BOOLEAN
HardwareOK == hwEnabled \in BOOLEAN /\ sent \in BOOLEAN /\ recent \in BOOLEAN

LEMMA RequestStep ==
  ASSUME Inv, Inv', RequestOK, [ResetNext]_everything
  PROVE  RequestOK'
<1> USE DEF RequestOK
<1>1. UNCHANGED resetVars => RequestOK'
  BY DEF resetVars
<1>2. GateMoves \/ ReportReady \/ EmergencyStops \/ SwitchOutput => RequestOK'
  BY <1>1 DEF GateMoves, ReportReady, EmergencyStops, SwitchOutput
<1>3. RequestReset => RequestOK'
  <2>1. epoch' \in Nat
    BY DEF Inv, TypeOK, CountersOK
  <2>2. ASSUME RequestReset
        PROVE  recovery' = [epoch |-> epoch', number |-> resets + 1] /\ resets' = resets + 1
    BY <2>2, Zenon DEF RequestReset
  <2> QED
    BY <2>1, <2>2 DEF Recoveries
<1>4. TickAbandons \/ TickCompletes => RequestOK'
  <2>1. TickAbandons \/ TickCompletes => recovery' = NoRecovery /\ resets' = resets
    BY Zenon DEF TickAbandons, TickCompletes
  <2> QED
    BY <2>1 DEF NoRecovery, Recoveries
<1>5. DrainRecover \/ DrainOutput => RequestOK'
  BY DEF DrainRecover, DrainOutput
<1>6. PermitHeartbeat \/ DrainEnds \/ TenthOfASecond \/ UNCHANGED everything => RequestOK'
  BY <1>1 DEF PermitHeartbeat, DrainEnds, TenthOfASecond, everything
<1> QED
  BY <1>2, <1>3, <1>4, <1>5, <1>6 DEF ResetNext

LEMMA QueueStep ==
  ASSUME GateTypes', RequestOK, RequestOK', QueueOK, [ResetNext]_everything
  PROVE  QueueOK'
<1>0. UNCHANGED queue => QueueOK'
  BY DEF QueueOK
<1>1. \A command \in GoodCommands : Enqueue(command) => QueueOK'
  BY QueueAssumption DEF Enqueue, QueueOK
<1>2. queue # <<>> /\ queue' = Tail(queue) => QueueOK'
  BY QueueAssumption DEF QueueOK
<1>3. GateMoves \/ ReportReady \/ EmergencyStops \/ TickAbandons \/ TickCompletes \/ PermitHeartbeat
        \/ DrainEnds \/ TenthOfASecond \/ UNCHANGED everything => QueueOK'
  BY <1>0
     DEF GateMoves, ReportReady, EmergencyStops, TickAbandons, TickCompletes, PermitHeartbeat,
         DrainEnds, TenthOfASecond, everything, resetVars
<1>4. ASSUME SwitchOutput PROVE QueueOK'
  <2>1. PICK enabled \in BOOLEAN, number \in Nat :
          Enqueue([kind |-> "output", enabled |-> enabled, epoch |-> number])
    BY <1>4, Zenon DEF SwitchOutput, GateTypes, SelectorOK
  <2>2. [kind |-> "output", enabled |-> enabled, epoch |-> number] \in GoodCommands
    BY DEF GoodCommands, Commands
  <2> QED
    BY <1>1, <2>1, <2>2
<1>5. ASSUME RequestReset PROVE QueueOK'
  <2>1. recovery'.number = resets + 1 /\ recovery' \in Recoveries
    BY <1>5 DEF RequestReset, RequestOK
  <2>2. recovery' # NoRecovery
    BY <2>1 DEF RequestOK, NoRecovery
  <2>3. [kind |-> "recover", of |-> recovery'] \in GoodCommands
    BY <2>1, <2>2 DEF GoodCommands, Commands
  <2>4. Enqueue([kind |-> "recover", of |-> recovery'])
    BY <1>5, Zenon DEF RequestReset
  <2> QED
    BY <1>1, <2>3, <2>4
<1>6. DrainRecover \/ DrainOutput => QueueOK'
  BY <1>2 DEF DrainRecover, DrainOutput
<1> QED
  BY <1>3, <1>4, <1>5, <1>6 DEF ResetNext

LEMMA HookedTypes ==
  ASSUME HardwareOK
  PROVE  /\ \A after \in BOOLEAN : HookedHardware(after) => HardwareOK'
         /\ \A known, enabled \in BOOLEAN : PublishUnless(known, enabled) => HardwareOK'
<1> USE DEF HardwareOK
<1>1. ASSUME NEW after \in BOOLEAN, HookedHardware(after) PROVE HardwareOK'
  <2>1. CASE HookStops
    <3>1. hwEnabled' = FALSE /\ sent' = ~after /\ recent' = TRUE
      BY <1>1, <2>1, Zenon DEF HookedHardware
    <3> QED
      BY <3>1, Zenon
  <2>2. CASE ~HookStops
    <3>1. sent' = (sent /\ outputEpoch' = outputEpoch) /\ UNCHANGED <<hwEnabled, recent>>
      BY <1>1, <2>2, Zenon DEF HookedHardware
    <3> QED
      BY <3>1, Zenon
  <2> QED
    BY <2>1, <2>2
<1>2. \A known, enabled \in BOOLEAN : PublishUnless(known, enabled) => HardwareOK'
  BY DEF PublishUnless, hardwareVars
<1> QED
  BY <1>1, <1>2

LEMMA FlagStep ==
  ASSUME QueueOK, MarksOK, HardwareOK, [ResetNext]_everything
  PROVE  MarksOK' /\ HardwareOK'
<1>1. MarksOK'
  <2>1. /\ reported' = reported \/ reported' = Pending \/ reported' = FALSE
        /\ stopAsked' = stopAsked \/ stopAsked' = Pending \/ stopAsked' = FALSE
    BY DEF ResetNext, GateMoves, ReportReady, EmergencyStops, SwitchOutput, RequestReset,
           TickAbandons, TickCompletes, PermitHeartbeat, DrainRecover, DrainOutput, DrainEnds,
           TenthOfASecond, everything, resetVars
  <2> QED
    BY <2>1, Zenon DEF MarksOK, Pending
<1>2. GateMoves \/ ReportReady \/ SwitchOutput \/ RequestReset \/ TickCompletes => HardwareOK'
  BY HookedTypes DEF GateMoves, ReportReady, SwitchOutput, RequestReset, TickCompletes
<1>3. EmergencyStops => HardwareOK'
  BY HookedTypes DEF EmergencyStops
<1>4. TickAbandons \/ PermitHeartbeat \/ DrainEnds => HardwareOK'
  BY HookedTypes DEF TickAbandons, PermitHeartbeat, DrainEnds, HardwareOK
<1>5. UNCHANGED hardwareVars => HardwareOK'
  BY DEF hardwareVars, HardwareOK
<1>6. DrainRecover => HardwareOK'
  BY <1>5, HookedTypes DEF DrainRecover
<1>7. ASSUME DrainOutput PROVE HardwareOK'
  <2>1. Head(queue).enabled \in BOOLEAN
    <3>1. Head(queue) \in GoodCommands /\ Head(queue).kind = "output"
      BY <1>7 DEF DrainOutput, QueueOK
    <3> QED
      BY <3>1 DEF GoodCommands, Commands
  <2>2. PublishUnless(sent, Head(queue).enabled) \/ UNCHANGED hardwareVars
    BY <1>7 DEF DrainOutput
  <2> QED
    BY <1>5, <2>1, <2>2, HookedTypes DEF HardwareOK
<1>8. TenthOfASecond \/ UNCHANGED everything => HardwareOK'
  BY <1>5 DEF TenthOfASecond, everything, HardwareOK
<1> QED
  BY <1>1, <1>2, <1>3, <1>4, <1>6, <1>7, <1>8 DEF ResetNext

ResetTypes == GateTypes /\ RequestOK /\ QueueOK /\ MarksOK /\ HardwareOK

LEMMA ResetTypesHold == ResetSpec => []ResetTypes
<1>1. ResetInit => ResetTypes
  <2> SUFFICES ASSUME ResetInit PROVE ResetTypes
    OBVIOUS
  <2>1. GateTypes
    BY GateTypesInit DEF ResetInit
  <2>2. RequestOK
    BY DEF ResetInit, RequestOK, NoRecovery, Recoveries
  <2>3. QueueOK
    BY QueueAssumption DEF ResetInit, QueueOK
  <2>4. MarksOK /\ HardwareOK
    BY DEF ResetInit, MarksOK, HardwareOK
  <2> QED
    BY <2>1, <2>2, <2>3, <2>4 DEF ResetTypes
<1>2. Inv /\ Inv' /\ SourceFits' /\ ResetTypes /\ [ResetNext]_everything => ResetTypes'
  BY ResetGateTypes, RequestStep, QueueStep, FlagStep DEF ResetTypes
<1> QED
  BY <1>1, <1>2, ResetKeepsInv, ResetKeepsSource, PTL DEF ResetSpec

(* The queue, the pending request and the hardware's throttle hold what    *)
(* the code lets them hold; the queue never exceeds its limit.             *)
THEOREM ResetTypeCorrect == ResetSpec => []ResetTypeOK
<1>1. Inv /\ ResetTypes => ResetTypeOK
  <2> SUFFICES ASSUME Inv, ResetTypes PROVE ResetTypeOK
    OBVIOUS
  <2>1. queue \in Seq(Commands)
    <3>1. GoodCommands \subseteq Commands
      BY DEF GoodCommands
    <3> QED
      BY <3>1 DEF ResetTypes, QueueOK
  <2>2. GateTypeOK
    BY GateTypesMean DEF ResetTypes
  <2> QED
    BY <2>1, <2>2, Zenon DEF ResetTypes, QueueOK, RequestOK, MarksOK, HardwareOK, ResetTypeOK
<1> QED
  BY <1>1, ResetTypesHold, ResetKeepsInv, PTL

---------------------------------------------------------------------------
(* What a reset may count on.  Within one epoch a latched stop stays one,  *)
(* so that a pending reset with the current token is the reset of the stop *)
(* that holds now; and a session has an epoch, which no token of "nothing  *)
(* pending" equals.                                                        *)
EpochOfSession == epoch = 0 => state = "OFF"
ResetOfStop ==
  /\ recovery.epoch <= epoch
  /\ Pending /\ recovery.epoch = epoch => state \in Latched

ResetInv == EpochOfSession /\ ResetOfStop /\ LatchedHardwareIsStopped

SameStop ==
  /\ epoch' = epoch
  /\ state' \in Latched <=> state \in Latched
  /\ state' = "OFF" <=> state = "OFF"

LEMMA StopMoves ==
  ASSUME Inv, [Step]_vars
  PROVE  SameStop \/ (epoch' \in Nat /\ epoch' > epoch)
<1>1. CASE epoch' # epoch
  BY <1>1, EpochMoves DEF SameGeneration
<1>2. CASE epoch' = epoch
  <2>1. CASE OpenPermission
    BY <1>2, <2>1 DEF OpenPermission, HandoverReady, Handover, Latched, SameStop
  <2>2. CASE Unopened
    BY <1>2, <2>2, StableOwner DEF SameStop
  <2> QED
    BY <2>1, <2>2 DEF Step, Advance, Unopened
<1> QED
  BY <1>1, <1>2

LEMMA NobodyPending == EpochOfSession /\ recovery.epoch = epoch /\ state # "OFF" => Pending
BY DEF EpochOfSession, Pending, NoRecovery

(* A step that leaves the pending reset alone, and the hardware or stops it *)
(* with a new stop.                                                        *)
LEMMA RecoveryKept ==
  ASSUME Inv, RequestOK, ResetInv, [Step]_vars, UNCHANGED recovery,
         hwEnabled' => hwEnabled /\ ~HookStops
  PROVE  ResetInv'
<1>1. epoch \in Nat /\ recovery.epoch \in Nat
  BY DEF Inv, TypeOK, CountersOK, RequestOK, Recoveries
<1>2. CASE SameStop
  BY <1>2
     DEF SameStop, ResetInv, EpochOfSession, ResetOfStop, LatchedHardwareIsStopped, Pending
<1>3. CASE epoch' \in Nat /\ epoch' > epoch
  <2>1. epoch' # 0 /\ recovery.epoch < epoch' /\ epoch' # epoch
    BY <1>1, <1>3 DEF ResetInv, ResetOfStop
  <2>2. state' \in Latched => ~hwEnabled'
    BY <2>1 DEF HookStops
  <2> QED
    BY <1>1, <1>3, <2>1, <2>2
       DEF ResetInv, EpochOfSession, ResetOfStop, LatchedHardwareIsStopped
<1> QED
  BY <1>2, <1>3, StopMoves

LEMMA HookedEffect ==
  \A after : HookedHardware(after) =>
     /\ hwEnabled' => hwEnabled /\ ~HookStops
     /\ ~HookStops => hwEnabled' = hwEnabled
BY Zenon DEF HookedHardware

LEMMA StopPublished == \A known : PublishUnless(known, FALSE) => (hwEnabled' => hwEnabled)
BY DEF PublishUnless, hardwareVars

LEMMA StepKeepsReset ==
  ASSUME Inv, Inv', RequestOK, ResetInv, [ResetNext]_everything
  PROVE  ResetInv'
<1>0. [Step]_vars
  BY ResetTakesSteps
<1>1. GateMoves \/ ReportReady \/ EmergencyStops \/ SwitchOutput => ResetInv'
  <2>1. GateMoves \/ ReportReady \/ EmergencyStops \/ SwitchOutput
          => UNCHANGED recovery /\ \E after : HookedHardware(after)
    BY DEF GateMoves, ReportReady, EmergencyStops, SwitchOutput, resetVars
  <2> QED
    BY <1>0, <2>1, HookedEffect, RecoveryKept
<1>2. ASSUME UNCHANGED <<allVars, recovery>>, hwEnabled' => hwEnabled PROVE ResetInv'
  <2>1. ~HookStops
    BY <1>2 DEF HookStops, allVars, vars, authorityVars
  <2> QED
    BY <1>0, <1>2, <2>1, RecoveryKept
<1>3. PermitHeartbeat \/ DrainEnds \/ TenthOfASecond \/ UNCHANGED everything => ResetInv'
  <2>1. PermitHeartbeat \/ DrainEnds => UNCHANGED <<allVars, recovery>> /\ (hwEnabled' => hwEnabled)
    BY StopPublished DEF PermitHeartbeat, DrainEnds, resetVars
  <2>2. TenthOfASecond \/ UNCHANGED everything => UNCHANGED <<allVars, recovery, hwEnabled>>
    BY DEF TenthOfASecond, everything, resetVars, hardwareVars
  <2> QED
    BY <1>2, <2>1, <2>2
<1>4. ASSUME RequestReset PROVE ResetInv'
  <2>1. /\ recovery' = [epoch |-> epoch', number |-> resets + 1]
        /\ state' \in Latched
    BY <1>4, Zenon DEF RequestReset
  <2>2. EpochOfSession'
    <3>1. SameStop \/ (epoch' \in Nat /\ epoch' > epoch)
      BY <1>0, StopMoves
    <3> QED
      BY <3>1 DEF SameStop, ResetInv, EpochOfSession, Inv, TypeOK, CountersOK
  <2>3. recovery'.epoch = epoch' /\ epoch' \in Nat
    BY <2>1 DEF Inv, TypeOK, CountersOK
  <2>4. Pending'
    BY <2>1, <2>2, <2>3 DEF EpochOfSession, Pending, NoRecovery, Latched
  <2> QED
    BY <2>1, <2>2, <2>3, <2>4 DEF ResetInv, ResetOfStop, LatchedHardwareIsStopped
<1>5. ASSUME TickAbandons \/ TickCompletes PROVE ResetInv'
  <2>1. recovery' = NoRecovery /\ ~Pending'
    BY <1>5 DEF TickAbandons, TickCompletes, Pending
  <2>2. EpochOfSession'
    <3>1. SameStop \/ (epoch' \in Nat /\ epoch' > epoch)
      BY <1>0, StopMoves
    <3> QED
      BY <3>1 DEF SameStop, ResetInv, EpochOfSession, Inv, TypeOK, CountersOK
  <2>3. ResetOfStop'
    BY <2>1 DEF ResetOfStop, NoRecovery, Inv, TypeOK, CountersOK
  <2>4. LatchedHardwareIsStopped'
    <3>1. TickAbandons => ~hwEnabled'
      BY DEF TickAbandons, PublishUnless
    <3>2. CASE TickCompletes /\ TickRecover
      <4>1. state' = "HOLD"
        BY <3>2, StopEffect DEF TickRecover, Recover
      <4> QED
        BY <4>1 DEF LatchedHardwareIsStopped, Latched
    <3>3. CASE TickCompletes /\ TickFindsUnready
      <4>1. epoch' # epoch
        BY <3>3, GenerationMoves DEF TickFindsUnready, RecoverFaults, Faulted, Inv, TypeOK, CountersOK
      <4>2. HookStops
        BY <3>3, <4>1, UnreadyFaults DEF HookStops, Latched
      <4>3. ~hwEnabled'
        BY <3>3, <4>2, HookedEffect DEF TickCompletes
      <4> QED
        BY <4>3 DEF LatchedHardwareIsStopped
    <3> QED
      BY <1>5, <3>1, <3>2, <3>3 DEF LatchedHardwareIsStopped, TickCompletes
  <2> QED
    BY <2>2, <2>3, <2>4 DEF ResetInv
<1>6. ASSUME DrainRecover \/ DrainOutput PROVE ResetInv'
  <2>1. UNCHANGED <<allVars, recovery>>
    BY <1>6 DEF DrainRecover, DrainOutput
  <2>2. UNCHANGED <<epoch, state, recovery>>
    BY <2>1 DEF allVars, vars, authorityVars
  <2>3. CASE hwEnabled' => hwEnabled
    BY <1>2, <2>1, <2>3
  <2>4. CASE hwEnabled' /\ ~hwEnabled
    <3>1. state \in Latched => Pending /\ recovery.epoch = epoch
      <4>1. CASE DrainRecover
        BY <2>4, <4>1, NobodyPending DEF DrainRecover, Arms, hardwareVars, Latched, ResetInv
      <4>2. CASE DrainOutput
        BY <2>4, <4>2 DEF DrainOutput, Switches, hardwareVars, Latched, active
      <4> QED
        BY <1>6, <4>1, <4>2
    <3> QED
      BY <2>2, <3>1
         DEF ResetInv, EpochOfSession, ResetOfStop, LatchedHardwareIsStopped, Pending
  <2> QED
    BY <2>3, <2>4
<1> QED
  BY <1>1, <1>3, <1>4, <1>5, <1>6 DEF ResetNext

LEMMA ResetInvariance == ResetSpec => []ResetInv
<1>1. ResetInit => ResetInv
  BY DEF ResetInit, GateInit, Init, ResetInv, EpochOfSession, ResetOfStop,
         LatchedHardwareIsStopped, Pending, NoRecovery, Latched
<1>2. Inv /\ Inv' /\ ResetTypes /\ ResetInv /\ [ResetNext]_everything => ResetInv'
  BY StepKeepsReset DEF ResetTypes
<1> QED
  BY <1>1, <1>2, ResetKeepsInv, ResetTypesHold, PTL DEF ResetSpec

(* In a latched stop the hardware was last told to run only by the pending *)
(* reset of this very stop, whatever was queued before the stop, however   *)
(* long it waited there and however often the queue was full.              *)
THEOREM LatchedIsStopped == ResetSpec => []LatchedHardwareIsStopped
<1>1. ResetInv => LatchedHardwareIsStopped
  BY DEF ResetInv
<1> QED
  BY <1>1, ResetInvariance, PTL

(* Steps that cannot switch the hardware on, and the two that can.         *)
LEMMA OnlyDrainsSwitchOn ==
  ASSUME [ResetNext]_everything, ~hwEnabled, hwEnabled'
  PROVE  DrainRecover \/ DrainOutput
<1>1. GateMoves \/ ReportReady \/ EmergencyStops \/ SwitchOutput \/ RequestReset \/ TickCompletes
        => \E after : HookedHardware(after)
  BY DEF GateMoves, ReportReady, EmergencyStops, SwitchOutput, RequestReset, TickCompletes
<1>2. TickAbandons \/ PermitHeartbeat \/ DrainEnds => \E known : PublishUnless(known, FALSE)
  BY DEF TickAbandons, PermitHeartbeat, DrainEnds
<1>3. TenthOfASecond \/ UNCHANGED everything => hwEnabled' = hwEnabled
  BY DEF TenthOfASecond, everything, hardwareVars
<1> QED
  BY <1>1, <1>2, <1>3, HookedEffect, StopPublished, Zenon DEF ResetNext

LEMMA DrainedResetIsPending ==
  ASSUME QueueOK, DrainRecover, Arms(Head(queue))
  PROVE  Pending /\ recovery.epoch = epoch
<1>1. Head(queue) \in GoodCommands /\ Head(queue).kind = "recover"
  BY DEF DrainRecover, QueueOK
<1> QED
  BY <1>1 DEF GoodCommands, Arms, Pending

(* The hardware is switched on only by a request that is still good when   *)
(* it is drained; nothing re-arms it within a session.                     *)
THEOREM ArmedByRequest == ResetSpec => ArmedByValidRequest
<1>1. ResetTypes /\ ResetInv /\ [ResetNext]_everything =>
        [~hwEnabled /\ hwEnabled' =>
           \/ ~active /\ outputEnabled
           \/ Pending /\ state \in Latched /\ recovery.epoch = epoch]_everything
  <2> SUFFICES ASSUME ResetTypes, ResetInv, [ResetNext]_everything, ~hwEnabled, hwEnabled'
               PROVE  \/ ~active /\ outputEnabled
                      \/ Pending /\ state \in Latched /\ recovery.epoch = epoch
    OBVIOUS
  <2>1. CASE DrainRecover
    <3>1. Arms(Head(queue))
      BY <2>1 DEF DrainRecover, hardwareVars
    <3> QED
      BY <2>1, <3>1, DrainedResetIsPending DEF ResetTypes, ResetInv, ResetOfStop
  <2>2. CASE DrainOutput
    <3>1. Switches(Head(queue)) /\ PublishUnless(sent, Head(queue).enabled)
      BY <2>2 DEF DrainOutput, hardwareVars
    <3>2. hwEnabled' = Head(queue).enabled
      BY <3>1, Zenon DEF PublishUnless, hardwareVars
    <3>3. Head(queue).enabled = outputEnabled /\ ~active
      BY <3>1, Zenon DEF Switches
    <3> QED
      BY <3>2, <3>3, Zenon
  <2> QED
    BY <2>1, <2>2, OnlyDrainsSwitchOn
<1> QED
  BY <1>1, ResetTypesHold, ResetInvariance, PTL DEF ResetSpec, ArmedByValidRequest

(* A handover never toggles the hardware: a step within a session that is  *)
(* not stopped, with no reset pending, publishes neither.                  *)
THEOREM SessionKeepsHardware == ResetSpec => SessionLeavesHardware
<1>1. ResetTypes /\ ResetInv /\ [ResetNext]_everything =>
        [active /\ state \notin Latched /\ state' \notin Latched \cup {"OFF"}
           /\ ~Pending => hwEnabled' = hwEnabled]_everything
  <2> SUFFICES ASSUME ResetTypes, ResetNext, active, ~Pending,
                      state \notin Latched, state' \notin Latched \cup {"OFF"}
               PROVE  hwEnabled' = hwEnabled
    BY DEF everything, hardwareVars
  <2>1. CASE GateMoves \/ ReportReady \/ EmergencyStops \/ SwitchOutput \/ RequestReset
    <3>1. \E after : HookedHardware(after)
      BY <2>1 DEF GateMoves, ReportReady, EmergencyStops, SwitchOutput, RequestReset
    <3>2. ~HookStops
      BY DEF HookStops
    <3> QED
      BY <3>1, <3>2, HookedEffect, Zenon
  <2>2. ~TickAbandons /\ ~TickCompletes /\ ~PermitHeartbeat /\ ~DrainEnds
    BY DEF TickAbandons, TickCompletes, PermitHeartbeat, DrainEnds, AssertsStop
  <2>3. CASE DrainRecover
    BY <2>3, DrainedResetIsPending DEF DrainRecover, hardwareVars, ResetTypes
  <2>4. CASE DrainOutput
    BY <2>4 DEF DrainOutput, Switches, hardwareVars
  <2>5. CASE TenthOfASecond
    BY <2>5 DEF TenthOfASecond
  <2> QED
    BY <2>1, <2>2, <2>3, <2>4, <2>5 DEF ResetNext
<1> QED
  BY <1>1, ResetTypesHold, ResetInvariance, PTL DEF ResetSpec, SessionLeavesHardware
=============================================================================
