---------------------- MODULE ControlOwnership_proofs ----------------------
(***************************************************************************)
(* Proofs about ControlOwnership for any set of peers, instances, devices  *)
(* and samples and any bounds.  The lemmas are about Step, so that they    *)
(* serve the modules that compose the transaction with its callers too.    *)
(* Its three parts: the invariants; the transaction implements             *)
(* OutputAuthority; it implements PermitHandshake, so that what            *)
(* HandoverPeers shows of the peers rests on the transaction itself.       *)
(***************************************************************************)
EXTENDS ControlOwnership, TLAPS

LEMMA NextIsStep == [Next]_vars => [Step]_vars
BY DEF Next, Step

LEMMA NoAcksType == NoAcks \in [Peers -> Instances \cup {NoInstance}]
  BY DEF NoAcks

(* Every action keeps the input gate, the modes and the peers in their     *)
(* types, whatever it does to the authority.                               *)
LEMMA InputStep == InputOK /\ [Step]_vars => InputOK'
<1> SUFFICES ASSUME InputOK, [Step]_vars PROVE InputOK'
  OBVIOUS
<1> USE DEF InputOK, inputVars, modeVars, peerVars, SetInput
<1>1. ASSUME NEW prepare \in BOOLEAN, NEW dag \in BOOLEAN, NEW st, NEW src, NEW n,
             EnableWith(prepare, dag, st, src, n)
      PROVE  InputOK'
  BY <1>1 DEF EnableWith
<1>2. ASSUME Request PROVE InputOK'
  <2>1. (\E prepare \in BOOLEAN : Enable(prepare)) \/ StartModel => InputOK'
    BY <1>1 DEF Enable, StartModel
  <2>2. (\E on, prepare \in BOOLEAN : SetDagger(on, prepare)) => InputOK'
    BY DEF SetDagger
  <2>3. (\E ready \in BOOLEAN : StartAuto(ready)) => InputOK'
    BY DEF StartAuto
  <2>4. Disable \/ Takeover \/ Hold \/ Recover \/ InputLost => InputOK'
    BY DEF Disable, Takeover, Hold, Recover, InputLost
  <2>5. (\E st \in Latched : Fault(st)) \/ FinishCapturePreparation => InputOK'
    BY DEF Fault, FinishCapturePreparation
  <2> QED
    BY <1>2, <2>1, <2>2, <2>3, <2>4, <2>5 DEF Request
<1>3. ASSUME NEW s \in Samples, Input(s) PROVE InputOK'
  <2>1. s.device \in Devices /\ s.gripped \in BOOLEAN /\ s.pause \in BOOLEAN
    BY <1>3, SamplesAssumption DEF AllSamples
  <2>2. UNCHANGED <<modeVars, peerVars>> /\ inputDevice' = s.device
    BY <1>3 DEF Input
  <2>3. inputStatus' \in {"none", "fresh"} /\ inputArmed' \in BOOLEAN /\ gripped' \in BOOLEAN
    BY <1>3, <2>1
       DEF Input, SampleUnusable, SampleOfOtherDevice, SampleIgnored, SampleAfterGap,
           SamplePauses, SampleReleases, SampleGrips, SampleStarts, WasArmed
  <2> QED
    BY <2>1, <2>2, <2>3
<1>4. ASSUME NEW p \in Peers, NEW i \in Instances, Heartbeat(p, i) PROVE InputOK'
  BY <1>4 DEF Heartbeat
<1>5. InputRejected \/ (\E p \in Peers, i \in Instances : AcknowledgeFailure(p, i)) => InputOK'
  BY DEF InputRejected, InputLost, AcknowledgeFailure, Fault
<1>6. Advance \/ Watchdog => InputOK'
  BY DEF Advance, Watchdog, HandoverTimeout, TakeoverInputLost, InputLost, GrantPermission,
         OpenPermission, WatchdogCapture, WatchdogInput, WatchdogPeer, Fault
<1>7. Sent \/ Time \/ (\E p \in Peers, i \in Instances : Acknowledge(p, i)) => InputOK'
  BY DEF Sent, Time, InputExpires, DeadlinePasses, PeerLapses, Acknowledge
<1>8. UNCHANGED vars => InputOK'
  BY DEF vars
<1>9. ASSUME Unready PROVE InputOK'
  <2>1. RecoverFaults => InputOK'
    BY DEF RecoverFaults
  <2>2. ASSUME NEW s \in Samples, StartFaults(s) PROVE InputOK'
    <3>1. s.device \in Devices /\ s.gripped \in BOOLEAN
      BY SamplesAssumption DEF AllSamples
    <3> QED
      BY <2>2, <3>1 DEF StartFaults
  <2> QED
    BY <1>9, <2>1, <2>2 DEF Unready
<1> QED
  BY <1>2, <1>3, <1>4, <1>5, <1>6, <1>7, <1>8, <1>9 DEF Step, Reply, Message

(* Every action keeps the authority in its types: each goes through one of *)
(* the transaction's operators or assigns single fields.                   *)
LEMMA AuthorityStep == AuthorityOK /\ [Step]_vars => AuthorityOK'
<1> SUFFICES ASSUME AuthorityOK, [Step]_vars PROVE AuthorityOK'
  OBVIOUS
<1> USE NoAcksType DEF AuthorityOK
<1>0. ASSUME NEW st \in States, NEW src \in {"none", "motion", "vr"}, NEW n \in Nat,
             Revoke(st, src, n), recordingError' \in BOOLEAN, resumeAuto' \in BOOLEAN
      PROVE  AuthorityOK'
  <2>1. /\ state' \in States /\ phase' = "revoke" /\ source' = src
        /\ acks' = NoAcks /\ overdue' = FALSE /\ segmentOpen' = FALSE
    BY <1>0 DEF Revoke
  <2> QED
    BY <1>0, <2>1
<1>13. \A st \in States, src \in {"none", "motion", "vr"}, n \in Nat :
         InvalidateBy(st, src, n) /\ resumeAuto' \in BOOLEAN => AuthorityOK'
  BY <1>0 DEF InvalidateBy
<1>1. \A st \in States, src \in {"none", "motion", "vr"} :
         Invalidate(st, src) /\ resumeAuto' \in BOOLEAN => AuthorityOK'
  BY <1>13 DEF Invalidate
<1>2. \A st \in States : Stop(st) => AuthorityOK'
  BY <1>1 DEF Stop
<1>3. AuthorityUnchanged => AuthorityOK'
  BY DEF AuthorityUnchanged, authorityVars, captureVars
<1>4. LossStopsHuman \/ PauseAuthority => AuthorityOK'
  BY <1>2, <1>3 DEF LossStopsHuman, PauseAuthority, States
<1>5. HandBack \/ TakeControl => AuthorityOK'
  BY <1>1 DEF HandBack, TakeControl, States
<1>6. ASSUME NEW prepare, NEW dag, NEW st \in States, NEW src \in {"none", "motion", "vr"},
             NEW n \in Nat, EnableWith(prepare, dag, st, src, n), resumeAuto' \in BOOLEAN
      PROVE  AuthorityOK'
  BY <1>6, <1>0 DEF EnableWith
<1>7. ASSUME Request PROVE AuthorityOK'
  <2>1. (\E prepare \in BOOLEAN : Enable(prepare)) \/ StartModel => AuthorityOK'
    BY <1>6 DEF Enable, StartModel, States
  <2>2. (\E on, prepare \in BOOLEAN : SetDagger(on, prepare)) => AuthorityOK'
    BY <1>3, <1>5 DEF SetDagger
  <2>3. (\E ready \in BOOLEAN : StartAuto(ready)) => AuthorityOK'
    BY <1>1 DEF StartAuto, States
  <2>4. Disable \/ Takeover \/ Hold \/ Recover \/ InputLost => AuthorityOK'
    BY <1>2, <1>4, <1>5 DEF Disable, Takeover, Hold, Recover, InputLost, States
  <2>5. (\E st \in Latched : Fault(st)) => AuthorityOK'
    BY <1>2 DEF Fault, Latched, States
  <2>6. FinishCapturePreparation => AuthorityOK'
    BY DEF FinishCapturePreparation, authorityVars, captureVars
  <2> QED
    BY <1>7, <2>1, <2>2, <2>3, <2>4, <2>5, <2>6 DEF Request
<1>8. ASSUME Message PROVE AuthorityOK'
  <2>1. InputRejected => AuthorityOK'
    BY <1>4 DEF InputRejected, InputLost
  <2>2. (\E s \in Samples : Input(s)) => AuthorityOK'
    BY <1>13, <1>2, <1>3, <1>4, <1>5
       DEF Input, SampleUnusable, SampleOfOtherDevice, SampleIgnored, SampleAfterGap,
           SamplePauses, SampleReleases, SampleGrips, SampleStarts, EpochsOf, States
  <2>3. (\E p \in Peers, i \in Instances : Heartbeat(p, i) \/ AcknowledgeFailure(p, i))
          => AuthorityOK'
    BY <1>2, <1>3 DEF Heartbeat, AcknowledgeFailure, Fault, States
  <2> QED
    BY <1>8, <2>1, <2>2, <2>3 DEF Message
<1>9. ASSUME Advance \/ Watchdog PROVE AuthorityOK'
  BY <1>9, <1>2, <1>3, <1>4
     DEF Advance, Watchdog, HandoverTimeout, TakeoverInputLost, InputLost, GrantPermission,
         OpenPermission, WatchdogCapture, WatchdogInput, WatchdogPeer, Fault, captureVars, States
<1>10. Sent => AuthorityOK'
  BY DEF Sent, authorityVars
<1>11. Time \/ (\E p \in Peers, i \in Instances : Acknowledge(p, i)) => AuthorityOK'
  BY DEF Time, InputExpires, DeadlinePasses, PeerLapses, Acknowledge, authorityVars, captureVars
<1>12. UNCHANGED vars => AuthorityOK'
  BY DEF vars, authorityVars, captureVars
<1>14. Unready => AuthorityOK'
  BY <1>13 DEF Unready, RecoverFaults, StartFaults, FaultBy, EpochsOf, States
<1> QED
  BY <1>7, <1>8, <1>9, <1>10, <1>11, <1>12, <1>14 DEF Step, Reply

(* ... and the counters natural numbers; only an invalidation, a new       *)
(* session and a sent command change one.                                  *)
LEMMA CountersStep == CountersOK /\ [Step]_vars => CountersOK'
<1> SUFFICES ASSUME CountersOK, [Step]_vars PROVE CountersOK'
  OBVIOUS
<1> USE DEF CountersOK
<1>13. \A st, src, n : InvalidateBy(st, src, n) /\ n \in Nat /\ session' = session => CountersOK'
  BY DEF InvalidateBy, Revoke
<1>1. \A st, src : Invalidate(st, src) /\ session' = session => CountersOK'
  BY <1>13 DEF Invalidate
<1>2. \A st : Stop(st) => CountersOK'
  BY <1>1 DEF Stop
<1>3. AuthorityUnchanged => CountersOK'
  BY DEF AuthorityUnchanged, authorityVars, captureVars
<1>4. LossStopsHuman \/ PauseAuthority => CountersOK'
  BY <1>2, <1>3 DEF LossStopsHuman, PauseAuthority
<1>5. HandBack \/ TakeControl => CountersOK'
  BY <1>1 DEF HandBack, TakeControl
<1>6. ASSUME NEW prepare, NEW dag, NEW st, NEW src, NEW n \in Nat,
             EnableWith(prepare, dag, st, src, n)
      PROVE  CountersOK'
  BY <1>6 DEF EnableWith, Revoke
<1>7. ASSUME Request PROVE CountersOK'
  <2>1. (\E prepare \in BOOLEAN : Enable(prepare)) \/ StartModel => CountersOK'
    BY <1>6 DEF Enable, StartModel
  <2>2. (\E on, prepare \in BOOLEAN : SetDagger(on, prepare)) => CountersOK'
    BY <1>3, <1>5 DEF SetDagger
  <2>3. (\E ready \in BOOLEAN : StartAuto(ready)) => CountersOK'
    BY <1>1 DEF StartAuto
  <2>4. Disable \/ Takeover \/ Hold \/ Recover \/ InputLost => CountersOK'
    BY <1>2, <1>4, <1>5 DEF Disable, Takeover, Hold, Recover, InputLost
  <2>5. (\E st \in Latched : Fault(st)) => CountersOK'
    BY <1>2 DEF Fault
  <2>6. FinishCapturePreparation => CountersOK'
    BY DEF FinishCapturePreparation, authorityVars, captureVars
  <2> QED
    BY <1>7, <2>1, <2>2, <2>3, <2>4, <2>5, <2>6 DEF Request
<1>8. ASSUME Message PROVE CountersOK'
  <2>1. InputRejected => CountersOK'
    BY <1>4 DEF InputRejected, InputLost
  <2>2. (\E s \in Samples : Input(s)) => CountersOK'
    BY <1>13, <1>2, <1>3, <1>4, <1>5
       DEF Input, SampleUnusable, SampleOfOtherDevice, SampleIgnored, SampleAfterGap,
           SamplePauses, SampleReleases, SampleGrips, SampleStarts, EpochsOf
  <2>3. (\E p \in Peers, i \in Instances : Heartbeat(p, i) \/ AcknowledgeFailure(p, i))
          => CountersOK'
    BY <1>2, <1>3 DEF Heartbeat, AcknowledgeFailure, Fault
  <2> QED
    BY <1>8, <2>1, <2>2, <2>3 DEF Message
<1>9. ASSUME Advance \/ Watchdog PROVE CountersOK'
  BY <1>9, <1>2, <1>3, <1>4
     DEF Advance, Watchdog, HandoverTimeout, TakeoverInputLost, InputLost, GrantPermission,
         OpenPermission, WatchdogCapture, WatchdogInput, WatchdogPeer, Fault, captureVars
<1>10. Sent => CountersOK'
  BY DEF Sent, authorityVars
<1>11. Time \/ (\E p \in Peers, i \in Instances : Acknowledge(p, i)) => CountersOK'
  BY DEF Time, InputExpires, DeadlinePasses, PeerLapses, Acknowledge, authorityVars, captureVars
<1>12. UNCHANGED vars => CountersOK'
  BY DEF vars, authorityVars, captureVars
<1>14. Unready => CountersOK'
  BY <1>13 DEF Unready, RecoverFaults, StartFaults, FaultBy, EpochsOf
<1> QED
  BY <1>7, <1>8, <1>9, <1>10, <1>11, <1>12, <1>14 DEF Step, Reply

LEMMA TypeStep == TypeOK /\ [Step]_vars => TypeOK'
BY AuthorityStep, InputStep, CountersStep DEF TypeOK

LEMMA TypeInit == Init => TypeOK
<1> SUFFICES ASSUME Init PROVE TypeOK
  OBVIOUS
<1>1. AuthorityOK
  BY NoAcksType DEF Init, AuthorityOK, States
<1>2. InputOK
  BY NoAcksType DEF Init, InputOK
<1>3. CountersOK
  BY DEF Init, CountersOK
<1> QED
  BY <1>1, <1>2, <1>3 DEF TypeOK

(* The fields of the transaction hold what the code lets them hold.        *)
THEOREM TypeCorrect == Spec => []TypeOK
BY TypeInit, TypeStep, NextIsStep, PTL DEF Spec

---------------------------------------------------------------------------
(* What the transaction's operators leave behind, without the epoch.       *)

LEMMA InvalidateByEffect ==
  \A st, src, n : InvalidateBy(st, src, n) =>
    /\ state' = st /\ phase' = "revoke" /\ source' = src
    /\ acks' = NoAcks /\ segmentOpen' = FALSE /\ commandSeq' = 0
    /\ recordingError => recordingError'
BY DEF InvalidateBy, Revoke

LEMMA InvalidateEffect ==
  \A st, src : Invalidate(st, src) =>
    /\ state' = st /\ phase' = "revoke" /\ source' = src
    /\ acks' = NoAcks /\ segmentOpen' = FALSE /\ commandSeq' = 0
    /\ recordingError => recordingError'
BY InvalidateByEffect DEF Invalidate

LEMMA StopEffect ==
  \A st : Stop(st) =>
    /\ state' = st /\ phase' = "revoke" /\ resumeAuto' = FALSE
    /\ acks' = NoAcks /\ segmentOpen' = FALSE /\ commandSeq' = 0
BY InvalidateEffect DEF Stop

LEMMA FaultByEffect ==
  \A n : FaultBy(n) =>
    /\ state' = "FAULT" /\ phase' = "revoke" /\ source' = "none" /\ resumeAuto' = FALSE
    /\ acks' = NoAcks /\ segmentOpen' = FALSE /\ commandSeq' = 0
BY InvalidateByEffect DEF FaultBy

LEMMA EnableEffect ==
  \A prepare, dag, st, src, n : EnableWith(prepare, dag, st, src, n) =>
    /\ state' = st /\ phase' = "revoke" /\ acks' = NoAcks
    /\ segmentOpen' = FALSE /\ commandSeq' = 0
    /\ dagger' = dag /\ preparing' = prepare /\ inputStatus' = "none"
    /\ UNCHANGED <<inputDevice, peers, lapsed>>
BY DEF EnableWith, Revoke, SetInput, peerVars

LEMMA SessionEffect ==
  /\ \A prepare : Enable(prepare) =>
       /\ state' = "HOLD" /\ resumeAuto' = FALSE /\ preparing' = prepare
  /\ StartModel =>
       /\ state' = "RETURNING" /\ resumeAuto' = TRUE /\ preparing' = FALSE
  /\ (\E prepare : Enable(prepare)) \/ StartModel =>
       /\ phase' = "revoke" /\ acks' = NoAcks /\ segmentOpen' = FALSE /\ commandSeq' = 0
       /\ inputStatus' = "none" /\ UNCHANGED <<inputDevice, peers, lapsed>>
BY EnableEffect, Zenon DEF Enable, StartModel

LEMMA UnchangedEffect ==
  AuthorityUnchanged =>
    UNCHANGED <<state, phase, source, acks, resumeAuto, segmentOpen, recordingError, commandSeq>>
BY DEF AuthorityUnchanged, authorityVars, captureVars

LEMMA LossLeavesHuman == LossStopsHuman => state' \notin Human
BY StopEffect, UnchangedEffect DEF LossStopsHuman, Human

LEMMA PauseHolds == PauseAuthority => state' = "HOLD"
BY StopEffect, UnchangedEffect DEF PauseAuthority

LEMMA HandBackEffect ==
  HandBack => state' \in {"RETURNING", "HOLD"} /\ (state' = "RETURNING" <=> resumeAuto)
                /\ (resumeAuto' <=> resumeAuto)
BY InvalidateEffect DEF HandBack

LEMMA TakeControlEffect == TakeControl => state' = "TAKEOVER"
BY InvalidateEffect DEF TakeControl

---------------------------------------------------------------------------
(* ManualIsHeld: the steps that open the Grip, leave manual mode or lose   *)
(* the input leave TAKEOVER and MANUAL; the ones that enter TAKEOVER find  *)
(* the gate armed and gripped.                                             *)
LEMMA ManualStep ==
  ASSUME AuthorityOK, InputOK, ManualIsHeld, [Step]_vars
  PROVE  ManualIsHeld'
<1> USE DEF ManualIsHeld, SetInput, inputVars, modeVars
<1>1. Request => ManualIsHeld'
  <2>1. ASSUME NEW prepare \in BOOLEAN, Enable(prepare) PROVE ManualIsHeld'
    BY <2>1, SessionEffect DEF Human
  <2>2. ASSUME StartModel PROVE ManualIsHeld'
    BY <2>2, SessionEffect DEF Human
  <2>3. ASSUME NEW on \in BOOLEAN, NEW prepare \in BOOLEAN, SetDagger(on, prepare)
        PROVE  ManualIsHeld'
    <3>1. state' \notin Human
      BY <2>3, HandBackEffect, UnchangedEffect DEF SetDagger, Human
    <3> QED
      BY <2>3, <3>1 DEF SetDagger
  <2>4. ASSUME NEW ready \in BOOLEAN, StartAuto(ready) PROVE ManualIsHeld'
    BY <2>4, InvalidateEffect DEF StartAuto, Human
  <2>5. ASSUME Disable PROVE ManualIsHeld'
    BY <2>5, StopEffect DEF Disable, Human
  <2>6. ASSUME Takeover PROVE ManualIsHeld'
    BY <2>6, TakeControlEffect DEF Takeover, CanTakeOver, Fresh, Human
  <2>7. ASSUME Hold PROVE ManualIsHeld'
    BY <2>7, PauseHolds DEF Hold, Human
  <2>8. ASSUME Recover PROVE ManualIsHeld'
    BY <2>8, StopEffect DEF Recover, Human
  <2>9. ASSUME FinishCapturePreparation PROVE ManualIsHeld'
    BY <2>9 DEF FinishCapturePreparation, authorityVars, Human
  <2>10. ASSUME InputLost PROVE ManualIsHeld'
    BY <2>10, LossLeavesHuman DEF InputLost
  <2>11. ASSUME NEW st \in Latched, Fault(st) PROVE ManualIsHeld'
    BY <2>11, StopEffect DEF Fault, Latched, Human
  <2> QED
    BY <2>1, <2>2, <2>3, <2>4, <2>5, <2>6, <2>7, <2>8, <2>9, <2>10, <2>11 DEF Request
<1>2. ASSUME NEW s \in Samples, Input(s) PROVE ManualIsHeld'
  <2>1. s.device # NoDevice /\ inputDevice' = s.device /\ UNCHANGED <<dagger, preparing>>
    BY <1>2, NoDeviceAssumption, SamplesAssumption DEF Input, AllSamples
  <2>2. ASSUME state' \in Human
        PROVE  dagger /\ ~preparing /\ gripped' /\ inputArmed' /\ inputStatus' # "none"
    <3>1. CASE SampleUnusable(s)
      BY <2>2, <3>1, LossLeavesHuman, UnchangedEffect DEF SampleUnusable
    <3>2. CASE SampleOfOtherDevice(s) \/ SampleAfterGap(s)
      BY <2>2, <3>2, LossLeavesHuman, StopEffect DEF SampleOfOtherDevice, SampleAfterGap, Human
    <3>3. CASE SampleIgnored(s)
      BY <2>2, <3>3, LossLeavesHuman, UnchangedEffect DEF SampleIgnored
    <3>4. CASE SamplePauses(s)
      BY <2>2, <3>4, PauseHolds, UnchangedEffect
         DEF SamplePauses, active, Latched, Human
    <3>5. CASE SampleReleases(s)
      <4>1. state \notin Human
        BY <2>2, <3>5, HandBackEffect, UnchangedEffect
           DEF SampleReleases, WasGripped, gap, Human
      <4> QED
        BY <2>2, <3>5, <4>1, UnchangedEffect DEF SampleReleases
    <3>6. CASE SampleGrips(s)
      <4>1. SetInput("fresh", WasArmed(s), TRUE)
        BY <3>6 DEF SampleGrips
      <4>2. CASE TakeControl /\ CanTakeOver /\ WasArmed(s)
        BY <4>1, <4>2 DEF CanTakeOver
      <4>3. CASE AuthorityUnchanged
        <5>1. state \in Human
          BY <2>2, <4>3, UnchangedEffect
        <5>2. ~gap /\ ~OtherDevice(s)
          BY <3>6, <5>1 DEF SampleGrips, SampleHandled
        <5>3. WasArmed(s)
          BY <5>1, <5>2, <2>1 DEF WasArmed, OtherDevice, active, Human
        <5> QED
          BY <4>1, <5>1, <5>3
      <4> QED
        BY <3>6, <4>2, <4>3 DEF SampleGrips
    <3>7. CASE SampleStarts(s)
      BY <2>2, <3>7, InvalidateByEffect DEF SampleStarts, Human
    <3> QED
      BY <1>2, <3>1, <3>2, <3>3, <3>4, <3>5, <3>6, <3>7 DEF Input
  <2> QED
    BY <2>1, <2>2
<1>3. ASSUME NEW p \in Peers, NEW i \in Instances, Heartbeat(p, i) PROVE ManualIsHeld'
  BY <1>3, StopEffect, UnchangedEffect DEF Heartbeat, Human
<1>4. ASSUME NEW p \in Peers, NEW i \in Instances, AcknowledgeFailure(p, i) PROVE ManualIsHeld'
  BY <1>4, StopEffect DEF AcknowledgeFailure, Fault, Human
<1>5. ASSUME InputRejected PROVE ManualIsHeld'
  BY <1>5, LossLeavesHuman DEF InputRejected, InputLost
<1>6. ASSUME Advance PROVE ManualIsHeld'
  <2>1. CASE HandoverTimeout
    BY <2>1, StopEffect DEF HandoverTimeout, Fault, Human
  <2>2. CASE TakeoverInputLost
    BY <2>2, LossLeavesHuman DEF TakeoverInputLost, InputLost
  <2>3. CASE GrantPermission
    BY <2>3 DEF GrantPermission
  <2>4. CASE OpenPermission
    BY <2>4 DEF OpenPermission, HandoverReady, Handover, Human
  <2> QED
    BY <1>6, <2>1, <2>2, <2>3, <2>4 DEF Advance
<1>7. ASSUME Watchdog PROVE ManualIsHeld'
  BY <1>7, LossLeavesHuman, StopEffect, UnchangedEffect
     DEF Watchdog, WatchdogCapture, WatchdogInput, WatchdogPeer, InputLost, Fault, Human
<1>8. ASSUME Sent \/ Time PROVE ManualIsHeld'
  BY <1>8 DEF Sent, Time, InputExpires, DeadlinePasses, PeerLapses, authorityVars, Fresh
<1>9. ASSUME NEW p \in Peers, NEW i \in Instances, Acknowledge(p, i) PROVE ManualIsHeld'
  BY <1>9 DEF Acknowledge
<1>10. CASE UNCHANGED vars
  BY <1>10 DEF vars, authorityVars
<1>11. CASE RecoverFaults
  BY <1>11, FaultByEffect DEF RecoverFaults, Human
<1>12. ASSUME NEW s \in Samples, StartFaults(s) PROVE ManualIsHeld'
  <2>1. s.device # NoDevice
    BY NoDeviceAssumption, SamplesAssumption DEF AllSamples
  <2> QED
    BY <1>12, <2>1, FaultByEffect DEF StartFaults, Human
<1> QED
  BY <1>1, <1>2, <1>3, <1>4, <1>5, <1>6, <1>7, <1>8, <1>9, <1>10, <1>11, <1>12
     DEF Step, Reply, Message, Unready

---------------------------------------------------------------------------
(* What any step does to the authority: the operators above, each under    *)
(* the condition that its callers share, or the assignment of one field.   *)
SameAuthority == AuthorityUnchanged /\ UNCHANGED peers

PeerHeard ==
  /\ AuthorityUnchanged
  /\ \E p \in Peers, i \in Instances :
       /\ peers' = [peers EXCEPT ![p] = i]
       /\ peers[p] \in {NoInstance, i} \/ state \in Latched \cup {"OFF"}

Halted ==
  \/ \E st \in {"OFF", "HOLD"} : Stop(st)
  \/ \E st \in Latched : Stop(st) /\ state \notin {"OFF", "ESTOP"} /\ (state = "FAULT" => st = "ESTOP")

Returned == HandBack /\ state \in Human

Taken == TakeControl /\ ~preparing /\ state \in {"AUTO", "HOLD", "RETURNING"}

(* By a request in HOLD, or by a frame that lets go of the Grip as well.   *)
Started ==
  /\ ~preparing /\ resumeAuto' = TRUE
  /\ \/ state = "HOLD" /\ Invalidate("RETURNING", "motion")
     \/ state \in Human /\ ~gripped' /\ InvalidateBy("RETURNING", "motion", 2)

(* Faulted by a call that did something else before.                       *)
Faulted ==
  \/ state = "HOLD" /\ FaultBy(1)
  \/ state \in Human \cup Latched /\ FaultBy(2)

SessionOpened == ~active /\ ((\E prepare : Enable(prepare)) \/ StartModel)

QuietField ==
  \/ \E p \in Peers, i \in Instances : Acknowledge(p, i)
  \/ GrantPermission \/ Sent \/ DeadlinePasses

FieldStep == QuietField \/ OpenPermission

QuietMoves ==
  \/ SameAuthority \/ PeerHeard \/ Halted \/ Returned \/ Taken
  \/ Started \/ Faulted \/ SessionOpened \/ QuietField

Moves == QuietMoves \/ OpenPermission

(* Every step but the one that opens the permission.                       *)
Unopened ==
  \/ Request \/ Message \/ Unready \/ Reply \/ HandoverTimeout \/ TakeoverInputLost \/ GrantPermission
  \/ Watchdog \/ Sent \/ Time \/ UNCHANGED vars

LEMMA UnopenedMoves == ASSUME Unopened PROVE QuietMoves
<1> USE DEF QuietMoves, SameAuthority, Halted, Latched, peerVars
<1>1. LossStopsHuman => Halted \/ AuthorityUnchanged
  BY DEF LossStopsHuman, Human
<1>2. PauseAuthority /\ state \notin Latched => Halted \/ AuthorityUnchanged
  BY DEF PauseAuthority
<1>3. \A st \in Latched : Fault(st) => Halted
  BY DEF Fault, active
<1>4. ASSUME Request PROVE QuietMoves
  <2>1. (\E prepare \in BOOLEAN : Enable(prepare)) \/ StartModel => QuietMoves
    BY DEF SessionOpened, Enable, StartModel, EnableWith
  <2>2. (\E on, prepare \in BOOLEAN : SetDagger(on, prepare)) => QuietMoves
    BY DEF SetDagger, Returned
  <2>3. (\E ready \in BOOLEAN : StartAuto(ready)) => QuietMoves
    BY DEF StartAuto, Started
  <2>4. Disable \/ Recover => QuietMoves
    BY DEF Disable, Recover
  <2>5. Takeover => QuietMoves
    BY DEF Takeover, CanTakeOver, Taken
  <2>6. Hold => QuietMoves
    BY <1>2 DEF Hold
  <2>7. InputLost => QuietMoves
    BY <1>1 DEF InputLost
  <2>8. (\E st \in Latched : Fault(st)) => QuietMoves
    BY <1>3
  <2>9. FinishCapturePreparation => QuietMoves
    BY DEF FinishCapturePreparation, AuthorityUnchanged
  <2> QED
    BY <1>4, <2>1, <2>2, <2>3, <2>4, <2>5, <2>6, <2>7, <2>8, <2>9 DEF Request
<1>5. ASSUME NEW s \in Samples, Input(s) PROVE QuietMoves
  <2>1. UNCHANGED peers
    BY <1>5 DEF Input
  <2>2. CASE SampleUnusable(s) \/ SampleOfOtherDevice(s) \/ SampleIgnored(s)
    BY <1>1, <2>1, <2>2 DEF SampleUnusable, SampleOfOtherDevice, SampleIgnored
  <2>3. CASE SampleAfterGap(s)
    BY <2>3 DEF SampleAfterGap, Human
  <2>4. CASE SamplePauses(s)
    BY <1>2, <2>1, <2>4 DEF SamplePauses
  <2>5. CASE SampleReleases(s)
    BY <2>1, <2>5 DEF SampleReleases, Returned
  <2>6. CASE SampleGrips(s)
    BY <2>1, <2>6 DEF SampleGrips, CanTakeOver, Taken
  <2>7. CASE SampleStarts(s)
    <3>1. ~preparing /\ resumeAuto' = TRUE /\ gripped' = FALSE
      BY <2>7 DEF SampleStarts, AsksToStart, SampleHandled, SetInput
    <3>2. CASE LetsGo(s)
      BY <2>7, <3>1, <3>2 DEF SampleStarts, EpochsOf, LetsGo, Started
    <3>3. CASE ~LetsGo(s)
      BY <2>7, <3>1, <3>3 DEF SampleStarts, AsksToStart, EpochsOf, Started, Invalidate
    <3> QED
      BY <3>2, <3>3
  <2> QED
    BY <1>5, <2>2, <2>3, <2>4, <2>5, <2>6, <2>7 DEF Input
<1>6. ASSUME NEW p \in Peers, NEW i \in Instances, Heartbeat(p, i) PROVE QuietMoves
  <2>1. CASE peers[p] \notin {NoInstance, i} /\ active /\ state \notin Latched
    BY <1>6, <2>1 DEF Heartbeat, active
  <2>2. CASE ~(peers[p] \notin {NoInstance, i} /\ active /\ state \notin Latched)
    BY <1>6, <2>2 DEF Heartbeat, PeerHeard, active
  <2> QED
    BY <2>1, <2>2
<1>7. InputRejected => QuietMoves
  BY <1>1 DEF InputRejected, InputLost
<1>8. (\E p \in Peers, i \in Instances : AcknowledgeFailure(p, i)) => QuietMoves
  BY <1>3 DEF AcknowledgeFailure
<1>9. HandoverTimeout \/ TakeoverInputLost \/ GrantPermission \/ Watchdog => QuietMoves
  BY <1>1, <1>3
     DEF Watchdog, HandoverTimeout, TakeoverInputLost, WatchdogCapture, WatchdogInput,
         WatchdogPeer, PeerSilent, InputLost, QuietField
<1>10. Sent \/ DeadlinePasses \/ (\E p \in Peers, i \in Instances : Acknowledge(p, i)) => QuietMoves
  BY DEF QuietField
<1>11. InputExpires \/ (\E p \in Peers : PeerLapses(p)) => QuietMoves
  BY DEF InputExpires, PeerLapses, AuthorityUnchanged
<1>12. UNCHANGED vars => QuietMoves
  BY DEF vars, AuthorityUnchanged
<1>13. RecoverFaults => QuietMoves
  BY DEF RecoverFaults, Faulted
<1>14. ASSUME NEW s \in Samples, StartFaults(s) PROVE QuietMoves
  <2>1. CASE LetsGo(s)
    BY <1>14, <2>1 DEF StartFaults, EpochsOf, LetsGo, Faulted
  <2>2. CASE ~LetsGo(s)
    BY <1>14, <2>2 DEF StartFaults, AsksToStart, EpochsOf, Faulted
  <2> QED
    BY <2>1, <2>2
<1> QED
  BY <1>4, <1>5, <1>6, <1>7, <1>8, <1>9, <1>10, <1>11, <1>12, <1>13, <1>14
     DEF Unopened, Message, Time, Reply, Unready

LEMMA EveryStepMoves == ASSUME [Step]_vars PROVE Moves
BY UnopenedMoves DEF Moves, Step, Advance, Unopened

---------------------------------------------------------------------------
(* ProgramIsLicensed.                                                      *)
LEMMA LicenceStep ==
  ASSUME AuthorityOK, ProgramIsLicensed, [Step]_vars
  PROVE  ProgramIsLicensed'
<1> USE DEF ProgramIsLicensed
<1>1. CASE SameAuthority \/ PeerHeard
  BY <1>1, UnchangedEffect DEF SameAuthority, PeerHeard
<1>2. CASE Halted
  BY <1>2, StopEffect DEF Halted, Latched
<1>3. CASE Returned
  BY <1>3, HandBackEffect DEF Returned
<1>4. CASE Taken
  BY <1>4, TakeControlEffect DEF Taken
<1>5. CASE Started \/ Faulted
  BY <1>5, InvalidateByEffect, FaultByEffect DEF Started, Invalidate, Faulted
<1>6. CASE SessionOpened
  BY <1>6, SessionEffect DEF SessionOpened
<1>7. CASE FieldStep
  BY <1>7
     DEF FieldStep, QuietField, Acknowledge, GrantPermission, OpenPermission, HandoverReady, Handover, Sent,
         DeadlinePasses, authorityVars
<1> QED
  BY EveryStepMoves, <1>1, <1>2, <1>3, <1>4, <1>5, <1>6, <1>7 DEF Moves, QuietMoves, FieldStep

---------------------------------------------------------------------------
(* PermissionByCurrentPeers: a restart seen by a heartbeat either stops    *)
(* the authority or finds no acknowledgement of the peer to contradict.    *)
LEMMA PermissionStep ==
  ASSUME AuthorityOK, InputOK, PermissionByCurrentPeers, [Step]_vars
  PROVE  PermissionByCurrentPeers'
<1> USE DEF PermissionByCurrentPeers, AllAcked
<1>1. ASSUME acks' = NoAcks, state' \notin {"AUTO", "MANUAL"} PROVE PermissionByCurrentPeers'
  BY <1>1 DEF NoAcks
<1>2. CASE SameAuthority
  BY <1>2, UnchangedEffect DEF SameAuthority
<1>3. CASE PeerHeard
  <2>1. UNCHANGED <<state, phase, acks>>
    BY <1>3, UnchangedEffect DEF PeerHeard
  <2>2. PICK p \in Peers, i \in Instances :
          /\ peers' = [peers EXCEPT ![p] = i]
          /\ peers[p] \in {NoInstance, i} \/ state \in Latched \cup {"OFF"}
    BY <1>3 DEF PeerHeard
  <2>3. ASSUME state \notin Latched, NEW q \in Peers, acks[q] # NoInstance
        PROVE  acks[q] = peers'[q]
    <3>1. state # "OFF" /\ acks[q] = peers[q]
      BY <2>3 DEF NoAcks
    <3>2. q = p => peers[q] = i
      BY <2>2, <2>3, <3>1
    <3> QED
      BY <2>2, <3>1, <3>2 DEF InputOK
  <2> QED
    BY <2>1, <2>3
<1>4. CASE Halted
  BY <1>1, <1>4, StopEffect DEF Halted, Latched
<1>5. CASE Returned
  BY <1>1, <1>5, InvalidateEffect DEF Returned, HandBack
<1>6. CASE Taken
  BY <1>1, <1>6, InvalidateEffect DEF Taken, TakeControl
<1>7. CASE Started \/ Faulted
  BY <1>1, <1>7, InvalidateByEffect, FaultByEffect DEF Started, Invalidate, Faulted
<1>8. CASE SessionOpened
  BY <1>1, <1>8, SessionEffect DEF SessionOpened
<1>9. CASE FieldStep
  <2>1. ASSUME NEW p \in Peers, NEW i \in Instances, Acknowledge(p, i)
        PROVE  PermissionByCurrentPeers'
    <3>1. /\ acks' = [acks EXCEPT ![p] = i] /\ peers[p] = i /\ acks[p] = NoInstance
          /\ state # "OFF" /\ UNCHANGED <<state, phase, peers>>
      BY <2>1 DEF Acknowledge, active, peerVars
    <3>2. \A q \in Peers : acks'[q] = IF q = p THEN i ELSE acks[q]
      BY <3>1 DEF AuthorityOK
    <3> QED
      BY <3>1, <3>2
  <2>2. CASE GrantPermission
    BY <1>1, <2>2 DEF GrantPermission, HandoverReady, Handover
  <2>3. CASE OpenPermission
    BY <2>3 DEF OpenPermission, HandoverReady, Handover, Latched, peerVars
  <2>4. CASE Sent \/ DeadlinePasses
    BY <2>4 DEF Sent, DeadlinePasses, authorityVars, peerVars
  <2> QED
    BY <1>9, <2>1, <2>2, <2>3, <2>4 DEF FieldStep, QuietField
<1> QED
  BY EveryStepMoves, <1>2, <1>3, <1>4, <1>5, <1>6, <1>7, <1>8, <1>9 DEF Moves, QuietMoves, FieldStep

---------------------------------------------------------------------------
(* CaptureCoversManual.                                                    *)
LEMMA CaptureStep ==
  ASSUME AuthorityOK, CaptureCoversManual, [Step]_vars
  PROVE  CaptureCoversManual'
<1> USE DEF CaptureCoversManual
<1>1. ASSUME phase' = "revoke", segmentOpen' = FALSE, commandSeq' = 0
      PROVE  CaptureCoversManual'
  BY <1>1
<1>2. CASE SameAuthority \/ PeerHeard
  BY <1>2, UnchangedEffect DEF SameAuthority, PeerHeard, Human
<1>3. CASE Halted
  BY <1>1, <1>3, StopEffect DEF Halted
<1>4. CASE Returned
  BY <1>1, <1>4, InvalidateEffect DEF Returned, HandBack
<1>5. CASE Taken
  BY <1>1, <1>5, InvalidateEffect DEF Taken, TakeControl
<1>6. CASE Started \/ Faulted
  BY <1>1, <1>6, InvalidateByEffect, FaultByEffect DEF Started, Invalidate, Faulted
<1>7. CASE SessionOpened
  BY <1>1, <1>7, SessionEffect DEF SessionOpened
<1>8. CASE FieldStep
  <2>1. CASE \E p \in Peers, i \in Instances : Acknowledge(p, i)
    BY <2>1 DEF Acknowledge, captureVars, Human
  <2>2. CASE GrantPermission
    BY <2>2 DEF GrantPermission, HandoverReady, Handover, Human, AuthorityOK
  <2>3. CASE OpenPermission
    BY <2>3 DEF OpenPermission, HandoverReady, Handover, captureVars, Human
  <2>4. CASE Sent
    BY <2>4 DEF Sent, AllowsVr, authorityVars, Human
  <2>5. CASE DeadlinePasses
    BY <2>5 DEF DeadlinePasses, captureVars, Human
  <2> QED
    BY <1>8, <2>1, <2>2, <2>3, <2>4, <2>5 DEF FieldStep, QuietField
<1> QED
  BY EveryStepMoves, <1>2, <1>3, <1>4, <1>5, <1>6, <1>7, <1>8 DEF Moves, QuietMoves, FieldStep

---------------------------------------------------------------------------
(* PreparingOpensNoHandover.                                               *)
LEMMA PreparingStarts ==
  ASSUME InputOK, [Step]_vars, preparing'
  PROVE  preparing \/ state' \in {"AUTO", "HOLD"}
<1> USE DEF modeVars
<1>1. CASE Request
  <2>1. CASE \E prepare \in BOOLEAN : Enable(prepare)
    BY <2>1, SessionEffect
  <2>2. CASE StartModel
    BY <2>2, SessionEffect
  <2>3. CASE \E on, prepare \in BOOLEAN : SetDagger(on, prepare)
    BY <2>3, UnchangedEffect DEF SetDagger
  <2> QED
    BY <1>1, <2>1, <2>2, <2>3
       DEF Request, StartAuto, Disable, Takeover, Hold, Recover, FinishCapturePreparation,
           InputLost, Fault
<1>2. CASE Message
  BY <1>2 DEF Message, InputRejected, InputLost, Input, Heartbeat, AcknowledgeFailure, Fault
<1>3. CASE Advance \/ Watchdog
  BY <1>3
     DEF Advance, Watchdog, HandoverTimeout, TakeoverInputLost, InputLost, GrantPermission,
         OpenPermission, WatchdogCapture, WatchdogInput, WatchdogPeer, Fault
<1>4. CASE Sent \/ Time \/ (\E p \in Peers, i \in Instances : Acknowledge(p, i))
  BY <1>4 DEF Sent, Time, InputExpires, DeadlinePasses, PeerLapses, Acknowledge
<1>5. CASE UNCHANGED vars
  BY <1>5 DEF vars
<1>6. CASE Unready
  BY <1>6 DEF Unready, RecoverFaults, StartFaults
<1> QED
  BY <1>1, <1>2, <1>3, <1>4, <1>5, <1>6 DEF Step, Reply

LEMMA PreparingStep ==
  ASSUME AuthorityOK, InputOK, PreparingOpensNoHandover, [Step]_vars
  PROVE  PreparingOpensNoHandover'
<1> SUFFICES ASSUME preparing', state' \in Handover \cup Human PROVE FALSE
  BY DEF PreparingOpensNoHandover
<1>1. preparing /\ state \notin Handover \cup Human
  BY PreparingStarts DEF PreparingOpensNoHandover, Handover, Human
<1> USE DEF Handover, Human
<1>2. CASE SameAuthority \/ PeerHeard
  BY <1>1, <1>2, UnchangedEffect DEF SameAuthority, PeerHeard
<1>3. CASE Halted \/ Faulted
  BY <1>3, StopEffect, FaultByEffect DEF Halted, Faulted, Latched
<1>4. CASE Returned \/ Taken \/ Started
  BY <1>1, <1>4 DEF Returned, Taken, Started
<1>5. CASE SessionOpened
  BY <1>5, SessionEffect DEF SessionOpened
<1>6. CASE FieldStep
  BY <1>1, <1>6
     DEF FieldStep, QuietField, Acknowledge, GrantPermission, OpenPermission, HandoverReady, Sent,
         DeadlinePasses, authorityVars
<1> QED
  BY EveryStepMoves, <1>2, <1>3, <1>4, <1>5, <1>6 DEF Moves, QuietMoves, FieldStep

---------------------------------------------------------------------------
(* The inductive invariant: the five named invariants and the types.       *)
Inv ==
  /\ TypeOK
  /\ ManualIsHeld /\ ProgramIsLicensed /\ PermissionByCurrentPeers
  /\ CaptureCoversManual /\ PreparingOpensNoHandover

LEMMA InvInit == Init => Inv
<1> SUFFICES ASSUME Init PROVE Inv
  OBVIOUS
<1>1. TypeOK
  BY TypeInit
<1>2. ManualIsHeld /\ ProgramIsLicensed /\ PreparingOpensNoHandover
  BY DEF Init, ManualIsHeld, ProgramIsLicensed, PreparingOpensNoHandover, Human
<1>3. PermissionByCurrentPeers
  BY DEF Init, PermissionByCurrentPeers, NoAcks
<1>4. CaptureCoversManual
  BY DEF Init, CaptureCoversManual, Human
<1> QED
  BY <1>1, <1>2, <1>3, <1>4 DEF Inv

LEMMA InvStep == Inv /\ [Step]_vars => Inv'
BY TypeStep, ManualStep, LicenceStep, PermissionStep, CaptureStep, PreparingStep DEF Inv, TypeOK

LEMMA Invariance == Spec => []Inv
BY InvInit, InvStep, NextIsStep, PTL DEF Spec

(* The human owns the robot, or is about to, only behind a valid, armed,   *)
(* closed Grip of a known device, in manual mode.                          *)
THEOREM ManualHeld == Spec => []ManualIsHeld
<1>1. Inv => ManualIsHeld
  BY DEF Inv
<1> QED
  BY <1>1, Invariance, PTL

(* The program runs or is returned to only under an explicit start that    *)
(* nothing has withdrawn since.                                            *)
THEOREM ProgramLicensed == Spec => []ProgramIsLicensed
<1>1. Inv => ProgramIsLicensed
  BY DEF Inv
<1> QED
  BY <1>1, Invariance, PTL

(* AUTO and MANUAL rest on the grant acknowledgements of every peer, each  *)
(* as the process that is known now.                                       *)
THEOREM PermissionCurrent == Spec => []PermissionByCurrentPeers
<1>1. Inv => PermissionByCurrentPeers
  BY DEF Inv
<1> QED
  BY <1>1, Invariance, PTL

(* A manual interval is captured or its failure noted, and neither segment *)
(* nor action count outlives its epoch.                                    *)
THEOREM CaptureCovers == Spec => []CaptureCoversManual
<1>1. Inv => CaptureCoversManual
  BY DEF Inv
<1> QED
  BY <1>1, Invariance, PTL

(* No handover starts while a capture is being prepared.                   *)
THEOREM PreparingSafe == Spec => []PreparingOpensNoHandover
<1>1. Inv => PreparingOpensNoHandover
  BY DEF Inv
<1> QED
  BY <1>1, Invariance, PTL

---------------------------------------------------------------------------
(* The two action properties of the manual input gate.                     *)

(* Only a sample makes an expired input fresh, and a sample after a gap    *)
(* takes the robot from the human.                                         *)
LEMMA GapStep ==
  ASSUME [Step]_vars, state \in Human, inputStatus = "expired", Fresh'
  PROVE  state' \notin Human
<1> USE DEF Fresh, SetInput, inputVars
<1>1. ASSUME NEW s \in Samples, Input(s) PROVE state' \notin Human
  <2>1. gap
    BY DEF gap
  <2>2. CASE SampleOfOtherDevice(s) \/ SampleIgnored(s)
    BY <2>1, <2>2, LossLeavesHuman DEF SampleOfOtherDevice, SampleIgnored
  <2>3. CASE SampleAfterGap(s)
    BY <2>3, StopEffect DEF SampleAfterGap, Human
  <2> QED
    BY <1>1, <2>1, <2>2, <2>3
       DEF Input, SampleUnusable, SamplePauses, SampleReleases, SampleGrips, SampleStarts,
           AsksToStart, LetsGo, WasGripped, Human
<1>2. ASSUME Request PROVE FALSE
  BY <1>2, SessionEffect
     DEF Request, SetDagger, StartAuto, Disable, Takeover, Hold, Recover,
         FinishCapturePreparation, InputLost, Fault
<1>3. CASE Advance \/ Watchdog
  BY <1>3
     DEF Advance, Watchdog, HandoverTimeout, TakeoverInputLost, InputLost, GrantPermission,
         OpenPermission, WatchdogCapture, WatchdogInput, WatchdogPeer, Fault
<1>4. CASE Message /\ ~\E s \in Samples : Input(s)
  BY <1>4 DEF Message, InputRejected, InputLost, Heartbeat, AcknowledgeFailure, Fault
<1>5. CASE Sent \/ Time \/ UNCHANGED vars \/ (\E p \in Peers, i \in Instances : Acknowledge(p, i))
  BY <1>5 DEF Sent, Time, InputExpires, DeadlinePasses, PeerLapses, Acknowledge, vars
<1>6. CASE Unready
  BY <1>6, FaultByEffect DEF Unready, RecoverFaults, StartFaults, Human
<1> QED
  BY <1>1, <1>2, <1>3, <1>4, <1>5, <1>6 DEF Step, Reply

(* A gap in the manual input is never bridged by the next sample.          *)
THEOREM GapEnds == Spec => GapEndsManual
BY GapStep, NextIsStep, PTL DEF Spec, GapEndsManual

(* Every step that is a barrier opens the Grip or disarms the gate.        *)
LEMMA RearmStep ==
  ASSUME [Step]_vars, Barrier
  PROVE  ~inputArmed' \/ ~gripped'
<1> USE DEF SetInput
<1>0. AuthorityUnchanged => epoch' = epoch /\ state' = state
  BY DEF AuthorityUnchanged, authorityVars
<1>1. CASE Request
  <2>1. CASE (\E prepare \in BOOLEAN : Enable(prepare)) \/ StartModel
    BY <2>1, Zenon DEF Enable, StartModel, EnableWith
  <2>2. CASE (\E on, prepare \in BOOLEAN : SetDagger(on, prepare)) \/ FinishCapturePreparation
    BY <2>2 DEF SetDagger, FinishCapturePreparation
  <2>3. CASE Hold \/ Recover \/ InputLost \/ \E st \in Latched : Fault(st)
    BY <2>3 DEF Hold, Recover, InputLost, Fault
  <2>4. CASE Disable
    BY <2>4, StopEffect DEF Disable, Barrier, inputVars
  <2>5. CASE Takeover
    BY <2>5, TakeControlEffect DEF Takeover, Barrier, inputVars, modeVars
  <2>6. CASE \E ready \in BOOLEAN : StartAuto(ready)
    BY <2>6, InvalidateEffect DEF StartAuto, Barrier, inputVars, modeVars
  <2> QED
    BY <1>1, <2>1, <2>2, <2>3, <2>4, <2>5, <2>6 DEF Request
<1>2. ASSUME NEW s \in Samples, Input(s) PROVE ~inputArmed' \/ ~gripped'
  <2>1. inputDevice' = s.device /\ UNCHANGED <<dagger, preparing>>
    BY <1>2 DEF Input, modeVars
  <2>2. CASE SampleUnusable(s) \/ SampleOfOtherDevice(s) \/ SampleIgnored(s)
             \/ SampleAfterGap(s) \/ SampleReleases(s) \/ SampleStarts(s)
    BY <2>2
       DEF SampleUnusable, SampleOfOtherDevice, SampleIgnored, SampleAfterGap, SampleReleases,
           SampleStarts
  <2>3. ASSUME WasArmed(s), AuthorityUnchanged PROVE ~Barrier
    BY <1>0, <2>1, <2>3 DEF WasArmed, Barrier, gap
  <2>4. CASE SamplePauses(s)
    BY <2>3, <2>4 DEF SamplePauses
  <2>5. ASSUME WasArmed(s), TakeControl PROVE ~Barrier
    BY <2>1, <2>5, TakeControlEffect DEF WasArmed, Barrier, gap
  <2>6. CASE SampleGrips(s)
    BY <2>3, <2>5, <2>6 DEF SampleGrips
  <2> QED
    BY <1>2, <2>2, <2>4, <2>6 DEF Input
<1>3. ASSUME NEW p \in Peers, NEW i \in Instances, Heartbeat(p, i)
      PROVE  ~inputArmed' \/ ~gripped'
  BY <1>0, <1>3 DEF Heartbeat, Barrier, modeVars
<1>4. CASE InputRejected \/ (\E p \in Peers, i \in Instances : AcknowledgeFailure(p, i))
  BY <1>4 DEF InputRejected, InputLost, AcknowledgeFailure, Fault
<1>5. CASE Advance \/ Watchdog
  BY <1>5
     DEF Advance, Watchdog, HandoverTimeout, TakeoverInputLost, InputLost, GrantPermission,
         OpenPermission, WatchdogCapture, WatchdogInput, WatchdogPeer, Fault, Barrier, inputVars, modeVars
<1>6. CASE Sent \/ Time \/ UNCHANGED vars \/ (\E p \in Peers, i \in Instances : Acknowledge(p, i))
  BY <1>6
     DEF Sent, Time, InputExpires, DeadlinePasses, PeerLapses, Acknowledge, vars, Barrier,
         authorityVars, inputVars, modeVars, Fresh
<1>7. CASE Unready
  BY <1>7 DEF Unready, RecoverFaults, StartFaults
<1> QED
  BY <1>1, <1>2, <1>3, <1>4, <1>5, <1>6, <1>7 DEF Step, Reply, Message

(* Every barrier demands a fresh release.                                  *)
THEOREM RearmAfterBarrier == Spec => RearmNeedsRelease
BY RearmStep, NextIsStep, PTL DEF Spec, RearmNeedsRelease

---------------------------------------------------------------------------
(* ControlOwnership implements OutputAuthority.                            *)

(* How the mapped variables depend on the state.                           *)
LEMMA OwnerOf ==
  /\ state = "AUTO" <=> Owner = "program"
  /\ state = "MANUAL" <=> Owner = "human"
  /\ state \notin {"AUTO", "MANUAL"} <=> Owner = "none"
BY DEF Owner

LEMMA TripOf ==
  /\ state = "FAULT" <=> TripLevel = 1
  /\ state = "ESTOP" <=> TripLevel = 2
  /\ state \notin Latched <=> TripLevel = 0
BY DEF TripLevel, Latched

LEMMA InitMaps == Init => Authority!Init
<1> SUFFICES ASSUME Init PROVE Authority!Init
  OBVIOUS
<1>1. Owner = "none" /\ TripLevel = 0
  BY DEF Init, Owner, TripLevel
<1>2. ~(gripped /\ inputStatus # "none")
  BY DEF Init
<1> QED
  BY <1>1, <1>2 DEF Init, Authority!Init

(* Every invalidation opens a new generation.                              *)
LEMMA GenerationMoves ==
  ASSUME CountersOK
  PROVE  /\ \A st, src : Invalidate(st, src) => epoch' \in Nat /\ epoch' > epoch
         /\ \A st : Stop(st) => epoch' \in Nat /\ epoch' > epoch
         /\ HandBack \/ TakeControl => epoch' \in Nat /\ epoch' > epoch
         /\ (\E prepare : Enable(prepare)) \/ StartModel => epoch' \in Nat /\ epoch' > epoch
         /\ Started \/ Faulted => epoch' \in Nat /\ epoch' > epoch
         /\ \A st, src : InvalidateBy(st, src, 2) => epoch' > epoch + 1
<1>4. \A st, src, n : InvalidateBy(st, src, n) => epoch' = epoch + n
  BY DEF InvalidateBy, Revoke
<1>1. \A st, src : Invalidate(st, src) => epoch' = epoch + 1
  BY <1>4 DEF Invalidate
<1>2. \A prepare, dag, st, src, n : EnableWith(prepare, dag, st, src, n) => epoch' = epoch + n
  BY DEF EnableWith, Revoke
<1>3. (\E prepare : Enable(prepare)) \/ StartModel => epoch' = epoch + 1 \/ epoch' = epoch + 2
  BY <1>2, Zenon DEF Enable, StartModel
<1>5. \A n : FaultBy(n) => epoch' = epoch + n
  BY <1>4 DEF FaultBy
<1>6. Started \/ Faulted => epoch' = epoch + 1 \/ epoch' = epoch + 2
  BY <1>1, <1>4, <1>5 DEF Started, Faulted
<1> QED
  BY <1>1, <1>3, <1>4, <1>6 DEF CountersOK, Stop, HandBack, TakeControl

(* The human is given the robot only with the Grip held.                   *)
LEMMA DeadManHolds ==
  ASSUME TypeOK', ManualIsHeld'
  PROVE  Authority!DeadMan
<1>1. resumeAuto' \in BOOLEAN /\ (gripped' /\ inputStatus' # "none") \in BOOLEAN
  BY DEF TypeOK, AuthorityOK, InputOK
<1>2. Owner' = "human" => gripped' /\ inputStatus' # "none"
  <2>1. Owner' = "human" => state' = "MANUAL"
    BY DEF Owner
  <2> QED
    BY <2>1 DEF ManualIsHeld, Human
<1> QED
  BY <1>1, <1>2 DEF Authority!DeadMan

LEMMA OwnerAfter ==
  /\ state' = "AUTO" => Owner' = "program"
  /\ state' = "MANUAL" => Owner' = "human"
  /\ state' \notin {"AUTO", "MANUAL"} => Owner' = "none"
BY DEF Owner

LEMMA TripAfter ==
  /\ state' = "FAULT" => TripLevel' = 1
  /\ state' = "ESTOP" => TripLevel' = 2
  /\ state' \notin Latched => TripLevel' = 0
BY DEF TripLevel, Latched

(* Each kind of step is one action of the abstract specification.          *)
LEMMA MoveMaps ==
  ASSUME Inv, Moves
  PROVE  \/ Authority!Withdraw \/ Authority!Start \/ Authority!Trip \/ Authority!Reset
         \/ Authority!LetGoAndStart \/ Authority!ResetAndTrip
         \/ Authority!HandMoves \/ \E who \in {"program", "human"} : Authority!Give(who)
<1> DEFINE NewEpoch == epoch' \in Nat /\ epoch' > epoch
<1>1. CASE SameAuthority \/ PeerHeard
  <2>1. UNCHANGED <<state, epoch, resumeAuto>>
    BY <1>1 DEF SameAuthority, PeerHeard, AuthorityUnchanged, authorityVars
  <2>2. UNCHANGED <<Owner, TripLevel>>
    BY <2>1 DEF Owner, TripLevel
  <2> QED
    BY <2>1, <2>2 DEF Authority!HandMoves
<1>2. CASE Halted
  <2>1. ASSUME NEW st \in {"OFF", "HOLD"}, Stop(st) PROVE Authority!Reset
    <3>1. state' = st /\ resumeAuto' = FALSE /\ NewEpoch
      BY <2>1, StopEffect, GenerationMoves DEF Inv, TypeOK
    <3>2. Owner' = "none" /\ TripLevel' = 0
      BY <3>1, OwnerAfter, TripAfter DEF Latched
    <3> QED
      BY <3>1, <3>2 DEF Authority!Reset, Authority!NewGeneration
  <2>2. ASSUME NEW st \in Latched, Stop(st), state # "ESTOP", state = "FAULT" => st = "ESTOP"
        PROVE  Authority!Trip
    <3>1. state' = st /\ resumeAuto' = FALSE /\ NewEpoch
      BY <2>2, StopEffect, GenerationMoves DEF Inv, TypeOK
    <3>2. Owner' = "none" /\ TripLevel' \in {1, 2}
      BY <2>2, <3>1, OwnerAfter, TripAfter DEF Latched
    <3>3. TripLevel' > TripLevel
      BY <2>2, <3>1, TripOf, TripAfter DEF Latched
    <3> QED
      BY <3>1, <3>2, <3>3 DEF Authority!Trip, Authority!NewGeneration
  <2> QED
    BY <1>2, <2>1, <2>2 DEF Halted
<1>3. CASE Returned
  <2>1. state' \in {"RETURNING", "HOLD"} /\ (resumeAuto' => resumeAuto) /\ NewEpoch
    BY <1>3, HandBackEffect, GenerationMoves DEF Returned, Inv, TypeOK
  <2>2. Owner' = "none" /\ TripLevel' = 0 /\ TripLevel = 0
    BY <1>3, <2>1, OwnerAfter, TripAfter, TripOf DEF Returned, Human, Latched
  <2> QED
    BY <2>1, <2>2 DEF Authority!Withdraw, Authority!NewGeneration
<1>4. CASE Taken
  <2>1. state' = "TAKEOVER" /\ NewEpoch
    BY <1>4, TakeControlEffect, GenerationMoves DEF Taken, Inv, TypeOK
  <2>2. resumeAuto' => resumeAuto
    BY <1>4 DEF Taken, TakeControl, Inv, ProgramIsLicensed
  <2>3. Owner' = "none" /\ TripLevel' = 0 /\ TripLevel = 0
    BY <1>4, <2>1, OwnerAfter, TripAfter, TripOf DEF Taken, Latched
  <2> QED
    BY <2>1, <2>2, <2>3 DEF Authority!Withdraw, Authority!NewGeneration
<1>5. CASE Started /\ state # "HOLD"
  <2>1. /\ state \in Human /\ gripped' = FALSE /\ resumeAuto' = TRUE
        /\ InvalidateBy("RETURNING", "motion", 2)
    BY <1>5 DEF Started, Inv, TypeOK, InputOK
  <2>2. NewEpoch /\ epoch' > epoch + 1 /\ state' = "RETURNING"
    BY <1>5, <2>1, GenerationMoves, InvalidateByEffect DEF Inv, TypeOK
  <2>3. TripLevel = 0 /\ Owner' = "none" /\ TripLevel' = 0
    BY <2>1, <2>2, TripOf, OwnerAfter, TripAfter DEF Human, Latched
  <2>4. CASE state = "TAKEOVER"
    BY <2>1, <2>2, <2>3, <2>4, OwnerOf DEF Authority!Start, Authority!NewGeneration
  <2>5. CASE state = "MANUAL"
    BY <2>1, <2>2, <2>3, <2>5, OwnerOf
       DEF Authority!LetGoAndStart, Authority!TwoGenerations, Authority!NewGeneration
  <2> QED
    BY <2>1, <2>4, <2>5 DEF Human
<1>8. CASE Faulted
  <2>1. NewEpoch /\ state' = "FAULT" /\ resumeAuto' = FALSE
    BY <1>8, GenerationMoves, FaultByEffect DEF Faulted, Inv, TypeOK
  <2>2. Owner' = "none" /\ TripLevel' = 1
    BY <2>1, OwnerAfter, TripAfter
  <2>3. CASE state \in Latched
    <3>1. epoch' > epoch + 1
      BY <1>8, <2>3, GenerationMoves DEF Faulted, FaultBy, Latched, Inv, TypeOK
    <3>2. TripLevel > 0
      BY <2>3, TripOf DEF Latched
    <3> QED
      BY <2>1, <2>2, <3>1, <3>2
         DEF Authority!ResetAndTrip, Authority!TwoGenerations, Authority!NewGeneration
  <2>4. CASE state \notin Latched
    <3>1. TripLevel = 0
      BY <2>4, TripOf
    <3> QED
      BY <2>1, <2>2, <3>1 DEF Authority!Trip, Authority!NewGeneration
  <2> QED
    BY <2>3, <2>4
<1>9. CASE (Started /\ state = "HOLD") \/ SessionOpened
  <2>1. NewEpoch /\ state \in {"OFF", "HOLD"} /\ state' \in {"HOLD", "RETURNING"}
    BY <1>9, GenerationMoves, InvalidateByEffect, SessionEffect
       DEF Started, Invalidate, SessionOpened, active, Inv, TypeOK
  <2>2. Owner = "none" /\ TripLevel = 0 /\ Owner' = "none" /\ TripLevel' = 0
    BY <2>1, OwnerOf, TripOf, OwnerAfter, TripAfter DEF Latched
  <2>3. resumeAuto' = FALSE \/ resumeAuto' = TRUE
    BY <1>9, SessionEffect DEF Started, SessionOpened
  <2>4. CASE resumeAuto' = FALSE
    BY <2>1, <2>2, <2>4 DEF Authority!Withdraw, Authority!NewGeneration
  <2>5. CASE resumeAuto' = TRUE
    BY <2>1, <2>2, <2>5 DEF Authority!Start, Authority!NewGeneration
  <2> QED
    BY <2>3, <2>4, <2>5
<1>6. CASE QuietField
  <2>1. UNCHANGED <<state, epoch, resumeAuto>>
    BY <1>6 DEF QuietField, Acknowledge, GrantPermission, Sent, DeadlinePasses, authorityVars
  <2>2. UNCHANGED <<Owner, TripLevel>>
    BY <2>1 DEF Owner, TripLevel
  <2> QED
    BY <2>1, <2>2 DEF Authority!HandMoves
<1>7. CASE OpenPermission
  <2>1. /\ UNCHANGED <<epoch, resumeAuto>>
        /\ \/ state = "TAKEOVER" /\ state' = "MANUAL"
           \/ state = "RETURNING" /\ state' = "AUTO"
    BY <1>7 DEF OpenPermission, HandoverReady, Handover
  <2>2. Owner = "none" /\ TripLevel = 0 /\ TripLevel' = 0
    BY <2>1, OwnerOf, TripOf, TripAfter DEF Latched
  <2>3. CASE state = "TAKEOVER"
    <3>1. Authority!Give("human")
      BY <2>1, <2>2, <2>3, OwnerAfter DEF Authority!Give
    <3> QED
      BY <3>1
  <2>4. CASE state = "RETURNING"
    <3>1. resumeAuto
      BY <2>4 DEF Inv, ProgramIsLicensed
    <3>2. Authority!Give("program")
      BY <2>1, <2>2, <2>4, <3>1, OwnerAfter DEF Authority!Give
    <3> QED
      BY <3>2
  <2> QED
    BY <2>1, <2>3, <2>4
<1> QED
  BY <1>1, <1>2, <1>3, <1>4, <1>5, <1>6, <1>7, <1>8, <1>9 DEF Moves, QuietMoves, FieldStep

LEMMA StepMaps == Inv /\ Inv' /\ [Step]_vars => [Authority!Next]_(Authority!authority)
BY EveryStepMoves, MoveMaps, DeadManHolds DEF Inv, Authority!Next

(* ControlOwnership implements the abstract authority: ownership is never  *)
(* passed on within a generation, the program gets the robot only under a  *)
(* licence, the human only with the Grip held, and a trip only escalates.  *)
THEOREM AuthorityImplemented == Spec => AuthorityKept
BY InitMaps, StepMaps, Invariance, NextIsStep, PTL DEF Spec, AuthorityKept, Authority!Spec

---------------------------------------------------------------------------
(* ControlOwnership implements PermitHandshake.                            *)

(* The handshake's state and its permission depend on the state alone.     *)
LEMMA ModeOf ==
  /\ state = "OFF" => Mode = "off"
  /\ state = "HOLD" => Mode = "hold"
  /\ state \in Handover => Mode = "handover"
  /\ state \in {"AUTO", "MANUAL"} => Mode = "open"
  /\ state \in Latched => Mode = "stopped"
BY DEF Mode, Handover, Latched

LEMMA ModeAfter ==
  /\ state' = "OFF" => Mode' = "off"
  /\ state' = "HOLD" => Mode' = "hold"
  /\ state' \in Handover => Mode' = "handover"
  /\ state' \in {"AUTO", "MANUAL"} => Mode' = "open"
  /\ state' \in Latched => Mode' = "stopped"
BY DEF Mode, Handover, Latched

LEMMA HandshakeInit == Init => Handshake!Init
<1>1. Init => Mode = "off"
  BY ModeOf DEF Init
<1> QED
  BY <1>1 DEF Init, NoAcks, Handshake!Init, Handshake!Unanswered

(* A heartbeat is the only step that changes what is known of a peer.      *)
LEMMA PeersMove ==
  ASSUME [Step]_vars
  PROVE  UNCHANGED peers \/ \E p \in Peers, i \in Instances : Heartbeat(p, i)
<1> USE DEF peerVars
<1>1. Request => UNCHANGED peers
  BY DEF Request, Enable, StartModel, EnableWith, SetDagger, StartAuto, Disable, Takeover, Hold,
         Recover, FinishCapturePreparation, InputLost, Fault
<1>2. InputRejected \/ (\E s \in Samples : Input(s)) => UNCHANGED peers
  BY DEF InputRejected, InputLost, Input
<1>3. (\E p \in Peers, i \in Instances : AcknowledgeFailure(p, i)) \/ Reply => UNCHANGED peers
  BY DEF AcknowledgeFailure, Fault, Reply, Acknowledge
<1>4. Advance \/ Watchdog => UNCHANGED peers
  BY DEF Advance, HandoverTimeout, TakeoverInputLost, InputLost, GrantPermission, OpenPermission,
         Watchdog, WatchdogCapture, WatchdogInput, WatchdogPeer, Fault
<1>5. Sent \/ Time \/ UNCHANGED vars => UNCHANGED peers
  BY DEF Sent, Time, InputExpires, DeadlinePasses, PeerLapses, vars
<1>6. Unready => UNCHANGED peers
  BY DEF Unready, RecoverFaults, StartFaults
<1> QED
  BY <1>1, <1>2, <1>3, <1>4, <1>5, <1>6 DEF Step, Message

(* Every invalidation withdraws, to the state and for the source it names. *)
LEMMA InvalidateWithdraws ==
  ASSUME NEW st, NEW src, Invalidate(st, src), Handshake!CanFollow(Mode'),
         src \in Handshake!SourcesOf(Mode')
  PROVE  Handshake!Withdraw(Mode')
<1>1. phase' = "revoke" /\ source' = src /\ acks' = NoAcks /\ epoch' = epoch + 1
  BY DEF Invalidate, InvalidateBy, Revoke
<1> QED
  BY <1>1 DEF Handshake!Withdraw, Handshake!Unanswered, NoAcks

LEMMA TwiceWithdraws ==
  ASSUME NEW st, NEW src, InvalidateBy(st, src, 2), Handshake!CanFollow(Mode'),
         src \in Handshake!SourcesOf(Mode'), src # "vr", Handshake!Twice(Mode')
  PROVE  Handshake!Withdraw(Mode')
<1>1. phase' = "revoke" /\ source' = src /\ acks' = NoAcks /\ epoch' = epoch + 2
  BY DEF InvalidateBy, Revoke
<1> QED
  BY <1>1 DEF Handshake!Withdraw, Handshake!Unanswered, NoAcks

(* The move of the handshake that each move of the authority makes.        *)
LEMMA MoveAnswers ==
  ASSUME Inv, Moves, UNCHANGED peers
  PROVE  [Handshake!Next]_(Handshake!handshake)
<1> USE DEF Handshake!Next, Handshake!WithdrawAny, Handshake!Modes, Handshake!SourcesOf
<1>0. \A st, src : Invalidate(st, src) => state' = st
  BY InvalidateEffect
<1>1. ASSUME UNCHANGED <<state, phase, epoch, source, acks>>
      PROVE  [Handshake!Next]_(Handshake!handshake)
  <2>1. UNCHANGED Mode
    BY <1>1 DEF Mode
  <2> QED
    BY <1>1, <2>1 DEF Handshake!handshake
<1>2. CASE SameAuthority \/ PeerHeard
  BY <1>1, <1>2 DEF SameAuthority, PeerHeard, AuthorityUnchanged, authorityVars
<1>3. CASE Halted
  <2>1. ASSUME NEW st \in {"OFF", "HOLD"}, Stop(st) PROVE Handshake!WithdrawAny
    <3>1. Invalidate(st, "none") /\ state' = st
      BY <2>1, <1>0 DEF Stop
    <3>2. Mode' \in {"off", "hold"}
      BY <3>1, ModeAfter
    <3>3. Handshake!CanFollow(Mode')
      BY <3>2 DEF Handshake!CanFollow
    <3> QED
      BY <3>1, <3>2, <3>3, InvalidateWithdraws
  <2>2. ASSUME NEW st \in Latched, Stop(st), state \notin {"OFF", "ESTOP"}
        PROVE  Handshake!WithdrawAny
    <3>1. Invalidate(st, "none") /\ state' = st
      BY <2>2, <1>0 DEF Stop
    <3>2. Mode' = "stopped" /\ Mode # "off"
      BY <2>2, <3>1, ModeAfter DEF Mode
    <3>3. Handshake!CanFollow(Mode')
      BY <3>2 DEF Handshake!CanFollow
    <3> QED
      BY <3>1, <3>2, <3>3, InvalidateWithdraws
  <2> QED
    BY <1>3, <2>1, <2>2 DEF Halted
<1>4. CASE Returned
  <2>1. PICK st \in {"RETURNING", "HOLD"} :
          Invalidate(st, IF st = "RETURNING" THEN "motion" ELSE "none") /\ state' = st
    BY <1>4, <1>0 DEF Returned, HandBack
  <2>2. Mode \in {"handover", "open"}
    BY <1>4, ModeOf DEF Returned, Human, Handover
  <2>3. Mode' = IF st = "RETURNING" THEN "handover" ELSE "hold"
    BY <2>1, ModeAfter DEF Handover
  <2>4. Handshake!CanFollow(Mode')
    BY <2>2, <2>3 DEF Handshake!CanFollow
  <2> QED
    BY <2>1, <2>3, <2>4, InvalidateWithdraws
<1>9. CASE Started /\ state # "HOLD"
  <2>1. state \in Human /\ InvalidateBy("RETURNING", "motion", 2)
    BY <1>9 DEF Started
  <2>2. Mode' = "handover"
    BY <2>1, InvalidateByEffect, ModeAfter DEF Handover
  <2>3. Mode \in {"handover", "open"}
    BY <2>1, ModeOf DEF Human, Handover
  <2>4. Handshake!CanFollow(Mode') /\ Handshake!Twice(Mode')
    BY <2>2, <2>3 DEF Handshake!CanFollow, Handshake!Twice
  <2> QED
    BY <2>1, <2>2, <2>4, TwiceWithdraws
<1>10. CASE Faulted
  <2>1. PICK n \in {1, 2} : /\ InvalidateBy("FAULT", "none", n)
                            /\ IF n = 1 THEN state = "HOLD" ELSE state \in Human \cup Latched
    BY <1>10 DEF Faulted, FaultBy
  <2>2. Mode' = "stopped"
    BY <2>1, InvalidateByEffect, ModeAfter DEF Latched
  <2>3. IF n = 1 THEN Mode = "hold" ELSE Mode \in {"handover", "open", "stopped"}
    BY <2>1, ModeOf DEF Human, Handover
  <2>4. Handshake!CanFollow(Mode') /\ (n = 2 => Handshake!Twice(Mode'))
    BY <2>2, <2>3 DEF Handshake!CanFollow, Handshake!Twice
  <2>5. CASE n = 1
    BY <2>1, <2>2, <2>4, <2>5, InvalidateWithdraws DEF Invalidate
  <2>6. CASE n = 2
    BY <2>1, <2>2, <2>4, <2>6, TwiceWithdraws
  <2> QED
    BY <2>2, <2>5, <2>6
<1>5. CASE Taken \/ (Started /\ state = "HOLD")
  <2>1. PICK st \in Handover, src \in {"vr", "motion"} : Invalidate(st, src) /\ state' = st
    BY <1>5, <1>0 DEF Taken, TakeControl, Started, Handover, Human
  <2>2. Mode \in {"hold", "handover", "open"}
    BY <1>5, ModeOf DEF Taken, Started, Handover
  <2>3. Mode' = "handover"
    BY <2>1, ModeAfter
  <2>4. Handshake!CanFollow(Mode')
    BY <2>2, <2>3 DEF Handshake!CanFollow
  <2> QED
    BY <2>1, <2>3, <2>4, InvalidateWithdraws
<1>6. CASE SessionOpened
  <2>1. Mode = "off"
    BY <1>6, ModeOf DEF SessionOpened, active
  <2>2. ASSUME NEW prepare, Enable(prepare) PROVE Handshake!WithdrawAny
    <3>1. Revoke("HOLD", "none", 1)
      BY <2>2 DEF Enable, EnableWith
    <3>2. /\ state' = "HOLD" /\ phase' = "revoke" /\ source' = "none"
          /\ epoch' = epoch + 1 /\ acks' = NoAcks
      BY <3>1 DEF Revoke
    <3>3. Mode' = "hold"
      BY <3>2, ModeAfter
    <3> QED
      BY <2>1, <3>2, <3>3
         DEF Handshake!Withdraw, Handshake!CanFollow, Handshake!Unanswered, NoAcks
  <2>3. ASSUME StartModel PROVE Handshake!WithdrawAny
    <3>1. Revoke("RETURNING", "motion", 2)
      BY <2>3 DEF StartModel, EnableWith
    <3>2. /\ state' = "RETURNING" /\ phase' = "revoke" /\ source' = "motion"
          /\ epoch' = epoch + 2 /\ acks' = NoAcks
      BY <3>1 DEF Revoke
    <3>3. Mode' = "handover"
      BY <3>2, ModeAfter DEF Handover
    <3> QED
      BY <2>1, <3>2, <3>3
         DEF Handshake!Withdraw, Handshake!CanFollow, Handshake!Twice, Handshake!Unanswered, NoAcks
  <2> QED
    BY <1>6, <2>2, <2>3 DEF SessionOpened
<1>7. CASE QuietField
  <2>1. ASSUME NEW p \in Peers, NEW i \in Instances, Acknowledge(p, i)
        PROVE  Handshake!Acknowledge(p, i)
    <3>1. UNCHANGED Mode /\ Mode # "off"
      BY <2>1 DEF Acknowledge, active, Mode
    <3> QED
      BY <2>1, <3>1 DEF Acknowledge, peerVars, Handshake!Acknowledge
  <2>2. ASSUME GrantPermission PROVE Handshake!Grant
    <3>1. Mode = "handover" /\ UNCHANGED Mode
      BY <2>2, ModeOf DEF GrantPermission, HandoverReady, Mode
    <3> QED
      BY <2>2, <3>1
         DEF GrantPermission, HandoverReady, AllAcked, NoAcks, peerVars,
             Handshake!Grant, Handshake!AllAnswered, Handshake!Unanswered
  <2>3. Sent \/ DeadlinePasses => UNCHANGED <<state, phase, epoch, source, acks>>
    BY DEF Sent, DeadlinePasses, authorityVars
  <2> QED
    BY <1>1, <1>7, <2>1, <2>2, <2>3 DEF QuietField
<1>8. CASE OpenPermission
  <2>1. Mode = "handover" /\ Mode' = "open"
    BY <1>8, ModeOf, ModeAfter DEF OpenPermission, HandoverReady
  <2>2. Handshake!Open
    BY <1>8, <2>1
       DEF OpenPermission, HandoverReady, AllAcked, peerVars, Handshake!Open, Handshake!AllAnswered
  <2> QED
    BY <2>2
<1> QED
  BY <1>2, <1>3, <1>4, <1>5, <1>6, <1>7, <1>8, <1>9, <1>10 DEF Moves, QuietMoves

(* A heartbeat is a Hear, also when it stops what is running.              *)
LEMMA HeartbeatHeard ==
  ASSUME Inv, NEW p \in Peers, NEW i \in Instances, Heartbeat(p, i)
  PROVE  Handshake!Hear(p, i)
<1>1. state \in {"OFF", "HOLD", "AUTO", "MANUAL"} \cup Handover \cup Latched
  BY DEF Inv, TypeOK, AuthorityOK, States, Handover, Latched
<1>2. Handshake!Running <=> active /\ state \notin Latched
  BY <1>1, ModeOf DEF Handshake!Running, active, Handover, Latched
<1>3. CASE peers[p] \notin {NoInstance, i} /\ Handshake!Running
  <2>1. Stop("FAULT")
    BY <1>2, <1>3 DEF Heartbeat
  <2>2. Invalidate("FAULT", "none") /\ state' = "FAULT"
    BY <2>1, StopEffect DEF Stop
  <2>3. Mode' = "stopped"
    BY <2>2, ModeAfter DEF Latched
  <2>4. Handshake!CanFollow(Mode')
    BY <1>3, <2>3 DEF Handshake!CanFollow, Handshake!Running
  <2>5. Handshake!Withdraw(Mode')
    BY <2>2, <2>3, <2>4, InvalidateWithdraws DEF Handshake!SourcesOf
  <2> QED
    BY <1>3, <2>3, <2>5 DEF Heartbeat, Handshake!Hear
<1>4. CASE ~(peers[p] \notin {NoInstance, i} /\ Handshake!Running)
  <2>1. AuthorityUnchanged
    BY <1>2, <1>4 DEF Heartbeat
  <2>2. UNCHANGED <<state, phase, epoch, source, acks, Mode>>
    BY <2>1 DEF AuthorityUnchanged, authorityVars, Mode
  <2> QED
    BY <1>4, <2>2 DEF Heartbeat, Handshake!Hear
<1> QED
  BY <1>3, <1>4

LEMMA StepAnswers == Inv /\ [Step]_vars => [Handshake!Next]_(Handshake!handshake)
BY PeersMove, EveryStepMoves, MoveAnswers, HeartbeatHeard DEF Handshake!Next

(* The transaction implements the handshake: it withdraws before it grants *)
(* and grants before it opens, each on the answers of all peers, and stops *)
(* when one of them is replaced.                                           *)
THEOREM HandshakeImplemented == Spec => HandshakeKept
BY HandshakeInit, StepAnswers, Invariance, NextIsStep, PTL DEF Spec, HandshakeKept, Handshake!Spec
============================================================================
