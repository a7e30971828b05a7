------------------------- MODULE ControlOwnership -------------------------
(***************************************************************************)
(* The robot-side authority transaction: the class ControlOwnership of     *)
(* middleware/core/control_ownership.py.  Every public method runs under   *)
(* one re-entrant lock, so a method is one step; a method that calls       *)
(* another one (a sample that releases, a loss that faults) is one step    *)
(* with the effect of both.                                                *)
(*                                                                         *)
(* Clock readings enter the code only through three comparisons, and those *)
(* are the state kept here: whether the last accepted sample is older than *)
(* input_timeout (inputStatus = "expired"), which peers have been silent   *)
(* longer than that (lapsed), and whether the handover deadline is over    *)
(* (overdue).  Diagnostics, metrics and the event log carry no control     *)
(* decision and are left out.                                              *)
(***************************************************************************)
EXTENDS Naturals

CONSTANTS
  Peers,             (* required_peers: the receivers that must acknowledge *)
  Instances,         (* process identities a peer can start with            *)
  NoInstance,        (* a peer that was never heard of                      *)
  Devices,           (* identities of manual input devices                  *)
  NoDevice,          (* input_device = '': no sample was ever accepted      *)
  Samples,           (* the semantic frames the operator's device may send  *)
  RecordingEnabled,  (* recording_enabled                                   *)
  MaxEpoch,          (* bound: callers and the network act below this epoch *)
  MaxCommands        (* bound: manual commands counted per epoch            *)

ASSUME PeersAssumption == Peers # {}
ASSUME NoInstanceAssumption == NoInstance \notin Instances
ASSUME NoDeviceAssumption == NoDevice \notin Devices
AllSamples ==
  [device: Devices, valid: BOOLEAN, gripped: BOOLEAN, pause: BOOLEAN, resume: BOOLEAN]
ASSUME SamplesAssumption == Samples \subseteq AllSamples
ASSUME RecordingAssumption == RecordingEnabled \in BOOLEAN
ASSUME BoundAssumption == MaxEpoch \in Nat /\ MaxCommands \in Nat

VARIABLES
  state, phase,      (* state of the authority, phase of its transaction     *)
  session, epoch, source,  (* the current token; its instance never changes *)
  overdue,           (* clock() >= deadline_ns                               *)
  acks,              (* who acknowledged this phase, and as which instance   *)
  peers, lapsed,     (* known instance of each peer; heartbeat too old       *)
  resumeAuto,        (* resume_auto: the program was explicitly started      *)
  dagger, preparing, (* dagger_enabled; preparing_capture                    *)
  inputDevice, inputStatus, inputArmed, gripped,  (* manual input gate       *)
  segmentOpen, recordingError, commandSeq         (* manual action capture   *)

authorityVars == <<state, phase, session, epoch, source, overdue, acks, resumeAuto>>
captureVars == <<segmentOpen, recordingError, commandSeq>>
inputVars == <<inputDevice, inputStatus, inputArmed, gripped>>
modeVars == <<dagger, preparing>>
peerVars == <<peers, lapsed>>
vars == <<authorityVars, captureVars, inputVars, modeVars, peerVars>>

States == {"OFF", "HOLD", "AUTO", "TAKEOVER", "MANUAL", "RETURNING", "FAULT", "ESTOP"}
Human == {"TAKEOVER", "MANUAL"}
Handover == {"TAKEOVER", "RETURNING"}
Latched == {"FAULT", "ESTOP"}

active == state # "OFF"
Fresh == inputStatus = "fresh"
NoAcks == [p \in Peers |-> NoInstance]
AllAcked == \A p \in Peers : acks[p] # NoInstance
AllKnown == \A p \in Peers : peers[p] # NoInstance

AuthorityOK ==
  /\ state \in States
  /\ phase \in {"none", "revoke", "grant"}
  /\ source \in {"none", "vr", "motion"}
  /\ acks \in [Peers -> Instances \cup {NoInstance}]
  /\ overdue \in BOOLEAN /\ resumeAuto \in BOOLEAN
  /\ segmentOpen \in BOOLEAN /\ recordingError \in BOOLEAN

InputOK ==
  /\ peers \in [Peers -> Instances \cup {NoInstance}]
  /\ lapsed \in SUBSET Peers
  /\ inputDevice \in Devices \cup {NoDevice}
  /\ inputStatus \in {"none", "fresh", "expired"}
  /\ dagger \in BOOLEAN /\ preparing \in BOOLEAN
  /\ inputArmed \in BOOLEAN /\ gripped \in BOOLEAN

CountersOK == session \in Nat /\ epoch \in Nat /\ commandSeq \in Nat

(* The fields of the transaction hold what the code lets them hold.        *)
TypeOK == AuthorityOK /\ InputOK /\ CountersOK

Init ==
  /\ state = "OFF" /\ phase = "none" /\ session = 0 /\ epoch = 0 /\ source = "none"
  /\ overdue = FALSE /\ acks = NoAcks /\ resumeAuto = FALSE
  /\ peers = NoAcks /\ lapsed = Peers
  /\ dagger = FALSE /\ preparing = FALSE
  /\ inputDevice = NoDevice /\ inputStatus = "none"
  /\ inputArmed = FALSE /\ gripped = FALSE
  /\ segmentOpen = FALSE /\ recordingError = FALSE /\ commandSeq = 0

---------------------------------------------------------------------------
(* The transaction every change of authority goes through.                 *)

Revoke(st, src, epochs) ==
  /\ state' = st /\ phase' = "revoke" /\ source' = src
  /\ epoch' = epoch + epochs
  /\ acks' = NoAcks /\ overdue' = FALSE
  /\ segmentOpen' = FALSE /\ commandSeq' = 0

(* _invalidate: an open segment is closed first, and closing it may fail.  *)
(* A call that invalidates twice leaves the authority of the second time.  *)
InvalidateBy(st, src, epochs) ==
  /\ Revoke(st, src, epochs)
  /\ recordingError' \in BOOLEAN
  /\ recordingError => recordingError'
  /\ recordingError' => recordingError \/ segmentOpen

Invalidate(st, src) == InvalidateBy(st, src, 1)

Stop(st) == Invalidate(st, "none") /\ resumeAuto' = FALSE /\ session' = session

(* release: back to the program only if it was running when taken over.    *)
HandBack ==
  /\ IF resumeAuto THEN Invalidate("RETURNING", "motion") ELSE Invalidate("HOLD", "none")
  /\ UNCHANGED <<session, resumeAuto>>

AuthorityUnchanged == UNCHANGED <<authorityVars, captureVars>>

(* input_lost and fault, as far as the authority goes: only a human who    *)
(* owns the robot, or is about to, is stopped.                             *)
LossStopsHuman ==
  IF state \in Human THEN Stop("FAULT") ELSE AuthorityUnchanged

SetInput(status, armed, grip) ==
  inputStatus' = status /\ inputArmed' = armed /\ gripped' = grip

---------------------------------------------------------------------------
(* Operator and API requests.                                              *)

EnableWith(prepare, dag, st, src, epochs) ==
  /\ ~active
  /\ session' = session + 1
  /\ Revoke(st, src, epochs)
  /\ recordingError' \in BOOLEAN /\ (recordingError' => segmentOpen)
  /\ dagger' = dag /\ preparing' = prepare
  /\ SetInput("none", FALSE, FALSE)
  /\ UNCHANGED <<inputDevice, peerVars>>

Enable(prepare) ==
  EnableWith(prepare, TRUE, "HOLD", "none", 1) /\ resumeAuto' = FALSE

FinishCapturePreparation ==
  /\ preparing /\ state \in {"HOLD", "AUTO", "RETURNING"}
  /\ preparing' = FALSE
  /\ SetInput("none", FALSE, FALSE)
  /\ UNCHANGED <<authorityVars, captureVars, inputDevice, dagger, peerVars>>

Disable ==
  /\ Stop("OFF")
  /\ dagger' = FALSE /\ preparing' = FALSE
  /\ UNCHANGED <<inputVars, peerVars>>

(* start_auto with feedback ready; it refuses a fresh held Grip.           *)
StartAuto(recordingReady) ==
  /\ state = "HOLD" /\ ~preparing /\ AllKnown
  /\ ~(dagger /\ Fresh /\ gripped)
  /\ dagger /\ RecordingEnabled => recordingReady
  /\ Invalidate("RETURNING", "motion")
  /\ resumeAuto' = TRUE
  /\ UNCHANGED <<session, inputVars, modeVars, peerVars>>

(* start_model from OFF: enable and start_auto, two epochs in one step.    *)
StartModel ==
  /\ AllKnown
  /\ EnableWith(FALSE, FALSE, "RETURNING", "motion", 2)
  /\ resumeAuto' = TRUE

(* Faulty variants, here and below: what a plausible slip in the code would *)
(* be, to show that a property can fail.  Manual mode off, human kept.     *)
SetDaggerKeepingHuman(on, prepare) ==
  /\ active /\ dagger # on
  /\ on => state \in {"AUTO", "HOLD"}
  /\ dagger' = on /\ preparing' = (on /\ prepare)
  /\ SetInput("none", FALSE, FALSE)
  /\ AuthorityUnchanged
  /\ UNCHANGED <<inputDevice, peerVars>>

SetDagger(on, prepare) ==
  /\ active /\ dagger # on
  /\ on => state \in {"AUTO", "HOLD"}
  /\ dagger' = on /\ preparing' = (on /\ prepare)
  /\ SetInput("none", FALSE, FALSE)
  /\ IF ~on /\ state \in Human THEN HandBack ELSE AuthorityUnchanged
  /\ UNCHANGED <<inputDevice, peerVars>>

CanTakeOver ==
  dagger /\ ~preparing /\ state \in {"AUTO", "HOLD", "RETURNING"}

TakeControl ==
  /\ Invalidate("TAKEOVER", "vr")
  /\ resumeAuto' = (state = "AUTO" \/ (state = "RETURNING" /\ resumeAuto))
  /\ session' = session

Takeover ==
  /\ CanTakeOver /\ Fresh /\ inputArmed /\ gripped
  /\ TakeControl
  /\ UNCHANGED <<inputVars, modeVars, peerVars>>

(* Faulty variant of PauseAuthority: the program stays started.            *)
PauseKeepingRun ==
  IF state = "HOLD" /\ ~resumeAuto THEN AuthorityUnchanged
  ELSE Invalidate("HOLD", "none") /\ UNCHANGED <<session, resumeAuto>>

(* hold on the authority: nothing to revoke in a HOLD nobody is to leave.  *)
PauseAuthority ==
  IF state = "HOLD" /\ ~resumeAuto THEN AuthorityUnchanged ELSE Stop("HOLD")

Hold ==
  /\ active /\ state \notin Latched
  /\ PauseAuthority
  /\ inputArmed' = FALSE
  /\ UNCHANGED <<inputDevice, inputStatus, gripped, modeVars, peerVars>>

(* Faulty variant of Fault: a later fault replaces an emergency stop.      *)
FaultReplacingStop(st) ==
  /\ active /\ (state = "FAULT" => st = "ESTOP")
  /\ Stop(st)
  /\ inputArmed' = FALSE
  /\ UNCHANGED <<inputDevice, inputStatus, gripped, modeVars, peerVars>>

Fault(st) ==
  /\ active /\ state # "ESTOP" /\ (state = "FAULT" => st = "ESTOP")
  /\ Stop(st)
  /\ inputArmed' = FALSE
  /\ UNCHANGED <<inputDevice, inputStatus, gripped, modeVars, peerVars>>

(* Faulty variant of Recover: forgets to disarm the input gate.            *)
RecoverStayingArmed ==
  /\ state \in Latched \cup {"HOLD"}
  /\ Stop("HOLD")
  /\ UNCHANGED <<inputVars, modeVars, peerVars>>

(* recover in HOLD, FAULT or ESTOP with feedback ready; elsewhere it holds. *)
Recover ==
  /\ state \in Latched \cup {"HOLD"}
  /\ Stop("HOLD")
  /\ inputArmed' = FALSE
  /\ UNCHANGED <<inputDevice, inputStatus, gripped, modeVars, peerVars>>

---------------------------------------------------------------------------
(* Manual input.                                                           *)

InputLost ==
  /\ LossStopsHuman
  /\ SetInput("none", FALSE, FALSE)
  /\ UNCHANGED <<inputDevice, modeVars, peerVars>>

(* A sample that is reordered, of an inadmissible age, or stamped before    *)
(* the last rearm cut-off only reveals a gap.                              *)
InputRejected == inputStatus = "expired" /\ InputLost

(* Faulty variant of gap: the time since the last sample is not looked at. *)
gapUnseen == FALSE

gap == inputStatus = "expired"
OtherDevice(s) == active /\ inputDevice \notin {NoDevice, s.device}
WasGripped == gripped /\ ~gap
WasArmed(s) == inputArmed /\ ~gap /\ s.device = inputDevice

SampleUnusable(s) ==
  /\ ~s.valid \/ preparing
  /\ SetInput("none", FALSE, FALSE)
  /\ IF gap \/ OtherDevice(s) \/ ~s.valid THEN LossStopsHuman ELSE AuthorityUnchanged

SampleOfOtherDevice(s) ==
  /\ s.valid /\ ~preparing /\ OtherDevice(s)
  /\ SetInput("fresh", FALSE, s.gripped)
  /\ LossStopsHuman

SampleIgnored(s) ==
  /\ s.valid /\ ~preparing /\ ~OtherDevice(s)
  /\ active /\ ~dagger
  /\ SetInput("fresh", FALSE, FALSE)
  /\ IF gap THEN LossStopsHuman ELSE AuthorityUnchanged

SampleHandled(s) ==
  /\ s.valid /\ ~preparing /\ ~OtherDevice(s)
  /\ active => dagger

SampleAfterGap(s) ==
  /\ SampleHandled(s) /\ gap /\ state \in Human
  /\ Stop("FAULT")
  /\ SetInput("fresh", ~s.gripped /\ ~s.pause, s.gripped)

SamplePauses(s) ==
  /\ SampleHandled(s) /\ ~(gap /\ state \in Human) /\ s.pause
  /\ IF active /\ state \notin Latched
       THEN PauseAuthority /\ SetInput("fresh", FALSE, s.gripped)
       ELSE AuthorityUnchanged /\ SetInput("fresh", WasArmed(s), s.gripped)

SampleReleases(s) ==
  /\ SampleHandled(s) /\ ~(gap /\ state \in Human) /\ ~s.pause /\ ~s.gripped
  /\ SetInput("fresh", TRUE, FALSE)
  /\ IF WasGripped /\ state \in Human THEN HandBack ELSE AuthorityUnchanged

(* A held Grip takes over on its rising edge, unless the same frame asks to *)
(* resume from HOLD or a latched stop.                                     *)
SampleGrips(s) ==
  /\ SampleHandled(s) /\ ~(gap /\ state \in Human) /\ ~s.pause /\ s.gripped
  /\ SetInput("fresh", WasArmed(s), TRUE)
  /\ IF ~WasGripped /\ WasArmed(s) /\ CanTakeOver /\ ~(s.resume /\ state = "HOLD")
       THEN TakeControl ELSE AuthorityUnchanged

(* An accepted frame that asks to resume, and after which the state is     *)
(* HOLD, asks for the program's start under the same lock.  HOLD may be    *)
(* what the frame itself led to, by opening the Grip of a human who took   *)
(* over from HOLD.                                                         *)
LetsGo(s) == WasGripped /\ ~s.gripped /\ state \in Human /\ ~resumeAuto

AsksToStart(s) ==
  /\ SampleHandled(s) /\ s.resume /\ ~s.pause
  /\ state = "HOLD" \/ LetsGo(s)

EpochsOf(s) == IF LetsGo(s) THEN 2 ELSE 1

(* A start that is refused leaves the frame's other effect.                *)
SampleStarts(s) ==
  /\ AsksToStart(s) /\ ~s.gripped /\ AllKnown
  /\ SetInput("fresh", TRUE, FALSE)
  /\ InvalidateBy("RETURNING", "motion", EpochsOf(s))
  /\ resumeAuto' = TRUE /\ session' = session

Input(s) ==
  /\ inputDevice' = s.device
  /\ \/ SampleUnusable(s) \/ SampleOfOtherDevice(s) \/ SampleIgnored(s)
     \/ SampleAfterGap(s) \/ SamplePauses(s) \/ SampleReleases(s) \/ SampleGrips(s)
     \/ SampleStarts(s)
  /\ UNCHANGED <<modeVars, peerVars>>

(* Two calls find, after what they did already within the same locked      *)
(* section, the last report of the hardware's readiness too old: a frame   *)
(* that asks for a start, and the tick that completes a reset.             *)
FaultBy(epochs) ==
  /\ InvalidateBy("FAULT", "none", epochs)
  /\ resumeAuto' = FALSE /\ session' = session

StartFaults(s) ==
  /\ AsksToStart(s)
  /\ SetInput("fresh", FALSE, s.gripped) /\ inputDevice' = s.device
  /\ FaultBy(EpochsOf(s))
  /\ UNCHANGED <<modeVars, peerVars>>

RecoverFaults ==
  /\ state \in Latched
  /\ FaultBy(2)
  /\ inputArmed' = FALSE
  /\ UNCHANGED <<inputDevice, inputStatus, gripped, modeVars, peerVars>>

---------------------------------------------------------------------------
(* Peers: a heartbeat carries an identity, an acknowledgement also a token *)
(* and a phase (anything but the current ones is dropped).                 *)

(* Faulty variant of Heartbeat: a changed identity goes unnoticed.         *)
HeartbeatTrusting(p, i) ==
  /\ peers' = [peers EXCEPT ![p] = i]
  /\ lapsed' = lapsed \ {p}
  /\ AuthorityUnchanged
  /\ UNCHANGED <<inputVars, modeVars>>

Heartbeat(p, i) ==
  /\ peers' = [peers EXCEPT ![p] = i]
  /\ lapsed' = lapsed \ {p}
  /\ IF peers[p] \notin {NoInstance, i} /\ active /\ state \notin Latched
       THEN Stop("FAULT") /\ inputArmed' = FALSE
       ELSE AuthorityUnchanged /\ UNCHANGED inputArmed
  /\ UNCHANGED <<inputDevice, inputStatus, gripped, modeVars>>

Acknowledge(p, i) ==
  /\ active /\ peers[p] = i /\ i # NoInstance /\ acks[p] = NoInstance
  /\ acks' = [acks EXCEPT ![p] = i]
  /\ UNCHANGED <<state, phase, session, epoch, source, overdue, resumeAuto,
                 captureVars, inputVars, modeVars, peerVars>>

(* A negative acknowledgement of the current phase.                        *)
AcknowledgeFailure(p, i) ==
  /\ peers[p] = i /\ i # NoInstance
  /\ Fault("FAULT")

---------------------------------------------------------------------------
(* advance and watchdog, called by the control tick.                       *)

(* Faulty variant of HandoverTimeout: a grant may wait forever.            *)
RevokeTimeout == state \in Handover /\ phase = "revoke" /\ overdue /\ Fault("FAULT")

HandoverTimeout == state \in Handover /\ overdue /\ Fault("FAULT")

TakeoverInputLost ==
  /\ state = "TAKEOVER" /\ ~overdue /\ ~Fresh
  /\ InputLost

(* Faulty variant of HandoverReady: the answers are awaited after the      *)
(* grant only.                                                             *)
HandoverReadyEarly ==
  /\ state \in Handover /\ ~overdue
  /\ phase = "grant" => AllAcked
  /\ state = "TAKEOVER" => Fresh

HandoverReady ==
  /\ state \in Handover /\ ~overdue /\ AllAcked
  /\ state = "TAKEOVER" => Fresh

(* Faulty variant of GrantPermission: a failed capture is not noted.       *)
GrantUnrecorded ==
  /\ HandoverReady /\ phase = "revoke"
  /\ state = "TAKEOVER" => gripped
  /\ phase' = "grant" /\ acks' = NoAcks
  /\ segmentOpen' \in BOOLEAN /\ (segmentOpen' => segmentOpen \/ state = "TAKEOVER")
  /\ UNCHANGED <<state, session, epoch, source, overdue, resumeAuto, recordingError,
                 commandSeq, inputVars, modeVars, peerVars>>

(* The recording range is opened, or its failure noted, before the grant.  *)
GrantPermission ==
  /\ HandoverReady /\ phase = "revoke"
  /\ state = "TAKEOVER" => gripped
  /\ phase' = "grant" /\ acks' = NoAcks
  /\ IF state = "TAKEOVER" /\ RecordingEnabled
       THEN \/ segmentOpen' = TRUE /\ UNCHANGED recordingError
            \/ recordingError' = TRUE /\ UNCHANGED segmentOpen
       ELSE UNCHANGED <<segmentOpen, recordingError>>
  /\ UNCHANGED <<state, session, epoch, source, overdue, resumeAuto, commandSeq,
                 inputVars, modeVars, peerVars>>

OpenPermission ==
  /\ HandoverReady /\ phase = "grant"
  /\ state' = (IF state = "TAKEOVER" THEN "MANUAL" ELSE "AUTO")
  /\ UNCHANGED <<phase, session, epoch, source, overdue, acks, resumeAuto,
                 captureVars, inputVars, modeVars, peerVars>>

Advance == HandoverTimeout \/ TakeoverInputLost \/ GrantPermission \/ OpenPermission

PeerSilent == state \in {"AUTO", "MANUAL"} /\ lapsed # {}

(* One call ends a finished capture preparation, or drops an expired input, *)
(* and then faults an owner whose peer fell silent.                        *)
WatchdogCapture ==
  /\ preparing /\ state \in {"HOLD", "AUTO", "RETURNING"}
  /\ preparing' = FALSE
  /\ SetInput("none", FALSE, FALSE)
  /\ IF PeerSilent THEN Stop("FAULT") ELSE AuthorityUnchanged
  /\ UNCHANGED <<inputDevice, dagger, peerVars>>

(* Faulty variant of InputOverdue: the watchdog guards the takeover only.  *)
InputOverdueInTakeover == ~preparing /\ state = "TAKEOVER" /\ inputStatus = "expired"

InputOverdue == ~preparing /\ active /\ inputStatus = "expired"

WatchdogInput ==
  /\ InputOverdue
  /\ SetInput("none", FALSE, FALSE)
  /\ IF PeerSilent THEN Stop("FAULT") ELSE LossStopsHuman
  /\ UNCHANGED <<inputDevice, modeVars, peerVars>>

WatchdogPeer == PeerSilent /\ ~InputOverdue /\ Fault("FAULT")

Watchdog == WatchdogCapture \/ WatchdogInput \/ WatchdogPeer

---------------------------------------------------------------------------
(* The final gate.                                                         *)

AllowsMotion == phase = "grant" /\ state = "AUTO" /\ source = "motion"
AllowsVr == phase = "grant" /\ state = "MANUAL" /\ source = "vr" /\ dagger /\ gripped /\ Fresh

Sent ==
  /\ AllowsVr /\ commandSeq < MaxCommands
  /\ commandSeq' = commandSeq + 1
  /\ UNCHANGED <<authorityVars, segmentOpen, recordingError, inputVars, modeVars, peerVars>>

---------------------------------------------------------------------------
(* Time passing.                                                           *)

InputExpires ==
  /\ Fresh /\ inputStatus' = "expired"
  /\ UNCHANGED <<authorityVars, captureVars, inputDevice, inputArmed, gripped, modeVars, peerVars>>

PeerLapses(p) ==
  /\ p \notin lapsed /\ lapsed' = lapsed \cup {p}
  /\ UNCHANGED <<authorityVars, captureVars, inputVars, modeVars, peers>>

DeadlinePasses ==
  /\ state \in Handover /\ ~overdue /\ overdue' = TRUE
  /\ UNCHANGED <<state, phase, session, epoch, source, acks, resumeAuto,
                 captureVars, inputVars, modeVars, peerVars>>

---------------------------------------------------------------------------
Request ==
  \/ \E prepare \in BOOLEAN : Enable(prepare)
  \/ \E on, prepare \in BOOLEAN : SetDagger(on, prepare)
  \/ \E ready \in BOOLEAN : StartAuto(ready)
  \/ StartModel \/ Disable \/ Takeover \/ Hold \/ Recover
  \/ FinishCapturePreparation \/ InputLost
  \/ \E st \in Latched : Fault(st)

Message ==
  \/ InputRejected
  \/ \E s \in Samples : Input(s)
  \/ \E p \in Peers, i \in Instances : Heartbeat(p, i) \/ AcknowledgeFailure(p, i)

Unready == RecoverFaults \/ \E s \in Samples : StartFaults(s)

Time == InputExpires \/ DeadlinePasses \/ \E p \in Peers : PeerLapses(p)

Reply == \E p \in Peers, i \in Instances : Acknowledge(p, i)

(* Step is the transaction without its bound: what modules that compose it *)
(* with its callers take their steps from.                                 *)
Step == Request \/ Message \/ Unready \/ Reply \/ Advance \/ Watchdog \/ Sent \/ Time

Next ==
  \/ epoch < MaxEpoch /\ (Request \/ Message \/ Unready)
  \/ Reply \/ Advance \/ Watchdog \/ Sent \/ Time

Spec == Init /\ [][Next]_vars

(* The tick timer runs every 5 ms and clocks move: a due deadline is       *)
(* reached and seen, and an expired input is seen.                         *)
Fairness ==
  /\ WF_vars(DeadlinePasses) /\ WF_vars(HandoverTimeout)
  /\ WF_vars(WatchdogInput)

FairSpec == Spec /\ Fairness

---------------------------------------------------------------------------
(* Properties.                                                             *)

(* Whenever the human owns the robot or is about to, manual mode is on, no *)
(* capture is being prepared and the input gate holds an armed, valid,     *)
(* closed Grip: input, input_lost, hold, set_dagger, finish_capture_-      *)
(* preparation and a device change may each clear one of these, and every  *)
(* one of them must then have left TAKEOVER or MANUAL in the same step.    *)
(* A sample is never on record without the device it came from.            *)
ManualIsHeld ==
  /\ state \in Human => dagger /\ ~preparing /\ gripped /\ inputArmed /\ inputStatus # "none"
  /\ inputStatus # "none" => inputDevice # NoDevice

(* The program runs, or is being returned to, only under resume_auto, and  *)
(* resume_auto outlives no pause, fault, stop or recovery: it is carried   *)
(* through takeovers and releases of one explicitly started run only.      *)
ProgramIsLicensed ==
  /\ state \in {"AUTO", "RETURNING"} => resumeAuto
  /\ resumeAuto => state \in {"AUTO", "RETURNING", "TAKEOVER", "MANUAL"}

(* AUTO and MANUAL mean that every required peer acknowledged the grant of *)
(* the present epoch as the process that is known now: a peer that         *)
(* restarted between its acknowledgement and the opening does not count,   *)
(* and no acknowledgement of one session is left over for the next.        *)
PermissionByCurrentPeers ==
  /\ state \in {"AUTO", "MANUAL"} => phase = "grant" /\ AllAcked
  /\ state = "OFF" => acks = NoAcks
  /\ state \notin Latched =>
       \A p \in Peers : acks[p] # NoInstance => acks[p] = peers[p]

(* With recording on, a manual interval is captured from its grant on, or  *)
(* its capture failure is on record; and no segment or action count        *)
(* outlives the epoch it was opened for.                                   *)
CaptureCoversManual ==
  /\ state \in Human /\ phase = "grant" /\ RecordingEnabled => segmentOpen \/ recordingError
  /\ segmentOpen => state \in Human /\ phase = "grant"
  /\ commandSeq # 0 => state = "MANUAL"

(* No handover, to the human or to the program, starts while the capture   *)
(* of a session is still being prepared.                                   *)
PreparingOpensNoHandover == preparing => state \notin Handover \cup Human

(* Pause, fault, recovery, a mode change, the end of capture preparation,  *)
(* another device and the end of an input gap each demand a fresh release: *)
(* none of these steps leaves the gate armed while the Grip is closed.     *)
Barrier ==
  \/ epoch' # epoch /\ state' \in {"HOLD", "FAULT", "ESTOP"}
  \/ dagger' # dagger /\ state' # "OFF"
  \/ preparing /\ ~preparing' /\ state' # "OFF"
  \/ inputDevice' # inputDevice
  \/ inputStatus = "expired" /\ inputStatus' # "expired"

RearmNeedsRelease == [][Barrier => ~inputArmed' \/ ~gripped']_vars

(* A gap in the manual input is never bridged by the next sample: MANUAL   *)
(* or a takeover whose input expired does not get a fresh input again.     *)
GapEndsManual ==
  [][(state \in Human /\ inputStatus = "expired" /\ Fresh') => state' \notin Human]_vars

(* The transaction implements the promise of OutputAuthority.              *)
Owner == CASE state = "AUTO" -> "program"
           [] state = "MANUAL" -> "human"
           [] OTHER -> "none"

TripLevel == CASE state = "FAULT" -> 1 [] state = "ESTOP" -> 2 [] OTHER -> 0

Authority == INSTANCE OutputAuthority WITH
  owner <- Owner, generation <- epoch, licensed <- resumeAuto,
  trip <- TripLevel, held <- gripped /\ inputStatus # "none"

AuthorityKept == Authority!Spec

(* What the peers see of it is the handshake of PermitHandshake.           *)
Mode == CASE state = "OFF" -> "off"
          [] state = "HOLD" -> "hold"
          [] state \in Handover -> "handover"
          [] state \in {"AUTO", "MANUAL"} -> "open"
          [] OTHER -> "stopped"

Handshake == INSTANCE PermitHandshake WITH mode <- Mode, known <- peers

HandshakeKept == Handshake!Spec

(* Every handover ends: opened, given up, or faulted at its deadline.      *)
HandoverResolves ==
  \A e \in 0..MaxEpoch + 2 :
    (state \in Handover /\ epoch = e) ~> ~(state \in Handover /\ epoch = e)

(* A human whose input has expired loses the robot.                        *)
StaleManualStops == (state = "MANUAL" /\ inputStatus = "expired") ~> state # "MANUAL"
===========================================================================
