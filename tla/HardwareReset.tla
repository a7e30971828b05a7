---------------------------- MODULE HardwareReset ----------------------------
(***************************************************************************)
(* The hardware enable of middleware/core/ros_bridge.py: who publishes on  *)
(* hardware_enable_topic, and the reset of a latched stop.  A reset is     *)
(* requested on an API or control thread, armed by the bridge thread when  *)
(* it drains the command queue, and completed or abandoned by the tick of  *)
(* the control executor; the permit heartbeat of the same executor and the *)
(* end of every drain assert stops in between.                             *)
(*                                                                         *)
(* The queue is shared with every other publication and may be full, or    *)
(* wait, at any time.  Kept of it: the resets and the output switches.     *)
(* sent abbreviates _hardware_enable_sent_epoch = _output_epoch, recent a  *)
(* publication less than 0.1 s ago, reported _hardware_ready_last >        *)
(* _recovery[1].                                                           *)
(***************************************************************************)
EXTENDS OutputGate, Sequences

CONSTANTS
  QueueSize,         (* bound: commands of interest that wait in the queue   *)
  MaxResets          (* bound: resets requested                              *)

ASSUME QueueAssumption == QueueSize \in Nat /\ MaxResets \in Nat

VARIABLES
  queue,             (* _commands                                            *)
  recovery,          (* _recovery: epoch of the token, request time (number) *)
  resets,            (* the requests numbered so far                         *)
  reported,          (* readiness was reported after the request             *)
  hwEnabled,         (* last value published on hardware_enable_topic        *)
  sent, recent,      (* the throttle of that publication                     *)
  stopAsked          (* history: an emergency stop since the pending request *)

resetVars == <<queue, recovery, resets, reported, stopAsked>>
hardwareVars == <<hwEnabled, sent, recent>>
everything == <<allVars, resetVars, hardwareVars>>

NoRecovery == [epoch |-> 0, number |-> 0]
Pending == recovery # NoRecovery
Recoveries == [epoch: Nat, number: Nat]

Commands ==
  [kind: {"recover"}, of: Recoveries] \cup [kind: {"output"}, enabled: BOOLEAN, epoch: Nat]

ResetTypeOK ==
  /\ GateTypeOK
  /\ queue \in Seq(Commands) /\ Len(queue) <= QueueSize
  /\ recovery \in Recoveries /\ resets \in Nat
  /\ reported \in BOOLEAN /\ stopAsked \in BOOLEAN
  /\ hwEnabled \in BOOLEAN /\ sent \in BOOLEAN /\ recent \in BOOLEAN

ResetInit ==
  /\ GateInit
  /\ queue = <<>> /\ recovery = NoRecovery /\ resets = 0 /\ reported = FALSE
  /\ hwEnabled = FALSE /\ sent = FALSE /\ recent = FALSE /\ stopAsked = FALSE

---------------------------------------------------------------------------
(* _publish_hardware_enable_locked: once per output epoch, except that a   *)
(* stop is repeated every 0.1 s.                                           *)
PublishUnless(known, enabled) ==
  IF known /\ (enabled \/ recent)
    THEN UNCHANGED hardwareVars
    ELSE hwEnabled' = enabled /\ sent' = TRUE /\ recent' = TRUE

(* The permit hook of a revocation that ends in OFF or a latched stop      *)
(* publishes the stop at once; later revocations of the step outdate it.   *)
HookStops == epoch' # epoch /\ state' \in Latched \cup {"OFF"}

HookedHardware(revokedAfter) ==
  IF HookStops
    THEN hwEnabled' = FALSE /\ sent' = ~revokedAfter /\ recent' = TRUE
    ELSE /\ sent' = (sent /\ outputEpoch' = outputEpoch)
         /\ UNCHANGED <<hwEnabled, recent>>

(* _enqueue: a full queue drops the command.                               *)
Enqueue(command) ==
  \/ Len(queue) < QueueSize /\ queue' = Append(queue, command)
  \/ UNCHANGED queue

---------------------------------------------------------------------------
(* Steps of the gate that ask nothing of the queue.                        *)
OtherCaller ==
  \/ CheckNoReplay \/ CheckedRequest \/ StartRequest \/ SessionRequest
  \/ \E src \in Sources : SetControlSource(src)
  \/ BeginReplay \/ \E requireReset \in BOOLEAN : EndReplay(requireReset)
  \/ SampleOrPeer \/ SampleFindsUnready

GateMoves ==
  /\ (Within /\ OtherCaller) \/ Internal
  /\ HookedHardware(FALSE) /\ UNCHANGED resetVars

ReportReady ==
  /\ Within /\ \E ready \in BOOLEAN : ReceiveHardwareReady(ready)
  /\ reported' = Pending
  /\ HookedHardware(FALSE)
  /\ UNCHANGED <<queue, recovery, resets, stopAsked>>

EmergencyStops ==
  /\ Within /\ EmergencyStop
  /\ stopAsked' = Pending
  /\ HookedHardware(TRUE)
  /\ UNCHANGED <<queue, recovery, resets, reported>>

SwitchOutput ==
  /\ Within /\ (EnableOutput \/ DisableOutput)
  /\ HookedHardware(FALSE)
  /\ Enqueue([kind |-> "output", enabled |-> outputEnabled', epoch |-> outputEpoch'])
  /\ UNCHANGED <<recovery, resets, reported, stopAsked>>

(* recover_intervention in a latched stop, with the robot at rest: called  *)
(* by the API, or by receive_intervention_input once it accepted a frame.  *)
RequestReset ==
  /\ resets < MaxResets /\ Within
  /\ \/ UNCHANGED vars
     \/ \E s \in Samples : SampleHandled(s) /\ s.resume /\ ~s.pause /\ Input(s)
  /\ Hooked /\ HookedHardware(FALSE)
  /\ state' \in Latched /\ ~(inputStatus' # "none" /\ gripped') /\ ~Pending
  /\ recovery' = [epoch |-> epoch', number |-> resets + 1]
  /\ resets' = resets + 1 /\ reported' = FALSE /\ stopAsked' = FALSE
  /\ Enqueue([kind |-> "recover", of |-> recovery'])
  /\ UNCHANGED <<readyVars, replay, apiChecked, resumeOwed>>

---------------------------------------------------------------------------
(* The control executor.  A reset is abandoned when its token is no longer *)
(* current, or 2 s after the request.                                      *)
TickAbandons ==
  /\ Pending /\ recovery' = NoRecovery
  /\ PublishUnless(FALSE, FALSE)
  /\ UNCHANGED <<allVars, queue, resets, reported, stopAsked>>

TickCompletes ==
  /\ Pending /\ recovery.epoch = epoch /\ reported
  /\ TickRecover \/ (Within /\ TickFindsUnready)
  /\ recovery' = NoRecovery
  /\ HookedHardware(FALSE)
  /\ UNCHANGED <<queue, resets, reported, stopAsked>>

(* Faulty variant of PermitHeartbeat: repeats a revocation of any state.   *)
PermitHeartbeatAlways ==
  /\ active /\ phase = "revoke"
  /\ PublishUnless(sent, FALSE)
  /\ UNCHANGED <<allVars, resetVars>>

(* publish_motion_permit repeats the revocation, with its hardware stop.   *)
PermitHeartbeat ==
  /\ state \in Latched /\ phase = "revoke"
  /\ PublishUnless(sent, FALSE)
  /\ UNCHANGED <<allVars, resetVars>>

---------------------------------------------------------------------------
(* Faulty variant of Arms: an outdated token does not matter.              *)
ArmsAnyToken(command) == command.of = recovery

(* The bridge thread.                                                      *)
Arms(command) == command.of = recovery /\ recovery.epoch = epoch

DrainRecover ==
  /\ queue # <<>> /\ Head(queue).kind = "recover"
  /\ IF Arms(Head(queue)) THEN PublishUnless(FALSE, TRUE) ELSE UNCHANGED hardwareVars
  /\ queue' = Tail(queue)
  /\ UNCHANGED <<allVars, recovery, resets, reported, stopAsked>>

(* Faulty variant of Switches: later revocations do not matter.            *)
SwitchesAnyEpoch(command) == ~active

Switches(command) ==
  ~active /\ command.epoch = outputEpoch /\ command.enabled = outputEnabled

DrainOutput ==
  /\ queue # <<>> /\ Head(queue).kind = "output"
  /\ IF Switches(Head(queue)) THEN PublishUnless(sent, Head(queue).enabled)
     ELSE UNCHANGED hardwareVars
  /\ queue' = Tail(queue)
  /\ UNCHANGED <<allVars, recovery, resets, reported, stopAsked>>

(* Faulty variant of AssertsStop: left to the session's own steps.         *)
AssertsStopLatched == ~Pending /\ ~outputEnabled /\ state \in Latched

AssertsStop == ~Pending /\ ~outputEnabled /\ (~active \/ state \in Latched)

DrainEnds ==
  /\ AssertsStop /\ ~(hardwareReady /\ readyStale)
  /\ PublishUnless(sent, FALSE)
  /\ UNCHANGED <<allVars, resetVars>>

TenthOfASecond ==
  /\ recent /\ recent' = FALSE
  /\ UNCHANGED <<allVars, resetVars, hwEnabled, sent>>

---------------------------------------------------------------------------
ResetNext ==
  \/ GateMoves \/ ReportReady \/ EmergencyStops \/ SwitchOutput \/ RequestReset
  \/ TickAbandons \/ TickCompletes \/ PermitHeartbeat
  \/ DrainRecover \/ DrainOutput \/ DrainEnds \/ TenthOfASecond

ResetSpec == ResetInit /\ [][ResetNext]_everything

(* The bridge thread drains every 10 ms and goes on to the end of each     *)
(* drain whatever the queue holds; the tick's timer runs every 5 ms and    *)
(* sees lost readiness and a pending reset's time-out; clocks move.        *)
ResetFairSpec ==
  /\ ResetSpec
  /\ WF_everything(DrainEnds) /\ WF_everything(TickAbandons)
  /\ WF_everything(ReadyTimesOut /\ GateMoves)
  /\ WF_everything(TenthOfASecond)

---------------------------------------------------------------------------
(* Properties.                                                             *)

(* In a latched stop the hardware was last told to run only by the pending *)
(* reset of this very stop: not by a reset of an earlier stop that waited  *)
(* in the queue, by an output switch queued before, nor by one abandoned.  *)
LatchedHardwareIsStopped ==
  state \in Latched /\ hwEnabled => Pending /\ recovery.epoch = epoch

(* The hardware is switched on only by an explicit request that is still   *)
(* good when it is drained: the output is open outside a session, or the   *)
(* latched stop whose reset was asked for still holds.  Nothing re-arms a  *)
(* session.                                                                *)
ArmedByValidRequest ==
  [][~hwEnabled /\ hwEnabled' =>
       \/ ~active /\ outputEnabled
       \/ Pending /\ state \in Latched /\ recovery.epoch = epoch]_everything

(* A handover never toggles the hardware (ros_bridge.py:1165): within a    *)
(* session that is not stopped, only the abandonment of a reset that was   *)
(* overtaken by the session's end may publish a stop.                      *)
SessionLeavesHardware ==
  [][active /\ state \notin Latched /\ state' \notin Latched \cup {"OFF"}
       /\ ~Pending => hwEnabled' = hwEnabled]_everything

(* However the output was closed outside a session, also without a queued  *)
(* request or with that request dropped, the stop reaches the hardware.    *)
ClosedOutputReachesHardware ==
  (~active /\ ~outputEnabled /\ hwEnabled) ~> (active \/ outputEnabled \/ ~hwEnabled)

(* A reset returns to HOLD after the hardware was re-armed: "Hardware reset *)
(* acknowledgement is still required" (tests/test_control_ownership.py:436). *)
RecoveryNeedsHardwareReset ==
  [][(state \in Latched /\ state' = "HOLD") => hwEnabled]_everything

(* A stop needs an explicit reset of its own (docs/DAGGER.md:225): one     *)
(* that was asked for before the emergency stop does not count.            *)
StopOutlivesReset ==
  [][(state \in Latched /\ state' = "HOLD") => ~stopAsked]_everything
===========================================================================
