----------------------------- MODULE OutputGate -----------------------------
(***************************************************************************)
(* The final output gate of middleware/core/ros_bridge.py: the source      *)
(* selector, the output enable with its fencing epoch, hardware readiness  *)
(* and the replay interlock, all under the lock of the authority           *)
(* transaction that drives them through its revoke and permit hooks.       *)
(*                                                                         *)
(* A step of ControlOwnership becomes a step of the gate by the hooks'     *)
(* effect: _invalidate, which is the only place that changes the epoch,    *)
(* closes the output and opens a new output epoch each time it runs.       *)
(***************************************************************************)
EXTENDS ControlOwnership

CONSTANTS
  Sources,           (* live command streams; exoskeleton is one more of them *)
  MaxOutputEpoch     (* bound: callers act below this output epoch            *)

ASSUME SourcesAssumption == {"vr", "motion"} \subseteq Sources
ASSUME OutputBoundAssumption == MaxOutputEpoch \in Nat

VARIABLES
  commandSource,     (* _command_source                                      *)
  outputEnabled,     (* _command_output_enabled                              *)
  outputEpoch,       (* _output_epoch                                        *)
  hardwareReady,     (* _hardware_ready                                      *)
  readyStale,        (* the last ready report is older than the time-out     *)
  replay,            (* _replay_active                                       *)
  apiChecked,        (* an API call is past its "no replay is active" check  *)
  resumeOwed         (* history: a replay ended, and neither a resume nor a  *)
                     (* start was asked for since                            *)

selectorVars == <<commandSource, outputEnabled, outputEpoch>>
readyVars == <<hardwareReady, readyStale>>
gateVars == <<selectorVars, readyVars, replay, apiChecked, resumeOwed>>
allVars == <<vars, gateVars>>

GateTypeOK ==
  /\ TypeOK
  /\ commandSource \in Sources /\ outputEpoch \in Nat
  /\ outputEnabled \in BOOLEAN /\ hardwareReady \in BOOLEAN /\ readyStale \in BOOLEAN
  /\ replay \in BOOLEAN /\ apiChecked \in BOOLEAN /\ resumeOwed \in BOOLEAN

GateInit ==
  /\ Init
  /\ commandSource = "vr" /\ outputEnabled = TRUE /\ outputEpoch = 0
  /\ hardwareReady = FALSE /\ readyStale = FALSE
  /\ replay = FALSE /\ apiChecked = FALSE /\ resumeOwed = FALSE

---------------------------------------------------------------------------
Ready == hardwareReady /\ ~readyStale

(* The gate after a step of the transaction that revokes `extra` more      *)
(* times itself: any _invalidate closes it, leaving the session selects VR. *)
Revoked(extra, enabled) ==
  /\ outputEpoch' = outputEpoch + (epoch' - epoch) + extra
  /\ outputEnabled' = (enabled /\ epoch' = epoch)
  /\ commandSource' = IF epoch' # epoch /\ state' = "OFF" THEN "vr" ELSE commandSource

Hooked == Revoked(0, outputEnabled)

(* fault() called from a locked section that goes on whatever it did.      *)
FaultIfPossible(st) ==
  IF active /\ state # "ESTOP" /\ (state = "FAULT" => st = "ESTOP")
    THEN Fault(st) ELSE UNCHANGED vars

---------------------------------------------------------------------------
(* Requests of the HTTP API, the dashboard and the player.                 *)

(* intervention_api asks the player, and asks for the session afterwards.  *)
CheckNoReplay ==
  /\ ~apiChecked /\ ~replay /\ apiChecked' = TRUE
  /\ UNCHANGED <<vars, selectorVars, readyVars, replay, resumeOwed>>

CheckedRequest ==
  /\ apiChecked /\ apiChecked' = FALSE
  /\ AllKnown
  /\ \/ \E prepare \in BOOLEAN : Enable(prepare) \/ SetDagger(TRUE, prepare)
     \/ Ready /\ StartModel
  /\ resumeOwed' = (resumeOwed /\ ~resumeAuto')
  /\ Hooked /\ UNCHANGED <<readyVars, replay>>

StartRequest ==
  /\ Ready /\ \E ready \in BOOLEAN : StartAuto(ready)
  /\ resumeOwed' = FALSE
  /\ Hooked /\ UNCHANGED <<readyVars, replay, apiChecked>>

SessionRequest ==
  /\ \/ SetDagger(FALSE, FALSE) \/ Disable \/ Takeover \/ Hold \/ FinishCapturePreparation
     \/ Ready /\ state = "HOLD" /\ Recover
  /\ Hooked /\ UNCHANGED <<readyVars, replay, apiChecked, resumeOwed>>

EmergencyStop ==
  /\ FaultIfPossible("ESTOP")
  /\ Revoked(1, FALSE) /\ UNCHANGED <<readyVars, replay, apiChecked, resumeOwed>>

SetControlSource(src) ==
  /\ ~active /\ src # commandSource
  /\ commandSource' = src /\ outputEnabled' = FALSE /\ outputEpoch' = outputEpoch + 1
  /\ UNCHANGED <<vars, readyVars, replay, apiChecked, resumeOwed>>

EnableOutput ==
  /\ ~active /\ UNCHANGED vars
  /\ resumeOwed' = FALSE
  /\ Revoked(1, TRUE) /\ UNCHANGED <<readyVars, replay, apiChecked>>

DisableOutput ==
  /\ IF active /\ state \notin Latched THEN Hold ELSE UNCHANGED vars
  /\ Revoked(1, FALSE) /\ UNCHANGED <<readyVars, replay, apiChecked, resumeOwed>>

BeginReplay ==
  /\ ~active /\ outputEnabled /\ Ready /\ ~replay
  /\ replay' = TRUE
  /\ UNCHANGED <<vars, selectorVars, readyVars, apiChecked, resumeOwed>>

EndReplay(requireReset) ==
  /\ replay /\ replay' = FALSE /\ UNCHANGED vars
  /\ resumeOwed' = (resumeOwed \/ requireReset)
  /\ Revoked(1, outputEnabled /\ ~requireReset) /\ UNCHANGED <<readyVars, apiChecked>>

(* What publish_raw and the drain ask of a replayed final command.         *)
ReplayAllowed(e) == e = outputEpoch /\ replay /\ ~active /\ outputEnabled /\ Ready

---------------------------------------------------------------------------
(* The control executor: samples, acknowledgements, readiness, the tick.   *)

(* A sample may also start the program, which needs the hardware ready.    *)
Starts == ~resumeAuto /\ resumeAuto'

SampleOrPeer ==
  /\ Message \/ InputLost
  /\ Starts => Ready
  /\ resumeOwed' = (resumeOwed /\ ~Starts)
  /\ Hooked /\ UNCHANGED <<readyVars, replay, apiChecked>>

(* The frame asks whether the control is ready, and the last report is too *)
(* old by then.                                                            *)
SampleFindsUnready ==
  /\ hardwareReady /\ readyStale
  /\ \E s \in Samples : StartFaults(s)
  /\ hardwareReady' = FALSE /\ UNCHANGED readyStale
  /\ Revoked(1, FALSE) /\ UNCHANGED <<replay, apiChecked, resumeOwed>>

PeerAcknowledges ==
  /\ \E p \in Peers, i \in Instances : Acknowledge(p, i)
  /\ Hooked /\ UNCHANGED <<readyVars, replay, apiChecked, resumeOwed>>

(* _ready_locked finds the last report too old, whoever called it.         *)
ReadyTimesOut ==
  /\ hardwareReady /\ readyStale
  /\ hardwareReady' = FALSE /\ UNCHANGED readyStale
  /\ FaultIfPossible("FAULT")
  /\ Revoked(1, FALSE) /\ UNCHANGED <<replay, apiChecked, resumeOwed>>

(* Faulty variant of ReceiveHardwareReady: lost readiness goes unhandled.  *)
ReceiveHardwareReadyOnly(ready) ==
  /\ ~(hardwareReady /\ readyStale)
  /\ hardwareReady' = ready /\ readyStale' = FALSE
  /\ UNCHANGED <<vars, selectorVars, replay, apiChecked, resumeOwed>>

ReceiveHardwareReady(ready) ==
  /\ ~(hardwareReady /\ readyStale)
  /\ hardwareReady' = ready /\ readyStale' = FALSE
  /\ IF hardwareReady /\ ~ready
       THEN FaultIfPossible("FAULT") /\ Revoked(1, FALSE)
       ELSE UNCHANGED <<vars, selectorVars>>
  /\ UNCHANGED <<replay, apiChecked, resumeOwed>>

(* tick: the watchdog, lost feedback, the handover's time-out and grant.   *)
TickAuthority ==
  /\ \/ Watchdog \/ HandoverTimeout \/ TakeoverInputLost
     \/ state \in {"AUTO", "MANUAL"} /\ Fault("FAULT")
     \/ Ready /\ GrantPermission
  /\ Hooked /\ UNCHANGED <<readyVars, replay, apiChecked, resumeOwed>>

(* A tick that reaches, or finds, AUTO or MANUAL with the output closed    *)
(* selects the owner and opens the output.                                 *)
TickOpen ==
  /\ \/ Ready /\ OpenPermission
     \/ /\ state \in {"AUTO", "MANUAL"} /\ ~outputEnabled
        /\ ~(hardwareReady /\ readyStale) /\ UNCHANGED vars
  /\ IF outputEnabled THEN UNCHANGED commandSource ELSE commandSource' = source
  /\ outputEnabled' = TRUE
  /\ UNCHANGED <<outputEpoch, readyVars, replay, apiChecked, resumeOwed>>

GateTime ==
  /\ \/ Time /\ UNCHANGED readyStale
     \/ hardwareReady /\ ~readyStale /\ readyStale' = TRUE /\ UNCHANGED vars
  /\ UNCHANGED <<selectorVars, hardwareReady, replay, apiChecked, resumeOwed>>

Caller ==
  \/ CheckNoReplay \/ CheckedRequest \/ StartRequest \/ SessionRequest \/ EmergencyStop
  \/ \E src \in Sources : SetControlSource(src)
  \/ EnableOutput \/ DisableOutput
  \/ BeginReplay \/ \E requireReset \in BOOLEAN : EndReplay(requireReset)
  \/ SampleOrPeer \/ SampleFindsUnready \/ \E ready \in BOOLEAN : ReceiveHardwareReady(ready)

Within == epoch < MaxEpoch /\ outputEpoch < MaxOutputEpoch

Internal == PeerAcknowledges \/ ReadyTimesOut \/ TickAuthority \/ TickOpen \/ GateTime

(* tick completes a pending reset of a latched stop (see HardwareReset).   *)
TickRecover ==
  /\ Ready /\ state \in Latched /\ Recover
  /\ Hooked /\ UNCHANGED <<readyVars, replay, apiChecked, resumeOwed>>

(* ... and asks for the readiness once more, when the report is too old.   *)
TickFindsUnready ==
  /\ Ready /\ RecoverFaults
  /\ hardwareReady' = FALSE /\ readyStale' = TRUE
  /\ Revoked(1, FALSE) /\ UNCHANGED <<replay, apiChecked, resumeOwed>>

GateNext == (Within /\ (Caller \/ TickRecover \/ TickFindsUnready)) \/ Internal

GateSpec == GateInit /\ [][GateNext]_allVars

---------------------------------------------------------------------------
(* Properties.                                                             *)

(* During a session the output is open only to the owner of a completed    *)
(* handover, with that owner selected and the hardware reported ready:     *)
(* every API call, sample, fault, replay end or source change that ends    *)
(* the ownership must also have closed the output in its own step.         *)
OutputOnlyForOwner ==
  active /\ outputEnabled =>
    state \in {"AUTO", "MANUAL"} /\ commandSource = source /\ hardwareReady

(* end_replay says that a deliberate resume is required before a live      *)
(* source regains the output (ros_bridge.py:351).                          *)
ReplayEndNeedsResume == resumeOwed => ~outputEnabled
===========================================================================
