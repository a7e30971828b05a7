---------------------------- MODULE InterventionApi ----------------------------
(* The session requests and the recordings they own: the handler of            *)
(* intervention_api.py, which applies a request to the authority transaction   *)
(* and then prepares or stops the correction capture in a worker thread;       *)
(* CorrectionSupport and the ordinary recordings of TaskRecorder, in threads   *)
(* of their own; the watchdog of control_ownership.py; and the write of a      *)
(* configuration or a profile, which stops the whole runtime of app.py and     *)
(* starts a new one between any two steps of the others.                       *)
(*                                                                             *)
(* Handlers run on one event loop: each is one action up to an await, and only *)
(* threads interleave with what it does between the two locks (Compare).  A    *)
(* client keeps its request and repeats it with the same id; the loop takes    *)
(* requests in any order.  The authority is its session, epoch and state as    *)
(* far as requests read them, Elsewhere stands for all it does by itself       *)
(* (ControlOwnership).  Automatic recording is enabled, a platform component   *)
(* is present, clients agree on the capture mode, and no replay is running.    *)
EXTENDS Integers, FiniteSets

CONSTANTS
  Ids,          \* request ids
  MaxSessions,  \* bound: sessions
  MaxEpoch,     \* bound: epochs of one runtime
  MaxRestarts,  \* bound: configurations and profiles saved
  MaxFaults     \* bound: preparations and stops that fail

Operations == {"enable", "disable", "enable_dagger", "disable_dagger", "start_model"}
Opening == {"enable", "enable_dagger"}
Closing == {"disable", "disable_dagger"}
NoRequest == [op |-> "none", session |-> 0, epoch |-> 0]
NoPending == [op |-> "none", id |-> "none", session |-> 0, epoch |-> 0]
NoCapture == [session |-> 0, stage |-> "none"]

VARIABLES
  control,  \* ControlOwnership of this runtime: session, epoch, state, dagger,
            \* preparing, and the ids it has answered
  recorder, \* TaskRecorder of this runtime: the ordinary recording, the capture
  req,      \* per id: what its client asks, and which session and epoch it had seen
  api,      \* who has the lock of the handler, where it is, for which session it
            \* prepares, did the runtime it acts on go away
  pending,  \* pending_capture
  config,   \* the write of a configuration: where it is
  runs,     \* does the runtime run
  left,     \* history: a runtime was replaced with a recording going on in it
  sessions, restarts, faults \* bounds

vars == <<control, recorder, req, api, pending, config, runs, left, sessions, restarts, faults>>
bounds == <<sessions, restarts, faults>>

Active == control.state # "OFF"
Fault == faults < MaxFaults /\ faults' = faults + 1
\* no handler is between its two locks
LoopFree == api.pc # "applied"
\* TaskRecorder.lock, CorrectionSupport.correction_lock
LockFree == recorder.ordinary # "starting"
CorrectionLockFree == recorder.capture.stage # "opening"

Fresh == [session |-> 0, epoch |-> 0, state |-> "OFF", dagger |-> FALSE, preparing |-> FALSE,
          answered |-> {}]
Idle == [pc |-> "free", id |-> "none", session |-> 0, old |-> FALSE]

-----------------------------------------------------------------------------
(* The authority *)

Enabled(c, dagger) == [c EXCEPT !.session = sessions + 1, !.epoch = @ + 1, !.state = "HOLD",
                                !.dagger = dagger, !.preparing = dagger]
Disabled(c) == [c EXCEPT !.epoch = @ + 1, !.state = "OFF", !.dagger = FALSE, !.preparing = FALSE]

(* what an operation makes of the authority; where it makes nothing, it raised *)
Outcomes(op) ==
  CASE op = "enable" -> IF Active THEN {} ELSE {Enabled(control, TRUE)}
    [] op = "disable" -> {Disabled(control)}
    [] op = "enable_dagger" ->
         IF control.state \notin {"AUTO", "HOLD"} THEN {}
         ELSE IF control.dagger THEN {control}
         ELSE {[control EXCEPT !.dagger = TRUE, !.preparing = TRUE]}
    [] op = "disable_dagger" ->
         IF ~Active THEN {}
         ELSE IF ~control.dagger THEN {control}
         ELSE LET off == [control EXCEPT !.dagger = FALSE, !.preparing = FALSE]
              IN  {IF control.state = "MANUAL"    \* release, to AUTO or HOLD
                   THEN [off EXCEPT !.epoch = @ + 1, !.state = s] ELSE off : s \in {"RETURNING", "HOLD"}}
    [] op = "start_model" ->
         IF ~Active THEN {[Enabled(control, FALSE) EXCEPT !.epoch = @ + 1, !.state = "RETURNING"]}
         ELSE IF control.state = "HOLD" /\ ~control.preparing
                 /\ (control.dagger => recorder.capture.stage = "ready")
         THEN {[control EXCEPT !.epoch = @ + 1, !.state = "RETURNING"]}
         ELSE {}

(* handovers, pauses, faults, recoveries: all it does without a request; a *)
(* frame that lets go of the Grip and starts the program is two of these   *)
Elsewhere ==
  /\ runs /\ Active /\ control.epoch < MaxEpoch
  /\ \E state \in {"HOLD", "AUTO", "RETURNING", "MANUAL", "FAULT"} :
       /\ state # control.state
       /\ state = "AUTO" => control.state = "RETURNING"
       /\ state = "RETURNING" => control.state \in {"HOLD", "MANUAL"} /\ ~control.preparing
       /\ state = "MANUAL" => control.dagger /\ ~control.preparing /\ control.state # "FAULT"
       /\ control' = [control EXCEPT !.state = state, !.epoch = IF state = "AUTO" THEN @ ELSE @ + 1]
  /\ UNCHANGED <<recorder, req, api, pending, config, runs, left, bounds>>

Prepared(session) ==
  IF control.preparing /\ control.session = session /\ control.state \in {"HOLD", "AUTO", "RETURNING"}
  THEN [control EXCEPT !.preparing = FALSE] ELSE control

(* watchdog: the capture has become ready *)
Watchdog ==
  /\ runs /\ control.preparing /\ recorder.capture.stage = "ready"
  /\ control' = Prepared(control.session)
  /\ UNCHANGED <<recorder, req, api, pending, config, runs, left, bounds>>

-----------------------------------------------------------------------------
(* The handler *)

Ask(id, op) ==
  /\ req[id] = NoRequest
  /\ req' = [req EXCEPT ![id] = [op |-> op, session |-> control.session, epoch |-> control.epoch]]
  /\ UNCHANGED <<control, recorder, api, pending, config, runs, left, bounds>>

\* "stop ordinary recording before enabling intervention"
Refused(r) == r.op \in Opening /\ recorder.ordinary = "on" /\ recorder.capture = NoCapture

(* ControlOwnership.request: an id that was answered is not applied again *)
Deliver(id) ==
  LET r == req[id]
      stale == r.session # control.session \/ r.epoch # control.epoch
  IN  /\ r # NoRequest /\ api.pc = "free" /\ ~Refused(r)
      /\ IF id \in control.answered THEN UNCHANGED <<control, pending, sessions>>
         ELSE /\ ~stale
              /\ \E after \in Outcomes(r.op) :
                   /\ after.session <= MaxSessions /\ after.epoch <= MaxEpoch
                   /\ control' = [after EXCEPT !.answered = @ \cup {id}]
                   /\ sessions' = IF after.session > sessions THEN after.session ELSE sessions
                   /\ pending' = [op |-> r.op, id |-> id, session |-> after.session,
                                  epoch |-> after.epoch]
      /\ api' = [Idle EXCEPT !.pc = "applied", !.id = id]
      /\ UNCHANGED <<recorder, req, config, runs, left, restarts, faults>>

(* Faulty variant of Pending: a request that was answered before counts as well. *)
PendingAny(id) == TRUE
(* The effect on the disk is still to be done, and this is the generation of   *)
(* the authority it was meant for.  The locks are not held any more.           *)
Pending(id) == pending = [op |-> req[id].op, id |-> id, session |-> control.session,
                          epoch |-> control.epoch]

Compare ==
  LET op == req[api.id].op
      prepares == Pending(api.id) /\ op \in Opening /\ recorder.capture = NoCapture
      stops == Pending(api.id) /\ op \in Closing
  IN  /\ api.pc = "applied"
      /\ api' = CASE prepares -> [api EXCEPT !.pc = "prepare", !.session = control.session]
                  [] stops -> [api EXCEPT !.pc = "stop"]
                  [] OTHER -> Idle
      /\ pending' = IF Pending(api.id) /\ ~prepares /\ ~stops THEN NoPending ELSE pending
      /\ UNCHANGED <<control, recorder, req, config, runs, left, bounds>>

(* the worker threads; of a runtime that was replaced they still run, and what *)
(* they open there nobody closes                                               *)
PrepareCorrections ==
  /\ api.pc = "prepare" /\ ~api.old /\ CorrectionLockFree
  /\ IF recorder.ordinary = "on" THEN api' = Idle /\ UNCHANGED recorder
     ELSE /\ api' = [api EXCEPT !.pc = "slots"]
          /\ recorder' = [recorder EXCEPT !.capture = [session |-> api.session, stage |-> "opening"]]
  /\ UNCHANGED <<control, req, pending, config, runs, left, bounds>>

(* Faulty variant of SlotsRefused: the recording was looked for before. *)
SlotsNotRefused == FALSE
(* start of TaskRecorder, for a prepared writer: RECORDING_ACTIVE *)
SlotsRefused == recorder.ordinary = "on"

(* Faulty variant of Failed: the capture goes on. *)
FailedReady(capture) == capture
(* stop of CorrectionSession that raises half-way: closing, never ready again *)
Failed(capture) == [capture EXCEPT !.stage = "broken"]

(* A failed preparation stops the session it began, which may fail as well. *)
PrepareSlots ==
  /\ api.pc = "slots" /\ ~api.old /\ LockFree
  /\ \/ /\ ~SlotsRefused /\ UNCHANGED faults
        /\ recorder' = [recorder EXCEPT !.capture.stage = "prepared"]
        /\ api' = [api EXCEPT !.pc = "prepared"]
     \/ /\ IF SlotsRefused THEN UNCHANGED faults ELSE Fault
        /\ recorder' = [recorder EXCEPT !.capture = NoCapture]
        /\ api' = Idle
     \/ /\ Fault
        /\ recorder' = [recorder EXCEPT !.capture = Failed(@)]
        /\ api' = Idle
  /\ UNCHANGED <<control, req, pending, config, runs, left, sessions, restarts>>

Finish ==
  /\ api.pc = "prepared" /\ ~api.old
  /\ control' = IF recorder.capture.stage = "ready" THEN Prepared(api.session) ELSE control
  /\ pending' = NoPending /\ api' = Idle
  /\ UNCHANGED <<recorder, req, config, runs, left, bounds>>

StopCorrections ==
  /\ api.pc = "stop" /\ ~api.old /\ CorrectionLockFree
  /\ \/ /\ recorder.capture.stage # "broken" /\ UNCHANGED faults
        /\ recorder' = [recorder EXCEPT !.capture = NoCapture]
        /\ pending' = NoPending
     \/ /\ recorder.capture # NoCapture
        /\ IF recorder.capture.stage = "broken" THEN UNCHANGED faults ELSE Fault
        /\ recorder' = [recorder EXCEPT !.capture = Failed(@)]
        /\ UNCHANGED pending
  /\ api' = Idle
  /\ UNCHANGED <<control, req, config, runs, left, sessions, restarts>>

FinishOld ==
  /\ api.pc \in {"prepare", "slots", "prepared", "stop"} /\ api.old
  /\ left' = (left \/ api.pc = "prepare")
  /\ pending' = NoPending /\ api' = Idle
  /\ UNCHANGED <<control, recorder, req, config, runs, bounds>>

(* the sources of the capture process come and go *)
SourcesChange ==
  /\ \/ recorder.capture.stage = "prepared" /\ recorder' = [recorder EXCEPT !.capture.stage = "ready"]
     \/ recorder.capture.stage = "ready" /\ recorder' = [recorder EXCEPT !.capture.stage = "prepared"]
  /\ UNCHANGED <<control, req, api, pending, config, runs, left, bounds>>

-----------------------------------------------------------------------------
(* Ordinary recordings, by HTTP or the X and Y buttons *)

\* "correction capture owns recording; exit the intervention session first"
StartRecording ==
  /\ recorder.ordinary = "off" /\ recorder.capture = NoCapture
  /\ recorder' = [recorder EXCEPT !.ordinary = "starting"]
  /\ UNCHANGED <<control, req, api, pending, config, runs, left, bounds>>
Recording ==
  /\ recorder.ordinary = "starting"
  /\ \E outcome \in {"on", "off"} : recorder' = [recorder EXCEPT !.ordinary = outcome]
  /\ UNCHANGED <<control, req, api, pending, config, runs, left, bounds>>
StopRecording ==
  /\ recorder.ordinary = "on"
  /\ recorder' = [recorder EXCEPT !.ordinary = "off"]
  /\ UNCHANGED <<control, req, api, pending, config, runs, left, bounds>>

-----------------------------------------------------------------------------
(* A configuration or a profile is saved *)

(* serialize_simulation_changes: no session; then it waits for the simulation *)
AskConfig ==
  /\ config = "none" /\ restarts < MaxRestarts /\ LoopFree /\ ~Active
  /\ config' = "waiting" /\ restarts' = restarts + 1
  /\ UNCHANGED <<control, recorder, req, api, pending, runs, left, sessions, faults>>

\* put_config refuses while something records; the activation of a profile does not ask
Busy == recorder.ordinary = "on" \/ (control.state = "MANUAL" /\ recorder.capture # NoCapture)
DropConfig ==
  /\ config = "waiting" /\ LoopFree /\ Busy
  /\ config' = "none"
  /\ UNCHANGED <<control, recorder, req, api, pending, runs, left, bounds>>

(* restart: stop of the runtime, up to the end of its control *)
StopRuntime ==
  /\ config = "waiting" /\ LoopFree
  /\ config' = "stopping"
  /\ control' = IF Active THEN Disabled(control) ELSE control
  /\ UNCHANGED <<recorder, req, api, pending, runs, left, bounds>>
BridgeStopped ==
  /\ config = "stopping" /\ runs
  /\ runs' = FALSE
  /\ UNCHANGED <<control, recorder, req, api, pending, config, left, bounds>>

(* shutdown of the recorder; a broken capture makes it raise, and nothing more *)
(* is stopped or started                                                       *)
CloseRecorder ==
  /\ config = "stopping" /\ ~runs /\ CorrectionLockFree /\ LockFree
  /\ IF recorder.capture.stage = "broken" THEN config' = "none" /\ UNCHANGED recorder
     ELSE config' = "closed" /\ recorder' = [ordinary |-> "off", capture |-> NoCapture]
  /\ UNCHANGED <<control, req, api, pending, runs, left, bounds>>

StartRuntime ==
  /\ config = "closed" /\ LoopFree
  /\ config' = "none" /\ runs' = TRUE
  /\ control' = Fresh
  /\ recorder' = [ordinary |-> "off", capture |-> NoCapture]
  /\ api' = [api EXCEPT !.old = api.pc # "free"]
  /\ left' = (left \/ recorder.ordinary # "off" \/ recorder.capture # NoCapture)
  /\ UNCHANGED <<req, pending, bounds>>

-----------------------------------------------------------------------------
Init ==
  /\ control = Fresh
  /\ recorder = [ordinary |-> "off", capture |-> NoCapture]
  /\ req = [id \in Ids |-> NoRequest]
  /\ api = Idle /\ pending = NoPending
  /\ config = "none" /\ runs = TRUE /\ left = FALSE
  /\ sessions = 0 /\ restarts = 0 /\ faults = 0

Worker == PrepareCorrections \/ PrepareSlots \/ StopCorrections
Next ==
  \/ \E id \in Ids : Deliver(id) \/ \E op \in Operations : Ask(id, op)
  \/ Compare \/ Worker \/ Finish \/ FinishOld
  \/ Elsewhere \/ Watchdog \/ SourcesChange
  \/ StartRecording \/ Recording \/ StopRecording
  \/ AskConfig \/ DropConfig \/ StopRuntime \/ BridgeStopped \/ CloseRecorder \/ StartRuntime

Spec == Init /\ [][Next]_vars

-----------------------------------------------------------------------------
Captures == recorder.capture.stage \in {"prepared", "ready"}

(* An ordinary recording and a correction capture never run together, though   *)
(* each looks for the other under a lock the other does not hold, and a        *)
(* recording that is being started is not yet seen as one                      *)
(* (docs/DAGGER_CORRECTION_RECORDING_DESIGN.md:276).                           *)
OneRecorder == recorder.ordinary = "on" => ~Captures

(* Once the preparation of a session is over, the human it admits is recorded  *)
(* by a capture that was prepared for this very session: one that could not be *)
(* stopped never becomes that of the next.                                     *)
CaptureIsOfSession ==
  runs /\ config # "stopping" /\ Active /\ control.dagger /\ ~control.preparing
    => recorder.capture # NoCapture /\ recorder.capture.session = control.session

(* "A delayed old disable must never stop a newer capture": while the human    *)
(* may take over, only the end of the runtime stops the capture.               *)
OldRequestsStopNothing ==
  [][Captures /\ recorder'.capture = NoCapture /\ config \notin {"stopping", "closed"}
     => ~control.dagger]_vars

(* The configuration stays as it is during a session (docs/DAGGER.md:41): the  *)
(* runtime is not stopped under one.  Does not hold: the session is looked for *)
(* before the wait for the simulation.                                         *)
ConfigFixedInSession == [][config = "waiting" /\ config' = "stopping" => ~Active]_vars

(* What a runtime opened is closed before the next one starts.  Does not hold: *)
(* the handler still serves the old runtime when its recorder was shut down.   *)
NothingLeftRunning == ~left
=============================================================================
