# A verification project for HC-teleop-robotic

HC-teleop-robotic lets a person take a robot over from a running program with a
VR controller, and hand it back.  Between the producers of joint targets (the
VR teleoperation, an exoskeleton, the program, a player of recordings) and the
actuators stands one Python process.  It decides who may move the robot,
records what happened, and uploads the recordings.

These TLA+ modules model three parts of it.  The first is where a mistake moves
the robot: the authority transaction, its handshake with the receivers of the
motion permit, the final output gate, the path of a live target, the reset of a
stop, the replay of recordings, the link from the headset and the
teleoperation node with its solver.  The second is what a session records: the
capture of corrections, ordinary recordings, the path of a message into a file,
and the requests that own them.
The third is the delivery of a recording by the upload client.  TLC checks them
on small instances; TLAPS proves the main safety results of all of them for every
value of the constants.

Paths below are relative to the repository.

## 1. The system

### Components and their state

| component | source | state | operations |
|---|---|---|---|
| authority transaction | `middleware/core/control_ownership.py` | state, phase, token (session, epoch, source), acknowledgements, peers and their heartbeat times, input gate (device, sequence, grip, armed, time), resume_auto, manual mode, capture flags | enable, start_model, start_auto, set_dagger, takeover, release, hold, fault, recover, disable, input, input_lost, peer, acknowledge, advance, watchdog, allows, sent, request |
| output gate | `middleware/core/ros_bridge.py` 143-535 | selected source, output enable, output epoch, source cut-off, hardware readiness, replay interlock | begin/end_replay, emergency_stop, set_control_source, set_command_output_enabled, receive_hardware_ready, the control tick |
| live targets | `ros_bridge.py` 537-599, `legacy_control.py` | stamps per source, limits, last command | two-phase forward, prepare, commit |
| hardware enable and reset | `ros_bridge.py` 423-435, 786-798, 1073-1168, 1249-1391 | command queue, pending recovery, throttle | recover_intervention, drain, permit heartbeat, tick |
| intervention API | `intervention_api.py` | requests already answered, pending capture | action |
| handover peers | `adapters/core/intervention.py`, `v23_intervention.py`, `solver_rearm.py`, `adapters/nodes/*teleop*` | token, phase, lease, clutch, re-arm stage | permit, heartbeat, observe, tick |
| correction recording | `correction_recording.py` | windows, capture process, sessions | open, close, action, finish_due |
| task recording | `task_recording.py`, `background_process.py` | task and recording state, finalizer, files | start, stop, save, recover |
| recorder processes | `topic_recorder.py`, `ros_recording_executor.py` | ingress queue and counters, writer process, subscriptions and their lease | prepare, start, record, write, stop |
| upload client | `upload_client/humanoid_upload/` | SQLite queue, job states, back-off, artifact locks | enqueue, process, retry, cancel, delete |
| topic player | `topic_player.py` | playback thread, position, interlock flag | play, pause, stop |
| VR gateway | `vr_gateway.py`, `protocol.py` | connection, session, sequence | receive, time out |
| teleoperation node | `adapters/core/arm_teleop_node.py` | clutch, references, source | tick, source change |
| the rest | configuration, export, cameras, simulation, web interface, tools | - | - |

### How they interact

*Threads.*  The process runs HTTP handlers, a bridge thread that drains the
command queue every 10 ms, a control executor (samples, acknowledgements,
readiness, the 5 ms tick, the 50 ms permit heartbeat), a command executor
(joint targets) and recording workers.  One re-entrant lock is shared by the
authority transaction and the gate.  Everything that decides runs under it, but
three paths leave it and come back: a live target (checked, prepared without
the lock, checked again), an API action (checked against the player, then
requested) and a reset (requested, drained by another thread, completed by the
tick).

*Hooks.*  Every change of authority goes through `_invalidate`, which calls
`revoke` (close the output, new output epoch) and `permit` (announce the token
and phase to the peers and, in a stop, stop the hardware).

*Messages.*  Peers receive the permit over a topic that keeps one message, and
answer with acknowledgements that carry their identity, the token and the
phase.  A peer's identity is new at each start.

### What is hard here

* *Interleaving*: any caller may end an ownership between two steps of another.
* *Restarts and lost messages*: a peer may restart between its acknowledgement
  and the permission it allowed; acknowledgements may never come.
* *Silent time-outs*: input, heartbeat, readiness and handover each expire
  without an event; whoever looks first must act.
* *State read before the lock was given up*: targets and requests.
* *A bounded queue that drops*: stops and resets share it with telemetry.
* *Long legal sequences*: the input gate keeps an armed bit and a Grip over
  pauses, device changes, gaps and mode changes.

* *Locks held over steps and copies kept without one*: the finalizer, the upload
  worker and the capture's monitor each work on a copy of what others change.
* *Crashes between two saves*: recordings and uploads are files and rows that a
  restart reads again.
* *Threads that nobody waits for*: a playback that was stopped goes on until it
  looks; a handler outlives the runtime it serves.

`PROJECT.json` lists each hazard at its line, with the properties aimed at it, or
with the configuration that shows that the code has the flaw.

### What makes each component correct

* authority: ownership is withdrawn before it is given; the human owns only
  with a held Grip; the program only after an explicit start; a stop only
  escalates until an explicit reset; handovers end.
* gate: open only to the owner of a completed handover with ready hardware;
  every revocation opens a new output epoch.
* live targets: nothing stamped under an earlier authority is published.
* hardware: a stop holds until its own reset; nothing re-arms a session.
* API: an answer is given once per request id; a capture belongs to the session
  it was prepared for.
* peers: nobody executes a grant another peer has not been fenced for.
* correction recording: every window is closed and accounted for, whatever the
  queue drops.
* task recording: a crash loses no accepted recording and none is saved twice.
* recorder processes: a closed file holds what was accepted for it and nothing
  else, a running capture has its inputs, and a stop returns.
* upload: a job is completed at most once, cancelled work stops, nothing is
  deleted while it is read.
* player: one playback at a time, its interlock always released.
* headset link: one press is one command, samples go forward, silence stops.
* teleoperation node: the arms follow a Grip pressed for it, and a solver that
  knows where the robot is.
* requests: what a request does to the disk belongs to its session, whatever is
  repeated, late or served while the runtime is replaced.

## 2. The modules

```
OutputAuthority  PermitHandshake     the promises: who owns the joints, and what
      ^              ^      ^        the peers see; HandoverPeers extends the
      | implemented by      |        handshake by the peers and their topics
ControlOwnership            HandoverPeers
      ^ extended by
OutputGate             + selector, enable, epochs, readiness, replay, tick
      ^ extended by         ^ extended by
LiveForwarding         HardwareReset

UploadDelivery  <- implemented by -  UploadQueue
TaskRecording    CapturePipeline    CorrectionCapture    InterventionApi
TopicPlayer      ArmTeleop          VrLink
```

The modules of the last two lines each model a component with what it shares with
its neighbours written into it: `TopicPlayer` has the interlock of the gate,
`TaskRecording` the descriptor and the queue of the upload client,
`CorrectionCapture` the calls of the authority, `InterventionApi` the authority,
the recorder and the life of the runtime.

`MC<module>` instantiates a module for TLC; `<module>_proofs` holds its theorems.
Those of `OutputAuthority` and `PermitHandshake` are in `ControlOwnership_proofs`,
those of `LiveForwarding` and `HardwareReset` in `OutputGate_proofs`, beside the
invariants they rest on.  `HandoverPeers_proofs` has the adapters: the peers of a
session and `ArmTeleop`, the teleoperation node outside of one; `TopicPlayer_proofs`
has the theorems about `VrLink` too, and `TaskRecording_proofs` those about
`CorrectionCapture`.
Operators named `...Only`, `...Any...`, `...Keeping...` and the like, introduced
by "Faulty variant of", stand for plausible slips in the code.  No specification
uses them; putting one in place of the original must break a property.

### ControlOwnership

One action per public method of the class; a method is one step because it runs
under the lock.  `Invalidate` is `_invalidate` with its hooks, `Stop` the form
that also ends the run (`resume_auto = False`).  The token is kept as session,
epoch and source: its instance is a constant of the process and the
intervention id a function of the epoch.  `acks` records the process that
acknowledged, `peers` the one that is known now.

The code reads clocks in three comparisons, and the model keeps their outcome:
`inputStatus = "expired"` (the last sample is older than `input_timeout`),
`lapsed` (peers whose heartbeat is), `overdue` (the handover deadline is over).
`InputExpires`, `PeerLapses` and `DeadlinePasses` let that time pass at any
moment.  A stale acknowledgement is dropped by the code and is no step here.

`Input` splits the method by its returns: unusable, of another device, ignored,
after a gap, pausing, releasing, gripping.  `receive_intervention_input` goes on
under the same lock: when the frame asked to resume and the state is HOLD after
it, it asks for `start_auto`.  HOLD may be what the frame itself led to:
`LetsGo` is an open Grip that ends a takeover from HOLD.  `SampleStarts` is the
frame with the start, two epochs when it let go first; a start that is
refused leaves the release alone.  Asking whether the control is ready may find
the last report of the hardware too old, which is a fault behind the release
(`StartFaults`), and so may the tick that completed a reset (`RecoverFaults`).

`enable` from OFF takes over a failed closing in the same way as `_invalidate`.
`start_model` too is two invalidations in one step, hence two epochs;
`start_model` in HOLD is `StartAuto`.  `recover` elsewhere than in HOLD or a
stop is `Hold`.

### PermitHandshake and HandoverPeers

`PermitHandshake` is what a peer can tell of the transaction: off, hold, a
handover, open or stopped; the epoch and phase of the permit; who answered, and
as which process.  `ControlOwnership` implements it with `Mode` as its state
(`HandshakeKept`), so what is shown over the handshake holds over the
transaction, without the operator, the recording and the input gate.
`Twice` lists where one step takes two epochs: a program's start from off
or by a frame that lets go, and a fault behind a release or a reset.
`OutputAuthority` has the same as `LetGoAndStart` and `ResetAndTrip`: a withdrawal
and a start, a reset and a stop, that no one sees between.

`HandoverPeers` puts the receivers behind it, in the configuration whose peers
are in this repository: the teleoperation (`InterventionTeleop`) and the solver
(`V23Intervention`).  In the other one the motion server, another program, has
the solver's place.

| model | code |
|---|---|
| `permits` | the permit topic, depth one, for each receiver |
| `adopted` | token and phase of the receiver; `Nothing` before the first |
| `failed` | `ack_error`, `error` |
| `granted` | the teleoperation's permission to move the arms |
| `ready` | the solver was reset to feedback newer than the permit |
| `answers` | one answer in flight per peer: read late, often or never |
| `TakePermit` | `permit`, with the anchoring of the hand, which may fail |
| `SolverResets` | `feedback` |
| `GrantFails`, `InputRestarts` | the lease of `heartbeat`, a lost reference, `observe` |
| `HearAnswer`, then `Count` | the bridge's `ack`: `peer` and `acknowledge`, two locked steps |

A restarted peer gets an identity that nothing in the system remembers, which is
what a new uuid is.  Permits carry stamps of one clock and arrive in order, so
the receivers' stamp comparison never decides; their age limit is `LosePermit`.

### OutputGate

Extends the transaction by the fields of `RosBridge` under the same lock.  The
hook's effect on them, `Revoked`, is written once as a function of how many
epochs the step consumed.  `resumeOwed` is history.

The tick calls watchdog, recovery, feedback check, `advance` and the opening in
one locked section; each is a step here, and other steps may come in between.  At
most one of the calls changes the authority in a tick, but for a completed reset
whose readiness then times out: that pair is one step, `TickFindsUnready`.
`SampleFindsUnready` is the same of a frame that asks for the start.  `ReadyTimesOut`
is `_ready_locked` in every other place.  An acknowledgement's callback takes the lock three times
(peer, acknowledge, tick) and is three steps here too.  Whether a handover or a
recording is ready, and whether feedback is fresh, is left open.

### LiveForwarding

One target in flight: `Mint` (stamped under the present token or none),
`Check`, any number of gate steps, `Publish`.  Of its stamp the model keeps
whether it is newer than the source cut-off and than the grant's cut-off;
`Stamped` says how a gate step moves both.  Conversion, limits and collision
check only decide whether the target is dropped.  `PublishThenRaise` is the
publication whose accounting finds the input expired.

### HardwareReset

Extends the gate by the command queue (as far as it carries resets and output
switches), the pending recovery and the last value published on the hardware
topic with its throttle.  `TickCompletes` is the reset's end, in HOLD or in the fault
the tick finds next.  The queue may drop any command: other traffic fills
it.  Readiness reports are whatever an adapter may send.  A `control_source`
command changes nothing here and is left out.

### TopicPlayer

`play`, `pause`, `stop`, `acknowledge_reset` and the end of a playback are one step
each under the player's lock; a playback thread (`pc`) reads the stop and the
pause event without it, and `stop` does not join.  A replayed final command
waits in the bridge's queue with the output epoch it was issued in.

### VrLink

The receive thread (`rx`) with its lease, sequence arithmetic and time-outs, the
bounded queue, the processor thread, and what the application makes of a press
and of a lost link.  `air` is UDP: a datagram in flight may be read late, twice or
never.  Numbers are modulo `W`, and start close enough to it to wrap.  A sample
carries, as history, how often its headset's button had been pressed (`nth`).  The
decision to report a time-out and its effect on the output are two steps, as in
the code.

### ArmTeleop

The teleoperation node outside of a session has one executor, so a callback or
a tick is a step; the branches of the tick are actions of their own.
`SolverRearmGate` is the field `gate`.  The solver is another process with an
integrator: requests, acknowledgements and targets travel over topics of depth
one.  Of a stamp the model keeps whether it is newer than the cut-off.  `moved`
and `held` are history: the robot was moved by someone else since the solver's
last reset; the Grip may have been held since the last event of each kind.
`Watched` selects which of these a run is about.

### CorrectionCapture

| model | code |
|---|---|
| `slot`, `job`, `reg` | the warm slots, the jobs in memory and as saved |
| `boundaries`, `actions`, `completed` | the queues to and from the capture process |
| `router` | the capture process with its `WindowRouter` or `SessionRouter` |
| `mon` | the monitor thread, with the changes or the result it holds |
| `events` | notifications the control thread left for the monitor |
| `CloseInterval`, `CloseWindow`, `CloseWindowDone` | `close`, whose boundary is visible before the rest is done |
| `Grade` | the grade `finish_due` gives |

A command may be dropped by the bounded queue, refused by the writer or come
after its window was finished.  The capture process and writers may die at any
step.  `Broken` lists what the monitor ends on: a capture process that reports
its error, also with results still queued, or is gone when none is left; a job, a
result or a file that cannot be saved; a writer that is gone; a preparation that
fails.

### TaskRecording

| model | code |
|---|---|
| `jobs` | the saved job of each recording: state, request, binding, upload wishes |
| `lock` | which of start, stop, delete holds `TaskRecorder.lock`, and where it is |
| `pending`, `sealing` | what the finalizer was given, and the copy it works on |
| `descriptor`, `queued`, `handed` | the sealed artifact, its upload job, `UploadService.enqueue` between its two accesses |

`Restart` is a crash or an end of the program at any step, followed by `__init__`.

### CapturePipeline

`TaskRecording` and `CorrectionCapture` see of a recorder that it opens, refuses,
closes or dies; this module is what lies behind it, three processes and the
queue between them.

| model | code |
|---|---|
| `call`, `path`, `process`, `job` | start and stop of `TopicRecorder`, one step per lock or wait; the file, the writer and the artifact they work on |
| `accepting`, `finish`, `opened` | the events between the processes |
| `feeder`, `pipe` | the ingress queue: a `multiprocessing` queue keeps what was put in a thread of the process that put it, until that is flushed |
| `accepted`, `messages`, `bytes` | the shared counters by which the writer knows its end |
| `writer`, `file` | the writer process of each capture, and what it wrote |
| `sub`, `inputs`, `seen`, `lease`, `reset`, `ready` | the loop of the subscriber process: subscriptions, `capture_seen`, `prepared_until`, and the events by which it is asked |

A message is the capture it was accepted for; its bytes are one unit of the
budget.  Two processes produce, the subscriber and the server.  `StartsOver`
distinguishes the callers that ask for the status before a start (the VR buttons,
`TaskRecorder.start`) from the HTTP route without a platform, which does not.

### UploadQueue and UploadDelivery

`UploadDelivery` is the promise: a recording is bound to one task for good and
becomes one raw source there.  `UploadQueue` has the rows of the database, the
tick with the copies it read when it began, every call of a job with a failure
before or after its effect, cancellation, retry, back-off, leases on files,
deletion, stop and crash.  `KeepsPromise` is the refinement: an artifact is bound
when it has a row, and delivered when the platform has committed its session.
The request to resume is taken from the worker's copy before the call, so that
a lost or refused call uses it up; the row keeps it until it is saved again.

### InterventionApi

The handler runs on an event loop, so it is one step up to an `await`:
`Deliver` is everything under `ControlOwnership.lock`, `Compare` what follows it,
and the preparation or stop of the capture runs in a worker thread, under
`correction_lock` and, for the slots, `TaskRecorder.lock`.  A preparation that fails
stops the session it began, and that stop may fail as well and leave it, closed
(`Failed`).  `Elsewhere` stands for what the authority does by itself; a frame that
lets go and starts is two of its steps.  `config` is the write of a configuration:
it looks for a session, waits for the simulation, and replaces the runtime, whose
recorder is shut down before the next one starts; a handler keeps serving the
runtime it read (`api.old`).  Clients keep a request and repeat it with its id.

## 3. The runs

| run | instance | shows |
|---|---|---|
| `mc_control_ownership` | 2 peers, 2 process identities, 2 devices, all samples, epochs <= 4 | the invariants and action properties of the input gate, `AuthorityKept` and `HandshakeKept` (implements `OutputAuthority` and `PermitHandshake`), `HandoverResolves`, `StaleManualStops` |
| `mc_handover_peers` | module `HandoverPeers`; solver and teleop, 2 identities, epochs <= 2 | `PermissionMeansPeersSwitched`, `GrantsAgree`, `BrokenPeerStops` |
| `mc_live_forwarding` | 1 peer, 1 device, sources vr and motion, epochs <= 4 | `OutputOnlyForOwner`, `FencedTargets` |
| `mc_hardware_reset` | 1 peer, queue of 2, 2 resets, epochs <= 3 | `LatchedHardwareIsStopped`, `ArmedByValidRequest`, `ClosedOutputReachesHardware` |
| `mc_topic_player` | 3 playback threads, 2 queued commands, epochs <= 6 | `InterlockHasPlayback`, `CommandsOfThisReplay` |
| `mc_vr_link` | 2 headsets, 3 samples, queue of 2, numbers modulo 8 from 6, 1 flaw | `OneResumePerPress`, `SamplesInOrder`, `SampleLossStops` |
| `mc_arm_teleop` | homing at start, 1 disturbance; moves of others and breaks of the Grip are watched | `RightGripIsNew`, `ArmsFollowResetSolver` |
| `mc_correction_capture` | 2 slots, both modes, 2 windows, 2 commands, queues of 2 and 1, 2 faults | `GradeIsHonest`, `StopSettles`, `ClosedStaysClosed` |
| `mc_task_recording` | 2 recordings, 2 requests, 2 tasks, 1 restart | `PendingWork`, `NoSecondCapture`, `OneTask`, `ReadyOwesNothing` |
| `mc_upload` | 1 artifact, 2 bindings, 2 jobs, 3 formats, 2 callers, 1 fault, 1 command, 1 stop | `CopyIsCurrent`, `CancelStopsTransfer`, `ReceiptNotStranded`, `KeepsPromise` |
| `mc_intervention_api` | 3 requests, 2 sessions, epochs <= 4, 1 new configuration, 1 fault | `OneRecorder`, `CaptureIsOfSession`, `OldRequestsStopNothing` |
| `mc_capture_pipeline` | 1 caller, 2 captures, 3 messages, a budget of 2, a writer may fail | `ClosedIsComplete`, `CaptureHasInputs`, `StopReturns` |

*Bounds.*  `MaxEpoch` and `MaxOutputEpoch` stop callers and the network, never
the internal steps, so no property is protected by the bound; a full cycle
(enable, start, takeover, release) consumes four epochs, and the state after a
further epoch differs from earlier ones only by the numbers.  Of the peers two
epochs matter, the one they follow and the next.  `MaxCommands` of the authority is
1 because only zero and non-zero are distinguished.  Two identities per peer
are enough for one restart at each point.  A queue of two holds a stale command
in front of a fresh one.  The runs that compose the gate use one peer and no
recording, whose properties the first run covers.  Three playback threads are a
stopped one, one that was stopped after it, and the present one.  Three samples
reach over the wrap of the sequence number and overflow the queue.  Two windows
drain at once, in either slot, and two commands overflow the action queue; with
three windows and one fault, where a slot is used again, the same properties
were checked in a longer run.  Two recordings contend for the finalizer and the
active place.  Two callers enqueue one artifact for two tasks at once.  Three
requests are one under way, one that is repeated late, and one in between.  Two
captures are an earlier one and one that finds what it left, and of three
messages one is in a feeder, one in the pipe and one too many; with three
captures the properties were checked in a longer run.
`CHECK_DEADLOCK FALSE`: at the bound the callers are silent.

*Symmetry.*  `Interchangeable` of `MCUploadQueue`, `MCTaskRecording`,
`MCTopicPlayer` and `MCInterventionApi`: jobs, bindings and callers; recordings,
requests and tasks; threads; request ids.  The runs with liveness properties use
none.

*Fairness.*  `ControlOwnership!Fairness`: a deadline that was set is reached,
and the tick, a 5 ms timer, sees what is due.  Nothing is assumed of callers,
peers or samples.  `ResetFairSpec`: the bridge thread reaches the end of its
drain every 10 ms whatever the queue holds; the tick sees lost readiness and
the two-second limit of a reset; 0.1 s pass.  `PeersFairSpec`: a peer's 0.1 s
timer beats, and of answers that are sent for ever some are read; single ones
may all be lost.  `VrLink!LinkFairSpec`: the receive loop wakes up by its socket's
time-out and reports what it has decided, and the processor thread runs; headsets and
network owe nothing.  `CapturePipeline!FairSpec`: feeder threads flush, the writer
runs, and `process.join` returns when it has ended; callers and the subscriber
owe nothing.  The further configurations use `TopicFairSpec` (the 50 ms
timer repeats what the code lets it repeat, and of permits that are sent for
ever some are read), `UploadQueue!FairSpec` (the service thread ticks, a stopped
service is started again, started calls end, the platform works on what it has)
and `CorrectionCapture!CaptureFairSpec` (the monitor and the capture process run).

*The properties.*  `RearmNeedsRelease` is about the input gate over any sequence
of pauses, gaps, device and mode changes; `ProgramIsLicensed` about what survives
a takeover; `CaptureCoversManual` about the recording of a manual interval; `GapEndsManual` about a late sample;
`OutputOnlyForOwner` and `FencedTargets` about revocation in every interleaving;
`PermissionMeansPeersSwitched` and `GrantsAgree` about late answers, lost permits
and restarts; `BrokenPeerStops` about a failure after the handover;
the reset properties about a stop that several threads work on;
`InterlockHasPlayback` and `CommandsOfThisReplay` about threads and commands that
outlive their replay; the properties of the link about loss, repetition and
reordering; `RightGripIsNew` and `ArmsFollowResetSolver` about a long sequence of
callbacks between the hand and the arms; `GradeIsHonest` about everything that
can be dropped on the way to the file; `ClosedStaysClosed` and `StopSettles` about
two threads that save the same job; those of the recorder about copies, crashes
and three parties that decide whose recording it is; those of the queue about
calls whose answer is lost; those of the recorder processes about what is still
under way between them when a capture ends; those of the requests about a repetition that comes
when everything has changed.  Each property has a mutant of the code that
breaks it.

A module's type invariant is defined beside its variables; where the module has
a proof it is proved (section 4) and not checked again by a run.  So are `ManualIsHeld` and
`PermissionByCurrentPeers`, which a run checks as part of what `OutputAuthority`
and `PermitHandshake` promise, and `SessionLeavesHardware`.

*Further configurations* are kept beside the runs; each holds one question, and
those marked with a number reproduce a divergence below.

| configuration | module | outcome |
|---|---|---|
| `MCUploadQueueLive.cfg` | `MCUploadQueue` | `CancelEnds`, `EveryJobEnds` hold |
| `MCCorrectionCaptureLive.cfg` | `CorrectionCapture` | `DrainedIsSettled` holds |
| `MCLiveForwardingReplay.cfg` (1) | `MCLiveForwarding` | `ReplayEndNeedsResume` is violated |
| `MCLiveForwardingEvidence.cfg` (2) | `MCLiveForwarding` | `EvidenceForEveryOutput` is violated |
| `MCHardwareResetAck.cfg` (3) | `MCHardwareReset` | `RecoveryNeedsHardwareReset` is violated |
| `MCHardwareResetStop.cfg` (4) | `MCHardwareReset` | `StopOutlivesReset` is violated |
| `MCHandoverPeersOff.cfg` (5) | `HandoverPeers` | `OffReachesPeers` is violated |
| `MCTopicPlayerTwice.cfg` (6) | `MCTopicPlayer` | `OnePlayback` is violated |
| `MCTaskRecordingIntent.cfg` (7) | `MCTaskRecording` | `DurableIntent` is violated |
| `MCUploadQueueRetry.cfg` (8) | `MCUploadQueue` | `AcceptedRetryIsSent` is violated |
| `MCVrLinkStays.cfg` (9) | `MCVrLink` | `LostLinkStaysStopped` is violated |
| `MCArmTeleopCollision.cfg` (10) | `ArmTeleop` | `ReleasedAfterCollision` is violated |
| `MCCorrectionCaptureOpen.cfg` (11) | `CorrectionCapture` | `OpenIsRecorded` is violated |
| `MCInterventionApi.cfg` with `PROPERTY ConfigFixedInSession` (12) | `MCInterventionApi` | is violated |
| `MCInterventionApi.cfg` with `INVARIANT NothingLeftRunning` (13) | `MCInterventionApi` | is violated |
| `MCCapturePipelineOver.cfg` (14) | `CapturePipeline` | `CaptureHasInputs` is violated |
| `MCCapturePipeline.cfg` with `INVARIANT OwnMessages` (15) | `CapturePipeline` | is violated |
| `MCCapturePipeline.cfg` with `Callers = {"http", "vr"}`, `MayFail = FALSE` (16) | `CapturePipeline` | `ClosedIsComplete` is violated |

"With" means: in place of the properties or values of that file.

### Divergences found

1. *A session re-opens the output after a replay.*
   The API's replay check and its session request are two steps; when a replay
   begins in between and ends in the session, the tick re-opens the output
   that `end_replay` closed, against its comment (`ros_bridge.py:351`).
2. *A manual action is sent and not counted.*
   `sent` reads the clock again after the publication (`ros_bridge.py:588`),
   and raises out of the callback.
3. *A reset completes without the hardware.*  Any ready
   report newer than the request will do (`ros_bridge.py:1151`).
4. *A reset outlives a second stop.*  An emergency
   stop in ESTOP leaves the token, so an earlier request still completes.
5. *The end of a session is said once.*  The heartbeat
   repeats the permit of a running session only, and in OFF it publishes another
   permit on the same topic of depth one (`ros_bridge.py:786-798`): a peer that
   did not read "off" in time stays in the session.
6. *Two playbacks at once.*  `stop` sets the stop event and forgets the thread;
   `play` finds none and clears the event (`topic_player.py:229`), and a playback
   that has not looked yet goes on beside the new one.
7. *A durable intent without a finalizer.*  An upload by hand is saved as
   pending before it is submitted, and is not submitted when another caller has
   queued the artifact meanwhile (`task_recording.py:424`): until a restart
   nobody reconciles it.
8. *An accepted repetition of the processing may not be sent.*  The request id is
   persisted (`upload_client/README.md:59`), and a tick that ends the job first
   (`worker.py:105`) leaves it.
9. *A press outlives the link.*  A press of A that waits in the queue is handled
   after the time-out was reported and resumes the output while no sample
   comes, although queued samples "must not become fresh again"
   (`vr_gateway.py:259`).
10. *A collision is forgotten without a release.*  The log asks to release the
   Grip; a gap of the input (`arm_teleop_node.py:1625`) or a body command that
   does not collide (`1576-1588`) clears the latch too.
11. *A takeover is told it is recorded when nobody records.*  After the monitor
   ended on an error a prepared slot still opens (`correction_recording.py:460`).
12. *A configuration is saved under a session.*  The session is looked for before
   the wait for the simulation's lock (`app.py:869-871`), against "fixed during a
   session" (`docs/DAGGER.md:41`).
13. *The old runtime is served after its recorder was shut down.*  A recording or
   a capture that is started then is not closed by anybody (`app.py:341`).
14. *A capture without inputs.*  Without a platform a start by HTTP does not ask
   whether a recording runs (`app.py:1200-1257`).  The subscriber prepares, sees the
   running capture, and `start` stops that one first: the subscriber takes this for
   the end of what it was prepared for (`ros_recording_executor.py:332`), and
   the new capture is recorded without a message.
15. *A file with messages of an earlier capture.*  After a writer has failed, what
   is in a feeder thread is not in the pipe that `start` drains
   (`topic_recorder.py:616`), and reaches the next file.
16. *Start and stop by two callers.*  Without a platform nothing orders them: a stop
   between the check that the writer lives (`topic_recorder.py:659`) and
   `accepting.set` (669) leaves messages accepted that nobody writes.

Met while modelling, with no configuration of their own: a closed boundary queue
of a full session (256 places) loses the close of a window and keeps
`manual_token`; an `open` that finds its writer dead loses the slot; a writer that
died makes `CorrectionSession.stop` raise half-way, so that the session stays and
neither ordinary recording nor the end of the runtime gets past it; a frame that
asks to resume does not suppress the Grip of a human who has the robot, although
resume is said to (`control_ownership.py:292`): it lets go and starts the program; a change of
the authority by the watchdog between the two locks of a request leaves its
effect on the disk undone until the request is made again under a new id
(`intervention_api.py:73-78`); the headset that restarts with lower numbers is
taken for an old one until the sender changes; a short change of the source is
invisible to the node; recordings of tasks carry no capture identity, so that
deletion does not go by `ArtifactLocks.delete` (`HC_INTEGRATION.md:35`);
a check of the topics during a recording renews the subscriptions, and what
arrives in between is lost.  With
`Watched = {"home"}` or `{"startup"}` `ArmsFollowResetSolver` fails: during the homing
and before the first one the solver keeps a reset that is older than the motion.

## 4. What is proved

TLAPS proves the following for all constants that satisfy the assumptions
(a set of peers that is not empty, identities other than `NoInstance`, devices
other than `NoDevice`, samples of the right type, `RecordingEnabled` Boolean,
"vr" and "motion" among the sources; for the peers, that they are the solver and
the teleoperation; `NoTask` is no task, `NoRecording` no recording).  The bounds are
naturals like any other, and a session has a slot at least (`SlotsAssumption`): a
theorem holds for each of them.  Two theorems about
`CapturePipeline` assume one caller (`Callers = {c}`), and the second also a caller that
asks whether a recording runs before it starts one (`~StartsOver`): with two callers,
or without the question, TLC finds the properties violated (findings 14 and 16 of
section 3).  With a platform the lock of `TaskRecorder` orders the calls and the
question is asked under it.  `ArmsFollowReset` assumes that `Watched` has neither
"home" nor "startup" (`ForeignMotion`): it is about motion by others, and TLC refutes
the property for the two excluded kinds (end of section 3).

| theorem | module | statement |
|---|---|---|
| `TypeCorrect`, `ManualHeld`, `ProgramLicensed`, `PermissionCurrent`, `CaptureCovers`, `PreparingSafe` | `ControlOwnership_proofs` | `Spec => []` the invariant of the same meaning |
| `GapEnds`, `RearmAfterBarrier` | `ControlOwnership_proofs` | the two action properties |
| `AuthorityImplemented` | `ControlOwnership_proofs` | `Spec => AuthorityKept` |
| `HandshakeImplemented` | `ControlOwnership_proofs` | `Spec => HandshakeKept` |
| `PermissionSwitched`, `GrantsAlwaysAgree`, `PeersTypeCorrect` | `HandoverPeers_proofs` | `PeersSpec => []` the peers' invariants |
| `OutputForOwner`, `GateKeepsAuthority`, `GateTypeCorrect` | `OutputGate_proofs` | `GateSpec =>` the gate invariant, the abstract promise, the types |
| `TargetsAreFenced`, `LiveOutputForOwner`, `LiveTypeCorrect` | `OutputGate_proofs` | `LiveSpec => []` the fence of live targets, the gate invariant, the types |
| `LatchedIsStopped`, `ArmedByRequest`, `SessionKeepsHardware`, `ResetTypeCorrect` | `OutputGate_proofs` | `ResetSpec =>` the safety properties of the hardware enable, the types |
| `WorkIsPending`, `CapturedOnce`, `TaskIsOne`, `NothingOwed`, `RecorderTypeCorrect` | `TaskRecording_proofs` | `Spec => []` the recorder's invariants |
| `GradesAreHonest`, `StopIsSettled`, `ClosedIsKept`, `WindowIsInOnePlace`, `CaptureTypeCorrect` | `TaskRecording_proofs` | `CaptureSpec =>` the properties of the capture of corrections, the places of a window, the types |
| `GripsAreNew`, `ArmsFollowReset`, `ActiveAreLicensed` | `HandoverPeers_proofs` | `ArmSpec => []` the invariants of the teleoperation node |
| `PressResumesOnce`, `SamplesKeepOrder`, `LinkTypeCorrect` | `TopicPlayer_proofs` | `LinkSpec => []` the invariants of the link |
| `InterlockIsHeld`, `CommandsAreDated`, `PlayerTypeCorrect` | `TopicPlayer_proofs` | `Spec => []` the player's invariants |
| `SavesOverwriteNothing`, `CancelIsObeyed`, `ReceiptsAreKept`, `DeletedIsNotRead`, `UploadTypeCorrect` | `UploadQueue_proofs` | `Spec => []` the queue's invariants |
| `UploadKeepsPromise` | `UploadQueue_proofs` | `Spec => KeepsPromise`: the queue implements `UploadDelivery` |
| `NeverBothRecord`, `TakeoversAreCaptured`, `OldRequestsAreHarmless`, `ApiTypeCorrect` | `InterventionApi_proofs` | `Spec =>` the invariants of the requests and the action property |
| `ClosedFilesAreComplete`, `InputsAreKept` | `CapturePipeline_proofs` | `Spec => []` the two invariants, with one caller |

*Argument.*  The invariant `Inv` is the conjunction of the type invariant and the
safety invariants.  They are not inductive one by one: `ProgramIsLicensed`
needs that a takeover leaves `resumeAuto` only in states it may be in,
`CaptureCoversManual` that a segment is open in a granted takeover only, and
`PermissionByCurrentPeers` that acknowledgements name known processes in every
state but a stop, where a restarted peer may have left an old one.  The
conjunction is inductive.  The steps are grouped by their effect on the
authority (stop, hand back, take control, unchanged), and one lemma per effect
serves every action that has it; two of them, `Started` and `Faulted`, may come behind a
release or a reset in the same step.  The action properties follow from `Inv` at
both ends of a step.  For the refinement, each effect is mapped to one action of
`OutputAuthority` (the two-fold ones to `LetGoAndStart`, `Start`, `Trip` and
`ResetAndTrip`); that its `generation` is a natural is part of `Inv`.

The handshake's refinement uses the same effects; only a heartbeat changes what
is known of a peer (`PeersMove`), and it is a `Hear` also when it stops.

For the peers the invariant `PeersInv` says that the topic holds nothing but
the present permit (`PermitsAreCurrent`: every change is announced in its own
step, and a permit that a topic of depth one lost is gone); that an answer
of a running process for the present epoch and phase is still true
(`AnswersAreTrue`), and so is an acknowledgement (`AcksAreTrue`); and that nobody
follows an earlier grant while one is out (`OneGrant`).  The last holds at the
grant because each peer has acknowledged the revocation, and a process that
replaced one that did so has followed nothing but that revocation.  The steps
of the peers are all of one form, `PeerStep`, for which the invariant is proved
once.

The gate's steps are steps of the transaction or leave it alone
(`GateTakesSteps`), so `Inv` carries over; `OutputOnlyForOwner` then needs that
a change of epoch closes the output and that in AUTO and MANUAL nothing but a
new epoch changes the source.

The fence of live targets needs to know what may happen between two locked
sections that saw the same output epoch (`Steady`): no session begins or ends,
an open output stays open and keeps its grant, and a closed one opens by the tick
of a session only.  With that, `Fenced` is inductive: a fresh target outside a
session was minted in the present output epoch, in a session with the output
open it is younger than the grant, and a check that the epoch still confirms
found one of the two.

For the hardware the key is that a latched stop stays one within its epoch
(`StopMoves`), so that a pending token with the present epoch is the reset of
the stop that holds now (`ResetOfStop`), and that what waits in the queue was
asked for (`GoodCommands`) but need not be good any more: the drain compares it
with the pending token and the epoch.

For the recorder the invariant is a conjunction over recordings of what a job in
each state implies (`Types`, `Unknown`, `Holder`, `Captures`, `Files`, `Finalizer`, `Copy`,
`Ownership`): who holds the lock and at which step, whether the file exists, what
the finalizer has in hand.  The key is `Copy`: the finalizer works on a copy
without the lock, and it stays current because `Busy` refuses a request by hand
while the recording is pending, so that nothing but the finalizer changes its
job until the result is saved.  `OneTask` rests on `Ownership`, and on the queue:
whoever enqueues second, also after an old reading of the descriptor, is refused
any task but the first one's.

For the capture of corrections the steps of five actors are held together by the
places of a window (`PlacesApart`, `WindowsFit`): a slot's window has its opening in
the boundary queue, is routed, has its result in the queue or is with the monitor,
in at most one of these; in all of them the slot is at work and its job is the one
of that window.  A window is closed after it was opened and once, with the number of
commands issued, which does not grow any more (`ClosedInOrder`, `Over`).  What a
grade vouches for is followed from the commands (`GradesVouch`): until a writer
refuses, the file holds what the router received, which is a part of what was
issued; the grade compares the number of the first with that of the second, so that
"ok" means all of them (a part of a finite set with as many elements), and results,
the monitor and the registry pass that on unchanged.  `StopSettles` needs whose job
is whose (`JobsAreOwned`): a job that is not closed belongs to a slot at work or to
a warm one; a monitor that ends without an error leaves none at work
(`StagesAgree`), and the stop deletes the warm ones.  `ActiveIsOpen` covers the
close that is announced before it is done: the monitor may complete the slot under
it, and the slot then waits for its preparation until the lock is free.

For the teleoperation node `HandSeen` follows the hand (`RightGripIsNew` counts
a change of source, a new enabling, a homing, lost drives and lost feedback as
breaks; not a collision, see finding 10): the gate lets a Grip be
followed only after it saw one released, and whatever breaks the control also
closes the gate and forgets that release (`Restarts`); the one break that does not,
enabling while another source has the robot, finds the gate closed already.
`ResetSeen` follows the solver: the further the gate is open, the more of the
solver's state and of its answers in flight follow a reset that nobody's motion
outdates.  Others can move the robot only while the node does not own it, and the
gate starts again whenever it comes to own it.  All other operations make the node
no more active than it was (`Eases`), for which both are shown once.

For the player, `InterlockHasPlayback` is a consequence of `ArmedByThread`: whoever
armed the interlock is the thread the player still knows, and it has not been told
to stop, because every operation that forgets the thread or sets the stop event gives
the interlock back in the same locked section.  An old thread that finds the flag
cleared and set again may go on playing (`OnePlayback`, section 3), but it cannot
take the interlock with it.  `Dated` says that a queued command of the present
epoch is of the replay that runs; ending a replay raises the epoch, so that
none is left for the next.

For the link, `NewerIsLater` says that the comparison modulo `W` is that of the
unwrapped numbers (`WindowAssumption`: less than half of them are in use), so that
what is queued rises (`Ordered`).  A press may be seen from a sample's own edge or
from two samples around it, hence `Counted`: between two samples of a headset lie
at least as many presses as the later one can show to a control that saw only the
earlier.  `Accounted` compares the number of resumes with the presses up to the
sample handled last, which the samples carry.

For the upload queue a tick works on a batch of copies while commands, retries, the
platform and deletion go on.  `CopyIsCurrent` is inductive with `Exclusive` (a retry
by hand and a tick exclude each other through the worker's lock), with `Identity`
(no copy of a job changes its artifact or its binding) and with the types; a
cancel goes to a table of its own, which is why it is not overwritten.
`LateCalls` bounds, for each step of the worker, how many changing calls a
cancelled job may already be late by: a check stands before every second call.
`Receipts` follows the copy as well as the row, because a crash may keep either.
The refinement needs `OneJob` and `Unheard`: an artifact is bound when
its one row is written (`Binding`), is delivered by the commit of that row's session
(`Committing`), and every other step leaves both as they are (`Unseen`).  The proof
found an error of the model: a lost or refused call could change a session in
any state, so that a lost `resume` brought a cancelled session back.
`Taken` now lets such a call change only a session in the state the call needs,
as a platform that answers would.

For the session requests the difficulty is that the effect on the disk (`pending`)
is applied after the control lock is given up.  `LastRequest` says what the pending
effect still knows: a closing one was applied and nothing admitted the human
since; an opening one names the session, and the epoch tells whether
anything happened after it.  `Handling` relates the worker thread to the session
it acts for, and `Owned` says that a capture that can still become ready is that
of the session, or of one that is over while the handler is about to stop it.
`OneRecorder` follows from `Alone`, since an ordinary recording that starts and
a capture that opens each look for the other; `OldRequestsStopNothing` from
`Handling`, since the stop is reached only with the human refused, in this
runtime or in one that is over.

For the recorder's processes the accounting is `Conserved`: as long as no writer has
failed, what was accepted is what the writer took plus what lies in the pipe and
in the feeder threads, and all of it belongs to the present capture.  The writer
ends when it has taken what was accepted, so that a closed file is complete;
`DrainedBefore` says that nothing is left for the next capture.  `CaptureHasInputs`
needs to follow the subscriber from the moment a start renews its lease:
`StartHasInputs` says that the inputs are there, leased and not seen idle, all
the way to the acceptance, and `NoRelease` that they are not released after it.

*Only model-checked*: liveness under fairness, which is beyond the prover (the
temporal properties of the runs but `KeepsPromise`, `AuthorityKept`, `HandshakeKept` and the
action properties).

## 5. What is not modelled, and the plan

`PROJECT.json` gives the reason for each component left out.  Done: the authority
and its gate, live targets, the reset, the peers, ordinary recordings, the upload
queue, the player, the session requests, the processes of the recorder and the
node with its solver, the link and the capture of corrections (all proved).

Not modelled:

* *Continuous mathematics*: kinematics, collision geometry, filters, limits of
  targets, camera calibration.  Their verdicts are inputs of the models.
* *Media and files*: conversion to datasets, encoders, cameras, the hand-off
  and deletion of files by `RecordingArtifacts`, listings and marks.  The queue and
  the processes of `TopicRecorder` are in `CapturePipeline`; what `TaskRecording` and
  `CorrectionCapture` see of a writer is that it opens, refuses, closes, dies.
* *Static data*: robot profiles and configuration are validated and converted;
  nothing in them evolves.  The replacement of the runtime they trigger is in
  `InterventionApi`.
* *Other programs*: motion server, drivers, the motion and simulation bridges,
  the headset application, the platform beyond its answers.
* *Front ends*: HTTP routes, the web interface, tools, examples.

These parts are most of the repository's lines, and little of its control; the
map covers the control that decides about motion, recordings and uploads.

Next, in order of worth: `PlatformConnection` with its bindings and credentials; the
start and stop of the simulation; the job worker of the dataset export.
