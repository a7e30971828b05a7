------------------------------ MODULE ArmTeleop ------------------------------
(* The teleoperation node with an external solver (backends v23 and generic),  *)
(* outside of a takeover session: RobotArmTeleopNode (arm_teleop_node.py), its *)
(* SolverRearmGate (solver_rearm.py) and the solver's wrapper ControllerNode   *)
(* (control_v2_3_ros2.py), which keeps an integrator of its own.  The node has *)
(* one executor: a callback is one step.                                       *)
(*                                                                             *)
(* Joint values, poses and the base's velocity are left out; what an inverse   *)
(* kinematics or a collision check answers is an input, and so is what the     *)
(* left hand and the sticks do, which only the timer reads.  The right hand's  *)
(* last sample is kept: its Grip decides about the arms.  Of stamps the model  *)
(* keeps the comparisons: is an answer newer than the cut-off of the gate.     *)
EXTENDS Naturals

CONSTANTS
  HomeOnStart,   \* control.home_on_start
  Watched,       \* history: the events that moved and held are about
  MaxEvents      \* bound: disturbances of a behaviour

VARIABLES
  node,      \* the fields of RobotArmTeleopNode
  solver,    \* the fields of ControllerNode
  reset,     \* a reset request is in flight (topic of depth one)
  ack,       \* the acknowledgement in flight: none, or its age against the cut-off
  output,    \* the solver's joint targets in flight, or NoOutput
  moved,     \* history: someone else moved the arms since the solver's last reset
  held,      \* history: events since which the right Grip may have been held
  events     \* bound: disturbances so far

vars == <<node, solver, reset, ack, output, moved, held, events>>

Hands == {"none", "idle", "grip"}      \* "none": no sample, or an old one
Sticks == {"centred", "pushed", "outward"}
ControlSources == {"vr", "motion"}
NoOutput == [sent |-> FALSE, fresh |-> FALSE, afterAck |-> FALSE, stale |-> FALSE]

-----------------------------------------------------------------------------
(* SolverRearmGate: ready, homing, wait_feedback, wait_ack, wait_solver,        *)
(* wait_release, wait_press; ready again                                       *)

Shut(n) == n.gate # "ready"
StartHoming(n) == [n EXCEPT !.gate = "homing", !.released = FALSE]
HomingComplete(n) ==
  IF n.gate = "homing" THEN [n EXCEPT !.gate = "wait_feedback"] ELSE n
ObserveClutch(n, pressed) ==
  [n EXCEPT !.released = @ \/ (Shut(n) /\ ~pressed),
            !.gate = CASE @ = "wait_release" /\ ~pressed -> "wait_press"
                       [] @ = "wait_press" /\ pressed -> "ready"
                       [] OTHER -> @]
(* Faulty variant of ObserveOutput: a Grip held throughout counts as released. *)
ReleaseTakenForGranted(n, fresh) ==
  IF n.gate = "wait_solver" /\ fresh THEN [n EXCEPT !.gate = "wait_press"] ELSE n
(* Faulty variant of ObserveOutput: the acknowledgement is not waited for.      *)
AckNotAwaited(n, fresh) ==
  IF n.gate \in {"wait_ack", "wait_solver"} /\ fresh
  THEN [n EXCEPT !.gate = IF n.released THEN "wait_press" ELSE "wait_release"]
  ELSE n
ObserveOutput(n, fresh) ==
  IF n.gate = "wait_solver" /\ fresh
  THEN [n EXCEPT !.gate = IF n.released THEN "wait_press" ELSE "wait_release"]
  ELSE n

-----------------------------------------------------------------------------
(* What the callbacks share *)

ReleaseAll(n) == [n EXCEPT !.arms = FALSE, !.body = FALSE, !.waistRearm = TRUE]

ResetReferences(n) ==
  LET r == StartHoming([ReleaseAll(n) EXCEPT !.right = "none", !.homing = FALSE,
                                             !.pending = TRUE])
  IN  IF n.source = "vr" THEN HomingComplete(r) ELSE r

SetHomeTargets(n) == [StartHoming(ReleaseAll(n)) EXCEPT !.homing = TRUE]

Resumed(n, grip) ==
  LET r == IF n.source = "vr" /\ (~n.enabled \/ ~n.homing)
           THEN [ResetReferences(n) EXCEPT !.initialDone = @ \/ ~n.enabled,
                                           !.latched = TRUE]
           ELSE n
  IN  [r EXCEPT !.enabled = TRUE, !.body = FALSE, !.waistRearm = TRUE,
                !.prevLeft = grip]

(* The first homing: off is whether the measured pose is away from home *)
CheckInitialHoming(n, off) ==
  IF n.initialDone \/ (HomeOnStart /\ n.feedback = "never") THEN n
  ELSE LET d == [n EXCEPT !.initialDone = TRUE]
       IN  IF HomeOnStart /\ off THEN SetHomeTargets(d) ELSE d

(* blocked: what the latch reads, collision_blocked without                   *)
(* collision_escape_mode                                                       *)
ClearBlock(n) == [n EXCEPT !.blocked = FALSE, !.waitRight = FALSE, !.waitLeft = FALSE]
(* A command collides; inside: so does the measured pose *)
Block(n, inside) ==
  LET b == [n EXCEPT !.blocked = ~inside,
                     !.waitRight = @ \/ (~inside /\ (n.homing \/ n.arms)),
                     !.waitLeft = @ \/ (~inside /\ n.body)]
      h == [(IF n.homing THEN HomingComplete(b) ELSE b) EXCEPT !.homing = FALSE]
  IN  IF inside THEN h ELSE ReleaseAll(h)
(* The answers of the check: nothing near, or near but leaving; entering; inside *)
Checks == {"clear", "entering", "inside"}
Allowed(check) == check = "clear"
Checked(n, check) == IF Allowed(check) THEN ClearBlock(n) ELSE Block(n, check = "inside")

(* A published reset: what is in flight now is older than the cut-off *)
PublishReset(n) ==
  /\ node' = n
  /\ reset' = TRUE
  /\ ack' = IF ack = "none" THEN "none" ELSE "old"
  /\ output' = [output EXCEPT !.fresh = FALSE]
NoReset(n) == node' = n /\ UNCHANGED <<reset, ack, output>>
(* after a collision the reset is published, but not within 0.2 s of the last *)
CollisionReset(check) ==
  /\ IF Allowed(check) THEN UNCHANGED reset ELSE reset' \in {reset, TRUE}

(* history: the hand is watched from a break of the arms' control on *)
Break ==
  \/ node'.source # node.source
  \/ node'.enabled /\ ~node.enabled
  \/ node'.homing /\ ~node.homing
  \/ node'.pending /\ ~node.pending
  \/ node.ready /\ ~node'.ready
Watch(hit) ==
  LET breaks == {e \in Watched : (e = "break" /\ Break) \/ (e = "hit" /\ hit)}
  IN  held' = (IF node'.right = "idle" THEN {} ELSE held)
                \cup (IF node.right = "idle" THEN {} ELSE breaks)
Quiet == Watch(FALSE)
(* bound: a disturbance is counted, what answers it (the source back at the     *)
(* operator, enabling again, fresh feedback, ready drives) is not              *)
Event == events < MaxEvents /\ events' = events + 1
Unless(recovery) == IF recovery THEN UNCHANGED events ELSE Event

-----------------------------------------------------------------------------
(* The timer: _control_tick, one action per way out of it *)

(* the clutch is read first; a tick reads it twice, which changes nothing *)
Sampled ==
  IF Shut(node) /\ node.right # "none"
  THEN ObserveClutch(node, node.right = "grip") ELSE node
OwnTurn(n) == n.source = "vr" /\ ~n.pending

TickElsewhere ==
  /\ ~OwnTurn(Sampled)
  /\ NoReset(Sampled)
  /\ UNCHANGED moved

TickUnready ==
  /\ OwnTurn(Sampled) /\ ~Sampled.ready
  /\ NoReset(IF Sampled.arms \/ Sampled.body THEN ReleaseAll(Sampled) ELSE Sampled)
  /\ UNCHANGED moved

(* enabled without fresh feedback: start again with the next measured pose *)
TickBlind ==
  /\ OwnTurn(Sampled) /\ Sampled.ready
  /\ Sampled.enabled /\ ~Sampled.homing /\ Sampled.feedback # "fresh"
  /\ NoReset(ResetReferences(Sampled))
  /\ UNCHANGED moved

TickDisabled ==
  /\ OwnTurn(Sampled) /\ Sampled.ready
  /\ ~Sampled.enabled \/ (Sampled.homing /\ Sampled.feedback # "fresh")
  /\ NoReset([ReleaseAll(IF Sampled.homing THEN HomingComplete(Sampled) ELSE Sampled)
                EXCEPT !.homing = FALSE])
  /\ UNCHANGED moved

Driving(n) == OwnTurn(n) /\ n.ready /\ n.enabled /\ n.feedback = "fresh"

(* both sticks outward, once: they must be seen centred before the next time *)
Gesture(n, left, sticks) ==
  IF left = "none" \/ n.right = "none" THEN n
  ELSE IF n.latched THEN [n EXCEPT !.latched = sticks # "centred"]
  ELSE IF sticks = "outward" THEN [SetHomeTargets(n) EXCEPT !.latched = TRUE]
  ELSE n
Gestured(n) == {Gesture(n, left, sticks) : left \in Hands, sticks \in Sticks}

HomingDone(n) ==
  [HomingComplete(n) EXCEPT !.homing = FALSE, !.arms = FALSE, !.body = FALSE]

(* _update_homing, and its command if the collision check lets it pass *)
TickHome(g, done, check) ==
  LET h == IF done THEN HomingDone(g) ELSE g
  IN  /\ Driving(Sampled) /\ g.homing
      /\ node' = Checked(h, check)
      /\ CollisionReset(check)
      /\ moved' = (moved \/ (Allowed(check) /\ "home" \in Watched))
      /\ UNCHANGED <<ack, output>>

(* _update_waist_clutch *)
WaistClutch(n, left) ==
  LET grip == left = "grip"
  IN  [n EXCEPT !.prevLeft = grip,
                !.waistRearm = @ /\ ~(grip /\ ~n.prevLeft)]
(* _apply_collision_latch: who has let go no longer waits *)
Latched(n, base, arms) ==
  IF ~n.blocked THEN n
  ELSE LET w == [n EXCEPT !.waitRight = @ /\ arms, !.waitLeft = @ /\ base]
       IN  IF w.waitRight \/ w.waitLeft THEN w ELSE ClearBlock(w)
Holds(n, wait) == wait /\ n.blocked

(* The Grips drive, where the poses they need are fresh *)
Driven(n, left, sticks) ==
  LET g == Gesture(n, left, sticks)
      w == WaistClutch(g, left)
      arms == g.right = "grip" /\ ~Shut(g)
      pushed == sticks # "centred" /\ (left # "none" \/ g.right # "none")
      base == left = "grip" \/ pushed
      c == Latched(w, base, arms)
      allowed == base /\ ~Holds(c, c.waitLeft)
  IN  IF g.homing THEN {}
      ELSE {[c EXCEPT !.body = body, !.arms = hands] :
              body \in {FALSE, left = "grip" /\ ~w.waistRearm /\ allowed},
              hands \in {FALSE, arms /\ ~Holds(c, c.waitRight)}}
TickDrive ==
  /\ Driving(Sampled)
  /\ \E n \in UNION {Driven(Sampled, left, sticks) : left \in Hands, sticks \in Sticks} :
       NoReset(n)
  /\ UNCHANGED moved

ControlTick ==
  /\ \/ TickElsewhere
     \/ TickUnready
     \/ TickBlind
     \/ TickDisabled
     \/ \E g \in Gestured(Sampled), done \in BOOLEAN, check \in Checks :
          TickHome(g, done, check)
     \/ TickDrive
  /\ Quiet
  /\ UNCHANGED <<solver, events>>

-----------------------------------------------------------------------------
(* The other callbacks *)

(* _vr_data_callback, the right hand; its request to resume is Resume.  A      *)
(* sample also becomes too old (input_timeout)                                 *)
Hand(hand) ==
  /\ NoReset([node EXCEPT !.right = hand])
  /\ Quiet
  /\ UNCHANGED <<events, moved, solver>>

(* _joint_state_callback; late: sampled before the cut-off of the source *)
Anchors(late) == node.pending /\ node.ready /\ ~late
JointState(late, off) ==
  LET f == [node EXCEPT !.feedback = "fresh", !.pending = @ /\ ~Anchors(late)]
      c == IF f.ready /\ f.source = "vr" THEN CheckInitialHoming(f, off) ELSE f
  IN  /\ IF ~f.pending /\ c.gate = "wait_feedback" THEN PublishReset([c EXCEPT !.gate = "wait_ack"])
         ELSE NoReset(IF f.pending THEN f ELSE c)
      /\ Quiet
      /\ UNCHANGED <<events, moved, solver>>

(* _hardware_ready_callback *)
HardwareLost ==
  /\ Event
  /\ NoReset(LET r == [node EXCEPT !.ready = FALSE]
             IN  StartHoming(IF r.arms \/ r.body THEN ReleaseAll(r) ELSE r))
  /\ Quiet
  /\ UNCHANGED <<moved, solver>>
HardwareBack(off) ==
  LET r == [node EXCEPT !.ready = TRUE]
      h == HomingComplete(ReleaseAll(r))
      resets == h.gate = "wait_feedback" /\ h.feedback # "never"
  IN  /\ ~node.ready
      /\ IF r.pending
         THEN NoReset(IF r.source = "vr" THEN HomingComplete(r) ELSE r)
         ELSE IF resets THEN PublishReset(CheckInitialHoming([h EXCEPT !.gate = "wait_ack"], off))
         ELSE NoReset(CheckInitialHoming(h, off))
      /\ Quiet
      /\ UNCHANGED <<events, moved, solver>>

(* _generic_command_callback: the solver's targets are forwarded; while no arm  *)
(* is active they are replaced by the last command                             *)
Listens(n) == OwnTurn(n) /\ n.enabled /\ n.ready /\ ~n.homing
ArmsFollow(n) == n.arms /\ ~Shut(n)
Command(check) ==
  LET n == ObserveOutput(node, output.fresh)
      moves == ArmsFollow(n) \/ n.body
  IN  /\ output.sent
      /\ output' = NoOutput
      /\ \/ /\ ~Listens(node)
            /\ node' = node /\ UNCHANGED reset /\ Quiet
         \/ /\ Listens(node) /\ node.feedback # "fresh"
            /\ node' = ResetReferences(node) /\ UNCHANGED reset /\ Quiet
         \/ /\ Listens(node) /\ node.feedback = "fresh"
            /\ node' = IF moves THEN Checked(n, check) ELSE n
            /\ IF moves THEN CollisionReset(check) ELSE UNCHANGED reset
            /\ Watch(moves /\ check = "entering" /\ n.arms)
      /\ UNCHANGED <<ack, events, moved, solver>>

(* _solver_reset_ack_callback: the cut-off is now that of the acknowledgement *)
TakeAck ==
  LET taken == node.gate = "wait_ack" /\ ack = "new"
  IN  /\ ack # "none" /\ ack' = "none"
      /\ node' = IF taken THEN [node EXCEPT !.gate = "wait_solver"] ELSE node
      /\ output' = IF taken THEN [output EXCEPT !.fresh = @ /\ output.afterAck] ELSE output
      /\ Quiet
      /\ UNCHANGED <<events, moved, reset, solver>>

(* _control_source_callback *)
ControlSource(s) ==
  /\ Unless(s = "vr") /\ s # node.source
  /\ NoReset(ResetReferences([node EXCEPT !.source = s]))
  /\ Quiet
  /\ UNCHANGED <<moved, solver>>

(* _stop_callback, _disable_service, _enabled_callback with False *)
Disable ==
  /\ Event
  /\ NoReset(ReleaseAll([node EXCEPT !.enabled = FALSE]))
  /\ Quiet
  /\ UNCHANGED <<moved, solver>>

(* _resume_teleop: the A button, _enable_service, _enabled_callback with True *)
Resume ==
  /\ Unless(~node.enabled)
  /\ \E grip \in BOOLEAN : NoReset(Resumed(node, grip))
  /\ Quiet
  /\ UNCHANGED <<moved, solver>>

(* _home_service, _home_topic_callback *)
Home ==
  /\ Event
  /\ OwnTurn(node) /\ node.feedback = "fresh"
  /\ NoReset(SetHomeTargets([node EXCEPT !.enabled = TRUE]))
  /\ Quiet
  /\ UNCHANGED <<moved, solver>>

ResetReference ==
  /\ Event
  /\ NoReset(ReleaseAll(node))
  /\ Quiet
  /\ UNCHANGED <<moved, solver>>

(* Time: the feedback is older than joint_state_timeout *)
FeedbackAges ==
  /\ Event
  /\ node.feedback = "fresh"
  /\ NoReset([node EXCEPT !.feedback = "old"])
  /\ Quiet
  /\ UNCHANGED <<moved, solver>>

-----------------------------------------------------------------------------
(* The solver: ControllerNode, and everyone else who moves the robot *)

SolverAwaitsFeedback == solver' = [solver EXCEPT !.reset = TRUE, !.waits = TRUE]

(* _reset_callback *)
SolverReset ==
  /\ reset /\ reset' = FALSE
  /\ SolverAwaitsFeedback
  /\ UNCHANGED <<node, ack, output, moved, held, events>>

(* _control_source_callback of the solver *)
SolverSource ==
  /\ solver.source # node.source
  /\ solver' = [source |-> node.source, reset |-> TRUE, waits |-> TRUE]
  /\ UNCHANGED <<node, reset, ack, output, moved, held, events>>

(* _joint_callback with feedback newer than the request *)
SolverFeedback ==
  /\ solver.reset /\ solver' = [solver EXCEPT !.reset = FALSE]
  /\ moved' = FALSE
  /\ ack' = "new"
  /\ output' = [output EXCEPT !.afterAck = FALSE]
  /\ UNCHANGED <<node, reset, held, events>>

(* _ee_callback: a target newer than the reset; every tick publishes one *)
SolverTarget ==
  /\ solver.source = "vr" /\ ~solver.reset /\ solver.waits
  /\ solver' = [solver EXCEPT !.waits = FALSE]
  /\ UNCHANGED <<node, reset, ack, output, moved, held, events>>

(* _tick: the next joint targets, from where the integrator is *)
SolverStep ==
  /\ solver.source = "vr" /\ ~solver.reset /\ ~solver.waits
  /\ output' = [sent |-> TRUE, fresh |-> TRUE, afterAck |-> TRUE, stale |-> moved]
  /\ UNCHANGED <<node, solver, reset, ack, moved, held, events>>

(* Another source moves the robot, or someone does while the node is disabled  *)
(* or the drives are off; at startup, before the first homing was considered   *)
OtherMoves ==
  /\ (IF node.initialDone THEN "other" ELSE "startup") \in Watched
  /\ node.source # "vr" \/ ~node.enabled \/ ~node.ready
  /\ ~moved /\ moved' = TRUE
  /\ UNCHANGED <<node, solver, reset, ack, output, held, events>>

-----------------------------------------------------------------------------
ArmInit ==
  /\ \E enabled \in BOOLEAN :
       node = [enabled |-> enabled, source |-> "vr", ready |-> FALSE,
               feedback |-> "never", pending |-> FALSE, homing |-> FALSE,
               initialDone |-> FALSE, gate |-> "ready", released |-> FALSE,
               arms |-> FALSE, body |-> FALSE, waistRearm |-> FALSE,
               prevLeft |-> FALSE, latched |-> FALSE, blocked |-> FALSE,
               waitRight |-> FALSE, waitLeft |-> FALSE,
               right |-> "none"]
  /\ solver = [source |-> "vr", reset |-> FALSE, waits |-> FALSE]
  /\ reset = FALSE /\ ack = "none" /\ output = NoOutput
  /\ moved = FALSE /\ held = {} /\ events = 0

ArmNext ==
  \/ ControlTick
  \/ \E hand \in Hands : Hand(hand)
  \/ \E late, off \in BOOLEAN : JointState(late, off)
  \/ HardwareLost
  \/ \E off \in BOOLEAN : HardwareBack(off)
  \/ \E check \in Checks : Command(check)
  \/ TakeAck
  \/ \E s \in ControlSources : ControlSource(s)
  \/ Disable \/ Resume \/ Home \/ ResetReference \/ FeedbackAges
  \/ SolverReset \/ SolverSource \/ SolverFeedback \/ SolverTarget \/ SolverStep
  \/ OtherMoves

ArmSpec == ArmInit /\ [][ArmNext]_vars

-----------------------------------------------------------------------------
(* Only who may drive is active: an enabled node whose turn it is, with ready   *)
(* drives, outside of a homing and with an anchored pose.                      *)
ActiveIsLicensed ==
  node.arms \/ node.body => Listens(node)

(* The arms follow a Grip that was pressed after the last break (a change of   *)
(* source, a new enabling, a homing, lost drives, lost feedback), never one    *)
(* that was held through it.                                                   *)
RightGripIsNew == node.arms => "break" \notin held

(* What the arms follow comes from an integrator that was reset after someone  *)
(* else moved the robot.                                                       *)
ArmsFollowResetSolver ==
  output.sent /\ Listens(node) /\ ArmsFollow(node) => ~output.stale

(* After a collision the arms follow a Grip that was released since: "release  *)
(* the active Grip once to resume" (arm_teleop_node.py:1572).                  *)
ReleasedAfterCollision == node.arms => "hit" \notin held
=============================================================================
