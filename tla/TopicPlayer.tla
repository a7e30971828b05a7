---------------------------- MODULE TopicPlayer ----------------------------
(***************************************************************************)
(* The replay of a recording: TopicPlayer with its playback threads, and   *)
(* the part of RosBridge it arms, the replay interlock and the queue of    *)
(* replayed final commands with the output epoch each was issued in.       *)
(*                                                                         *)
(* play, pause, resume, stop, acknowledge_reset and the end of a playback  *)
(* hold the player's lock; a playback thread reads the stop and the pause  *)
(* event without it.  stop does not wait for the thread it stops.          *)
(***************************************************************************)
EXTENDS Integers, FiniteSets

CONSTANTS
  Threads, NoThread,   (* playback threads that play may start             *)
  MaxEpoch,            (* bound: callers act below this output epoch       *)
  MaxQueued            (* bound: replayed commands not drained yet         *)

ASSUME ThreadsAssumption == NoThread \notin Threads
ASSUME BoundsAssumption == MaxEpoch \in Nat /\ MaxQueued \in Nat

VARIABLES
  pc,              (* where each playback thread is                        *)
  thread,          (* _thread                                              *)
  stopEvent, pauseEvent,
  playState,       (* _state                                               *)
  requiresReset, armed,   (* _requires_reset, _replay_interlock_armed      *)
  replayActive,    (* RosBridge: the interlock                             *)
  outputOpen,      (* RosBridge: output enabled, hardware ready, no session *)
  outputEpoch,
  commands,        (* queued final commands: epoch and replay of each      *)
  acknowledging,   (* _on_safety_resume has opened the output              *)
  replays          (* history: number of the replay armed last             *)

events == <<stopEvent, pauseEvent>>
player == <<thread, events, playState, requiresReset, armed>>
bridge == <<replayActive, outputOpen, outputEpoch>>
vars == <<pc, player, bridge, commands, acknowledging, replays>>

Playing == {"loop", "read", "publish"}
Alive == Playing \cup {"leave", "fail"}
AliveThreads == {t \in Threads : pc[t] \in Alive}

(* The variables keep their types, and the player knows whether it armed   *)
(* the interlock.                                                          *)
PlayerTypeOK ==
  /\ pc \in [Threads -> Alive \cup {"none", "dead"}]
  /\ thread \in Threads \cup {NoThread}
  /\ stopEvent \in BOOLEAN /\ pauseEvent \in BOOLEAN
  /\ playState \in {"idle", "playing", "paused", "stopped", "completed", "error"}
  /\ requiresReset \in BOOLEAN /\ armed \in BOOLEAN /\ acknowledging \in BOOLEAN
  /\ replayActive = armed /\ outputOpen \in BOOLEAN
  /\ outputEpoch \in Nat /\ replays \in Nat
  /\ commands \in SUBSET [epoch: 0..outputEpoch, replay: 1..replays]

Init ==
  /\ pc = [t \in Threads |-> "none"] /\ thread = NoThread
  /\ stopEvent = FALSE /\ pauseEvent = TRUE /\ playState = "idle"
  /\ requiresReset = FALSE /\ armed = FALSE
  /\ replayActive = FALSE /\ outputOpen \in BOOLEAN /\ outputEpoch = 0
  /\ commands = {} /\ acknowledging = FALSE /\ replays = 0

At(t, place) == pc[t] = place
Go(t, place) == pc' = [pc EXCEPT ![t] = place]

---------------------------------------------------------------------------
(* RosBridge.                                                              *)

(* Faulty variant of ReplayAllowed: any replay's command is taken.         *)
ReplayAllowedInAnyEpoch(epoch) == replayActive /\ outputOpen
ReplayAllowed(epoch) == epoch = outputEpoch /\ replayActive /\ outputOpen

EndReplay(reset) ==
  /\ replayActive' = FALSE /\ outputOpen' = (outputOpen /\ ~reset)
  /\ outputEpoch' = outputEpoch + 1

(* _release_replay_interlock.                                              *)
ReleaseInterlock(reset) ==
  IF armed THEN armed' = FALSE /\ EndReplay(reset) ELSE UNCHANGED <<armed, bridge>>

(* Anything else that closes or opens the output revokes its epoch.        *)
OutputChanges ==
  /\ outputEpoch < MaxEpoch /\ outputEpoch' = outputEpoch + 1
  /\ outputOpen' \in BOOLEAN
  /\ UNCHANGED <<pc, player, replayActive, commands, acknowledging, replays>>

(* The drain of the command queue: publishes what is still allowed.        *)
Drain ==
  /\ \E c \in commands : commands' = commands \ {c}
  /\ UNCHANGED <<pc, player, bridge, acknowledging, replays>>

---------------------------------------------------------------------------
(* The operations of the player.                                           *)
MayPlay == ~requiresReset /\ thread \notin AliveThreads

Play(t) ==
  /\ MayPlay /\ At(t, "none") /\ outputOpen
  /\ Go(t, "loop") /\ thread' = t /\ stopEvent' = FALSE /\ pauseEvent' = TRUE
  /\ playState' = "playing" /\ armed' = TRUE /\ replayActive' = TRUE
  /\ replays' = replays + 1
  /\ UNCHANGED <<requiresReset, outputOpen, outputEpoch, commands, acknowledging>>

(* A file that cannot be played leaves the state alone, one that fails     *)
(* later or an output that is not ready leaves it "playing".               *)
PlayRefused ==
  /\ MayPlay /\ stopEvent' = TRUE /\ pauseEvent' = TRUE
  /\ \/ UNCHANGED playState
     \/ playState' = "playing"
  /\ UNCHANGED <<pc, thread, requiresReset, armed, bridge, commands, acknowledging, replays>>

PauseOrResume ==
  /\ playState \in {"playing", "paused"}
  /\ pauseEvent' = (playState = "paused")
  /\ playState' = (IF pauseEvent' THEN "playing" ELSE "paused")
  /\ UNCHANGED <<pc, thread, stopEvent, requiresReset, armed, bridge, commands,
                 acknowledging, replays>>

(* stop: the thread is told and forgotten.                                 *)
Stop ==
  LET needsReset == playState \in {"playing", "paused"} \/ requiresReset
  IN  /\ stopEvent' = TRUE /\ pauseEvent' = TRUE
      /\ thread' = (IF thread \in AliveThreads THEN NoThread ELSE thread)
      /\ playState' = (IF needsReset THEN "stopped" ELSE "idle")
      /\ requiresReset' = needsReset
      /\ ReleaseInterlock(needsReset)
      /\ UNCHANGED <<pc, commands, acknowledging, replays>>

(* _on_safety_resume: the output is enabled, then the reset acknowledged.  *)
ResumeOutput ==
  /\ ~acknowledging /\ acknowledging' = TRUE
  /\ outputEpoch < MaxEpoch /\ outputEpoch' = outputEpoch + 1 /\ outputOpen' = TRUE
  /\ UNCHANGED <<pc, player, replayActive, commands, replays>>

AcknowledgeReset ==
  /\ acknowledging /\ acknowledging' = FALSE /\ requiresReset' = FALSE
  /\ playState' = IF playState \in {"completed", "stopped", "error"} THEN "idle" ELSE playState
  /\ UNCHANGED <<pc, thread, events, armed, bridge, commands, replays>>

---------------------------------------------------------------------------
(* A playback thread (_run).                                               *)

(* The loop over the file and its top-of-message checks.                   *)
LookAtStop(t) ==
  /\ pc[t] \in {"loop", "read"}
  /\ \/ stopEvent /\ Go(t, "leave")
     \/ ~stopEvent /\ At(t, "loop") /\ Go(t, "read")
     \/ ~stopEvent /\ At(t, "read") /\ pauseEvent /\ Go(t, "publish")
     \/ At(t, "read") /\ \E looping \in BOOLEAN :   (* the end of the file *)
          Go(t, IF looping /\ ~stopEvent THEN "loop" ELSE "leave")
  /\ UNCHANGED <<player, bridge, commands, acknowledging, replays>>

(* publish_raw of a final command.                                         *)
PublishRaw(t) ==
  /\ At(t, "publish") /\ Go(t, "read")
  /\ IF ReplayAllowed(outputEpoch)
     THEN /\ Cardinality(commands) < MaxQueued
          /\ commands' = commands \cup {[epoch |-> outputEpoch, replay |-> replays]}
     ELSE UNCHANGED commands
  /\ UNCHANGED <<player, bridge, acknowledging, replays>>

Fail(t) ==
  /\ pc[t] \in Playing /\ Go(t, "fail")
  /\ UNCHANGED <<player, bridge, commands, acknowledging, replays>>

Complete(t) ==
  /\ At(t, "leave") /\ Go(t, "dead")
  /\ IF stopEvent THEN UNCHANGED <<playState, requiresReset, armed, bridge>>
     ELSE playState' = "completed" /\ requiresReset' = TRUE /\ ReleaseInterlock(TRUE)
  /\ UNCHANGED <<thread, events, commands, acknowledging, replays>>

(* Faulty variant of ConcludeError: the error is only reported.            *)
ConcludeErrorOnly(t) ==
  /\ At(t, "fail") /\ Go(t, "dead")
  /\ playState' = "error" /\ requiresReset' = TRUE
  /\ UNCHANGED <<thread, events, armed, bridge, commands, acknowledging, replays>>

(* The except clause does not ask whether the playback was stopped.        *)
ConcludeError(t) ==
  /\ At(t, "fail") /\ Go(t, "dead")
  /\ playState' = "error" /\ requiresReset' = TRUE /\ ReleaseInterlock(TRUE)
  /\ UNCHANGED <<thread, events, commands, acknowledging, replays>>

Playback(t) == LookAtStop(t) \/ PublishRaw(t) \/ Fail(t) \/ Complete(t) \/ ConcludeError(t)

Next ==
  \/ \E t \in Threads : Play(t) \/ Playback(t)
  \/ PlayRefused \/ PauseOrResume \/ Stop
  \/ ResumeOutput \/ AcknowledgeReset \/ OutputChanges \/ Drain

Spec == Init /\ [][Next]_vars

---------------------------------------------------------------------------
(* Properties.                                                             *)

(* The interlock never outlives the playback: while the bridge keeps live  *)
(* commands out for a replay, some playback thread will still release it.  *)
(* The thread may have been told to stop and forgotten, may fail, and may  *)
(* find its interlock released by another.                                 *)
InterlockHasPlayback == replayActive => AliveThreads # {}

(* A replayed command that waits in the bridge's queue is published only   *)
(* in the replay it was issued in, never in a later one.                   *)
CommandsOfThisReplay ==
  \A c \in commands : ReplayAllowed(c.epoch) => c.replay = replays

(* "a replay is already active": one recording drives the robot at a time. *)
OnePlayback == ~stopEvent => Cardinality({t \in Threads : pc[t] \in Playing}) <= 1
=============================================================================
