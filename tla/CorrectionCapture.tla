-------------------------- MODULE CorrectionCapture --------------------------
(* The capture of manual corrections in one intervention session:              *)
(* CorrectionSession with its warm slots, its monitor thread, the capture      *)
(* process with a SessionRouter or a WindowRouter, and the writers of the      *)
(* slots (correction_recording.py, correction_support.py; the writers as far   *)
(* as topic_recorder.py shows them to the session).  The owner of the robot    *)
(* opens and closes windows (control_ownership.py); HTTP prepares and stops.   *)
(*                                                                             *)
(* A window is a number, in the order of takeover, and stands for its token    *)
(* and its bounds; a command is its number in the window.  Observations, their *)
(* gaps and their cache are left out: they only lower a grade.  What the       *)
(* session thread holds `lock` for is one action, except close, which makes    *)
(* the boundary visible to the capture process before it is done.              *)
EXTENDS Integers, Sequences, FiniteSets

CONSTANTS
  PreparedSlots, \* prepared_slots
  SessionEvents, \* places in the boundary queue of a full session (256)
  ActionItems,   \* action_queue_items
  MaxWindows,    \* bound: takeovers
  MaxCommands,   \* bound: commands, of all the takeovers
  MaxFaults      \* bound: processes that die, preparations, writers and their queues that fail

ASSUME SlotsAssumption == PreparedSlots \in Nat \ {0}
ASSUME LimitsAssumption ==
  {SessionEvents, ActionItems, MaxWindows, MaxCommands, MaxFaults} \subseteq Nat

Slots == 1..PreparedSlots
NoSlot == 0
First == 1                        \* the slot of a full session
Windows == 1..MaxWindows
\* a job for each window, and one prepared for each slot
Corrections == 1..(MaxWindows + PreparedSlots)
Closed == {"source_complete", "failed"}

VARIABLES
  ses,        \* CorrectionSession: mode, stage, closing, active, token, error, prepared
  slot,       \* per slot: its state, its job, does its writer process run
  job,        \* per job: its window, the capture state and the grade in memory
  reg,        \* per job: the capture state in the registry, "none" if not there
  events,     \* registry_events
  mon,        \* the monitor thread: where it is, the changes or the result it holds
  boundaries, actions, completed,  \* the queues to and from the capture process
  router,     \* the capture process: does it run, its windows, is a session ending
  ctl,        \* ControlOwnership: takeovers so far, in manual, its segment; the commands
              \* of each window (history: of those before), of all (bound)
  file,       \* per job: the commands its writer accepted
  faults      \* bound: faults so far

captureVars == <<ses, slot, job, reg, events, mon, boundaries, actions, completed, router, ctl,
          file, faults>>
session == <<ses, slot, job, reg, events>>
process == <<boundaries, actions, completed, router, file>>

Full == ses.mode = "full_session"
UsedSlots(mode) == IF mode = "full_session" THEN {First} ELSE Slots
BoundaryItems == IF Full THEN SessionEvents ELSE 2 * PreparedSlots + 1
Unlocked == ~ctl.closing          \* close still holds CorrectionSession.lock
Fault == faults < MaxFaults /\ faults' = faults + 1
FaultUnless(good) == IF good THEN UNCHANGED faults ELSE Fault

NoWindow == [slot |-> NoSlot, got |-> {}, last |-> -1, rejected |-> FALSE]
NoRouter == [runs |-> FALSE, ending |-> FALSE, rejected |-> FALSE,
             windows |-> [n \in Windows |-> NoWindow]]
NoResult == [slot |-> NoSlot, grade |-> "none"]
New(j) == reg[j] = "none" /\ \A i \in Corrections : i < j => reg[i] # "none"

-----------------------------------------------------------------------------
(* The session *)

(* prepare: every slot is prepared before the capture process starts *)
PrepareCapture(mode) ==
  LET full == mode = "full_session"
      used == UsedSlots(mode)
  IN  /\ ses.stage = "new"
      /\ ses' = [ses EXCEPT !.mode = mode, !.stage = "up",
                            !.prepared = IF full THEN <<>> ELSE [s \in Slots |-> s],
                            !.active = IF full THEN First ELSE NoSlot]
      /\ slot' = [s \in Slots |->
                   IF s \in used
                   THEN [state |-> IF full THEN "capturing" ELSE "prepared",
                         job |-> s, writer |-> TRUE]
                   ELSE slot[s]]
      /\ reg' = [j \in Corrections |-> IF j \notin used THEN "none"
                                ELSE IF full THEN "capturing" ELSE "armed"]
      /\ job' = IF full THEN [job EXCEPT ![First].state = "capturing"] ELSE job
      /\ router' = [router EXCEPT !.runs = TRUE]
      /\ mon' = [mon EXCEPT !.pc = "loop"]
      /\ UNCHANGED <<events, boundaries, actions, completed, ctl, file, faults>>

(* advance of control_ownership.py opens the segment for a new takeover *)
Takeover == ctl.window < MaxWindows /\ ~ctl.manual
NextWindow == ctl.window + 1
Manual(segment) == ctl' = [ctl EXCEPT !.window = NextWindow, !.manual = TRUE,
                                      !.segment = segment]

OpenWindow ==
  LET s == Head(ses.prepared)
  IN  /\ ~Full /\ ~ses.closing /\ ses.active = NoSlot /\ ses.prepared # <<>> /\ slot[s].writer
      /\ Len(boundaries) < BoundaryItems
      /\ boundaries' = Append(boundaries, [op |-> "open", slot |-> s, window |-> NextWindow])
      /\ job' = [job EXCEPT ![slot[s].job].window = NextWindow, ![slot[s].job].state = "capturing"]
      /\ slot' = [slot EXCEPT ![s].state = "capturing"]
      /\ ses' = [ses EXCEPT !.active = s, !.token = NextWindow, !.prepared = Tail(@)]
      /\ events' = Append(events, [job |-> slot[s].job, state |-> "capturing"])

OpenInterval ==
  /\ Full /\ ~ses.closing /\ ses.active # NoSlot /\ ses.token = 0
  /\ Len(boundaries) < BoundaryItems
  /\ boundaries' = Append(boundaries, [op |-> "open", slot |-> First, window |-> NextWindow])
  /\ ses' = [ses EXCEPT !.token = NextWindow]
  /\ UNCHANGED <<slot, job, events>>

(* CorrectionSupport.correction_open *)
Open ==
  /\ Takeover /\ Unlocked /\ ses.stage \in {"up", "stopping"}
  /\ OpenWindow \/ OpenInterval
  /\ Manual(TRUE)
  /\ UNCHANGED <<reg, mon, actions, completed, router, file, faults>>

(* open raises: the human has the robot, and nothing is captured.  A slot      *)
(* whose writer is dead has left the prepared ones by then.                    *)
OpenFails ==
  LET full == Len(boundaries) = BoundaryItems
      taken == ~Full /\ ~ses.closing /\ ses.active = NoSlot /\ ses.prepared # <<>>
      refused == ses.closing \/ (IF Full THEN ses.active = NoSlot \/ ses.token # 0
                                 ELSE ses.active # NoSlot \/ ses.prepared = <<>>)
  IN  /\ Takeover /\ Unlocked /\ ses.stage # "new"
      /\ refused \/ full \/ (taken /\ ~slot[Head(ses.prepared)].writer)
      /\ ses' = [ses EXCEPT !.prepared = IF taken THEN Tail(@) ELSE @]
      /\ Manual(FALSE)
      /\ UNCHANGED <<slot, job, reg, events, mon, process, faults>>

(* a command of the human is published: action of CorrectionSession *)
Recorded == ses.stage # "stopped" /\ ses.active # NoSlot /\ ses.token = ctl.window
Command ==
  /\ ctl.manual /\ ~ctl.closing /\ ctl.commands < MaxCommands
  /\ ctl' = [ctl EXCEPT !.issued[ctl.window] = @ + 1, !.commands = @ + 1]
  /\ actions' = IF Recorded /\ Len(actions) < ActionItems
                THEN Append(actions, [window |-> ctl.window, command |-> ctl.issued[ctl.window] + 1])
                ELSE actions
  /\ UNCHANGED <<session, mon, boundaries, completed, router, file, faults>>

(* _close of control_ownership.py, at the end of the manual control; close     *)
Release == ctl.manual /\ ~ctl.closing
Left == [ctl EXCEPT !.manual = FALSE, !.segment = FALSE]
CloseEvent == [op |-> "close", window |-> ctl.window, last |-> ctl.issued[ctl.window]]

\* a full queue refuses the event, and the owner does not try again
Announced == IF Len(boundaries) < BoundaryItems
             THEN boundaries' = Append(boundaries, CloseEvent) ELSE UNCHANGED boundaries

CloseInterval ==
  /\ Release /\ ctl.segment /\ Full
  /\ Announced /\ ctl' = Left
  /\ ses' = [ses EXCEPT !.token = IF boundaries' = boundaries THEN @ ELSE 0]
  /\ UNCHANGED <<slot, job, reg, events, mon, actions, completed, router, file, faults>>

CloseWindow ==
  /\ Release /\ ctl.segment /\ ~Full
  /\ Announced
  /\ ctl' = IF boundaries' = boundaries THEN Left ELSE [ctl EXCEPT !.closing = TRUE]
  /\ UNCHANGED <<session, mon, actions, completed, router, file, faults>>

CloseWindowDone ==
  LET j == slot[ses.active].job
  IN  /\ ctl.closing /\ ctl' = [Left EXCEPT !.closing = FALSE]
      /\ job' = [job EXCEPT ![j].state = "draining"]
      /\ slot' = [slot EXCEPT ![ses.active].state = "draining"]
      /\ events' = Append(events, [job |-> j, state |-> "draining"])
      /\ ses' = [ses EXCEPT !.active = NoSlot, !.token = 0]
      /\ UNCHANGED <<reg, mon, process, faults>>

ReleaseUnrecorded ==
  /\ Release /\ ~ctl.segment
  /\ ctl' = Left
  /\ UNCHANGED <<session, mon, process, faults>>

-----------------------------------------------------------------------------
(* The capture process *)

NewWindow(e) == [NoWindow EXCEPT !.slot = e.slot]
(* router.open and router.close.  A new file has room for the opening event;   *)
(* saved: the writer of a full session takes the event.                        *)
TakeBoundary(saved) ==
  /\ router.runs /\ FaultUnless(saved) /\ boundaries # <<>>
  /\ LET e == Head(boundaries)
         lost == router.rejected \/ (Full /\ ~saved)
     IN  router' = CASE e.op = "open" -> [router EXCEPT !.windows[e.window] = NewWindow(e), !.rejected = lost]
                     [] e.op = "close" -> [router EXCEPT !.windows[e.window].last = e.last, !.rejected = lost]
                     [] e.op = "finish" -> [router EXCEPT !.ending = TRUE]
  /\ boundaries' = Tail(boundaries)
  /\ UNCHANGED <<session, mon, actions, completed, ctl, file>>

(* router.action; saved: the writer takes the evidence.  The windows of a      *)
(* window router take nothing before they are open and after they finished.    *)
TakeAction(saved) ==
  /\ router.runs /\ FaultUnless(saved) /\ actions # <<>>
  /\ LET a == Head(actions)
         w == router.windows[a.window]
         target == IF Full THEN First ELSE w.slot
     IN  /\ router' = CASE Full -> [router EXCEPT !.rejected = @ \/ ~saved]
                        [] ~Full /\ target # NoSlot ->
                             [router EXCEPT !.windows[a.window].got = @ \cup {a.command},
                                            !.windows[a.window].rejected = @ \/ ~saved]
                        [] OTHER -> router
         /\ file' = IF saved /\ target # NoSlot
                    THEN [file EXCEPT ![slot[target].job] = @ \cup {a}] ELSE file
  /\ actions' = Tail(actions)
  /\ UNCHANGED <<session, mon, boundaries, completed, ctl>>

(* Faulty variant of Grade: what was not received is not missed. *)
GradeReceived(w) ==
  IF w.got = {} THEN "review" ELSE IF w.rejected THEN "warning" ELSE "ok"
Grade(w) ==
  IF w.got = {} THEN "review"
  ELSE IF Cardinality(w.got) < w.last \/ w.rejected THEN "warning" ELSE "ok"

(* finish_due, late_message_sec after the end; saved: the closing event *)
FinishWindow(n, saved) ==
  LET w == router.windows[n]
      grade == IF saved THEN Grade(w) ELSE IF w.got = {} THEN "review" ELSE "warning"
  IN  /\ router.runs /\ FaultUnless(saved) /\ ~Full /\ w.last >= 0
      /\ completed' = Append(completed, [slot |-> w.slot, grade |-> grade])
      /\ router' = [router EXCEPT !.windows[n] = NoWindow]
      /\ UNCHANGED <<session, mon, boundaries, actions, ctl, file>>

FinishSession(saved) ==
  LET grade == IF router.rejected \/ ~saved THEN "warning" ELSE "ok"
  IN  /\ router.runs /\ FaultUnless(saved) /\ Full /\ router.ending
      /\ completed' = Append(completed, [slot |-> First, grade |-> grade])
      /\ router' = [router EXCEPT !.ending = FALSE]
      /\ UNCHANGED <<session, mon, boundaries, actions, ctl, file>>

CaptureDies ==
  /\ router.runs /\ Fault
  /\ router' = NoRouter
  /\ UNCHANGED <<session, mon, boundaries, actions, completed, ctl, file>>

WriterDies(s) ==
  /\ slot[s].writer /\ ses.stage # "stopped" /\ Fault
  /\ slot' = [slot EXCEPT ![s].writer = FALSE]
  /\ UNCHANGED <<ses, job, reg, events, mon, process, ctl>>

-----------------------------------------------------------------------------
(* The monitor thread *)

SlotsBusy == \E s \in Slots : slot[s].state \in {"capturing", "draining"}

(* completed.get waits for 20 ms; with nothing there the loop goes on *)
Waits == mon.pc = "save" /\ mon.changes = <<>> /\ completed = <<>>
MonitorEnds ==
  /\ mon.pc = "loop" \/ (Waits /\ router.runs)
  /\ ses.closing /\ ~SlotsBusy
  /\ mon' = [mon EXCEPT !.pc = "ended"]
  /\ UNCHANGED <<session, process, ctl, faults>>

TakeChanges ==
  /\ mon.pc = "loop" \/ (Waits /\ router.runs /\ events # <<>>)
  /\ Unlocked /\ (~ses.closing \/ SlotsBusy)
  /\ mon' = [mon EXCEPT !.pc = "save", !.changes = events]
  /\ events' = <<>>
  /\ UNCHANGED <<ses, slot, job, reg, process, ctl, faults>>

(* Faulty variant of Saved: the last notification counts. *)
SavedAlways(j, state) == state
(* _save: "a delayed lifecycle notification cannot reopen a closed file" *)
Saved(j, state) == IF reg[j] \in Closed /\ state \notin Closed THEN reg[j] ELSE state

SaveChange ==
  /\ mon.pc = "save" /\ mon.changes # <<>>
  /\ LET c == Head(mon.changes) IN reg' = [reg EXCEPT ![c.job] = Saved(c.job, c.state)]
  /\ mon' = [mon EXCEPT !.changes = Tail(@)]
  /\ UNCHANGED <<ses, slot, job, events, process, ctl, faults>>

GetResult ==
  /\ mon.pc = "save" /\ mon.changes = <<>> /\ completed # <<>>
  /\ mon' = [mon EXCEPT !.pc = "finish", !.result = Head(completed)]
  /\ completed' = Tail(completed)
  /\ UNCHANGED <<session, boundaries, actions, router, ctl, file, faults>>

(* the writer is stopped, the job closed, saved and handed to the finalizer *)
Finish(state) ==
  LET s == mon.result.slot
      j == slot[s].job
  IN  /\ mon.pc = "finish" /\ slot[s].writer
      /\ FaultUnless(state = "source_complete")
      /\ job' = [job EXCEPT ![j].state = state, ![j].grade = mon.result.grade]
      /\ reg' = [reg EXCEPT ![j] = state]
      /\ slot' = [slot EXCEPT ![s].state = "complete"]
      /\ mon' = IF ses.closing \/ Full THEN [mon EXCEPT !.pc = "loop", !.result = NoResult]
                 ELSE [mon EXCEPT !.pc = "prepare"]
      /\ UNCHANGED <<ses, events, process, ctl>>

(* _prepare_slot, for the slot just used or for one that waits: a job of its   *)
(* own, or a wait while the finalizer has too much to do                       *)
Rearm(s) ==
  \E j \in Corrections :
    /\ New(j)
    /\ slot' = [slot EXCEPT ![s] = [state |-> "prepared", job |-> j, writer |-> TRUE]]
    /\ reg' = [reg EXCEPT ![j] = "armed"]
    /\ ses' = [ses EXCEPT !.prepared = Append(@, s)]
PrepareAgain ==
  /\ mon.pc = "prepare" /\ Unlocked
  /\ \/ Rearm(mon.result.slot)
     \/ slot' = [slot EXCEPT ![mon.result.slot].state = "waiting"] /\ UNCHANGED <<ses, reg>>
  /\ mon' = [mon EXCEPT !.pc = "loop", !.result = NoResult]
  /\ UNCHANGED <<job, events, process, ctl, faults>>
PrepareWaiting(s) ==
  /\ mon.pc = "loop" \/ Waits
  /\ Unlocked /\ ~ses.closing /\ slot[s].state = "waiting"
  /\ Rearm(s)
  /\ UNCHANGED <<job, events, mon, process, ctl, faults>>

(* The except branch: the process is gone, reported by itself before its last  *)
(* results are read, or seen when none is left; a writer is gone, or a job or  *)
(* a file cannot be saved; a preparation fails.  The thread ends.              *)
Broken ==
  \/ ~router.runs /\ (Waits \/ (mon.pc = "loop" /\ (~ses.closing \/ SlotsBusy)))
     /\ UNCHANGED faults
  \/ mon.pc = "save" /\ mon.changes # <<>> /\ Fault
  \/ mon.pc = "finish" /\ FaultUnless(~slot[mon.result.slot].writer)
  \/ mon.pc = "prepare" /\ Unlocked /\ Fault
  \/ (mon.pc = "loop" \/ Waits) /\ ~ses.closing /\ Fault
     /\ \E s \in Slots : slot[s].state = "waiting"
MonitorFails ==
  LET lost == {slot[s].job : s \in {t \in Slots : slot[t].state \in {"capturing", "draining"}}}
  IN  /\ Broken
      /\ mon' = [mon EXCEPT !.pc = "ended", !.result = NoResult]
      /\ ses' = [ses EXCEPT !.error = TRUE]
      /\ job' = [j \in Corrections |-> IF j \in lost THEN [job[j] EXCEPT !.state = "failed"] ELSE job[j]]
      /\ reg' = [j \in Corrections |-> IF j \in lost THEN "failed" ELSE reg[j]]
      /\ UNCHANGED <<slot, events, process, ctl>>

-----------------------------------------------------------------------------
(* stop of the session, on a worker thread of the HTTP server *)

Stop ==
  /\ ses.stage = "up" /\ Unlocked
  /\ IF Full THEN ses.token = 0 ELSE ses.active = NoSlot
  /\ IF Full /\ ses.active # NoSlot
     THEN /\ Len(boundaries) < BoundaryItems
          /\ boundaries' = Append(boundaries, [op |-> "finish"])
          /\ slot' = [slot EXCEPT ![First].state = "draining"]
          /\ job' = [job EXCEPT ![First].state = "draining"]
     ELSE UNCHANGED <<boundaries, slot, job>>
  /\ ses' = [ses EXCEPT !.stage = "stopping", !.closing = TRUE, !.active = NoSlot]
  /\ UNCHANGED <<reg, events, mon, actions, completed, router, ctl, file, faults>>

(* Faulty variant of Unused: what the file holds is not asked. *)
UnusedAny(s) == slot[s].state \in {"prepared", "waiting"}
(* an empty preparation is no recording; a slot that waits has its last job *)
Unused(s) == slot[s].state \in {"prepared", "waiting"} /\ job[slot[s].job].window = 0

(* the monitor has ended: the process is joined, then the writers in turn; one *)
(* that died makes stop raise, and the session stays                           *)
Stopped ==
  /\ ses.stage = "stopping" /\ mon.pc = "ended"
  /\ \A s \in UsedSlots(ses.mode) : slot[s].writer
  /\ ses' = [ses EXCEPT !.stage = "stopped"]
  /\ router' = NoRouter
  /\ reg' = [j \in Corrections |-> IF \E s \in UsedSlots(ses.mode) : slot[s].job = j /\ Unused(s)
                            THEN "deleted" ELSE reg[j]]
  /\ UNCHANGED <<slot, job, events, mon, boundaries, actions, completed, ctl, file, faults>>

-----------------------------------------------------------------------------
CaptureInit ==
  /\ ses = [mode |-> "corrections_only", stage |-> "new", closing |-> FALSE, active |-> NoSlot,
            token |-> 0, error |-> FALSE, prepared |-> <<>>]
  /\ slot = [s \in Slots |-> [state |-> "preparing", job |-> 0, writer |-> FALSE]]
  /\ job = [j \in Corrections |-> [window |-> 0, state |-> "armed", grade |-> "none"]]
  /\ reg = [j \in Corrections |-> "none"]
  /\ events = <<>>
  /\ mon = [pc |-> "ended", changes |-> <<>>, result |-> NoResult]
  /\ boundaries = <<>> /\ actions = <<>> /\ completed = <<>>
  /\ router = NoRouter
  /\ ctl = [window |-> 0, manual |-> FALSE, segment |-> FALSE, issued |-> [n \in Windows |-> 0],
            closing |-> FALSE, commands |-> 0]
  /\ file = [j \in Corrections |-> {}]
  /\ faults = 0

Monitor == MonitorEnds \/ TakeChanges \/ SaveChange \/ GetResult
           \/ (\E state \in Closed : Finish(state)) \/ PrepareAgain \/ MonitorFails
Capture == \E saved \in BOOLEAN :
             \/ TakeBoundary(saved) \/ TakeAction(saved) \/ FinishSession(saved)
             \/ \E n \in Windows : FinishWindow(n, saved)

CaptureNext ==
  \/ \E mode \in {"corrections_only", "full_session"} : PrepareCapture(mode)
  \/ Open \/ OpenFails \/ Command \/ CloseInterval \/ CloseWindow \/ CloseWindowDone
  \/ ReleaseUnrecorded
  \/ Capture \/ CaptureDies \/ (\E s \in Slots : WriterDies(s))
  \/ Monitor \/ (\E s \in Slots : PrepareWaiting(s))
  \/ Stop \/ Stopped

CaptureSpec == CaptureInit /\ [][CaptureNext]_captureVars
CaptureFairSpec == CaptureSpec /\ WF_captureVars(Monitor) /\ WF_captureVars(Capture) /\ WF_captureVars(CloseWindowDone)

-----------------------------------------------------------------------------
(* A correction is graded ok only if it has every command of its human: with   *)
(* a queue that was full, a writer that refused, or an event that came late,   *)
(* the grade says so.                                                          *)
Issued(n) == {[window |-> n, command |-> c] : c \in 1..ctl.issued[n]}
GradeIsHonest ==
  \A j \in Corrections : reg[j] = "source_complete" /\ job[j].grade = "ok" /\ ~Full
                    => file[j] = Issued(job[j].window)

(* "A delayed lifecycle notification cannot reopen a closed file": the monitor *)
(* may hold a notification while the window it is about closes and is saved.   *)
ClosedStaysClosed == [][\A j \in Corrections : reg[j] \in Closed => reg'[j] \in Closed]_captureVars

(* When a session that had no failure is stopped, every correction is closed   *)
(* and kept, and no warm slot is left that would be taken for one.             *)
StopSettles ==
  ses.stage = "stopped" /\ ~ses.error =>
    \A j \in Corrections : IF job[j].window = 0 /\ ~Full THEN reg[j] \in {"none", "deleted"}
                     ELSE reg[j] \in Closed \cup {"none"}

(* A window that was closed while the monitor ran is closed in the registry in *)
(* the end, though processes die.                                              *)
DrainedIsSettled ==
  \A j \in Corrections : (job[j].state = "draining" /\ mon.pc # "ended") ~> reg[j] \in Closed

(* "Failure is visible and never prevents a human stopping the program"        *)
(* (control_ownership.py:390): a takeover that is told it is recorded is so.    *)
OpenIsRecorded == [][~ctl.segment /\ ctl'.segment => mon.pc # "ended"]_captureVars
=============================================================================
