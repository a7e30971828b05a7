--------------------------- MODULE TaskRecording ---------------------------
(***************************************************************************)
(* The life of an ordinary recording in TaskRecorder: the start that binds *)
(* it to a task and opens the writer, the stop, the finalizer that seals   *)
(* the file and queues its upload, the later upload by hand, the deletion, *)
(* a restart after a crash.                                                *)
(*                                                                         *)
(* Every change of a job is saved under the recorder's lock before the     *)
(* lock is released, so a job is its file.  start, stop and delete hold    *)
(* the lock over several steps, and the program may die between any two.   *)
(* A recording has one format.  The sealed descriptor and the upload queue *)
(* are shared with UploadService, which does not take that lock.           *)
(***************************************************************************)
EXTENDS Integers

CONSTANTS
  Recordings, Requests,
  Tasks, NoTask,      (* tasks of the platform; NoTask records locally *)
  NoRecording,
  MaxRestarts         (* bound: crashes and regular ends               *)

ASSUME NamesAssumption == NoTask \notin Tasks /\ NoRecording \notin Recordings
ASSUME BoundAssumption == MaxRestarts \in Nat

VARIABLES
  jobs,           (* the saved job of each recording                   *)
  lock,           (* the operation that holds TaskRecorder.lock        *)
  active,         (* the recording in progress                         *)
  pending,        (* recordings given to the finalizer                 *)
  sealing,        (* what the finalizer is at, with its copy           *)
  closing,        (* the program is ending                             *)
  source,         (* the recorded file                                 *)
  descriptor,     (* the sealed artifact: its binding                  *)
  queued,         (* the upload job of the artifact: its binding       *)
  handed,         (* what UploadService.enqueue is at, with its reading *)
  restarts

operations == <<lock, active, pending, sealing, closing>>
stored == <<source, descriptor, queued>>
outside == <<handed, restarts>>
vars == <<jobs, operations, stored, outside>>

(* States of a start that has not opened the writer yet.                   *)
Unopened == {"preparing", "prepared", "prepare_failed"}
Capturing == {"starting", "recording", "stopping"}
Settled == {"ready", "queued", "needs_attention"}
States == Unopened \cup Capturing \cup Settled
          \cup {"finalizing", "upload_pending", "interrupted", "failed", "deleted"}

Jobs == [state: States, request: Requests, intent: Tasks \cup {NoTask},
         binding: Tasks \cup {NoTask}, snapshot: BOOLEAN, auto: BOOLEAN, wanted: BOOLEAN]
NoJob == [state |-> "none"]
Free == [by |-> "nobody"]
Resting == [at |-> "rest"]
Unsealed == "unsealed"

ASSUME SealAssumption == Unsealed \notin Tasks /\ Unsealed # NoTask

Known == {r \in Recordings : jobs[r] # NoJob}
StateOf(r) == jobs[r].state
Move(r, state) == jobs' = [jobs EXCEPT ![r].state = state]
Take(op, r, at) == lock' = [by |-> op, rec |-> r, at |-> at]

(* The variables keep their types.  While the lock is free, a recording is *)
(* active exactly when its job says so (start, stop, __init__).            *)
TaskTypeOK ==
  /\ jobs \in [Recordings -> Jobs \cup {NoJob}]
  /\ lock \in [by: {"start", "stop", "upload", "delete"}, rec: Known,
               at: {"prepare", "bind", "mark", "open", "save", "close", "queue", "unlink"}] \cup {Free}
  /\ active \in Known \cup {NoRecording} /\ pending \in SUBSET Known
  /\ sealing \in [at: {"seal", "queue"}, rec: pending, binding: Tasks \cup {NoTask},
                  upload: BOOLEAN] \cup [at: {"end"}, rec: pending, result: Settled]
                  \cup {Resting}
  /\ closing \in BOOLEAN /\ restarts \in 0..MaxRestarts
  /\ source \in [Recordings -> {"none", "open", "closed", "deleted"}]
  /\ descriptor \in [Recordings -> Tasks \cup {NoTask, Unsealed}]
  /\ queued \in [Recordings -> Tasks \cup {NoTask}]
  /\ handed \in [at: {"queue"}, rec: Recordings, binding: Tasks] \cup {Resting}
  /\ lock = Free => \A r \in Known : StateOf(r) \in Capturing <=> r = active

Init ==
  /\ jobs = [r \in Recordings |-> NoJob]
  /\ lock = Free /\ active = NoRecording /\ pending = {} /\ sealing = Resting
  /\ closing = FALSE /\ restarts = 0
  /\ source = [r \in Recordings |-> "none"]
  /\ descriptor = [r \in Recordings |-> Unsealed]
  /\ queued = [r \in Recordings |-> NoTask] /\ handed = Resting

Ready == lock = Free /\ ~closing

---------------------------------------------------------------------------
(* start.                                                                  *)

NewJob(q, intent) ==
  [state |-> "preparing", request |-> q, intent |-> intent, binding |-> NoTask,
   snapshot |-> FALSE, auto |-> FALSE, wanted |-> FALSE]

SameRequest(q) == {r \in Known : jobs[r].request = q}
SameIntent(intent) == {r \in Known : StateOf(r) \in Unopened /\ jobs[r].intent = intent}

(* A repeated request answers for its recording, an unfinished start with  *)
(* the same intent is taken over, anything else gets a new identity, saved *)
(* before the platform hears of it.                                        *)
BeginStart(q, intent, r) ==
  /\ Ready /\ active = NoRecording
  /\ CASE SameRequest(q) # {} ->
            /\ r \in SameRequest(q) /\ jobs[r].intent = intent /\ StateOf(r) \in Unopened
            /\ UNCHANGED jobs
       [] SameRequest(q) = {} /\ SameIntent(intent) # {} ->
            r \in SameIntent(intent) /\ UNCHANGED jobs
       [] OTHER -> r \notin Known /\ jobs' = [jobs EXCEPT ![r] = NewJob(q, intent)]
  /\ Take("start", r, IF intent = NoTask THEN "mark" ELSE "prepare")
  /\ UNCHANGED <<active, pending, sealing, closing, stored, outside>>

AtStart(at) == lock # Free /\ lock.by = "start" /\ lock.at = at

(* The except clause of the preparation.                                   *)
Refused(r) ==
  /\ Move(r, IF jobs[r].snapshot THEN "prepared" ELSE "prepare_failed")
  /\ lock' = Free

(* platform.preflight and prepare: once for a recording.                   *)
Prepare ==
  LET r == lock.rec
  IN  /\ AtStart("prepare")
      /\ \/ Refused(r)
         \/ /\ Take("start", r, "bind")
            /\ jobs' = IF jobs[r].snapshot THEN jobs
                       ELSE [jobs EXCEPT ![r].snapshot = TRUE, ![r].state = "prepared"]
      /\ UNCHANGED <<active, pending, sealing, closing, stored, outside>>

(* prepare_and_check, platform.bind.                                       *)
Bind ==
  LET r == lock.rec
  IN  /\ AtStart("bind")
      /\ \/ Refused(r)
         \/ /\ Take("start", r, "mark")
            /\ IF jobs[r].binding # NoTask THEN UNCHANGED jobs
               ELSE \E auto \in BOOLEAN :
                      jobs' = [jobs EXCEPT ![r].binding = jobs[r].intent, ![r].auto = auto]
      /\ UNCHANGED <<active, pending, sealing, closing, stored, outside>>

(* "After this transition a crash is an interrupted capture".              *)
MarkStarting ==
  /\ AtStart("mark") /\ Move(lock.rec, "starting") /\ Take("start", lock.rec, "open")
  /\ UNCHANGED <<active, pending, sealing, closing, stored, outside>>

(* writer.start refuses a file that exists.                                *)
OpenWriter ==
  /\ AtStart("open") /\ source[lock.rec] = "none"
  /\ source' = [source EXCEPT ![lock.rec] = "open"]
  /\ Take("start", lock.rec, "save")
  /\ UNCHANGED <<jobs, active, pending, sealing, closing, descriptor, queued, outside>>

EndStart ==
  /\ AtStart("save") /\ Move(lock.rec, "recording") /\ active' = lock.rec /\ lock' = Free
  /\ UNCHANGED <<pending, sealing, closing, stored, outside>>

FailStart ==
  /\ AtStart("open") \/ AtStart("save")
  /\ Move(lock.rec, "failed") /\ lock' = Free
  /\ UNCHANGED <<active, pending, sealing, closing, stored, outside>>

---------------------------------------------------------------------------
(* stop.                                                                   *)
BeginStop ==
  /\ lock = Free /\ active # NoRecording
  /\ Move(active, "stopping") /\ Take("stop", active, "close")
  /\ UNCHANGED <<active, pending, sealing, closing, stored, outside>>

Submit(r) == pending' = pending \cup {r}


(* The writer closed the file, failed, or died before it had written all   *)
(* (recorder.stop raises and the recording stays active).                  *)
EndStop ==
  LET r == lock.rec
  IN  /\ lock # Free /\ lock.by = "stop" /\ lock' = Free
      /\ \/ /\ source' = [source EXCEPT ![r] = "closed"]
            /\ Move(r, "finalizing") /\ Submit(r) /\ active' = NoRecording
         \/ /\ Move(r, "interrupted") /\ active' = NoRecording
            /\ UNCHANGED <<source, pending>>
         \/ UNCHANGED <<jobs, source, pending, active>>
      /\ UNCHANGED <<sealing, closing, descriptor, queued, outside>>

---------------------------------------------------------------------------
(* The finalizer: one thread, one recording at a time (submit, finish).    *)

(* finish takes a copy of the job and works on it without the lock.        *)
TakePending ==
  /\ sealing = Resting /\ Ready
  /\ \E r \in pending : LET job == jobs[r]
       IN sealing' = [at |-> "seal", rec |-> r, binding |-> job.binding,
                      upload |-> job.wanted \/ (job.binding # NoTask /\ job.auto)]
  /\ UNCHANGED <<jobs, lock, active, pending, closing, stored, outside>>

Finished(r, result) == sealing' = [at |-> "end", rec |-> r, result |-> result]

(* An artifact is bound when it is sealed for upload, and only once.       *)
Owner(s) ==
  CASE descriptor[s.rec] = Unsealed -> IF s.upload THEN s.binding ELSE NoTask
    [] descriptor[s.rec] = NoTask /\ s.upload -> s.binding
    [] OTHER -> descriptor[s.rec]

Mismatch(s) == s.upload /\ descriptor[s.rec] \notin {Unsealed, NoTask, s.binding}

Seal ==
  LET s == sealing
  IN  /\ s.at = "seal"
      /\ \/ /\ source[s.rec] = "closed" /\ ~Mismatch(s)
            /\ descriptor' = [descriptor EXCEPT ![s.rec] = Owner(s)]
            /\ IF s.upload THEN sealing' = [s EXCEPT !.at = "queue"]
               ELSE Finished(s.rec, "ready")
         \/ /\ source[s.rec] = "closed" /\ s.binding = NoTask  (* an MCAP + MP4 package *)
            /\ Finished(s.rec, "ready") /\ UNCHANGED descriptor
         \/ Finished(s.rec, "needs_attention") /\ UNCHANGED descriptor
      /\ UNCHANGED <<jobs, lock, active, pending, closing, source, queued, outside>>

(* queue.enqueue_artifact: a repeated one gets the same job, one for       *)
(* another binding is refused.                                             *)
Enqueue(r, task) ==
  queued[r] \in {NoTask, task} /\ queued' = [queued EXCEPT ![r] = task]

EnqueueSealed ==
  LET s == sealing
  IN  /\ s.at = "queue"
      /\ \/ Enqueue(s.rec, s.binding) /\ Finished(s.rec, "queued")
         \/ Finished(s.rec, "needs_attention") /\ UNCHANGED queued
      /\ UNCHANGED <<jobs, lock, active, pending, closing, source, descriptor, outside>>

Conclude ==
  /\ sealing.at = "end" /\ lock = Free
  /\ Move(sealing.rec, sealing.result)
  /\ pending' = pending \ {sealing.rec} /\ sealing' = Resting
  /\ UNCHANGED <<lock, active, closing, stored, outside>>

(* After close has begun the finalizer leaves every job as it is saved.    *)
Abandon ==
  /\ closing /\ pending # {} /\ sealing.at # "end"
  /\ pending' = (IF sealing = Resting THEN {} ELSE pending \ {sealing.rec})
  /\ sealing' = Resting
  /\ UNCHANGED <<jobs, lock, active, closing, stored, outside>>

---------------------------------------------------------------------------
(* upload_recording, by hand.                                              *)

Refuses(r) == StateOf(r) \in Unopened \cup Capturing \cup {"interrupted", "failed", "deleted"}

(* Faulty variant of Busy: the finalizer is not asked.                     *)
NeverBusy(r) == FALSE
Busy(r) == r \in pending

(* Faulty variant of BeginUpload: the selected task replaces the bound one.*)
BeginUploadRebinding(r, task) ==
  /\ Ready /\ ~Refuses(r) /\ ~Busy(r)
  /\ jobs' = [jobs EXCEPT ![r] =
       [@ EXCEPT !.binding = task, !.wanted = TRUE, !.state = "upload_pending"]]
  /\ Take("upload", r, "queue")
  /\ UNCHANGED <<active, pending, sealing, closing, stored, outside>>

(* A recording without a task gets the selected one, saved at once; one    *)
(* with a task takes no other.                                             *)
BeginUpload(r, task) ==
  /\ Ready /\ ~Refuses(r) /\ ~Busy(r)
  /\ IF jobs[r].binding = NoTask
     THEN /\ descriptor[r] \in {Unsealed, NoTask}
          /\ jobs' = [jobs EXCEPT ![r] =
               [@ EXCEPT !.binding = task, !.wanted = TRUE, !.state = "upload_pending"]]
     ELSE jobs[r].binding = task /\ UNCHANGED jobs
  /\ Take("upload", r, "queue")
  /\ UNCHANGED <<active, pending, sealing, closing, stored, outside>>

(* A queued artifact is only sent again (queue.retry), another is given to *)
(* the finalizer.                                                          *)
EndUpload ==
  LET r == lock.rec
  IN  /\ lock # Free /\ lock.by = "upload" /\ lock' = Free
      /\ IF queued[r] # NoTask THEN UNCHANGED <<jobs, pending>>
         ELSE /\ jobs' = [jobs EXCEPT ![r] = [@ EXCEPT !.wanted = TRUE, !.state = "upload_pending"]]
              /\ Submit(r)
      /\ UNCHANGED <<active, sealing, closing, stored, outside>>

---------------------------------------------------------------------------
(* UploadService.enqueue and scan: the descriptor and the queue are read,  *)
(* then a child process enqueues.                                          *)
Frozen(r) == IF queued[r] # NoTask THEN queued[r] ELSE descriptor[r]

ReadDescriptor(r, task) ==
  /\ handed = Resting /\ descriptor[r] # Unsealed /\ Frozen(r) \in {NoTask, task}
  /\ handed' = [at |-> "queue", rec |-> r, binding |-> task]
  /\ UNCHANGED <<jobs, operations, stored, restarts>>

EnqueueRead ==
  /\ handed # Resting /\ handed' = Resting
  /\ \/ source[handed.rec] = "closed" /\ Enqueue(handed.rec, handed.binding)
     \/ UNCHANGED queued
  /\ UNCHANGED <<jobs, operations, source, descriptor, restarts>>

---------------------------------------------------------------------------
(* delete_recording.                                                       *)
BeginDelete(r) ==
  /\ Ready /\ source[r] \in {"open", "closed"} /\ queued[r] = NoTask
  /\ StateOf(r) \notin Capturing /\ r \notin pending
  /\ Take("delete", r, "unlink")
  /\ UNCHANGED <<jobs, active, pending, sealing, closing, stored, outside>>

AtDelete(at) == lock # Free /\ lock.by = "delete" /\ lock.at = at

(* The recorder refuses a file that is still being exported.               *)
Unlink ==
  /\ AtDelete("unlink")
  /\ \/ source' = [source EXCEPT ![lock.rec] = "deleted"] /\ Take("delete", lock.rec, "mark")
     \/ lock' = Free /\ UNCHANGED source
  /\ UNCHANGED <<jobs, active, pending, sealing, closing, descriptor, queued, outside>>

MarkDeleted ==
  /\ AtDelete("mark") /\ Move(lock.rec, "deleted") /\ lock' = Free
  /\ UNCHANGED <<active, pending, sealing, closing, stored, outside>>

(* A start that never opened a file is forgotten.                          *)
Forget(r) ==
  /\ Ready /\ source[r] = "none" /\ StateOf(r) \in Unopened
  /\ jobs' = [jobs EXCEPT ![r] = NoJob]
  /\ UNCHANGED <<operations, stored, outside>>

---------------------------------------------------------------------------
(* close, the end of the program and TaskRecorder.__init__.                *)
BeginClose ==
  /\ Ready /\ active = NoRecording /\ restarts < MaxRestarts /\ closing' = TRUE
  /\ UNCHANGED <<jobs, lock, active, pending, sealing, stored, outside>>

(* Faulty variant of Resumed: a start that crashed may be started again.   *)
ResumedAsPrepared(state) ==
  CASE state = "starting" -> "prepared"
    [] state \in Capturing \ {"starting"} -> "interrupted"
    [] OTHER -> state

Resumed(state) == IF state \in Capturing THEN "interrupted" ELSE state

(* Faulty variant of Resubmitted: an upload asked for by hand is forgotten.*)
ResubmittedFinalizing == {"finalizing"}
Resubmitted == {"finalizing", "upload_pending"}

Restart ==
  /\ restarts < MaxRestarts /\ restarts' = restarts + 1
  /\ jobs' = [r \in Recordings |->
       IF r \in Known THEN [jobs[r] EXCEPT !.state = Resumed(@)] ELSE NoJob]
  /\ pending' = {r \in Known : StateOf(r) \in Resubmitted}
  /\ lock' = Free /\ active' = NoRecording /\ sealing' = Resting /\ handed' = Resting
  /\ closing' = FALSE
  /\ UNCHANGED stored

---------------------------------------------------------------------------
Next ==
  \/ \E q \in Requests, intent \in Tasks \cup {NoTask}, r \in Recordings :
       BeginStart(q, intent, r)
  \/ Prepare \/ Bind \/ MarkStarting \/ OpenWriter \/ EndStart \/ FailStart
  \/ BeginStop \/ EndStop
  \/ TakePending \/ Seal \/ EnqueueSealed \/ Conclude \/ Abandon
  \/ \E r \in Known, task \in Tasks : BeginUpload(r, task)
  \/ EndUpload
  \/ \E r \in Recordings, task \in Tasks : ReadDescriptor(r, task)
  \/ EnqueueRead
  \/ \E r \in Known : BeginDelete(r) \/ Forget(r)
  \/ Unlink \/ MarkDeleted
  \/ BeginClose \/ Restart

Spec == Init /\ [][Next]_vars

---------------------------------------------------------------------------
(* Properties.                                                             *)

(* A saved recording that waits for the finalizer is known to it, through  *)
(* crashes and restarts: stop and upload_recording save the state and      *)
(* submit under one lock, __init__ submits what was saved.  (A job that    *)
(* another caller has queued already is the exception, see                 *)
(* DurableIntent.)                                                         *)
PendingWork ==
  lock = Free /\ ~closing =>
    \A r \in Known :
      \/ StateOf(r) = "finalizing"
      \/ StateOf(r) = "upload_pending" /\ queued[r] = NoTask
      => r \in pending

(* "One durable intent, then finish() reconciles descriptor/queue": a      *)
(* recording saved as upload_pending is given to the finalizer.            *)
DurableIntent ==
  lock = Free /\ ~closing => \A r \in Known : StateOf(r) = "upload_pending" => r \in pending

(* "a crash is an interrupted capture, not a permission to start again     *)
(* over possibly existing raw bytes": once a file exists its recording is  *)
(* no longer one that a repeated start may take over.                      *)
NoSecondCapture ==
  \A r \in Known : source[r] # "none" => StateOf(r) \notin Unopened

(* The task of a recording, of its sealed descriptor and, when the job     *)
(* says it is queued, of the job in the upload queue are the same.         *)
OneTask ==
  \A r \in Known :
    /\ descriptor[r] \in Tasks => jobs[r].binding = descriptor[r]
    /\ StateOf(r) = "queued" => jobs[r].binding = queued[r]

(* A recording that rests as "ready" has no upload outstanding: neither    *)
(* its task asks for one nor did somebody ask by hand.  finish works on a  *)
(* copy, so a request that came in meanwhile would be overwritten.         *)
ReadyOwesNothing ==
  \A r \in Known :
    StateOf(r) = "ready" => ~jobs[r].wanted /\ ~(jobs[r].binding # NoTask /\ jobs[r].auto)
=============================================================================
