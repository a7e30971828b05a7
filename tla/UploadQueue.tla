---------------------------- MODULE UploadQueue ----------------------------
(***************************************************************************)
(* The upload client: the persistent queue (Queue), the worker that walks  *)
(* it (Worker), the leases on the files (ArtifactLocks), the service that  *)
(* enqueues (UploadService) and the platform behind the HTTP calls.        *)
(*                                                                         *)
(* A job's row is the database; the tick works on the copies it read when  *)
(* it began and writes them back whole.  A call to the platform may have   *)
(* its effect and lose its answer.  An asset of one part stands for all:   *)
(* the loops over assets and parts repeat the steps between two checks.    *)
(* Delays (next_at) have passed when a tick reads the queue, except the    *)
(* back-off of a platform.  Every process may die between two steps.       *)
(***************************************************************************)
EXTENDS Integers, FiniteSets

CONSTANTS
  Artifacts, Bindings, NoBinding,
  Jobs,             (* client upload identities                            *)
  NoJob,
  Formats,          (* source formats of the recordings                    *)
  Callers,          (* threads that enqueue: the scan, the API, the sealer *)
  MaxAttempts,      (* cfg max_attempts, 0 for none                        *)
  MaxFaults,        (* bound: calls that fail                              *)
  MaxRetries,       (* bound: commands of the operator                     *)
  MaxStops          (* bound: stops and crashes                            *)

ASSUME NamesAssumption == NoBinding \notin Bindings /\ NoJob \notin Jobs
ASSUME FormatsAssumption == Formats \subseteq {"LEROBOT_V3", "MCAP", "CAPTURE_BUNDLE"}
ASSUME BoundsAssumption == {MaxAttempts, MaxFaults, MaxRetries, MaxStops} \subseteq Nat

VARIABLES
  descriptor,       (* what was sealed: source format, binding if any      *)
  rows,             (* table jobs, with artifact_jobs                      *)
  cancelled,        (* table cancellations                                 *)
  backoff,          (* platform_backoff.next_at is still ahead             *)
  batch,            (* the copies the tick works on                        *)
  current,          (* the job it has in hand                              *)
  step,             (* where it is with it; "idle" without a tick          *)
  edit,             (* the copy a retry works on                           *)
  stopping,         (* should_stop                                         *)
  callers,          (* where each enqueue is                               *)
  deleting,         (* artifacts under an exclusive lease                  *)
  tombstones,       (* artifacts deleted for good                          *)
  sessions,         (* the platform's upload sessions                      *)
  late,             (* history: calls changing the platform after a cancel *)
  faults, retries, stops

files == <<callers, deleting, tombstones, descriptor>>
queue == <<rows, cancelled, backoff>>
worker == <<batch, current, step>>
processes == <<worker, edit, stopping>>
platform == <<sessions, late>>
counters == <<faults, retries, stops>>
vars == <<queue, processes, files, platform, counters>>

SessionStates == {"NONE", "UPLOADING", "PAUSED", "CANCELLED", "COMMITTED"}
Outcomes == {"none", "processing", "ready", "failed"}
Steps == {"idle", "next", "start", "session", "grant", "put", "complete", "verify",
          "recheck", "commit", "resume", "processing", "settle"}
States == {"queued", "uploading", "retry_wait", "needs_attention", "cancelled",
           "raw_committed", "processing", "processing_failed", "ready"}

(* server and outcome: what the job knows of its session; asked: a request *)
(* to repeat the processing (processing_retry_request); receipt: what the  *)
(* stored result of the processing says (episodes, recording_id).          *)
Rows == [art: Artifacts, binding: Bindings, state: States, terminal: BOOLEAN,
         attempts: 0..3, server: SessionStates, outcome: Outcomes,
         asked: BOOLEAN, resume: BOOLEAN, receipt: Outcomes]
NoRow == [state |-> "none", terminal |-> FALSE]
Idle == [at |-> "idle"]
Requests == [at: {"chosen", "reading"}, art: Artifacts, binding: Bindings]
Sessions == [state: SessionStates, part: {"missing", "put", "complete"}, outcome: Outcomes]

Queued == {j \in Jobs : rows[j] # NoRow}
JobsOf(a) == {j \in Queued : rows[j].art = a}
NoBatch == [j \in {} |-> NoRow]
NoEdit == [job |-> NoJob]
Copy == batch[current]
Format == descriptor[Copy.art].format

Reading(a) ==
  \/ \E c \in Callers : callers[c].at = "reading" /\ callers[c].art = a
  \/ step \in {"session", "grant", "put", "complete", "verify", "recheck",
               "commit", "resume", "processing"}
     /\ Copy.art = a

(* The variables keep their types, and a tick without a job is between two *)
(* jobs (Worker.tick, Queue.retry).                                        *)
UploadTypeOK ==
  /\ descriptor \in [Artifacts -> [format: Formats, binding: Bindings \cup {NoBinding}]]
  /\ rows \in [Jobs -> Rows \cup {NoRow}] /\ cancelled \in SUBSET Queued
  /\ backoff \in BOOLEAN /\ stopping \in BOOLEAN
  /\ step \in Steps
  /\ DOMAIN batch \in SUBSET Queued /\ \A j \in DOMAIN batch : batch[j] \in Rows
  /\ current \in DOMAIN batch \cup {NoJob}
  /\ current = NoJob <=> step \in {"idle", "next"}
  /\ step = "idle" => batch = NoBatch
  /\ edit = NoEdit \/ (edit.job \in Queued /\ edit.row \in Rows)
  /\ callers \in [Callers -> Requests \cup {Idle}]
  /\ deleting \in SUBSET Artifacts /\ tombstones \in SUBSET Artifacts
  /\ sessions \in [Jobs -> Sessions] /\ late \in [Jobs -> Nat]
  /\ faults \in 0..MaxFaults /\ retries \in 0..MaxRetries /\ stops \in 0..MaxStops

Init ==
  /\ descriptor \in [Artifacts -> [format: Formats, binding: Bindings \cup {NoBinding}]]
  /\ rows = [j \in Jobs |-> NoRow] /\ cancelled = {} /\ backoff = FALSE
  /\ batch = NoBatch /\ current = NoJob /\ step = "idle" /\ edit = NoEdit
  /\ stopping = FALSE
  /\ callers = [c \in Callers |-> Idle]
  /\ deleting = {} /\ tombstones = {}
  /\ sessions = [j \in Jobs |-> [state |-> "NONE", part |-> "missing", outcome |-> "none"]]
  /\ late = [j \in Jobs |-> 0]
  /\ faults = 0 /\ retries = 0 /\ stops = 0

---------------------------------------------------------------------------
(* bound: one more command.                                                *)
Command == retries < MaxRetries /\ retries' = retries + 1

(* Enqueueing.                                                             *)

(* UploadService.enqueue, scan: the binding is chosen from what the queue  *)
(* and the descriptor say now, outside the transaction that uses it.  Only *)
(* a command enqueues what is queued already.                              *)
ChooseBinding(c, a, b) ==
  LET frozen == {rows[j].binding : j \in JobsOf(a)}
      allowed == IF frozen # {} THEN frozen
                 ELSE IF descriptor[a].binding # NoBinding THEN {descriptor[a].binding}
                 ELSE Bindings
  IN  /\ callers[c] = Idle /\ b \in allowed
      /\ IF frozen = {} THEN UNCHANGED retries ELSE Command
      /\ callers' = [callers EXCEPT ![c] = [at |-> "chosen", art |-> a, binding |-> b]]
      /\ UNCHANGED <<queue, processes, deleting, tombstones, descriptor, platform, faults, stops>>

(* ArtifactLocks.read, around enqueue_artifact.                            *)
LeaseForEnqueue(c) ==
  /\ callers[c].at = "chosen"
  /\ callers' = [callers EXCEPT ![c] =
       IF callers[c].art \in deleting \cup tombstones THEN Idle ELSE [@ EXCEPT !.at = "reading"]]
  /\ UNCHANGED <<queue, processes, deleting, tombstones, descriptor, platform, counters>>

NewRow(a, b) ==
  [art |-> a, binding |-> b, state |-> "queued", terminal |-> FALSE, attempts |-> 0,
   server |-> "NONE", outcome |-> "none", asked |-> FALSE, resume |-> FALSE,
   receipt |-> "none"]

(* Faulty variant of Insert: the lookup of the artifact's job is missing.  *)
InsertAnew(j, a, b) == rows' = [rows EXCEPT ![j] = NewRow(a, b)]

(* Queue.enqueue, from BEGIN IMMEDIATE: an artifact that has a job keeps   *)
(* it, or refuses another binding; both answer without a change.           *)
Insert(j, a, b) ==
  rows' = IF JobsOf(a) # {} THEN rows ELSE [rows EXCEPT ![j] = NewRow(a, b)]

CommitEnqueue(c, j) ==
  /\ callers[c].at = "reading" /\ j \notin Queued
  /\ Insert(j, callers[c].art, callers[c].binding)
  /\ callers' = [callers EXCEPT ![c] = Idle]
  /\ UNCHANGED <<cancelled, backoff, processes, deleting, tombstones, descriptor, platform, counters>>

(* The same with every identity taken: the artifact has a job.             *)
RepeatEnqueue(c) ==
  /\ callers[c].at = "reading" /\ JobsOf(callers[c].art) # {}
  /\ callers' = [callers EXCEPT ![c] = Idle]
  /\ UNCHANGED <<queue, processes, deleting, tombstones, descriptor, platform, counters>>

---------------------------------------------------------------------------
(* Deletion of an artifact's files.                                        *)

(* ArtifactLocks._lock, exclusive.                                         *)
DeleteLease(a) == ~Reading(a)

BeginDelete(a) ==
  /\ a \notin deleting /\ DeleteLease(a)
  /\ IF a \in tombstones THEN Command ELSE UNCHANGED retries
  /\ deleting' = deleting \cup {a} /\ tombstones' = tombstones \cup {a}
  /\ UNCHANGED <<queue, processes, callers, descriptor, platform, faults, stops>>

EndDelete(a) ==
  /\ a \in deleting /\ deleting' = deleting \ {a}
  /\ UNCHANGED <<queue, processes, callers, tombstones, descriptor, platform, counters>>

---------------------------------------------------------------------------
(* The operator.                                                           *)

(* Queue.cancel: needs no lock.                                            *)
Cancel(j) ==
  /\ j \in Queued /\ j \notin cancelled /\ Command
  /\ cancelled' = cancelled \cup {j} /\ late' = [late EXCEPT ![j] = 0]
  /\ UNCHANGED <<rows, backoff, processes, files, sessions, faults, stops>>

(* Faulty variant of RetryLock: the operator does not wait for the worker. *)
RetryLockIgnored == edit = NoEdit

(* Queue.worker_lock: one tick or one retry holds it, nobody waits for it. *)
RetryLock == step = "idle" /\ edit = NoEdit

RetryRow(j, resume, again) ==
  [rows[j] EXCEPT !.state = "queued", !.terminal = FALSE, !.attempts = 0,
                  !.resume = resume, !.asked = @ \/ again]

(* Queue.retry: the cancellation is taken back in a transaction of its own.*)
BeginRetry(j, resume, again) ==
  /\ RetryLock /\ j \in Queued /\ Command
  /\ rows[j].server # "CANCELLED"
  /\ again => rows[j].server = "COMMITTED" /\ rows[j].outcome = "failed"
  /\ cancelled' = cancelled \ {j}
  /\ edit' = [job |-> j, row |-> RetryRow(j, resume, again)]
  /\ UNCHANGED <<rows, backoff, worker, stopping, files, platform, faults, stops>>

EndRetry ==
  /\ edit # NoEdit /\ edit' = NoEdit
  /\ rows' = [rows EXCEPT ![edit.job] = edit.row] /\ backoff' = FALSE
  /\ UNCHANGED <<cancelled, worker, stopping, files, platform, counters>>

(* UploadService.stop and start, the child being asked before it is killed.*)
StopService ==
  /\ ~stopping /\ stops < MaxStops
  /\ stopping' = TRUE /\ stops' = stops + 1
  /\ UNCHANGED <<queue, worker, edit, files, platform, faults, retries>>

StartService ==
  /\ stopping /\ step = "idle" /\ stopping' = FALSE
  /\ UNCHANGED <<queue, worker, edit, files, platform, counters>>

(* BackgroundProcess.close: the operating system frees the locks.          *)
KillWorker ==
  /\ stopping /\ step # "idle"
  /\ step' = "idle" /\ current' = NoJob /\ batch' = NoBatch
  /\ UNCHANGED <<queue, edit, stopping, files, platform, counters>>

Crash ==
  /\ stops < MaxStops /\ stops' = stops + 1
  /\ step' = "idle" /\ current' = NoJob /\ batch' = NoBatch /\ edit' = NoEdit
  /\ callers' = [c \in Callers |-> Idle] /\ deleting' = {} /\ stopping' = FALSE
  /\ UNCHANGED <<queue, tombstones, descriptor, platform, faults, retries>>

---------------------------------------------------------------------------
(* The worker.                                                             *)

(* Queue.jobs(due).                                                        *)
Due == {j \in Queued : ~rows[j].terminal}

BeginTick ==
  /\ RetryLock /\ ~stopping /\ Due # {}
  /\ batch' = [j \in Due |-> rows[j]] /\ step' = "next"
  /\ UNCHANGED <<queue, current, edit, stopping, files, platform, counters>>

Without(j) == [k \in DOMAIN batch \ {j} |-> batch[k]]

(* The loop of Worker.tick: a stop ends it, a platform that backs off is   *)
(* passed over.                                                            *)
NextJob(j) ==
  /\ step = "next" /\ ~stopping /\ j \in DOMAIN batch
  /\ IF backoff THEN batch' = Without(j) /\ UNCHANGED <<current, step>>
                ELSE current' = j /\ step' = "start" /\ UNCHANGED batch
  /\ UNCHANGED <<queue, edit, stopping, files, platform, counters>>

EndTick ==
  /\ step = "next" /\ (stopping \/ batch = NoBatch)
  /\ step' = "idle" /\ batch' = NoBatch
  /\ UNCHANGED <<queue, current, edit, stopping, files, platform, counters>>

BackoffEnds ==
  /\ backoff /\ backoff' = FALSE
  /\ UNCHANGED <<rows, cancelled, processes, files, platform, counters>>

Hold(row) == batch' = [batch EXCEPT ![current] = row]
Save(row) == Hold(row) /\ rows' = [rows EXCEPT ![current] = row]

(* The except clauses of tick.  A conflict stops for good once it follows  *)
(* two errors, of whatever kind.                                           *)
Failed(kind) ==
  LET attempts == IF Copy.attempts = 3 THEN 3 ELSE Copy.attempts + 1
      retry == /\ kind \in {"busy", "down", "conflict"}
               /\ MaxAttempts = 0 \/ attempts < MaxAttempts
               /\ ~(kind = "conflict" /\ attempts = 3)
  IN  /\ Hold([Copy EXCEPT !.attempts = attempts, !.terminal = ~retry,
                            !.state = IF retry THEN "retry_wait" ELSE "needs_attention"])
      /\ backoff' = (backoff \/ (retry /\ kind = "down"))
      /\ step' = "settle"

Processed ==
  /\ Hold([Copy EXCEPT !.attempts = 0]) /\ backoff' = FALSE /\ step' = "settle"

Goto(s) == step' = s /\ UNCHANGED <<batch, backoff>>

(* check_cancelled.                                                        *)
Interrupted == stopping \/ current \in cancelled

Refusal == IF stopping THEN Failed("busy") ELSE Failed("cancelled")

(* process: the first check, the lease and the second check.               *)
Start ==
  /\ step = "start"
  /\ CASE Interrupted -> Refusal
       [] ~Interrupted /\ Copy.art \in deleting -> Failed("busy")
       [] ~Interrupted /\ Copy.art \in tombstones \ deleting -> Failed("deleted")
       [] OTHER -> Goto("session")
  /\ UNCHANGED <<rows, cancelled, current, edit, stopping, files, platform, counters>>

(* verify: before the assets, and again before the commit.                 *)
Check(from, to) ==
  /\ step = from
  /\ IF Interrupted THEN Refusal ELSE Goto(to)
  /\ UNCHANGED <<rows, cancelled, current, edit, stopping, files, platform, counters>>

VerifyAssets == Check("verify", "grant")

(* Faulty variant of VerifyAgain: the commit follows without a check.      *)
VerifyAgainUnchecked ==
  /\ step = "recheck" /\ Goto("commit")
  /\ UNCHANGED <<rows, cancelled, current, edit, stopping, files, platform, counters>>

VerifyAgain == Check("recheck", "commit")

(* state_for.                                                              *)
StateFor(s) ==
  CASE s.state = "UPLOADING" -> "uploading"
    [] s.state \in {"NONE", "PAUSED", "CANCELLED"} -> "needs_attention"
    [] s.state = "COMMITTED" ->
         CASE s.outcome = "none" -> "raw_committed"
           [] s.outcome = "processing" -> "processing"
           [] s.outcome = "ready" -> "ready"
           [] s.outcome = "failed" -> "processing_failed"

Final(s) == StateFor(s) \in {"needs_attention", "ready", "processing_failed"}

(* Faulty variant of FactsEndJob: a committed LeRobot job ends at once.    *)
FactsEndJobAnyFormat(s) == Final(s)

(* facts: a LeRobot result waits for its receipt, with processing_endpoint *)
(* configured.                                                             *)
FactsEndJob(s) == Final(s) /\ ~(s.state = "COMMITTED" /\ Format = "LEROBOT_V3")

FactsRow(s) ==
  [Copy EXCEPT !.server = s.state, !.outcome = s.outcome, !.state = StateFor(s),
               !.terminal = FactsEndJob(s)]

(* What a saved answer leads to; "settle" is the return of process.  The   *)
(* request to resume is taken from the copy before the call it leads to,   *)
(* and the saved row keeps it until the copy is saved again.               *)
SaveAndGo(row, next) ==
  /\ rows' = [rows EXCEPT ![current] = row] /\ step' = next
  /\ CASE next = "settle" -> Hold([row EXCEPT !.attempts = 0]) /\ backoff' = FALSE
       [] next = "resume" -> Hold([row EXCEPT !.resume = FALSE]) /\ UNCHANGED backoff
       [] OTHER -> Hold(row) /\ UNCHANGED backoff

---------------------------------------------------------------------------
(* Calls.  The platform takes the session to s, unless it does not get the *)
(* call, refuses it, or loses the answer.                                  *)
Session == sessions[current]

Effect(s) ==
  /\ sessions' = [sessions EXCEPT ![current] = s]
  /\ late' = IF s # Session /\ current \in cancelled
             THEN [late EXCEPT ![current] = @ + 1] ELSE late

CallFails(s) ==
  /\ faults < MaxFaults /\ faults' = faults + 1
  /\ \/ Failed("down") /\ Effect(s)
     \/ \E kind \in {"down", "conflict", "refused"} : Failed(kind) /\ UNCHANGED <<platform>>
  /\ UNCHANGED rows

CallRefused == Failed("conflict") /\ UNCHANGED <<rows, platform, faults>>

(* A session that is not in the state the call needs stays as it is.       *)
Taken(state, s) == IF Session.state = state THEN s ELSE Session

Calling ==
  UNCHANGED <<cancelled, current, edit, stopping, files, retries, stops>>

(* POST with the client identity, or GET.                                  *)
Opened == IF Session.state = "NONE" THEN [Session EXCEPT !.state = "UPLOADING"] ELSE Session

OpenSession ==
  /\ step = "session" /\ Calling
  /\ \/ CallFails(Opened)
     \/ /\ Effect(Opened) /\ UNCHANGED faults
        /\ SaveAndGo(FactsRow(Opened),
             CASE Opened.state = "PAUSED" /\ Copy.resume -> "resume"
               [] Opened.state = "COMMITTED" -> "processing"
               [] Opened.state = "UPLOADING" -> "verify"
               [] OTHER -> "settle")

(* Only a paused session is resumed; the request is used up, whatever      *)
(* becomes of the call.                                                    *)
Resume ==
  LET s == [Session EXCEPT !.state = "UPLOADING"]
  IN  /\ step = "resume" /\ Calling
      /\ \/ CallFails(Taken("PAUSED", s))
         \/ Session.state # "PAUSED" /\ CallRefused
         \/ /\ Session.state = "PAUSED" /\ Effect(s) /\ UNCHANGED faults
            /\ SaveAndGo(FactsRow(s), "verify")

(* The loop over assets and parts: what the platform has is not repeated.  *)
Grant ==
  /\ step = "grant"
  /\ \/ Interrupted /\ Refusal /\ UNCHANGED <<rows, platform, faults>>
     \/ ~Interrupted /\ CallFails(Session)
     \/ ~Interrupted /\ Session.state # "UPLOADING" /\ CallRefused
     \/ /\ ~Interrupted /\ Session.state = "UPLOADING"
        /\ Goto(CASE Session.part = "missing" -> "put"
                  [] Session.part = "put" -> "complete"
                  [] Session.part = "complete" -> "recheck")
        /\ UNCHANGED <<rows, platform, faults>>
  /\ Calling

Transfer(from, part, to) ==
  LET s == [Session EXCEPT !.part = part]
  IN  /\ step = from /\ Calling
      /\ \/ CallFails(Taken("UPLOADING", s))
         \/ Session.state # "UPLOADING" /\ CallRefused
         \/ Session.state = "UPLOADING" /\ Effect(s) /\ UNCHANGED faults /\ to

Put == Transfer("put", "put", Goto("complete") /\ UNCHANGED rows)
Complete == Transfer("complete", "complete",
                     SaveAndGo(FactsRow([Session EXCEPT !.part = "complete"]), "recheck"))

Commit ==
  LET s == [Session EXCEPT !.state = "COMMITTED"]
  IN  /\ step = "commit" /\ Calling
      /\ \/ CallFails(Taken("UPLOADING", s))
         \/ Session.state # "UPLOADING" /\ CallRefused
         \/ /\ Session.state = "UPLOADING" /\ Effect(s) /\ UNCHANGED faults
            /\ SaveAndGo(FactsRow(s), "processing")

(* processing: MCAP has no such call; a retry asked for is sent instead of *)
(* the query, under the identity stored with the job.                      *)
Asked == IF Copy.asked /\ Session.outcome = "failed"
         THEN [Session EXCEPT !.outcome = "processing"] ELSE Session

Processing ==
  /\ step = "processing" /\ Calling
  /\ IF Format = "MCAP" THEN Processed /\ UNCHANGED <<rows, platform, faults>>
     ELSE \/ CallFails(Asked)
          \/ /\ Effect(Asked) /\ UNCHANGED faults
             /\ SaveAndGo([Copy EXCEPT !.outcome = Asked.outcome, !.state = StateFor(Asked),
                             !.terminal = Final(Asked), !.asked = FALSE,
                             !.receipt = Asked.outcome], "settle")

(* The end of the loop's body: the cancellation has the last word.         *)
Settle ==
  /\ step = "settle"
  /\ rows' = [rows EXCEPT ![current] =
       IF current \in cancelled THEN [Copy EXCEPT !.state = "cancelled", !.terminal = TRUE]
                                ELSE Copy]
  /\ batch' = Without(current) /\ current' = NoJob /\ step' = "next"
  /\ UNCHANGED <<cancelled, backoff, edit, stopping, files, platform, counters>>

---------------------------------------------------------------------------
(* The platform: an operator there pauses and cancels, a job there works   *)
(* on what was committed.                                                  *)
Suspend(j) ==
  /\ \/ /\ sessions[j].state = "UPLOADING"
        /\ \E to \in {"PAUSED", "CANCELLED"} : sessions' = [sessions EXCEPT ![j].state = to]
     \/ /\ sessions[j].state = "PAUSED"
        /\ sessions' = [sessions EXCEPT ![j].state = "CANCELLED"]
  /\ UNCHANGED <<queue, processes, files, late, counters>>

Digest(j) ==
  /\ sessions[j].state = "COMMITTED"
  /\ \/ /\ sessions[j].outcome = "none"
        /\ sessions' = [sessions EXCEPT ![j].outcome = "processing"]
     \/ /\ sessions[j].outcome = "processing"
        /\ \E r \in {"ready", "failed"} : sessions' = [sessions EXCEPT ![j].outcome = r]
  /\ UNCHANGED <<queue, processes, files, late, counters>>

---------------------------------------------------------------------------
Working ==
  \/ BeginTick \/ (\E j \in Jobs : NextJob(j)) \/ EndTick
  \/ Start \/ OpenSession \/ Resume \/ VerifyAssets \/ Grant \/ Put \/ Complete
  \/ VerifyAgain \/ Commit \/ Processing \/ Settle

Enqueueing ==
  \E c \in Callers :
    \/ \E a \in Artifacts, b \in Bindings : ChooseBinding(c, a, b)
    \/ LeaseForEnqueue(c) \/ RepeatEnqueue(c)
    \/ \E j \in Jobs : CommitEnqueue(c, j)

Operating ==
  \/ \E j \in Jobs : Cancel(j) \/ \E resume, again \in BOOLEAN : BeginRetry(j, resume, again)
  \/ EndRetry \/ StopService \/ StartService \/ KillWorker \/ Crash
  \/ \E a \in Artifacts : BeginDelete(a) \/ EndDelete(a)

Next ==
  \/ Working \/ Enqueueing \/ Operating \/ BackoffEnds
  \/ \E j \in Jobs : Suspend(j) \/ Digest(j)

Spec == Init /\ [][Next]_vars

(* The service thread goes on ticking, a stopped service is started again, *)
(* a retry or a deletion is one call, back-offs end and the platform works *)
(* on what it has; failures, stops and commands are bounded.               *)
FairSpec ==
  /\ Spec /\ WF_vars(Working) /\ WF_vars(EndRetry) /\ WF_vars(StartService)
  /\ WF_vars(BackoffEnds) /\ \A j \in Jobs : WF_vars(Digest(j))
  /\ \A a \in Artifacts : WF_vars(EndDelete(a))

---------------------------------------------------------------------------
(* The tick's copies of the jobs it has not reached are their rows: a save *)
(* of the whole copy overwrites nothing that was written since it was read *)
(* (Queue.jobs, Queue.save, Queue.retry under the worker's lock).          *)
CopyIsCurrent ==
  /\ \A j \in DOMAIN batch \ {current} : batch[j] = rows[j]
  /\ current # NoJob => Copy.asked = rows[current].asked
                       /\ (rows[current].server = "COMMITTED" => Copy.server = "COMMITTED")

(* Nobody reads files that are being deleted or are gone, and nothing of a *)
(* deleted artifact is sent (ArtifactLocks.read, delete).                  *)
ReadersHaveFiles == \A a \in tombstones : ~Reading(a)

(* After a cancel the platform is changed at most twice: the call in       *)
(* flight and the one that follows it without a check (check_cancelled).   *)
CancelStopsTransfer == \A j \in cancelled : late[j] <= 2

(* A LeRobot job that is over has the receipt of its processing, also      *)
(* after a crash (the comment in facts).                                   *)
ReceiptNotStranded ==
  \A j \in Queued : (/\ step = "idle" /\ descriptor[rows[j].art].format = "LEROBOT_V3"
                     /\ rows[j].terminal /\ rows[j].state \in {"ready", "processing_failed"})
                     => rows[j].receipt = rows[j].outcome

(* A repetition of the processing that was accepted is still going to be   *)
(* sent, unless an error ended the job ("--processing ... persists the     *)
(* request_id, then calls; a lost answer uses the same request_id").       *)
AcceptedRetryIsSent ==
  \A j \in Queued : step = "idle" /\ rows[j].asked /\ rows[j].terminal
                    => rows[j].state \in {"needs_attention", "cancelled"}

(* A cancel takes effect: the job ends, unless a retry takes it back.      *)
CancelEnds == \A j \in Jobs : j \in cancelled ~> (j \notin cancelled \/ rows[j].terminal)

(* Every job that is queued ends, whatever is lost or interrupted.         *)
EveryJobEnds == \A j \in Jobs : rows[j] # NoRow ~> rows[j].terminal

(* The promise of UploadDelivery: the queue and the platform keep it.      *)
BoundTo(a) ==
  IF JobsOf(a) = {} THEN NoBinding ELSE rows[CHOOSE j \in JobsOf(a) : TRUE].binding
DeliveredTo(a) == {rows[j].binding : j \in {k \in JobsOf(a) : sessions[k].state = "COMMITTED"}}

Promise == INSTANCE UploadDelivery WITH
  bound <- [a \in Artifacts |-> BoundTo(a)],
  delivered <- [a \in Artifacts |-> DeliveredTo(a)]

KeepsPromise == Promise!DeliverySpec
============================================================================
