------------------------ MODULE TaskRecording_proofs ------------------------
(***************************************************************************)
(* Theorems about TaskRecording, for any recordings, requests, tasks and   *)
(* number of restarts, and about CorrectionCapture, for any slots, queues  *)
(* and windows.                                                            *)
(*                                                                         *)
(* The inductive invariant says for every recording what the holder of the *)
(* lock, the finalizer and the files may be at.  It is a conjunction of    *)
(* parts, each about one hazard; a step is shown to keep each of them.     *)
(***************************************************************************)
EXTENDS TaskRecording, CorrectionCapture, FiniteSetTheorems, TLAPS

Locks == [by: {"start", "stop", "upload", "delete"}, rec: Recordings,
          at: {"prepare", "bind", "mark", "open", "save", "close", "queue", "unlink"}]
Seals == [at: {"seal", "queue"}, rec: Recordings, binding: Tasks \cup {NoTask}, upload: BOOLEAN]
Ends == [at: {"end"}, rec: Recordings, result: Settled]
Hands == [at: {"queue"}, rec: Recordings, binding: Tasks]

Types ==
  /\ jobs \in [Recordings -> Jobs \cup {NoJob}]
  /\ lock \in Locks \cup {Free}
  /\ active \in Recordings \cup {NoRecording} /\ pending \in SUBSET Recordings
  /\ sealing \in Seals \cup Ends \cup {Resting}
  /\ closing \in BOOLEAN /\ restarts \in 0..MaxRestarts
  /\ source \in [Recordings -> {"none", "open", "closed", "deleted"}]
  /\ descriptor \in [Recordings -> Tasks \cup {NoTask, Unsealed}]
  /\ queued \in [Recordings -> Tasks \cup {NoTask}]
  /\ handed \in Hands \cup {Resting}

Held(op, r) == lock # Free /\ lock.by = op /\ lock.rec = r
HeldAt(op, r, at) == Held(op, r) /\ lock.at = at

Owes(saved) == saved.wanted \/ (saved.binding # NoTask /\ saved.auto)

(* A recording nobody started has left nothing.                            *)
Unknown(r) ==
  jobs[r].state = "none" =>
    /\ source[r] = "none" /\ r \notin pending /\ r # active
    /\ lock # Free => lock.rec # r

(* What the holder of the lock may find.                                   *)
Holder(r) ==
  /\ Held("start", r) =>
       /\ active = NoRecording
       /\ lock.at \in {"prepare", "bind", "mark"} => StateOf(r) \in Unopened
       /\ lock.at \notin {"prepare", "bind", "mark"} => StateOf(r) = "starting"
  /\ Held("stop", r) => StateOf(r) = "stopping" /\ active = r
  /\ Held("upload", r) =>
       /\ ~Refuses(r) /\ r \notin pending /\ jobs[r].binding # NoTask
  /\ Held("delete", r) =>
       /\ StateOf(r) \notin Capturing /\ r \notin pending /\ source[r] # "none"

(* Who captures.                                                           *)
Captures(r) ==
  /\ StateOf(r) \in Capturing => r = active \/ Held("start", r)
  /\ r = active => StateOf(r) \in {"recording", "stopping"}

(* What a recording that has no file yet cannot have.                      *)
Files(r) ==
  /\ source[r] # "none" => StateOf(r) \notin Unopened
  /\ source[r] = "none" => descriptor[r] = Unsealed /\ queued[r] = NoTask
  /\ handed # Resting /\ handed.rec = r => descriptor[r] # Unsealed

(* The finalizer and its list.                                             *)
Finalizer(r) ==
  /\ r \in pending => StateOf(r) \in Resubmitted
  /\ StateOf(r) = "finalizing" => r \in pending \/ closing
  /\ StateOf(r) = "upload_pending" =>
       r \in pending \/ closing \/ queued[r] # NoTask \/ Held("upload", r)
  /\ sealing # Resting /\ sealing.rec = r => r \in pending

(* The copy the finalizer works on still says what the job says.           *)
Copy(r) ==
  /\ sealing.at \in {"seal", "queue"} /\ sealing.rec = r =>
       sealing.binding = jobs[r].binding /\ (sealing.upload <=> Owes(jobs[r]))
  /\ sealing.at = "queue" /\ sealing.rec = r => sealing.upload /\ source[r] # "none"
  /\ sealing.at = "end" /\ sealing.rec = r =>
       /\ sealing.result = "ready" => ~Owes(jobs[r])
       /\ sealing.result = "queued" => queued[r] = jobs[r].binding /\ queued[r] \in Tasks

(* Whose recording it is.                                                  *)
Ownership(r) ==
  /\ StateOf(r) # "none" /\ jobs[r].wanted => jobs[r].binding # NoTask
  /\ descriptor[r] \in Tasks => jobs[r].binding = descriptor[r]
  /\ StateOf(r) = "queued" => queued[r] = jobs[r].binding /\ queued[r] \in Tasks
  /\ StateOf(r) = "ready" => ~Owes(jobs[r])

Inv ==
  /\ Types
  /\ \A r \in Recordings :
       /\ Unknown(r) /\ Holder(r) /\ Captures(r)
       /\ Files(r) /\ Finalizer(r) /\ Copy(r) /\ Ownership(r)
---------------------------------------------------------------------------
(* The recordings that have a job are those whose job is one of Jobs.      *)
LEMMA KnownJobs ==
  ASSUME Types, NEW r \in Recordings
  PROVE  /\ r \in Known <=> jobs[r] \in Jobs
         /\ r \in Known <=> StateOf(r) # "none"
         /\ StateOf(r) \in States \cup {"none"}
<1>1. CASE jobs[r] \in Jobs
  <2>1. StateOf(r) \in States  BY <1>1 DEF Jobs, StateOf
  <2>2. StateOf(r) # "none"
    BY <2>1 DEF States, Unopened, Capturing, Settled
  <2>3. jobs[r] # NoJob  BY <2>2 DEF NoJob, StateOf
  <2> QED BY <1>1, <2>1, <2>2, <2>3 DEF Known
<1>2. CASE jobs[r] = NoJob
  <2>1. StateOf(r) = "none"  BY <1>2 DEF NoJob, StateOf
  <2>2. jobs[r] \notin Jobs
    BY <2>1 DEF Jobs, StateOf, States, Unopened, Capturing, Settled
  <2> QED BY <1>2, <2>1, <2>2 DEF Known
<1> QED BY <1>1, <1>2 DEF Types

(* Moving a known recording changes its state and nothing else of it.      *)
LEMMA Moved ==
  ASSUME Types, NEW r \in Recordings, jobs[r] \in Jobs, NEW st \in States, Move(r, st)
  PROVE  /\ jobs' \in [Recordings -> Jobs \cup {NoJob}]
         /\ jobs'[r] \in Jobs /\ jobs'[r].state = st
         /\ jobs'[r].binding = jobs[r].binding /\ jobs'[r].wanted = jobs[r].wanted
         /\ jobs'[r].auto = jobs[r].auto
         /\ \A q \in Recordings : q # r => jobs'[q] = jobs[q]
<1>1. [jobs[r] EXCEPT !.state = st] \in Jobs  BY DEF Jobs
<1>2. jobs' = [jobs EXCEPT ![r] = [jobs[r] EXCEPT !.state = st]]  BY DEF Move, Types
<1>3. jobs'[r] = [jobs[r] EXCEPT !.state = st]  BY <1>2 DEF Types
<1>4. jobs' \in [Recordings -> Jobs \cup {NoJob}]  BY <1>1, <1>2 DEF Types
<1>5. \A q \in Recordings : q # r => jobs'[q] = jobs[q]  BY <1>2 DEF Types
<1>6. /\ jobs'[r].state = st
      /\ jobs'[r].binding = jobs[r].binding /\ jobs'[r].wanted = jobs[r].wanted
      /\ jobs'[r].auto = jobs[r].auto
  BY <1>3 DEF Jobs
<1> QED BY <1>1, <1>3, <1>4, <1>5, <1>6

(* Every step keeps the invariant.  For each action: what it does to the    *)
(* lock, to the job and to the files; then the types; then the parts of    *)
(* the invariant for any recording q.                                      *)
Parts(r) ==
  /\ Unknown(r) /\ Holder(r) /\ Captures(r)
  /\ Files(r) /\ Finalizer(r) /\ Copy(r) /\ Ownership(r)

(* Whoever holds the lock works on a known recording.                      *)
LEMMA HolderOf ==
  ASSUME Inv, NEW op, lock # Free, lock.by = op
  PROVE  /\ lock \in Locks /\ lock.rec \in Recordings /\ Held(op, lock.rec)
         /\ jobs[lock.rec] \in Jobs
<1>1. lock \in Locks /\ lock.rec \in Recordings /\ Held(op, lock.rec)
  BY DEF Inv, Types, Locks, Held
<1>2. jobs[lock.rec].state # "none"  BY <1>1 DEF Inv, Unknown
<1> QED BY <1>1, <1>2, KnownJobs DEF Inv, StateOf

LEMMA Taken ==
  ASSUME NEW op \in {"start", "stop", "upload", "delete"}, NEW r \in Recordings,
         NEW at \in {"prepare", "bind", "mark", "open", "save", "close", "queue", "unlink"},
         Take(op, r, at)
  PROVE  /\ lock' \in Locks /\ lock' # Free
         /\ lock'.by = op /\ lock'.rec = r /\ lock'.at = at
  BY DEF Take, Locks, Free

LEMMA KeepBeginStart ==
  ASSUME Inv, NEW asked \in Requests, NEW intent \in Tasks \cup {NoTask}, NEW r \in Recordings,
         BeginStart(asked, intent, r)
  PROVE  Inv'
<1>1. Types  BY DEF Inv
<1>2. /\ lock' \in Locks /\ lock' # Free /\ lock'.by = "start" /\ lock'.rec = r
      /\ lock'.at \in {"prepare", "mark"} /\ lock = Free /\ active = NoRecording
  BY Taken DEF BeginStart, Ready
<1>3. \/ UNCHANGED jobs /\ jobs[r] # NoJob /\ StateOf(r) \in Unopened
      \/ jobs[r] = NoJob /\ jobs' = [jobs EXCEPT ![r] = NewJob(asked, intent)]
  BY DEF BeginStart, SameRequest, SameIntent, Known
<1>4. NewJob(asked, intent) \in Jobs
  BY DEF NewJob, Jobs, States, Unopened
<1>5. /\ jobs' \in [Recordings -> Jobs \cup {NoJob}]
      /\ \A q \in Recordings : q # r => jobs'[q] = jobs[q]
      /\ \/ jobs'[r] = jobs[r] /\ StateOf(r) \in Unopened
         \/ jobs[r].state = "none" /\ jobs'[r] = NewJob(asked, intent)
  BY <1>1, <1>3, <1>4 DEF Types, NoJob
<1>6. /\ NewJob(asked, intent).state = "preparing" /\ NewJob(asked, intent).wanted = FALSE
      /\ NewJob(asked, intent).binding = NoTask
  BY DEF NewJob
<1>7. UNCHANGED <<active, pending, sealing, closing, source, descriptor, queued, handed, restarts>>
  BY DEF BeginStart, stored, outside
<1>8. Types'  BY <1>1, <1>2, <1>5, <1>6, SealAssumption, <1>7 DEF Types
<1>9. ASSUME NEW q \in Recordings PROVE Parts(q)'
  BY <1>1, <1>2, <1>5, <1>6, SealAssumption, <1>7
  DEF Inv, Parts,
      Unknown, Holder, Captures, Files, Finalizer, Copy, Ownership, Owes, Refuses,
       Held, StateOf, Unopened, Capturing, Settled, Resubmitted, Resting
<1> QED BY <1>8, <1>9 DEF Inv, Parts

(* The except clause of the preparation gives the lock back.               *)
LEMMA KeepRefused ==
  ASSUME Inv, AtStart("prepare") \/ AtStart("bind"), Refused(lock.rec),
         UNCHANGED <<active, pending, sealing, closing, stored, outside>>
  PROVE  Inv'
<1> DEFINE r == lock.rec
           st == IF jobs[r].snapshot THEN "prepared" ELSE "prepare_failed"
<1>1. Types  BY DEF Inv
<1>2. r \in Recordings /\ Held("start", r) /\ jobs[r] \in Jobs /\ lock.at \in {"prepare", "bind"}
  BY HolderOf DEF AtStart
<1>3. st \in States /\ st \in Unopened  BY DEF States, Unopened
<1>4. Move(r, st) /\ lock' = Free  BY DEF Refused
<1> HIDE DEF r, st
<1>5. /\ jobs' \in [Recordings -> Jobs \cup {NoJob}]
      /\ jobs'[r] \in Jobs /\ jobs'[r].state = st
      /\ jobs'[r].binding = jobs[r].binding /\ jobs'[r].wanted = jobs[r].wanted
      /\ jobs'[r].auto = jobs[r].auto
      /\ \A q \in Recordings : q # r => jobs'[q] = jobs[q]
  BY <1>1, <1>2, <1>3, <1>4, Moved
<1>7. UNCHANGED <<active, pending, sealing, closing, source, descriptor, queued, handed, restarts>>
  BY DEF stored, outside
<1>8. Types'  BY <1>1, <1>4, <1>5, <1>7 DEF Types
<1>9. ASSUME NEW q \in Recordings PROVE Parts(q)'
  BY <1>1, <1>2, <1>3, <1>4, <1>5, <1>7
  DEF Inv, Parts,
      Unknown, Holder, Captures, Files, Finalizer, Copy, Ownership, Owes, Refuses,
       Held, StateOf, Unopened, Capturing, Settled, Resubmitted
<1> QED BY <1>8, <1>9 DEF Inv, Parts

(* A step of a start that leaves its recording unopened and unowned by any *)
(* file.                                                                   *)
LEMMA KeepPrepare ==
  ASSUME Inv, Prepare
  PROVE  Inv'
<1> DEFINE r == lock.rec
<1>1. Types  BY DEF Inv
<1>2. r \in Recordings /\ Held("start", r) /\ jobs[r] \in Jobs /\ lock.at = "prepare"
  BY HolderOf DEF Prepare, AtStart
<1>3. CASE Refused(r)  BY <1>3, KeepRefused DEF Prepare
<1>4. CASE ~Refused(r)
  <2>1. /\ Take("start", r, "bind")
        /\ jobs' = IF jobs[r].snapshot THEN jobs
                   ELSE [jobs EXCEPT ![r] = [jobs[r] EXCEPT !.snapshot = TRUE, !.state = "prepared"]]
    <3>1. /\ Take("start", r, "bind")
          /\ jobs' = IF jobs[r].snapshot THEN jobs
                     ELSE [jobs EXCEPT ![r].snapshot = TRUE, ![r].state = "prepared"]
      BY <1>4, Zenon DEF Prepare
    <3>2. [jobs EXCEPT ![r].snapshot = TRUE, ![r].state = "prepared"]
          = [jobs EXCEPT ![r] = [jobs[r] EXCEPT !.snapshot = TRUE, !.state = "prepared"]]
      BY <1>1, <1>2 DEF Types
    <3> QED BY <3>1, <3>2
  <2>2. StateOf(r) \in Unopened  BY <1>2 DEF Inv, Holder
  <2>3. [jobs[r] EXCEPT !.snapshot = TRUE, !.state = "prepared"] \in Jobs
    BY <1>2 DEF Jobs, States, Unopened
  <2>4. /\ jobs' \in [Recordings -> Jobs \cup {NoJob}]
        /\ jobs'[r] \in Jobs /\ jobs'[r].state \in Unopened
        /\ jobs'[r].binding = jobs[r].binding /\ jobs'[r].wanted = jobs[r].wanted
        /\ jobs'[r].auto = jobs[r].auto
        /\ \A q \in Recordings : q # r => jobs'[q] = jobs[q]
    <3>1. CASE jobs[r].snapshot  BY <1>1, <1>2, <2>1, <2>2, <3>1 DEF Types, StateOf
    <3>2. CASE ~jobs[r].snapshot
      <4>1. jobs'[r] = [jobs[r] EXCEPT !.snapshot = TRUE, !.state = "prepared"]
        BY <1>1, <1>2, <2>1, <3>2 DEF Types
      <4>2. /\ jobs'[r].state = "prepared"
            /\ jobs'[r].binding = jobs[r].binding /\ jobs'[r].wanted = jobs[r].wanted
            /\ jobs'[r].auto = jobs[r].auto
        BY <1>2, <4>1 DEF Jobs
      <4> QED BY <1>1, <1>2, <2>1, <2>3, <3>2, <4>1, <4>2 DEF Types, Unopened
    <3> QED BY <3>1, <3>2
  <2>5. /\ lock' \in Locks /\ lock' # Free /\ lock'.by = "start" /\ lock'.rec = r /\ lock'.at = "bind"
    BY <1>2, <2>1, Taken
  <2>7. UNCHANGED <<active, pending, sealing, closing, source, descriptor, queued, handed, restarts>>
    BY DEF Prepare, stored, outside
  <2>8. Types'  BY <1>1, <2>4, <2>5, <2>7 DEF Types
  <2> HIDE DEF r
  <2>9. ASSUME NEW q \in Recordings PROVE Parts(q)'
    BY <1>1, <1>2, <2>4, <2>5, <2>7
    DEF Inv, Parts,
        Unknown, Holder, Captures, Files, Finalizer, Copy, Ownership, Owes, Refuses,
       Held, StateOf, Unopened, Capturing, Settled, Resubmitted
  <2> QED BY <2>8, <2>9 DEF Inv, Parts
<1> QED BY <1>3, <1>4

(* The task is bound before anything is recorded or sealed.                *)
LEMMA KeepBind ==
  ASSUME Inv, Bind
  PROVE  Inv'
<1> DEFINE r == lock.rec
<1>1. Types  BY DEF Inv
<1>2. r \in Recordings /\ Held("start", r) /\ jobs[r] \in Jobs /\ lock.at = "bind"
  BY HolderOf DEF Bind, AtStart
<1>3. CASE Refused(r)  BY <1>3, KeepRefused DEF Bind
<1>4. CASE ~Refused(r)
  <2>0. /\ Take("start", r, "mark")
        /\ IF jobs[r].binding # NoTask THEN UNCHANGED jobs
           ELSE \E auto \in BOOLEAN :
                  jobs' = [jobs EXCEPT ![r] =
                             [jobs[r] EXCEPT !.binding = jobs[r].intent, !.auto = auto]]
    BY <1>1, <1>2, <1>4, Zenon DEF Bind, Types
  <2>1. PICK auto \in BOOLEAN :
          /\ Take("start", r, "mark")
          /\ jobs' = IF jobs[r].binding # NoTask THEN jobs
                     ELSE [jobs EXCEPT ![r] = [jobs[r] EXCEPT !.binding = jobs[r].intent, !.auto = auto]]
    BY <2>0
  <2>2. StateOf(r) \in Unopened  BY <1>2 DEF Inv, Holder
  <2>3. [jobs[r] EXCEPT !.binding = jobs[r].intent, !.auto = auto] \in Jobs
    BY <1>2 DEF Jobs
  <2>4. /\ jobs' \in [Recordings -> Jobs \cup {NoJob}]
        /\ jobs'[r] \in Jobs /\ jobs'[r].state = jobs[r].state
        /\ jobs[r].binding # NoTask => jobs'[r] = jobs[r]
        /\ jobs'[r].wanted = jobs[r].wanted
        /\ \A q \in Recordings : q # r => jobs'[q] = jobs[q]
    <3>1. CASE jobs[r].binding # NoTask  BY <1>1, <1>2, <2>1, <2>2, <3>1 DEF Types, StateOf
    <3>2. CASE jobs[r].binding = NoTask
      <4>1. jobs'[r] = [jobs[r] EXCEPT !.binding = jobs[r].intent, !.auto = auto]
        BY <1>1, <1>2, <2>1, <3>2 DEF Types
      <4>2. jobs'[r].state = jobs[r].state /\ jobs'[r].wanted = jobs[r].wanted
        BY <1>2, <4>1 DEF Jobs
      <4> QED BY <1>1, <1>2, <2>1, <2>3, <3>2, <4>1, <4>2 DEF Types
    <3> QED BY <3>1, <3>2
  <2>5. /\ lock' \in Locks /\ lock' # Free /\ lock'.by = "start" /\ lock'.rec = r /\ lock'.at = "mark"
    BY <1>2, <2>1, Taken
  <2>7. UNCHANGED <<active, pending, sealing, closing, source, descriptor, queued, handed, restarts>>
    BY DEF Bind, stored, outside
  <2>8. Types'  BY <1>1, <2>4, <2>5, <2>7 DEF Types
  <2> HIDE DEF r
  <2>9. ASSUME NEW q \in Recordings PROVE Parts(q)'
    BY <1>1, <1>2, <2>2, <2>4, <2>5, <2>7, SealAssumption
    DEF Resting, Inv, Parts,
        Unknown, Holder, Captures, Files, Finalizer, Copy, Ownership, Owes, Refuses,
       Held, StateOf, Unopened, Capturing, Settled, Resubmitted
  <2> QED BY <2>8, <2>9 DEF Inv, Parts
<1> QED BY <1>3, <1>4

LEMMA KeepMarkStarting ==
  ASSUME Inv, MarkStarting
  PROVE  Inv'
<1>1. Types  BY DEF Inv
<1> DEFINE r == lock.rec
<1>2. r \in Recordings /\ lock # Free /\ Held("start", r) /\ jobs[r] \in Jobs /\ lock.at = "mark"
  BY HolderOf DEF MarkStarting, AtStart, AtDelete
<1>3. Move(r, "starting") /\ "starting" \in States /\ Take("start", r, "open")
  BY DEF MarkStarting, States, Capturing
<1> HIDE DEF r
<1>4. /\ jobs' \in [Recordings -> Jobs \cup {NoJob}]
      /\ jobs'[r] \in Jobs /\ jobs'[r].state = "starting"
      /\ jobs'[r].binding = jobs[r].binding /\ jobs'[r].wanted = jobs[r].wanted
      /\ jobs'[r].auto = jobs[r].auto
      /\ \A q \in Recordings : q # r => jobs'[q] = jobs[q]
  BY <1>1, <1>2, <1>3, Moved
<1>5. /\ lock' \in Locks /\ lock' # Free /\ lock'.by = "start" /\ lock'.rec = r /\ lock'.at = "open"
  BY <1>2, <1>3, Taken
<1>7. UNCHANGED <<active, pending, sealing, closing, source, descriptor, queued, handed, restarts>>
  BY DEF MarkStarting, stored, outside
<1>8. Types'  BY <1>1, <1>2, <1>4, <1>5, <1>7 DEF Types
<1>9. ASSUME NEW q \in Recordings PROVE Parts(q)'
  BY <1>1, <1>2, <1>4, <1>5, <1>7
  DEF Inv, Parts,
      Unknown, Holder, Captures, Files, Finalizer, Copy, Ownership, Owes, Refuses,
       Held, StateOf, Unopened, Capturing, Settled, Resubmitted
<1> QED BY <1>8, <1>9 DEF Inv, Parts

LEMMA KeepOpenWriter ==
  ASSUME Inv, OpenWriter
  PROVE  Inv'
<1>1. Types  BY DEF Inv
<1> DEFINE r == lock.rec
<1>2. r \in Recordings /\ lock # Free /\ Held("start", r) /\ jobs[r] \in Jobs /\ lock.at = "open"
  BY HolderOf DEF OpenWriter, AtStart, AtDelete
<1>3. /\ source' = [source EXCEPT ![r] = "open"] /\ source[r] = "none"
      /\ Take("start", r, "save")
  BY DEF OpenWriter
<1> HIDE DEF r
<1>5. /\ lock' \in Locks /\ lock' # Free /\ lock'.by = "start" /\ lock'.rec = r /\ lock'.at = "save"
  BY <1>2, <1>3, Taken
<1>7. UNCHANGED <<jobs, active, pending, sealing, closing, descriptor, queued, handed, restarts>>
  BY DEF OpenWriter, stored, outside
<1>8. Types'  BY <1>1, <1>2, <1>3, <1>5, <1>7 DEF Types
<1>9. ASSUME NEW q \in Recordings PROVE Parts(q)'
  BY <1>1, <1>2, <1>3, <1>5, <1>7
  DEF Inv, Parts,
      Unknown, Holder, Captures, Files, Finalizer, Copy, Ownership, Owes, Refuses,
       Held, StateOf, Unopened, Capturing, Settled, Resubmitted
<1> QED BY <1>8, <1>9 DEF Inv, Parts

LEMMA KeepEndStart ==
  ASSUME Inv, EndStart
  PROVE  Inv'
<1>1. Types  BY DEF Inv
<1> DEFINE r == lock.rec
<1>2. r \in Recordings /\ lock # Free /\ Held("start", r) /\ jobs[r] \in Jobs /\ lock.at = "save"
  BY HolderOf DEF EndStart, AtStart, AtDelete
<1>3. /\ Move(r, "recording") /\ "recording" \in States
      /\ active' = r /\ lock' = Free
  BY DEF EndStart, States, Capturing
<1> HIDE DEF r
<1>4. /\ jobs' \in [Recordings -> Jobs \cup {NoJob}]
      /\ jobs'[r] \in Jobs /\ jobs'[r].state = "recording"
      /\ jobs'[r].binding = jobs[r].binding /\ jobs'[r].wanted = jobs[r].wanted
      /\ jobs'[r].auto = jobs[r].auto
      /\ \A q \in Recordings : q # r => jobs'[q] = jobs[q]
  BY <1>1, <1>2, <1>3, Moved
<1>7. UNCHANGED <<pending, sealing, closing, source, descriptor, queued, handed, restarts>>
  BY DEF EndStart, stored, outside
<1>8. Types'  BY <1>1, <1>2, <1>3, <1>4, NamesAssumption, <1>7 DEF Types
<1>9. ASSUME NEW q \in Recordings PROVE Parts(q)'
  BY <1>1, <1>2, <1>3, <1>4, NamesAssumption, <1>7
  DEF Inv, Parts,
      Unknown, Holder, Captures, Files, Finalizer, Copy, Ownership, Owes, Refuses,
       Held, StateOf, Unopened, Capturing, Settled, Resubmitted
<1> QED BY <1>8, <1>9 DEF Inv, Parts

LEMMA KeepFailStart ==
  ASSUME Inv, FailStart
  PROVE  Inv'
<1>1. Types  BY DEF Inv
<1> DEFINE r == lock.rec
<1>2. r \in Recordings /\ lock # Free /\ Held("start", r) /\ jobs[r] \in Jobs /\ lock.at \in {"open", "save"}
  BY HolderOf DEF FailStart, AtStart, AtDelete
<1>3. Move(r, "failed") /\ "failed" \in States /\ lock' = Free
  BY DEF FailStart, States
<1> HIDE DEF r
<1>4. /\ jobs' \in [Recordings -> Jobs \cup {NoJob}]
      /\ jobs'[r] \in Jobs /\ jobs'[r].state = "failed"
      /\ jobs'[r].binding = jobs[r].binding /\ jobs'[r].wanted = jobs[r].wanted
      /\ jobs'[r].auto = jobs[r].auto
      /\ \A q \in Recordings : q # r => jobs'[q] = jobs[q]
  BY <1>1, <1>2, <1>3, Moved
<1>7. UNCHANGED <<active, pending, sealing, closing, source, descriptor, queued, handed, restarts>>
  BY DEF FailStart, stored, outside
<1>8. Types'  BY <1>1, <1>2, <1>3, <1>4, NamesAssumption, <1>7 DEF Types
<1>9. ASSUME NEW q \in Recordings PROVE Parts(q)'
  BY <1>1, <1>2, <1>3, <1>4, NamesAssumption, <1>7
  DEF Inv, Parts,
      Unknown, Holder, Captures, Files, Finalizer, Copy, Ownership, Owes, Refuses,
       Held, StateOf, Unopened, Capturing, Settled, Resubmitted
<1> QED BY <1>8, <1>9 DEF Inv, Parts

LEMMA KeepBeginStop ==
  ASSUME Inv, BeginStop
  PROVE  Inv'
<1>1. Types  BY DEF Inv
<1> DEFINE r == active
<1>2. r \in Recordings /\ lock = Free  BY <1>1 DEF BeginStop, Types
<1>3. jobs[r] \in Jobs /\ StateOf(r) \in {"recording", "stopping"}
  BY <1>1, <1>2, KnownJobs DEF Inv, Captures
<1>4. Move(r, "stopping") /\ "stopping" \in States /\ Take("stop", r, "close")
  BY DEF BeginStop, States, Capturing
<1>5. /\ jobs' \in [Recordings -> Jobs \cup {NoJob}]
      /\ jobs'[r] \in Jobs /\ jobs'[r].state = "stopping"
      /\ jobs'[r].binding = jobs[r].binding /\ jobs'[r].wanted = jobs[r].wanted
      /\ jobs'[r].auto = jobs[r].auto
      /\ \A q \in Recordings : q # r => jobs'[q] = jobs[q]
  BY <1>1, <1>2, <1>3, <1>4, Moved
<1>6. /\ lock' \in Locks /\ lock' # Free /\ lock'.by = "stop" /\ lock'.rec = r
  BY <1>2, <1>4, Taken
<1>7. UNCHANGED <<active, pending, sealing, closing, source, descriptor, queued, handed, restarts>>
  BY DEF BeginStop, stored, outside
<1>8. Types'  BY <1>1, <1>2, <1>3, <1>5, <1>6, <1>7 DEF Types
<1>9. ASSUME NEW q \in Recordings PROVE Parts(q)'
  BY <1>1, <1>2, <1>3, <1>5, <1>6, <1>7
  DEF Inv, Parts,
      Unknown, Holder, Captures, Files, Finalizer, Copy, Ownership, Owes, Refuses,
       Held, StateOf, Unopened, Capturing, Settled, Resubmitted
<1> QED BY <1>8, <1>9 DEF Inv, Parts

LEMMA KeepEndStop ==
  ASSUME Inv, EndStop
  PROVE  Inv'
<1> DEFINE r == lock.rec
<1>1. Types  BY DEF Inv
<1>2. r \in Recordings /\ lock # Free /\ Held("stop", r) /\ jobs[r] \in Jobs /\ lock' = Free
  BY HolderOf DEF EndStop
<1>3. UNCHANGED <<sealing, closing, descriptor, queued, handed, restarts>>
  BY DEF EndStop, outside
<1>4. CASE /\ source' = [source EXCEPT ![r] = "closed"]
           /\ Move(r, "finalizing") /\ Submit(r) /\ active' = NoRecording
  <2>1. "finalizing" \in States  BY DEF States
  <2> HIDE DEF r
  <2>2. /\ jobs' \in [Recordings -> Jobs \cup {NoJob}]
      /\ jobs'[r] \in Jobs /\ jobs'[r].state = "finalizing"
      /\ jobs'[r].binding = jobs[r].binding /\ jobs'[r].wanted = jobs[r].wanted
      /\ jobs'[r].auto = jobs[r].auto
      /\ \A q \in Recordings : q # r => jobs'[q] = jobs[q]
    BY <1>1, <1>2, <1>4, <2>1, Moved
  <2>8. Types'  BY <1>1, <1>2, <1>3, <1>4, <2>2 DEF Types, Submit
  <2>9. ASSUME NEW q \in Recordings PROVE Parts(q)'
    BY <1>1, <1>2, <1>3, <1>4, <2>2, NamesAssumption
    DEF Submit, Types, Inv, Parts,
        Unknown, Holder, Captures, Files, Finalizer, Copy, Ownership, Owes, Refuses,
       Held, StateOf, Unopened, Capturing, Settled, Resubmitted
  <2> QED BY <2>8, <2>9 DEF Inv, Parts
<1>5. CASE Move(r, "interrupted") /\ active' = NoRecording /\ UNCHANGED <<source, pending>>
  <2>1. "interrupted" \in States  BY DEF States
  <2> HIDE DEF r
  <2>2. /\ jobs' \in [Recordings -> Jobs \cup {NoJob}]
      /\ jobs'[r] \in Jobs /\ jobs'[r].state = "interrupted"
      /\ jobs'[r].binding = jobs[r].binding /\ jobs'[r].wanted = jobs[r].wanted
      /\ jobs'[r].auto = jobs[r].auto
      /\ \A q \in Recordings : q # r => jobs'[q] = jobs[q]
    BY <1>1, <1>2, <1>5, <2>1, Moved
  <2>8. Types'  BY <1>1, <1>2, <1>3, <1>5, <2>2 DEF Types
  <2>9. ASSUME NEW q \in Recordings PROVE Parts(q)'
    BY <1>1, <1>2, <1>3, <1>5, <2>2, NamesAssumption
    DEF Inv, Parts,
        Unknown, Holder, Captures, Files, Finalizer, Copy, Ownership, Owes, Refuses,
       Held, StateOf, Unopened, Capturing, Settled, Resubmitted
  <2> QED BY <2>8, <2>9 DEF Inv, Parts
<1>6. CASE UNCHANGED <<jobs, source, pending, active>>
  <2>8. Types'  BY <1>1, <1>2, <1>3, <1>6 DEF Types
  <2>9. ASSUME NEW q \in Recordings PROVE Parts(q)'
    BY <1>1, <1>2, <1>3, <1>6
    DEF Inv, Parts,
        Unknown, Holder, Captures, Files, Finalizer, Copy, Ownership, Owes, Refuses,
       Held, StateOf, Unopened, Capturing, Settled, Resubmitted
  <2> QED BY <2>8, <2>9 DEF Inv, Parts
<1> QED BY <1>4, <1>5, <1>6 DEF EndStop

(* The finalizer.                                                          *)
LEMMA KeepTakePending ==
  ASSUME Inv, TakePending
  PROVE  Inv'
<1>1. Types  BY DEF Inv
<1>2. PICK r \in pending :
        sealing' = [at |-> "seal", rec |-> r, binding |-> jobs[r].binding,
                    upload |-> jobs[r].wanted \/ (jobs[r].binding # NoTask /\ jobs[r].auto)]
  BY DEF TakePending
<1>3. r \in Recordings /\ StateOf(r) \in Resubmitted
  BY <1>1, <1>2 DEF Types, Inv, Finalizer
<1>4. jobs[r] \in Jobs  BY <1>1, <1>3, KnownJobs DEF Resubmitted
<1>5. /\ sealing' \in Seals /\ sealing'.at = "seal" /\ sealing'.rec = r
      /\ sealing'.binding = jobs[r].binding /\ (sealing'.upload <=> Owes(jobs[r]))
  BY <1>2, <1>3, <1>4 DEF Seals, Jobs, Owes
<1>7. UNCHANGED <<jobs, lock, active, pending, closing, source, descriptor, queued, handed, restarts>>
  BY DEF TakePending, stored, outside
<1>8. Types'  BY <1>1, <1>2, <1>3, <1>5, <1>7 DEF Types
<1>9. ASSUME NEW q \in Recordings PROVE Parts(q)'
  BY <1>1, <1>2, <1>3, <1>5, <1>7
  DEF Inv, Parts,
      Unknown, Holder, Captures, Files, Finalizer, Copy, Ownership, Owes, Refuses,
       Held, StateOf, Unopened, Capturing, Settled, Resubmitted
<1> QED BY <1>8, <1>9 DEF Inv, Parts

(* What the finalizer's child may end with.                                *)
LEMMA FinishedIs ==
  ASSUME NEW r \in Recordings, NEW result \in Settled, Finished(r, result)
  PROVE  /\ sealing' \in Ends /\ sealing'.at = "end" /\ sealing'.rec = r
         /\ sealing'.result = result
  BY DEF Finished, Ends

LEMMA KeepSeal ==
  ASSUME Inv, Seal
  PROVE  Inv'
<1> DEFINE s == sealing
           r == sealing.rec
<1>1. Types  BY DEF Inv
<1>2. sealing \in Seals /\ sealing.rec \in Recordings /\ sealing.rec \in pending /\ sealing # Resting
      /\ sealing.binding = jobs[sealing.rec].binding /\ (sealing.upload <=> Owes(jobs[sealing.rec]))
      /\ sealing.binding \in Tasks \cup {NoTask}
  <2>1. sealing \in Seals /\ sealing # Resting
    BY <1>1 DEF Seal, Types, Seals, Ends, Resting
  <2> QED BY <2>1 DEF Seal, Inv, Finalizer, Copy, Seals
<1>3. UNCHANGED <<jobs, lock, active, pending, closing, source, queued, handed, restarts>>
  BY DEF Seal, outside
<1>4. jobs[r].wanted => s.binding # NoTask
  BY <1>2 DEF Inv, Ownership, Finalizer, StateOf, Resubmitted
<1> HIDE DEF r
<1>5. r \in Recordings /\ r = sealing.rec  BY <1>2 DEF r
<1>6. CASE /\ source[r] = "closed" /\ ~Mismatch(s)
           /\ descriptor' = [descriptor EXCEPT ![r] = Owner(s)]
           /\ IF s.upload THEN sealing' = [s EXCEPT !.at = "queue"]
              ELSE Finished(r, "ready")
  <2>1. /\ Owner(s) \in Tasks => Owner(s) = jobs[r].binding
        /\ Owner(s) \in Tasks \cup {NoTask}
    <3>1. descriptor[r] \in Tasks \cup {NoTask, Unsealed}  BY <1>1, <1>5 DEF Types
    <3>2. descriptor[r] \in Tasks => jobs[r].binding = descriptor[r]
      BY <1>5 DEF Inv, Ownership
    <3>3. CASE descriptor[r] = Unsealed
      BY <1>2, <1>5, <3>3, NamesAssumption, SealAssumption DEF Owner
    <3>4. CASE descriptor[r] # Unsealed
      BY <1>2, <1>5, <3>1, <3>2, <3>4, NamesAssumption DEF Owner
    <3> QED BY <3>3, <3>4
  <2>2. CASE s.upload
    <3>1. /\ sealing' \in Seals /\ sealing'.at = "queue" /\ sealing'.rec = r
          /\ sealing'.binding = s.binding /\ sealing'.upload = s.upload
      BY <1>2, <1>5, <1>6, <2>2 DEF Seals
    <3>8. Types'  BY <1>1, <1>3, <1>5, <1>6, <2>1, <3>1 DEF Types
    <3>9. ASSUME NEW q \in Recordings PROVE Parts(q)'
      BY <1>1, <1>2, <1>3, <1>5, <1>6, <2>1, <2>2, <3>1, SealAssumption
      DEF Types, Inv, Parts,
          Unknown, Holder, Captures, Files, Finalizer, Copy, Ownership, Owes, Refuses,
       Held, StateOf, Unopened, Capturing, Settled, Resubmitted
    <3> QED BY <3>8, <3>9 DEF Inv, Parts
  <2>3. CASE ~s.upload
    <3>1. /\ sealing' \in Ends /\ sealing'.at = "end" /\ sealing'.rec = r
          /\ sealing'.result = "ready"
      BY <1>5, <1>6, <2>3, FinishedIs DEF Settled
    <3>8. Types'  BY <1>1, <1>3, <1>5, <1>6, <2>1, <3>1 DEF Types
    <3>9. ASSUME NEW q \in Recordings PROVE Parts(q)'
      BY <1>1, <1>2, <1>3, <1>5, <1>6, <2>1, <2>3, <3>1, SealAssumption
      DEF Types, Inv, Parts,
          Unknown, Holder, Captures, Files, Finalizer, Copy, Ownership, Owes, Refuses,
       Held, StateOf, Unopened, Capturing, Settled, Resubmitted
    <3> QED BY <3>8, <3>9 DEF Inv, Parts
  <2> QED BY <2>2, <2>3
<1>7. CASE \E result \in {"ready", "needs_attention"} :
             /\ Finished(r, result) /\ UNCHANGED descriptor
             /\ result = "ready" => s.binding = NoTask
  <2>1. PICK result \in {"ready", "needs_attention"} :
          /\ Finished(r, result) /\ UNCHANGED descriptor
          /\ result = "ready" => s.binding = NoTask
    BY <1>7
  <2>2. /\ sealing' \in Ends /\ sealing'.at = "end" /\ sealing'.rec = r
        /\ sealing'.result = result
    BY <1>5, <2>1, FinishedIs DEF Settled
  <2>3. result = "ready" => ~Owes(jobs[r])
    BY <1>2, <1>4, <1>5, <2>1 DEF Owes
  <2>8. Types'  BY <1>1, <1>3, <2>1, <2>2 DEF Types
  <2>9. ASSUME NEW q \in Recordings PROVE Parts(q)'
    BY <1>1, <1>2, <1>3, <1>5, <2>1, <2>2, <2>3
    DEF Inv, Parts,
        Unknown, Holder, Captures, Files, Finalizer, Copy, Ownership, Owes, Refuses,
       Held, StateOf, Unopened, Capturing, Settled, Resubmitted
  <2> QED BY <2>8, <2>9 DEF Inv, Parts
<1> QED BY <1>5, <1>6, <1>7 DEF Seal

(* A recording that is handed to the queue is queued for its own task.     *)
LEMMA KeepEnqueueSealed ==
  ASSUME Inv, EnqueueSealed
  PROVE  Inv'
<1> DEFINE r == sealing.rec
<1>1. Types  BY DEF Inv
<1>2. sealing \in Seals /\ sealing.rec \in Recordings /\ sealing.rec \in pending /\ sealing # Resting
      /\ sealing.binding = jobs[sealing.rec].binding /\ (sealing.upload <=> Owes(jobs[sealing.rec]))
      /\ sealing.binding \in Tasks \cup {NoTask}
  <2>1. sealing \in Seals /\ sealing # Resting
    BY <1>1 DEF EnqueueSealed, Types, Seals, Ends, Resting
  <2> QED BY <2>1 DEF EnqueueSealed, Inv, Finalizer, Copy, Seals
<1>3. UNCHANGED <<jobs, lock, active, pending, closing, source, descriptor, handed, restarts>>
  BY DEF EnqueueSealed, outside
<1>4. jobs[r].binding \in Tasks /\ source[r] # "none" /\ sealing.binding = jobs[r].binding
  BY <1>2 DEF EnqueueSealed, Inv, Copy, Ownership, Finalizer, Owes, StateOf, Resubmitted
<1> HIDE DEF r
<1>5. r \in Recordings /\ r = sealing.rec  BY <1>2 DEF r
<1>6. CASE Enqueue(r, sealing.binding) /\ Finished(r, "queued")
  <2>1. /\ sealing' \in Ends /\ sealing'.at = "end" /\ sealing'.rec = r
        /\ sealing'.result = "queued"
    BY <1>5, <1>6, FinishedIs DEF Settled
  <2>2. queued' = [queued EXCEPT ![r] = jobs[r].binding] /\ queued[r] \in {NoTask, jobs[r].binding}
    BY <1>4, <1>6 DEF Enqueue
  <2>8. Types'  BY <1>1, <1>3, <1>4, <1>5, <2>1, <2>2 DEF Types
  <2>9. ASSUME NEW q \in Recordings PROVE Parts(q)'
    BY <1>1, <1>2, <1>3, <1>4, <1>5, <2>1, <2>2, NamesAssumption
    DEF Types, Inv, Parts,
        Unknown, Holder, Captures, Files, Finalizer, Copy, Ownership, Owes, Refuses,
       Held, StateOf, Unopened, Capturing, Settled, Resubmitted
  <2> QED BY <2>8, <2>9 DEF Inv, Parts
<1>7. CASE Finished(r, "needs_attention") /\ UNCHANGED queued
  <2>1. /\ sealing' \in Ends /\ sealing'.at = "end" /\ sealing'.rec = r
        /\ sealing'.result = "needs_attention"
    BY <1>5, <1>7, FinishedIs DEF Settled
  <2>8. Types'  BY <1>1, <1>3, <1>7, <2>1 DEF Types
  <2>9. ASSUME NEW q \in Recordings PROVE Parts(q)'
    BY <1>1, <1>2, <1>3, <1>5, <1>7, <2>1
    DEF Inv, Parts,
        Unknown, Holder, Captures, Files, Finalizer, Copy, Ownership, Owes, Refuses,
       Held, StateOf, Unopened, Capturing, Settled, Resubmitted
  <2> QED BY <2>8, <2>9 DEF Inv, Parts
<1> QED BY <1>5, <1>6, <1>7 DEF EnqueueSealed

LEMMA KeepConclude ==
  ASSUME Inv, Conclude
  PROVE  Inv'
<1>1. Types  BY DEF Inv
<1> DEFINE r == sealing.rec
           result == sealing.result
<1>2. /\ sealing # Resting /\ r \in Recordings /\ r \in pending /\ result \in Settled
      /\ sealing.at = "end" /\ lock = Free
  <2>1. sealing \in Ends /\ sealing # Resting
    BY <1>1 DEF Conclude, Types, Seals, Ends, Resting
  <2> QED BY <2>1 DEF Conclude, Inv, Finalizer, Ends
<1>3. jobs[r] \in Jobs
  BY <1>1, <1>2, KnownJobs DEF Inv, Finalizer, Resubmitted
<1>4. /\ Move(r, result) /\ pending' = pending \ {r} /\ sealing' = Resting
  BY DEF Conclude
<1>5. result \in States  BY <1>2 DEF States
<1>6. /\ result = "ready" => ~Owes(jobs[r])
      /\ result = "queued" => queued[r] = jobs[r].binding /\ queued[r] \in Tasks
  BY <1>2 DEF Inv, Copy
<1> HIDE DEF r, result
<1>11. /\ jobs' \in [Recordings -> Jobs \cup {NoJob}]
      /\ jobs'[r] \in Jobs /\ jobs'[r].state = result
      /\ jobs'[r].binding = jobs[r].binding /\ jobs'[r].wanted = jobs[r].wanted
      /\ jobs'[r].auto = jobs[r].auto
      /\ \A q \in Recordings : q # r => jobs'[q] = jobs[q]
  BY <1>1, <1>2, <1>3, <1>4, <1>5, Moved
<1>12. \A q \in Recordings : sealing.rec = q => q = r  BY DEF r
<1>7. UNCHANGED <<lock, active, closing, source, descriptor, queued, handed, restarts>>
  BY DEF Conclude, stored, outside
<1>8. Types'  BY <1>1, <1>2, <1>4, <1>6, <1>11, <1>12, <1>7 DEF Types
<1>9. ASSUME NEW q \in Recordings PROVE Parts(q)'
  BY <1>1, <1>2, <1>4, <1>6, <1>11, <1>12, <1>7
  DEF Inv, Parts,
      Unknown, Holder, Captures, Files, Finalizer, Copy, Ownership, Owes, Refuses,
       Held, StateOf, Unopened, Capturing, Settled, Resubmitted, Resting
<1> QED BY <1>8, <1>9 DEF Inv, Parts

LEMMA KeepAbandon ==
  ASSUME Inv, Abandon
  PROVE  Inv'
<1>1. Types  BY DEF Inv
<1>2. /\ closing /\ sealing' = Resting
      /\ pending' \in SUBSET pending
  BY <1>1 DEF Abandon, Types
<1>3. sealing'.at = "rest"  BY <1>2 DEF Resting
<1>7. UNCHANGED <<jobs, lock, active, closing, source, descriptor, queued, handed, restarts>>
  BY DEF Abandon, stored, outside
<1>8. Types'  BY <1>1, <1>2, <1>3, <1>7 DEF Types
<1>9. ASSUME NEW q \in Recordings PROVE Parts(q)'
  BY <1>1, <1>2, <1>3, <1>7
  DEF Inv, Parts,
      Unknown, Holder, Captures, Files, Finalizer, Copy, Ownership, Owes, Refuses,
       Held, StateOf, Unopened, Capturing, Settled, Resubmitted
<1> QED BY <1>8, <1>9 DEF Inv, Parts

(* The upload by hand, the service, the deletion.                          *)
LEMMA KeepBeginUpload ==
  ASSUME Inv, NEW r \in Recordings, NEW task \in Tasks, jobs[r] # NoJob, BeginUpload(r, task)
  PROVE  Inv'
<1>1. Types  BY DEF Inv
<1>2. jobs[r] \in Jobs /\ StateOf(r) \in States /\ jobs[r].state # "none"
  BY <1>1, KnownJobs DEF Known, StateOf
<1>3. /\ lock = Free /\ ~closing /\ ~Refuses(r) /\ r \notin pending
      /\ lock' \in Locks /\ lock' # Free /\ lock'.by = "upload" /\ lock'.rec = r
  BY Taken DEF BeginUpload, Ready, Busy
<1>4. UNCHANGED <<active, pending, sealing, closing, source, descriptor, queued, handed, restarts>>
  BY DEF BeginUpload, stored, outside
<1>5. CASE /\ jobs[r].binding = NoTask /\ descriptor[r] \in {Unsealed, NoTask}
           /\ jobs' = [jobs EXCEPT ![r] = [jobs[r] EXCEPT
                !.binding = task, !.wanted = TRUE, !.state = "upload_pending"]]
  <2>1. [jobs[r] EXCEPT !.binding = task, !.wanted = TRUE, !.state = "upload_pending"] \in Jobs
    BY <1>2 DEF Jobs, States
  <2>2. /\ jobs' \in [Recordings -> Jobs \cup {NoJob}]
        /\ jobs'[r] = [jobs[r] EXCEPT !.binding = task, !.wanted = TRUE, !.state = "upload_pending"]
        /\ \A q \in Recordings : q # r => jobs'[q] = jobs[q]
    BY <1>1, <1>5, <2>1 DEF Types
  <2>3. jobs'[r].state = "upload_pending" /\ jobs'[r].binding = task /\ jobs'[r].binding # NoTask
    BY <1>2, <2>2, NamesAssumption DEF Jobs
  <2>8. Types'  BY <1>1, <1>3, <1>4, <2>2 DEF Types
  <2>9. ASSUME NEW q \in Recordings PROVE Parts(q)'
    BY <1>1, <1>3, <1>4, <1>5, <2>2, <2>3, NamesAssumption, SealAssumption
    DEF Resting, Inv, Parts,
        Unknown, Holder, Captures, Files, Finalizer, Copy, Ownership, Owes, Refuses,
       Held, StateOf, Unopened, Capturing, Settled, Resubmitted
  <2> QED BY <2>8, <2>9 DEF Inv, Parts
<1>6. CASE jobs[r].binding = task /\ UNCHANGED jobs
  <2>8. Types'  BY <1>1, <1>3, <1>4, <1>6 DEF Types
  <2>9. ASSUME NEW q \in Recordings PROVE Parts(q)'
    BY <1>1, <1>2, <1>3, <1>4, <1>6, NamesAssumption, SealAssumption
    DEF Resting, Inv, Parts,
        Unknown, Holder, Captures, Files, Finalizer, Copy, Ownership, Owes, Refuses,
       Held, StateOf, Unopened, Capturing, Settled, Resubmitted
  <2> QED BY <2>8, <2>9 DEF Inv, Parts
<1> QED BY <1>1, <1>2, <1>5, <1>6 DEF BeginUpload, Types

LEMMA KeepEndUpload ==
  ASSUME Inv, EndUpload
  PROVE  Inv'
<1> DEFINE r == lock.rec
<1>1. Types  BY DEF Inv
<1>2. /\ r \in Recordings /\ lock # Free /\ Held("upload", r) /\ jobs[r] \in Jobs
      /\ lock' = Free
  BY HolderOf DEF EndUpload
<1>3. UNCHANGED <<active, sealing, closing, source, descriptor, queued, handed, restarts>>
  BY DEF EndUpload, stored, outside
<1>4. CASE queued[r] # NoTask /\ UNCHANGED <<jobs, pending>>
  <2>8. Types'  BY <1>1, <1>2, <1>3, <1>4 DEF Types
  <2>9. ASSUME NEW q \in Recordings PROVE Parts(q)'
    BY <1>1, <1>2, <1>3, <1>4
    DEF Inv, Parts,
        Unknown, Holder, Captures, Files, Finalizer, Copy, Ownership, Owes, Refuses,
       Held, StateOf, Unopened, Capturing, Settled, Resubmitted
  <2> QED BY <2>8, <2>9 DEF Inv, Parts
<1>5. CASE /\ jobs' = [jobs EXCEPT ![r] =
                [jobs[r] EXCEPT !.wanted = TRUE, !.state = "upload_pending"]]
           /\ pending' = pending \cup {r}
  <2>1. [jobs[r] EXCEPT !.wanted = TRUE, !.state = "upload_pending"] \in Jobs
    BY <1>2 DEF Jobs, States
  <2>2. /\ jobs' \in [Recordings -> Jobs \cup {NoJob}]
        /\ jobs'[r] = [jobs[r] EXCEPT !.wanted = TRUE, !.state = "upload_pending"]
        /\ \A q \in Recordings : q # r => jobs'[q] = jobs[q]
    BY <1>1, <1>2, <1>5, <2>1 DEF Types
  <2>3. jobs'[r].state = "upload_pending" /\ jobs'[r].binding = jobs[r].binding
    BY <1>2, <2>2 DEF Jobs
  <2>8. Types'  BY <1>1, <1>2, <1>3, <1>5, <2>2 DEF Types
  <2> HIDE DEF r
  <2>9. ASSUME NEW q \in Recordings PROVE Parts(q)'
    BY <1>1, <1>2, <1>3, <1>5, <2>2, <2>3
    DEF Resting, Inv, Parts,
        Unknown, Holder, Captures, Files, Finalizer, Copy, Ownership, Owes, Refuses,
       Held, StateOf, Unopened, Capturing, Settled, Resubmitted
  <2> QED BY <2>8, <2>9 DEF Inv, Parts
<1> QED BY <1>1, <1>2, <1>4, <1>5 DEF EndUpload, Submit, Types

LEMMA KeepReadDescriptor ==
  ASSUME Inv, NEW r \in Recordings, NEW task \in Tasks,
         ReadDescriptor(r, task)
  PROVE  Inv'
<1>1. Types  BY DEF Inv
<1>2. /\ descriptor[r] # Unsealed /\ handed' \in Hands /\ handed'.rec = r
  BY DEF ReadDescriptor, Hands
<1>7. UNCHANGED <<jobs, lock, active, pending, sealing, closing, source, descriptor, queued, restarts>>
  BY DEF ReadDescriptor, operations, stored
<1>8. Types'  BY <1>1, <1>2, <1>7 DEF Types
<1>9. ASSUME NEW q \in Recordings PROVE Parts(q)'
  BY <1>1, <1>2, <1>7
  DEF Inv, Parts,
      Unknown, Holder, Captures, Files, Finalizer, Copy, Ownership, Owes, Refuses,
       Held, StateOf, Unopened, Capturing, Settled, Resubmitted
<1> QED BY <1>8, <1>9 DEF Inv, Parts

LEMMA KeepEnqueueRead ==
  ASSUME Inv, EnqueueRead
  PROVE  Inv'
<1>1. Types  BY DEF Inv
<1>2. handed.rec \in Recordings /\ handed.binding \in Tasks /\ handed' = Resting
  BY <1>1 DEF EnqueueRead, Types, Hands
<1>3. UNCHANGED <<jobs, lock, active, pending, sealing, closing, source, descriptor, restarts>>
  BY DEF EnqueueRead, operations
<1>4. \/ UNCHANGED queued
      \/ /\ source[handed.rec] = "closed" /\ queued[handed.rec] \in {NoTask, handed.binding}
         /\ queued' = [queued EXCEPT ![handed.rec] = handed.binding]
  BY DEF EnqueueRead, Enqueue
<1>8. Types'  BY <1>1, <1>2, <1>3, <1>4 DEF Types
<1>9. ASSUME NEW q \in Recordings PROVE Parts(q)'
  <2>1. queued'[q] = queued[q] \/ (queued[q] = NoTask /\ queued'[q] \in Tasks /\ source[q] = "closed")
    BY <1>1, <1>2, <1>4 DEF Types
  <2> QED BY <1>1, <1>2, <1>3, <2>1, NamesAssumption
    DEF Inv, Parts,
        Unknown, Holder, Captures, Files, Finalizer, Copy, Ownership, Owes, Refuses,
       Held, StateOf, Unopened, Capturing, Settled, Resubmitted
<1> QED BY <1>8, <1>9 DEF Inv, Parts

LEMMA KeepBeginDelete ==
  ASSUME Inv, NEW r \in Recordings, jobs[r] # NoJob, BeginDelete(r)
  PROVE  Inv'
<1>1. Types  BY DEF Inv
<1>2. /\ lock = Free /\ source[r] # "none" /\ StateOf(r) \notin Capturing /\ r \notin pending
      /\ jobs[r].state # "none"
  <2>1. StateOf(r) # "none"  BY <1>1, KnownJobs DEF Known
  <2> QED BY <2>1 DEF BeginDelete, Ready, StateOf
<1>3. lock' \in Locks /\ lock' # Free /\ lock'.by = "delete" /\ lock'.rec = r
  BY Taken DEF BeginDelete
<1>7. UNCHANGED <<jobs, active, pending, sealing, closing, source, descriptor, queued, handed, restarts>>
  BY DEF BeginDelete, stored, outside
<1>8. Types'  BY <1>1, <1>2, <1>3, <1>7 DEF Types
<1>9. ASSUME NEW q \in Recordings PROVE Parts(q)'
  BY <1>1, <1>2, <1>3, <1>7
  DEF Inv, Parts,
      Unknown, Holder, Captures, Files, Finalizer, Copy, Ownership, Owes, Refuses,
       Held, StateOf, Unopened, Capturing, Settled, Resubmitted
<1> QED BY <1>8, <1>9 DEF Inv, Parts

LEMMA KeepUnlink ==
  ASSUME Inv, Unlink
  PROVE  Inv'
<1>1. Types  BY DEF Inv
<1> DEFINE r == lock.rec
<1>2. r \in Recordings /\ lock # Free /\ Held("delete", r)  BY HolderOf DEF Unlink, AtDelete
<1>3. \/ /\ source' = [source EXCEPT ![r] = "deleted"]
         /\ lock' \in Locks /\ lock' # Free /\ lock'.by = "delete" /\ lock'.rec = r
      \/ lock' = Free /\ UNCHANGED source
  BY <1>2, Taken DEF Unlink
<1>4. \A q \in Recordings : source'[q] = source[q] \/ (q = r /\ source'[q] = "deleted")
  BY <1>1, <1>2, <1>3 DEF Types
<1> HIDE DEF r
<1>5. \A q \in Recordings : lock.rec = q => q = r  BY DEF r
<1>7. UNCHANGED <<jobs, active, pending, sealing, closing, descriptor, queued, handed, restarts>>
  BY DEF Unlink, stored, outside
<1>8. Types'  BY <1>1, <1>2, <1>3, <1>4, <1>5, <1>7 DEF Types
<1>9. ASSUME NEW q \in Recordings PROVE Parts(q)'
  BY <1>1, <1>2, <1>3, <1>4, <1>5, <1>7
  DEF Inv, Parts,
      Unknown, Holder, Captures, Files, Finalizer, Copy, Ownership, Owes, Refuses,
       Held, StateOf, Unopened, Capturing, Settled, Resubmitted
<1> QED BY <1>8, <1>9 DEF Inv, Parts

LEMMA KeepMarkDeleted ==
  ASSUME Inv, MarkDeleted
  PROVE  Inv'
<1>1. Types  BY DEF Inv
<1> DEFINE r == lock.rec
<1>2. r \in Recordings /\ lock # Free /\ Held("delete", r) /\ jobs[r] \in Jobs
  BY HolderOf DEF MarkDeleted, AtDelete
<1>3. Move(r, "deleted") /\ "deleted" \in States /\ lock' = Free
  BY DEF MarkDeleted, States
<1> HIDE DEF r
<1>4. /\ jobs' \in [Recordings -> Jobs \cup {NoJob}]
      /\ jobs'[r] \in Jobs /\ jobs'[r].state = "deleted"
      /\ jobs'[r].binding = jobs[r].binding /\ jobs'[r].wanted = jobs[r].wanted
      /\ jobs'[r].auto = jobs[r].auto
      /\ \A q \in Recordings : q # r => jobs'[q] = jobs[q]
  BY <1>1, <1>2, <1>3, Moved
<1>7. UNCHANGED <<active, pending, sealing, closing, source, descriptor, queued, handed, restarts>>
  BY DEF MarkDeleted, stored, outside
<1>8. Types'  BY <1>1, <1>2, <1>3, <1>4, <1>7 DEF Types
<1>9. ASSUME NEW q \in Recordings PROVE Parts(q)'
  BY <1>1, <1>2, <1>3, <1>4, <1>7
  DEF Inv, Parts,
      Unknown, Holder, Captures, Files, Finalizer, Copy, Ownership, Owes, Refuses,
       Held, StateOf, Unopened, Capturing, Settled, Resubmitted
<1> QED BY <1>8, <1>9 DEF Inv, Parts

LEMMA KeepForget ==
  ASSUME Inv, NEW r \in Recordings, Forget(r)
  PROVE  Inv'
<1>1. Types  BY DEF Inv
<1>2. /\ lock = Free /\ source[r] = "none" /\ StateOf(r) \in Unopened
      /\ jobs' = [jobs EXCEPT ![r] = NoJob]
  BY DEF Forget, Ready
<1>3. /\ jobs' \in [Recordings -> Jobs \cup {NoJob}] /\ jobs'[r].state = "none"
      /\ \A q \in Recordings : q # r => jobs'[q] = jobs[q]
  BY <1>1, <1>2 DEF Types, NoJob
<1>7. UNCHANGED <<lock, active, pending, sealing, closing, source, descriptor, queued, handed, restarts>>
  BY DEF Forget, operations, stored, outside
<1>8. Types'  BY <1>1, <1>2, <1>3, SealAssumption, <1>7 DEF Types
<1>9. ASSUME NEW q \in Recordings PROVE Parts(q)'
  BY <1>1, <1>2, <1>3, SealAssumption, <1>7
  DEF Inv, Parts,
      Unknown, Holder, Captures, Files, Finalizer, Copy, Ownership, Owes, Refuses,
       Held, StateOf, Unopened, Capturing, Settled, Resubmitted, Resting
<1> QED BY <1>8, <1>9 DEF Inv, Parts

LEMMA KeepBeginClose ==
  ASSUME Inv, BeginClose
  PROVE  Inv'
<1>1. Types  BY DEF Inv
<1>2. closing' = TRUE  BY DEF BeginClose
<1>7. UNCHANGED <<jobs, lock, active, pending, sealing, source, descriptor, queued, handed, restarts>>
  BY DEF BeginClose, stored, outside
<1>8. Types'  BY <1>1, <1>2, <1>7 DEF Types
<1>9. ASSUME NEW q \in Recordings PROVE Parts(q)'
  BY <1>1, <1>2, <1>7
  DEF Inv, Parts,
      Unknown, Holder, Captures, Files, Finalizer, Copy, Ownership, Owes, Refuses,
       Held, StateOf, Unopened, Capturing, Settled, Resubmitted
<1> QED BY <1>8, <1>9 DEF Inv, Parts

(* A restart keeps the files and the saved jobs and nothing else.          *)
LEMMA KeepRestart ==
  ASSUME Inv, Restart
  PROVE  Inv'
<1>1. Types  BY DEF Inv
<1>2. /\ lock' = Free /\ active' = NoRecording /\ sealing' = Resting /\ handed' = Resting
      /\ closing' = FALSE /\ pending' = {r \in Known : StateOf(r) \in Resubmitted}
      /\ UNCHANGED <<source, descriptor, queued>>
  BY DEF Restart, stored
<1>3. restarts' \in 0..MaxRestarts
  BY <1>1, BoundAssumption DEF Restart, Types
<1>4. ASSUME NEW r \in Recordings
      PROVE  /\ jobs'[r] \in Jobs \cup {NoJob}
             /\ jobs[r] = NoJob => jobs'[r] = NoJob
             /\ jobs[r] \in Jobs =>
                  /\ jobs'[r].state = Resumed(StateOf(r))
                  /\ jobs'[r].binding = jobs[r].binding /\ jobs'[r].wanted = jobs[r].wanted
                  /\ jobs'[r].auto = jobs[r].auto
  <2>1. jobs'[r] = IF r \in Known THEN [jobs[r] EXCEPT !.state = Resumed(jobs[r].state)] ELSE NoJob
    BY DEF Restart
  <2>2. CASE jobs[r] \in Jobs
    <3>1. r \in Known /\ jobs[r] # NoJob /\ StateOf(r) \in States
      BY <1>1, <2>2, KnownJobs DEF Known
    <3>2. Resumed(jobs[r].state) \in States
      BY <3>1 DEF Resumed, States, StateOf
    <3>3. jobs'[r] = [jobs[r] EXCEPT !.state = Resumed(jobs[r].state)]  BY <2>1, <3>1
    <3> QED BY <2>2, <3>1, <3>2, <3>3 DEF Jobs, StateOf
  <2>3. CASE jobs[r] = NoJob
    <3>1. r \notin Known /\ jobs[r] \notin Jobs  BY <1>1, <2>3, KnownJobs DEF Known
    <3> QED BY <2>1, <2>3, <3>1
  <2> QED BY <1>1, <2>2, <2>3 DEF Types
<1>5. jobs' \in [Recordings -> Jobs \cup {NoJob}]
  <2>1. jobs' = [r \in Recordings |-> jobs'[r]]  BY DEF Restart
  <2> QED BY <1>4, <2>1
<1>6. pending' \in SUBSET Recordings  BY <1>2 DEF Known
<1>8. Types'  BY <1>1, <1>2, <1>3, <1>5, <1>6 DEF Types
<1>9. ASSUME NEW q \in Recordings PROVE Parts(q)'
  <2>1. CASE jobs[q] \in Jobs
    <3>1. q \in pending' <=> StateOf(q) \in Resubmitted
      BY <1>1, <1>2, <2>1, KnownJobs
    <3>2. StateOf(q) \in States  BY <1>1, <2>1, KnownJobs
    <3> QED BY <1>2, <1>4, <2>1, <3>1, <3>2, NamesAssumption
      DEF Resumed, States, Resting, Inv, Parts,
          Unknown, Holder, Captures, Files, Finalizer, Copy, Ownership, Owes, Refuses,
       Held, StateOf, Unopened, Capturing, Settled, Resubmitted
  <2>2. CASE jobs[q] = NoJob
    <3>1. q \notin pending'  BY <1>2, <2>2 DEF Known
    <3>2. jobs'[q].state = "none" /\ jobs[q].state = "none"  BY <1>4, <2>2 DEF NoJob
    <3> QED BY <1>2, <3>1, <3>2, NamesAssumption, SealAssumption
      DEF Resting, Inv, Parts,
          Unknown, Holder, Captures, Files, Finalizer, Copy, Ownership, Owes, Refuses,
       Held, StateOf, Unopened, Capturing, Settled, Resubmitted
  <2> QED BY <1>1, <2>1, <2>2 DEF Types
<1> QED BY <1>8, <1>9 DEF Inv, Parts

LEMMA InvInitial == Init => Inv
<1> SUFFICES ASSUME Init PROVE Inv  OBVIOUS
<1>1. Types
  <2>1. restarts \in 0..MaxRestarts  BY BoundAssumption DEF Init
  <2>2. /\ jobs \in [Recordings -> Jobs \cup {NoJob}]
        /\ source \in [Recordings -> {"none", "open", "closed", "deleted"}]
        /\ descriptor \in [Recordings -> Tasks \cup {NoTask, Unsealed}]
        /\ queued \in [Recordings -> Tasks \cup {NoTask}]
    BY DEF Init
  <2>3. pending \in SUBSET Recordings /\ closing \in BOOLEAN
    BY DEF Init
  <2> QED BY <2>1, <2>2, <2>3 DEF Init, Types
<1>2. ASSUME NEW q \in Recordings PROVE Parts(q)
  BY NamesAssumption, SealAssumption
  DEF Init, NoJob, Resting, Free, Parts,
      Unknown, Holder, Captures, Files, Finalizer, Copy, Ownership, Owes, Refuses,
       Held, StateOf, Unopened, Capturing, Settled, Resubmitted
<1> QED BY <1>1, <1>2 DEF Inv, Parts

LEMMA InvKept == Inv /\ [Next]_vars => Inv'
<1> SUFFICES ASSUME Inv, [Next]_vars PROVE Inv'  OBVIOUS
<1>1. CASE \E asked \in Requests, intent \in Tasks \cup {NoTask}, r \in Recordings :
             BeginStart(asked, intent, r)
  BY <1>1, KeepBeginStart
<1>2. CASE \/ Prepare \/ Bind \/ MarkStarting \/ OpenWriter \/ EndStart \/ FailStart
           \/ BeginStop \/ EndStop
  BY <1>2, KeepPrepare, KeepBind, KeepMarkStarting, KeepOpenWriter, KeepEndStart,
     KeepFailStart, KeepBeginStop, KeepEndStop
<1>3. CASE TakePending \/ Seal \/ EnqueueSealed \/ Conclude \/ Abandon
  BY <1>3, KeepTakePending, KeepSeal, KeepEnqueueSealed, KeepConclude, KeepAbandon
<1>4. CASE \E r \in Known, task \in Tasks : BeginUpload(r, task)
  BY <1>4, KeepBeginUpload DEF Known
<1>5. CASE \E r \in Recordings, task \in Tasks : ReadDescriptor(r, task)
  BY <1>5, KeepReadDescriptor
<1>6. CASE EndUpload \/ EnqueueRead \/ Unlink \/ MarkDeleted \/ BeginClose \/ Restart
  BY <1>6, KeepEndUpload, KeepEnqueueRead, KeepUnlink, KeepMarkDeleted, KeepBeginClose, KeepRestart
<1>7. CASE \E r \in Known : BeginDelete(r) \/ Forget(r)
  BY <1>7, KeepBeginDelete, KeepForget DEF Known
<1>8. CASE UNCHANGED vars
  <2>1. Types'  BY <1>8 DEF Inv, Types, vars, operations, stored, outside
  <2>2. ASSUME NEW q \in Recordings PROVE Parts(q)'
    BY <1>8 DEF vars, operations, stored, outside, Inv, Parts,
        Unknown, Holder, Captures, Files, Finalizer, Copy, Ownership, Owes, Refuses,
       Held, StateOf, Unopened, Capturing, Settled, Resubmitted
  <2> QED BY <2>1, <2>2 DEF Inv, Parts
<1> QED BY <1>1, <1>2, <1>3, <1>4, <1>5, <1>6, <1>7, <1>8 DEF Next

THEOREM InvAlways == Spec => []Inv
<1>1. Init => Inv  BY InvInitial
<1>2. Inv /\ [Next]_vars => Inv'  BY InvKept
<1> QED BY <1>1, <1>2, PTL DEF Spec

---------------------------------------------------------------------------
(* The variables of the recorder keep their types, and exactly the active  *)
(* recording captures while no operation holds the lock: TaskRecorder's    *)
(* start, stop, finish, upload_recording, delete_recording and __init__.   *)
THEOREM RecorderTypeCorrect == Spec => []TaskTypeOK
<1>1. Inv => TaskTypeOK
  <2> SUFFICES ASSUME Inv PROVE TaskTypeOK  OBVIOUS
  <2>1. Types  BY DEF Inv
  <2>2. \A r \in Recordings : r \in Known <=> StateOf(r) # "none"  BY <2>1, KnownJobs
  <2>3. active \in Known \cup {NoRecording}
    BY <2>1, <2>2 DEF Inv, Captures, Types
  <2>4. pending \in SUBSET Known
    BY <2>1, <2>2 DEF Inv, Finalizer, Types, Resubmitted
  <2>5. lock \in [by: {"start", "stop", "upload", "delete"}, rec: Known,
               at: {"prepare", "bind", "mark", "open", "save", "close", "queue", "unlink"}] \cup {Free}
    <3>1. CASE lock = Free  BY <3>1
    <3>2. CASE lock # Free
      <4>1. lock \in Locks /\ lock.rec \in Recordings  BY <2>1, <3>2 DEF Types, Locks
      <4>2. lock.rec \in Known  BY <2>2, <3>2, <4>1 DEF Inv, Unknown, StateOf
      <4> QED BY <4>1, <4>2 DEF Locks
    <3> QED BY <3>1, <3>2
  <2>6. sealing \in [at: {"seal", "queue"}, rec: pending, binding: Tasks \cup {NoTask},
                  upload: BOOLEAN] \cup [at: {"end"}, rec: pending, result: Settled]
                  \cup {Resting}
    <3>1. CASE sealing = Resting  BY <3>1
    <3>2. CASE sealing # Resting /\ sealing \in Seals
      <4>1. sealing.rec \in pending  BY <3>2 DEF Inv, Finalizer, Seals
      <4> QED BY <3>2, <4>1 DEF Seals
    <3>3. CASE sealing # Resting /\ sealing \in Ends
      <4>1. sealing.rec \in pending  BY <3>3 DEF Inv, Finalizer, Ends
      <4> QED BY <3>3, <4>1 DEF Ends
    <3> QED BY <2>1, <3>1, <3>2, <3>3 DEF Types
  <2>7. lock = Free => \A r \in Known : StateOf(r) \in Capturing <=> r = active
    BY DEF Inv, Captures, Held, Capturing, Known
  <2> QED BY <2>1, <2>3, <2>4, <2>5, <2>6, <2>7 DEF TaskTypeOK, Types, Hands
<1> QED BY <1>1, InvAlways, PTL

(* Whatever stops, uploads, crashes and restarts happen in between, a      *)
(* recording saved for the finalizer is in its list.                       *)
THEOREM WorkIsPending == Spec => []PendingWork
<1>1. Inv => PendingWork
  BY DEF Inv, Finalizer, PendingWork, Known, Held
<1> QED BY <1>1, InvAlways, PTL

(* A recording whose file exists is never started again.                   *)
THEOREM CapturedOnce == Spec => []NoSecondCapture
<1>1. Inv => NoSecondCapture
  BY DEF Inv, Files, NoSecondCapture, Known
<1> QED BY <1>1, InvAlways, PTL

(* The job, the sealed descriptor and the upload queue name one task.      *)
THEOREM TaskIsOne == Spec => []OneTask
<1>1. Inv => OneTask
  BY DEF Inv, Ownership, OneTask, Known
<1> QED BY <1>1, InvAlways, PTL

(* A recording at rest owes no upload.                                     *)
THEOREM NothingOwed == Spec => []ReadyOwesNothing
<1>1. Inv => ReadyOwesNothing
  BY DEF Inv, Ownership, ReadyOwesNothing, Known, Owes
<1> QED BY <1>1, InvAlways, PTL

-----------------------------------------------------------------------------
(* CorrectionCapture.                                                      *)

Grades == {"review", "warning", "ok"}
Changes == [job: Corrections, state: {"capturing", "draining"}]
Results == [slot: Slots, grade: Grades]
Opens == [op: {"open"}, slot: Slots, window: Windows]
Closes == [op: {"close"}, window: Windows, last: Nat]
Boundaries == Opens \cup Closes \cup [op: {"finish"}]
Commands == [window: Windows, command: Nat]
SlotStates == {"preparing", "prepared", "waiting", "capturing", "draining", "complete"}
RegStates == {"none", "armed", "capturing", "draining", "source_complete", "failed", "deleted"}
RouterWindows == [slot: Slots \cup {NoSlot}, got: SUBSET Nat, last: Nat \cup {-1}, rejected: BOOLEAN]
Sessions ==
  [mode: {"corrections_only", "full_session"}, stage: {"new", "up", "stopping", "stopped"},
   closing: BOOLEAN, active: Slots \cup {NoSlot}, token: Windows \cup {0}, error: BOOLEAN,
   prepared: Seq(Slots)]
SlotRecords == [state: SlotStates, job: Corrections \cup {0}, writer: BOOLEAN]
JobRecords ==
  [window: Windows \cup {0}, state: {"armed", "capturing", "draining", "source_complete", "failed"},
   grade: Grades \cup {"none"}]
Monitors ==
  [pc: {"ended", "loop", "save", "finish", "prepare"}, changes: Seq(Changes),
   result: [slot: Slots \cup {NoSlot}, grade: Grades \cup {"none"}]]
Routers == [runs: BOOLEAN, ending: BOOLEAN, rejected: BOOLEAN, windows: [Windows -> RouterWindows]]
Controls ==
  [window: Windows \cup {0}, manual: BOOLEAN, segment: BOOLEAN, issued: [Windows -> Nat],
   closing: BOOLEAN, commands: Nat]

(* The variables keep their types.                                         *)
CaptureTypeOK ==
  /\ ses \in Sessions /\ slot \in [Slots -> SlotRecords] /\ job \in [Corrections -> JobRecords]
  /\ reg \in [Corrections -> RegStates] /\ events \in Seq(Changes)
  /\ mon \in Monitors /\ router \in Routers /\ ctl \in Controls
  /\ boundaries \in Seq(Boundaries) /\ actions \in Seq(Commands) /\ completed \in Seq(Results)
  /\ file \in [Corrections -> SUBSET Commands] /\ faults \in Nat

Working == {"capturing", "draining"}
InWindows == ses.mode = "corrections_only" /\ ses.stage # "new"
InSession == ses.mode = "full_session"

(* What the session, the monitor and the manual control agree on.          *)
StagesAgree ==
  /\ ses.stage = "new" => CaptureInit
  /\ ses.closing = TRUE <=> ses.stage \in {"stopping", "stopped"}
  /\ ses.active # NoSlot => ses.stage = "up"
  /\ mon.pc = "ended" /\ ses.stage # "new" /\ ses.error = FALSE =>
       ses.closing = TRUE /\ \A s \in Slots : slot[s].state \notin Working
  /\ ses.stage = "stopped" => mon.pc = "ended" /\ router.runs = FALSE
  /\ mon.pc \in {"finish", "prepare"} <=> mon.result.slot # NoSlot
  /\ mon.pc = "finish" => mon.result.grade \in Grades
  /\ ctl.closing = TRUE => ctl.segment = TRUE
  /\ ctl.segment = TRUE => ctl.manual = TRUE
  /\ ctl.manual = TRUE => ctl.window # 0

(* A full session has one slot and one job.                                *)
OneForAll ==
  InSession =>
    /\ ses.stage # "new"
    /\ \A s \in Slots : s # First => slot[s].state = "preparing"
    /\ slot[First].job = First /\ slot[First].state \in Working \cup {"complete"}
    /\ slot[First].state = "complete" => reg[First] \in Closed
    /\ \A j \in Corrections : j # First => reg[j] = "none"
    /\ events = <<>> /\ mon.changes = <<>> /\ ses.prepared = <<>>
    /\ mon.pc # "prepare" /\ (mon.result.slot = NoSlot \/ mon.result.slot = First)
    /\ (ses.active = NoSlot \/ ses.active = First) /\ ctl.closing = FALSE
    /\ \A i \in DOMAIN completed : completed[i].slot = First

(* Whose job a slot has, and what the registry says of it.                 *)
JobsAreOwned ==
  InWindows =>
    /\ \A s \in Slots :
         /\ slot[s].state # "preparing" /\ slot[s].job # 0 /\ reg[slot[s].job] # "none"
         /\ slot[s].state = "prepared" =>
              /\ job[slot[s].job].window = 0 /\ reg[slot[s].job] \in {"armed", "deleted"}
              /\ file[slot[s].job] = {}
         /\ slot[s].state # "prepared" => job[slot[s].job].window # 0
         /\ slot[s].state \in {"waiting", "complete"} => reg[slot[s].job] \in Closed
    /\ \A s \in Slots, t \in Slots : slot[s].job = slot[t].job => s = t
    /\ \A j \in Corrections :
         /\ reg[j] = "none" => job[j].window = 0 /\ file[j] = {}
         /\ job[j].window = 0 /\ reg[j] \notin {"none", "deleted"} =>
              \E s \in Slots : slot[s].job = j /\ slot[s].state = "prepared"
         /\ job[j].window # 0 /\ reg[j] \notin Closed =>
              \E s \in Slots : slot[s].job = j /\ slot[s].state \in Working
         /\ job[j].window <= ctl.window
    /\ \A i \in Corrections, j \in Corrections :
         job[i].window = job[j].window /\ job[i].window # 0 => i = j
    /\ \A i \in DOMAIN ses.prepared : slot[ses.prepared[i]].state = "prepared"
    /\ \A i \in DOMAIN ses.prepared, k \in DOMAIN ses.prepared :
         ses.prepared[i] = ses.prepared[k] => i = k
    /\ \A i \in DOMAIN events : job[events[i].job].window # 0
    /\ \A i \in DOMAIN mon.changes : job[mon.changes[i].job].window # 0

(* Where the window of a slot is: its opening in the queue, in the router, *)
(* its result in the queue, or with the monitor; never in two places.      *)
Opening(i, s) == boundaries[i].op = "open" /\ boundaries[i].slot = s
OpenSlots == {s \in Slots : \E i \in DOMAIN boundaries : Opening(i, s)}
RoutedSlots == {s \in Slots : \E n \in Windows : router.windows[n].slot = s}
DoneSlots == {s \in Slots : \E i \in DOMAIN completed : completed[i].slot = s}
MonitorSlots == {s \in Slots : mon.result.slot = s}
FinishingSlots == {s \in Slots : mon.pc = "finish" /\ mon.result.slot = s}
PlacesApart ==
  InWindows =>
    /\ OpenSlots \cap RoutedSlots = {} /\ OpenSlots \cap DoneSlots = {}
    /\ OpenSlots \cap MonitorSlots = {} /\ RoutedSlots \cap DoneSlots = {}
    /\ RoutedSlots \cap MonitorSlots = {} /\ DoneSlots \cap MonitorSlots = {}
    /\ \A s \in Slots, i \in DOMAIN boundaries, k \in DOMAIN boundaries :
         Opening(i, s) /\ Opening(k, s) => i = k
    /\ \A i \in DOMAIN completed, k \in DOMAIN completed :
         completed[i].slot = completed[k].slot => i = k
WindowsFit ==
  InWindows =>
    /\ \A s \in OpenSlots \cup RoutedSlots \cup DoneSlots \cup FinishingSlots :
         slot[s].state \in Working /\ reg[slot[s].job] # "source_complete"
    /\ mon.pc = "prepare" =>
         \A s \in MonitorSlots :
           slot[s].state \in {"complete", "draining"} /\ reg[slot[s].job] \in Closed
    /\ \A i \in DOMAIN boundaries, s \in Slots :
         Opening(i, s) => job[slot[s].job].window = boundaries[i].window /\ file[slot[s].job] = {}
    /\ \A n \in Windows, s \in Slots :
         router.windows[n].slot = s => job[slot[s].job].window = n

(* The window that is open, and what shows that it is being closed.        *)
Closing(i, n) == boundaries[i].op = "close" /\ boundaries[i].window = n
ActiveIsOpen ==
  InWindows =>
    /\ ctl.segment = TRUE => ses.active # NoSlot /\ ses.token = ctl.window
    /\ ses.active # NoSlot =>
         /\ job[slot[ses.active].job].window = ses.token /\ ses.token # 0
         /\ \/ slot[ses.active].state = "capturing"
            \/ /\ slot[ses.active].state = "complete" /\ ctl.closing = TRUE
               /\ (mon.pc = "prepare" /\ mon.result.slot = ses.active) \/ mon.pc = "ended"
         /\ ctl.closing = FALSE =>
              /\ \A i \in DOMAIN boundaries : ~Closing(i, ses.token)
              /\ router.windows[ses.token].last = -1
              /\ ses.active \notin DoneSlots \cup MonitorSlots
              /\ router.runs = TRUE => ses.active \in OpenSlots \cup RoutedSlots

(* A window is closed once, after it was opened, with all its commands.    *)
Over(n) == n < ctl.window \/ ctl.manual = FALSE \/ ctl.closing = TRUE
ClosedInOrder ==
  InWindows =>
    /\ \A i \in DOMAIN boundaries, n \in Windows :
         Closing(i, n) =>
           /\ boundaries[i].last = ctl.issued[n] /\ Over(n) /\ n <= ctl.window
           /\ router.windows[n].last = -1
           /\ \A k \in DOMAIN boundaries : Closing(k, n) => i = k
           /\ router.runs = TRUE /\ router.windows[n].slot = NoSlot =>
                \E k \in DOMAIN boundaries :
                  k < i /\ boundaries[k].op = "open" /\ boundaries[k].window = n
    /\ \A n \in Windows :
         router.windows[n].last # -1 =>
           router.windows[n].slot # NoSlot /\ router.windows[n].last = ctl.issued[n] /\ Over(n)

(* What a file holds, as far as a grade vouches for it.                    *)
Complete(j) == file[j] = Issued(job[j].window) /\ job[j].window # 0 /\ Over(job[j].window)
GradesVouch ==
  InWindows =>
    /\ \A i \in DOMAIN actions : actions[i].command \in 1..ctl.issued[actions[i].window]
    /\ \A n \in Windows, s \in Slots : router.windows[n].slot = s =>
         /\ router.windows[n].got \subseteq 1..ctl.issued[n]
         /\ router.windows[n].rejected = FALSE =>
              file[slot[s].job] = {[window |-> n, command |-> c] : c \in router.windows[n].got}
    /\ \A i \in DOMAIN completed :
         completed[i].grade = "ok" => Complete(slot[completed[i].slot].job)
    /\ \A s \in FinishingSlots : mon.result.grade = "ok" => Complete(slot[s].job)
    /\ \A j \in Corrections :
         reg[j] = "source_complete" /\ job[j].grade = "ok" => Complete(j)

CaptureInv ==
  /\ CaptureTypeOK /\ StagesAgree /\ OneForAll /\ JobsAreOwned /\ PlacesApart /\ WindowsFit
  /\ ActiveIsOpen /\ ClosedInOrder /\ GradesVouch /\ StopSettles

(* What the assumptions say of slots, windows and jobs.                    *)
LEMMA CaptureNumbers ==
  /\ PreparedSlots \in Nat /\ PreparedSlots >= 1 /\ MaxWindows \in Nat /\ First \in Slots
  /\ Slots \subseteq Corrections /\ NoSlot \notin Slots /\ 0 \notin Windows /\ 0 \notin Corrections
  /\ Slots \subseteq Nat /\ Windows \subseteq Nat /\ Corrections \subseteq Nat
<1>1. PreparedSlots \in Nat \ {0} /\ MaxWindows \in Nat
  BY SlotsAssumption, LimitsAssumption
<1> QED
  BY <1>1 DEF Slots, Windows, Corrections, First, NoSlot

(* The invariant holds before a session is prepared.                       *)
LEMMA CaptureInitially == CaptureInit => CaptureInv
<1> SUFFICES ASSUME CaptureInit PROVE CaptureInv
  OBVIOUS
<1> USE CaptureNumbers
<1>1. CaptureTypeOK
  <2>1. ses \in Sessions
    BY DEF CaptureInit, Sessions
  <2>2. slot \in [Slots -> SlotRecords] /\ job \in [Corrections -> JobRecords]
    BY DEF CaptureInit, SlotRecords, JobRecords, SlotStates
  <2>3. reg \in [Corrections -> RegStates] /\ events \in Seq(Changes) /\ file \in [Corrections -> SUBSET Commands]
    BY DEF CaptureInit, RegStates
  <2>4. mon \in Monitors
    BY DEF CaptureInit, Monitors, NoResult
  <2>5. router \in Routers
    BY DEF CaptureInit, Routers, NoRouter, NoWindow, RouterWindows
  <2>6. ctl \in Controls
    BY DEF CaptureInit, Controls
  <2>7. boundaries \in Seq(Boundaries) /\ actions \in Seq(Commands) /\ completed \in Seq(Results)
    BY DEF CaptureInit
  <2>8. faults \in Nat
    BY DEF CaptureInit
  <2> QED
    BY <2>1, <2>2, <2>3, <2>4, <2>5, <2>6, <2>7, <2>8 DEF CaptureTypeOK
<1>2. StagesAgree
  BY DEF CaptureInit, StagesAgree, NoResult, NoRouter
<1>3. ~InWindows /\ ~InSession /\ ses.stage = "new"
  BY DEF CaptureInit, InWindows, InSession
<1> QED
  BY <1>1, <1>2, <1>3 DEF CaptureInv, OneForAll, JobsAreOwned, PlacesApart, WindowsFit, ActiveIsOpen,
     ClosedInOrder, GradesVouch, StopSettles

(* The types of the fields that the steps below look at.                   *)
LEMMA CaptureFields ==
  ASSUME CaptureTypeOK
  PROVE  /\ ses.mode \in {"corrections_only", "full_session"}
         /\ ses.stage \in {"new", "up", "stopping", "stopped"} /\ ses.closing \in BOOLEAN
         /\ ses.active \in Slots \cup {NoSlot} /\ ses.token \in Windows \cup {0}
         /\ ses.error \in BOOLEAN /\ ses.prepared \in Seq(Slots)
         /\ \A s \in Slots : /\ slot[s].state \in SlotStates /\ slot[s].job \in Corrections \cup {0}
                             /\ slot[s].writer \in BOOLEAN
         /\ \A j \in Corrections : /\ job[j].window \in Windows \cup {0}
                                   /\ job[j].grade \in Grades \cup {"none"} /\ reg[j] \in RegStates
         /\ mon.pc \in {"ended", "loop", "save", "finish", "prepare"} /\ mon.changes \in Seq(Changes)
         /\ mon.result.slot \in Slots \cup {NoSlot} /\ mon.result.grade \in Grades \cup {"none"}
         /\ router.runs \in BOOLEAN /\ router.rejected \in BOOLEAN
         /\ \A n \in Windows :
              /\ router.windows[n].slot \in Slots \cup {NoSlot} /\ router.windows[n].got \in SUBSET Nat
              /\ router.windows[n].last \in Nat \cup {-1} /\ router.windows[n].rejected \in BOOLEAN
         /\ ctl.window \in Windows \cup {0} /\ ctl.manual \in BOOLEAN /\ ctl.segment \in BOOLEAN
         /\ ctl.closing \in BOOLEAN /\ \A n \in Windows : ctl.issued[n] \in Nat
<1>1. /\ ses.mode \in {"corrections_only", "full_session"}
      /\ ses.stage \in {"new", "up", "stopping", "stopped"} /\ ses.closing \in BOOLEAN
      /\ ses.active \in Slots \cup {NoSlot} /\ ses.token \in Windows \cup {0}
      /\ ses.error \in BOOLEAN /\ ses.prepared \in Seq(Slots)
  BY DEF CaptureTypeOK, Sessions
<1>2. \A s \in Slots : /\ slot[s].state \in SlotStates /\ slot[s].job \in Corrections \cup {0}
                       /\ slot[s].writer \in BOOLEAN
  BY DEF CaptureTypeOK, SlotRecords
<1>3. \A j \in Corrections : /\ job[j].window \in Windows \cup {0}
                             /\ job[j].grade \in Grades \cup {"none"} /\ reg[j] \in RegStates
  BY DEF CaptureTypeOK, JobRecords
<1>4. /\ mon.pc \in {"ended", "loop", "save", "finish", "prepare"} /\ mon.changes \in Seq(Changes)
      /\ mon.result.slot \in Slots \cup {NoSlot} /\ mon.result.grade \in Grades \cup {"none"}
  BY DEF CaptureTypeOK, Monitors
<1>5. /\ router.runs \in BOOLEAN /\ router.rejected \in BOOLEAN
      /\ \A n \in Windows :
           /\ router.windows[n].slot \in Slots \cup {NoSlot} /\ router.windows[n].got \in SUBSET Nat
           /\ router.windows[n].last \in Nat \cup {-1} /\ router.windows[n].rejected \in BOOLEAN
  BY DEF CaptureTypeOK, Routers, RouterWindows
<1>6. /\ ctl.window \in Windows \cup {0} /\ ctl.manual \in BOOLEAN /\ ctl.segment \in BOOLEAN
      /\ ctl.closing \in BOOLEAN /\ \A n \in Windows : ctl.issued[n] \in Nat
  BY DEF CaptureTypeOK, Controls
<1> QED
  BY <1>1, <1>2, <1>3, <1>4, <1>5, <1>6

(* A session that is up is that of one mode.                               *)
LEMMA ModeIsKept ==
  ASSUME CaptureTypeOK, ses.stage # "new"
  PROVE  (InWindows <=> ~Full) /\ (InSession <=> Full)
BY CaptureFields DEF InWindows, InSession, Full

(* The counters that are compared are integers.                            *)
LEMMA CaptureIntegers ==
  ASSUME CaptureTypeOK
  PROVE  /\ ctl.window \in Nat /\ ses.token \in Nat
         /\ \A j \in Corrections : job[j].window \in Nat
         /\ \A n \in Windows : n \in Nat /\ ctl.issued[n] \in Nat /\ router.windows[n].last \in Int
<1>1. ctl.window \in Windows \cup {0} /\ ses.token \in Windows \cup {0}
  BY CaptureFields
<1>2. \A j \in Corrections : job[j].window \in Windows \cup {0}
  BY CaptureFields
<1>3. \A n \in Windows : ctl.issued[n] \in Nat /\ router.windows[n].last \in Nat \cup {-1}
  BY CaptureFields
<1>4. \A x \in Windows \cup {0} : x \in Nat
  BY CaptureNumbers DEF Windows
<1>5. \A x \in Nat \cup {-1} : x \in Int
  OBVIOUS
<1> QED
  BY <1>1, <1>2, <1>3, <1>4, <1>5

(* How the manual control moves: what is over stays as it is.              *)
ControlMoves ==
  /\ ctl' \in Controls /\ ctl.window <= ctl'.window
  /\ \A n \in Windows : n <= ctl.window /\ Over(n) => Over(n)' /\ ctl'.issued[n] = ctl.issued[n]
  /\ \A n \in Windows : ctl'.issued[n] >= ctl.issued[n]

(* A file with all commands of a window that is over stays so.             *)
LEMMA CompleteStays ==
  ASSUME CaptureTypeOK, ControlMoves, NEW j \in Corrections, Complete(j),
         job[j].window <= ctl.window, job'[j].window = job[j].window, file'[j] = file[j]
  PROVE  Complete(j)'
<1>1. job[j].window \in Windows
  BY CaptureFields DEF Complete
<1>2. Over(job[j].window)' /\ ctl'.issued[job[j].window] = ctl.issued[job[j].window]
  BY <1>1 DEF ControlMoves, Complete
<1>3. Issued(job[j].window)' = Issued(job[j].window)
  BY <1>2 DEF Issued
<1> QED
  BY <1>2, <1>3 DEF Complete

(* The control may move on: what is queued keeps its order.                *)
LEMMA ControlKeepsOrder ==
  ASSUME CaptureInv, ControlMoves, UNCHANGED <<boundaries, router>>,
         ses'.mode = ses.mode, ses'.stage = ses.stage
  PROVE  ClosedInOrder'
<1>1. CaptureTypeOK /\ ClosedInOrder /\ WindowsFit /\ JobsAreOwned
  BY DEF CaptureInv
<1> SUFFICES ASSUME InWindows
             PROVE  ClosedInOrder'
  BY DEF ClosedInOrder, InWindows
<1>2. /\ \A n \in Windows : n <= ctl.window => n <= ctl'.window
      /\ \A i, n : Closing(i, n)' = Closing(i, n)
  <2>1. ctl'.window \in Windows \cup {0}
    BY DEF ControlMoves, Controls
  <2>2. ctl'.window \in Nat /\ ctl.window \in Nat /\ \A n \in Windows : n \in Nat
    BY <1>1, <2>1, CaptureIntegers, CaptureNumbers DEF Windows
  <2>3. \A n \in Windows : n <= ctl.window => n <= ctl'.window
    BY <2>2 DEF ControlMoves
  <2> QED
    BY <2>3 DEF Closing
<1>3. \A n \in Windows, s \in Slots : router.windows[n].slot = s => n <= ctl.window
  <2> SUFFICES ASSUME NEW n \in Windows, NEW s \in Slots, router.windows[n].slot = s
               PROVE  n <= ctl.window
    OBVIOUS
  <2>1. slot[s].job \in Corrections
    BY <1>1, CaptureFields DEF JobsAreOwned
  <2> QED
    BY <1>1, <2>1 DEF WindowsFit, JobsAreOwned
<1>4. \A i \in DOMAIN boundaries, n \in Windows :
         Closing(i, n) =>
           /\ boundaries[i].last = ctl'.issued[n] /\ Over(n)' /\ n <= ctl'.window
           /\ router.windows[n].last = -1
           /\ \A k \in DOMAIN boundaries : Closing(k, n) => i = k
           /\ router.runs = TRUE /\ router.windows[n].slot = NoSlot =>
                \E k \in DOMAIN boundaries :
                  k < i /\ boundaries[k].op = "open" /\ boundaries[k].window = n
  BY <1>1, <1>2 DEF ClosedInOrder, ControlMoves
<1>5. \A n \in Windows :
         router.windows[n].last # -1 =>
           router.windows[n].slot # NoSlot /\ router.windows[n].last = ctl'.issued[n] /\ Over(n)'
  BY <1>1, <1>3, CaptureFields DEF ClosedInOrder, ControlMoves
<1> QED
  BY <1>2, <1>4, <1>5 DEF ClosedInOrder

(* The control may move on: the grades vouch for the same commands.        *)
LEMMA ControlKeepsGrades ==
  ASSUME CaptureInv, ControlMoves, UNCHANGED <<reg, mon, completed, router, file>>,
         ses'.mode = ses.mode, ses'.stage = ses.stage,
         \A s \in Slots : slot'[s].job = slot[s].job,
         \A j \in Corrections : job'[j].window = job[j].window /\ job'[j].grade = job[j].grade,
         \A i \in DOMAIN actions' : actions'[i].command \in 1..ctl'.issued[actions'[i].window]
  PROVE  GradesVouch'
<1>1. CaptureTypeOK /\ GradesVouch /\ JobsAreOwned
  BY DEF CaptureInv
<1> SUFFICES ASSUME InWindows
             PROVE  GradesVouch'
  BY DEF GradesVouch, InWindows
<1>2. \A j \in Corrections : Complete(j) => Complete(j)'
  BY <1>1, CompleteStays DEF JobsAreOwned
<1>3. \A s \in Slots : slot[s].job \in Corrections
  BY <1>1, CaptureFields DEF JobsAreOwned
<1>4. \A n \in Windows : 1..ctl.issued[n] \subseteq 1..ctl'.issued[n]
  BY <1>1, CaptureFields DEF ControlMoves, Controls
<1>5. \A i \in DOMAIN completed : completed[i].slot \in Slots
  <2>1. \A i \in DOMAIN completed : completed[i] \in Results
    BY <1>1 DEF CaptureTypeOK
  <2> QED
    BY <2>1 DEF Results
<1>6. FinishingSlots' = FinishingSlots
  BY DEF FinishingSlots
<1>7. \A n \in Windows, s \in Slots : router.windows[n].slot = s =>
         /\ router.windows[n].got \subseteq 1..ctl'.issued[n]
         /\ router.windows[n].rejected = FALSE =>
              file[slot'[s].job] = {[window |-> n, command |-> c] : c \in router.windows[n].got}
  BY <1>1, <1>4 DEF GradesVouch
<1> DEFINE whole == {j \in Corrections : Complete(j)'}
<1>8. \A j \in Corrections : Complete(j) => j \in whole
  BY <1>2
<1> HIDE DEF whole
<1>9. \A i \in DOMAIN completed :
         completed[i].grade = "ok" => slot'[completed[i].slot].job \in whole
  BY <1>1, <1>3, <1>5, <1>8 DEF GradesVouch
<1>10. \A s \in FinishingSlots : mon.result.grade = "ok" => slot'[s].job \in whole
  BY <1>1, <1>3, <1>8 DEF GradesVouch, FinishingSlots
<1>11. \A j \in Corrections :
         reg[j] = "source_complete" /\ job'[j].grade = "ok" => j \in whole
  BY <1>1, <1>8 DEF GradesVouch
<1> QED
  BY <1>6, <1>7, <1>9, <1>10, <1>11 DEF GradesVouch, Complete, whole

(* Grades vouch for what they did while the jobs and the files stay.       *)
LEMMA GradesStay ==
  ASSUME GradesVouch, InWindows, UNCHANGED <<slot, job, actions, ctl, file>>,
         \A i \in DOMAIN completed' :
           completed'[i].grade = "ok" => Complete(slot[completed'[i].slot].job),
         \A s \in FinishingSlots' : mon'.result.grade = "ok" => Complete(slot[s].job),
         \A n \in Windows, s \in Slots : router'.windows[n].slot = s =>
           /\ router'.windows[n].got \subseteq 1..ctl.issued[n]
           /\ router'.windows[n].rejected = FALSE =>
                file[slot[s].job] = {[window |-> n, command |-> c] : c \in router'.windows[n].got},
         \A j \in Corrections : reg'[j] = "source_complete" /\ job[j].grade = "ok" => Complete(j)
  PROVE  GradesVouch'
<1>1. \A i \in DOMAIN actions' : actions'[i].command \in 1..ctl'.issued[actions'[i].window]
  BY DEF GradesVouch
<1>2. \A n \in Windows, s \in Slots : router'.windows[n].slot = s =>
         /\ router'.windows[n].got \subseteq 1..ctl'.issued[n]
         /\ router'.windows[n].rejected = FALSE =>
              file'[slot'[s].job] = {[window |-> n, command |-> c] : c \in router'.windows[n].got}
  OBVIOUS
<1>3. \A i \in DOMAIN completed' :
         completed'[i].grade = "ok" => Complete(slot[completed[i].slot].job)'
  BY DEF Complete, Issued, Over
<1>4. \A s \in FinishingSlots' : mon'.result.grade = "ok" => Complete(slot[s].job)'
  BY DEF Complete, Issued, Over
<1>5. \A j \in Corrections : reg'[j] = "source_complete" /\ job'[j].grade = "ok" => Complete(j)'
  BY DEF Complete, Issued, Over
<1> QED
  BY ONLY <1>1, <1>2, <1>3, <1>4, <1>5 DEF GradesVouch

(* What leaves the queues, the router and the monitor alone keeps the places. *)
LEMMA PlacesStayApart ==
  ASSUME PlacesApart, ses'.mode = ses.mode, ses'.stage = ses.stage,
         UNCHANGED <<mon, boundaries, completed, router>>
  PROVE  /\ InWindows' = InWindows /\ OpenSlots' = OpenSlots /\ RoutedSlots' = RoutedSlots
         /\ DoneSlots' = DoneSlots /\ MonitorSlots' = MonitorSlots
         /\ FinishingSlots' = FinishingSlots
         /\ \A i, s : Opening(i, s)' = Opening(i, s)
         /\ PlacesApart'
<1>1. /\ InWindows' = InWindows /\ OpenSlots' = OpenSlots /\ RoutedSlots' = RoutedSlots
      /\ DoneSlots' = DoneSlots /\ MonitorSlots' = MonitorSlots /\ FinishingSlots' = FinishingSlots
      /\ \A i, s : Opening(i, s)' = Opening(i, s)
  BY DEF InWindows, OpenSlots, RoutedSlots, DoneSlots, MonitorSlots, FinishingSlots, Opening
<1>2. PlacesApart'
  BY <1>1 DEF PlacesApart
<1> QED
  BY <1>1, <1>2

(* So does a window fit its job, if slots, jobs and files stay as well.    *)
LEMMA PlacesStay ==
  ASSUME PlacesApart, WindowsFit, ses'.mode = ses.mode, ses'.stage = ses.stage,
         UNCHANGED <<slot, job, reg, mon, boundaries, completed, router, file>>
  PROVE  PlacesApart' /\ WindowsFit'
BY PlacesStayApart DEF WindowsFit

(* The control gives up a window that nobody records.                      *)
LEMMA ReleaseUnrecordedKeeps ==
  ASSUME CaptureInv, ReleaseUnrecorded
  PROVE  CaptureInv'
<1>1. /\ CaptureTypeOK /\ StagesAgree /\ OneForAll /\ JobsAreOwned /\ PlacesApart /\ WindowsFit
      /\ ActiveIsOpen /\ ClosedInOrder /\ GradesVouch /\ StopSettles
  BY DEF CaptureInv
<1>2. /\ ctl.manual = TRUE /\ ctl.closing = FALSE /\ ctl.segment = FALSE
      /\ ctl' = [ctl EXCEPT !.manual = FALSE, !.segment = FALSE]
      /\ UNCHANGED <<ses, slot, job, reg, events, mon, boundaries, actions, completed, router, file,
                     faults>>
  BY <1>1, CaptureFields DEF ReleaseUnrecorded, Release, Left, session, process
<1>3. /\ ctl' \in Controls /\ ctl'.manual = FALSE /\ ctl'.segment = FALSE
      /\ ctl'.closing = ctl.closing /\ ctl'.window = ctl.window /\ ctl'.issued = ctl.issued
  BY <1>1, <1>2 DEF CaptureTypeOK, Controls
<1>4. CaptureTypeOK'
  BY <1>1, <1>2, <1>3 DEF CaptureTypeOK
<1>5. ControlMoves
  <2>0. ctl.window \in Windows \cup {0} /\ \A n \in Windows : ctl.issued[n] \in Nat
    BY <1>1, CaptureFields
  <2>1. ctl.window \in Nat /\ \A n \in Windows : ctl.issued[n] \in Nat
    BY <2>0, CaptureNumbers DEF Windows
  <2>2. \A n \in Windows : Over(n) => Over(n)'
    BY <1>3 DEF Over
  <2> QED
    BY <1>3, <2>1, <2>2 DEF ControlMoves
<1>6. StagesAgree'
  BY <1>1, <1>2, <1>3 DEF StagesAgree, CaptureInit
<1>7. OneForAll' /\ StopSettles'
  BY <1>1, <1>2, <1>3 DEF OneForAll, StopSettles, InSession, Full
<1>8. JobsAreOwned'
  BY <1>1, <1>2, <1>3 DEF JobsAreOwned, InWindows
<1>9. PlacesApart' /\ WindowsFit'
  BY <1>1, <1>2, PlacesStay
<1>10. ActiveIsOpen'
  BY <1>1, <1>2, <1>3 DEF ActiveIsOpen, InWindows, Closing, OpenSlots, RoutedSlots, DoneSlots,
     MonitorSlots, Opening
<1>11. ClosedInOrder'
  BY <1>2, <1>5, ControlKeepsOrder
<1>12. GradesVouch'
  BY <1>1, <1>2, <1>3, <1>5, ControlKeepsGrades DEF GradesVouch, InWindows
<1> QED
  BY <1>4, <1>6, <1>7, <1>8, <1>9, <1>10, <1>11, <1>12 DEF CaptureInv

(* The elements of a sequence with one more.                               *)
LEMMA AppendCases ==
  ASSUME NEW S, NEW q \in Seq(S), NEW e
  PROVE  /\ DOMAIN q = 1..Len(q) /\ Len(q) \in Nat /\ DOMAIN Append(q, e) = 1..(Len(q) + 1)
         /\ \A i \in DOMAIN q : Append(q, e)[i] = q[i]
         /\ Append(q, e)[Len(q) + 1] = e
OBVIOUS

(* The elements of a sequence without its first.                           *)
LEMMA TailCases ==
  ASSUME NEW S, NEW q \in Seq(S), q # <<>>
  PROVE  /\ Head(q) = q[1] /\ 1 \in DOMAIN q /\ q[1] \in S /\ Tail(q) \in Seq(S)
         /\ DOMAIN q = 1..Len(q) /\ Len(q) \in Nat /\ Len(q) >= 1 /\ DOMAIN Tail(q) = 1..(Len(q) - 1)
         /\ \A i \in DOMAIN Tail(q) : i + 1 \in DOMAIN q /\ Tail(q)[i] = q[i + 1]
         /\ \A i \in DOMAIN q : i = 1 \/ (i - 1 \in DOMAIN Tail(q) /\ Tail(q)[i - 1] = q[i])
OBVIOUS

(* The control takes a window that nobody records.                         *)
LEMMA OpenFailsKeeps ==
  ASSUME CaptureInv, OpenFails
  PROVE  CaptureInv'
<1>1. /\ CaptureTypeOK /\ StagesAgree /\ OneForAll /\ JobsAreOwned /\ PlacesApart /\ WindowsFit
      /\ ActiveIsOpen /\ ClosedInOrder /\ GradesVouch /\ StopSettles
  BY DEF CaptureInv
<1> DEFINE moved == ses'.prepared # ses.prepared
           ahead == [ctl EXCEPT !.window = NextWindow, !.manual = TRUE, !.segment = FALSE]
<1>2. /\ ctl.manual = FALSE /\ ctl.window < MaxWindows /\ ses.stage # "new" /\ ctl' = ahead
      /\ UNCHANGED <<slot, job, reg, events, mon, boundaries, actions, completed, router, file,
                     faults>>
  BY <1>1, CaptureFields DEF OpenFails, Takeover, Manual, process
<1>3. NextWindow \in Windows /\ NextWindow = ctl.window + 1 /\ ctl.window \in Nat
  <2>1. ctl.window \in Windows \cup {0}
    BY <1>1, CaptureFields
  <2> QED
    BY <2>1, <1>2, CaptureNumbers DEF NextWindow, Windows
<1>4. /\ ctl' \in Controls /\ ctl'.manual = TRUE /\ ctl'.segment = FALSE
      /\ ctl'.closing = ctl.closing /\ ctl'.window = NextWindow /\ ctl'.issued = ctl.issued
  BY <1>1, <1>2, <1>3 DEF CaptureTypeOK, Controls
<1>5. /\ ses' \in Sessions /\ ses'.mode = ses.mode /\ ses'.stage = ses.stage
      /\ ses'.closing = ses.closing /\ ses'.active = ses.active /\ ses'.token = ses.token
      /\ ses'.error = ses.error
      /\ ses'.prepared = ses.prepared \/
           (~Full /\ ses.prepared # <<>> /\ ses'.prepared = Tail(ses.prepared))
  <2> DEFINE left == ses'.prepared
  <2>1. /\ left = ses.prepared \/ (~Full /\ ses.prepared # <<>> /\ left = Tail(ses.prepared))
        /\ ses' = [ses EXCEPT !.prepared = left]
    BY <1>1 DEF OpenFails, CaptureTypeOK, Sessions
  <2>2. ses.prepared \in Seq(Slots)
    BY <1>1, CaptureFields
  <2> HIDE DEF left
  <2>3. left \in Seq(Slots)
    BY <2>1, <2>2, TailCases
  <2>4. /\ ses' \in Sessions /\ ses'.mode = ses.mode /\ ses'.stage = ses.stage
        /\ ses'.closing = ses.closing /\ ses'.active = ses.active /\ ses'.token = ses.token
        /\ ses'.error = ses.error
    BY <2>1, <2>3, <1>1 DEF CaptureTypeOK, Sessions
  <2> QED
    BY <2>1, <2>4 DEF left
<1>6. CaptureTypeOK'
  BY <1>1, <1>2, <1>4, <1>5 DEF CaptureTypeOK
<1>7. ControlMoves
  <2>1. \A n \in Windows : ctl.issued[n] \in Nat /\ n \in Nat
    BY <1>1, CaptureFields, CaptureNumbers
  <2>2. \A n \in Windows : n <= ctl.window => Over(n)'
    BY <1>3, <1>4, <2>1 DEF Over
  <2> QED
    BY <1>3, <1>4, <2>1, <2>2 DEF ControlMoves
<1>8. StagesAgree'
  <2>1. NextWindow # 0 /\ ctl.closing # TRUE
    BY <1>1, <1>2, <1>3, CaptureNumbers DEF StagesAgree
  <2> QED
    BY <1>1, <1>2, <1>4, <1>5, <2>1 DEF StagesAgree
<1>9. OneForAll' /\ StopSettles'
  BY <1>1, <1>2, <1>4, <1>5 DEF OneForAll, StopSettles, InSession, Full
<1>10. JobsAreOwned'
  <2> SUFFICES ASSUME InWindows
               PROVE  JobsAreOwned'
    BY <1>5 DEF JobsAreOwned, InWindows
  <2>1. \A i \in DOMAIN ses'.prepared :
          \E k \in DOMAIN ses.prepared :
            ses'.prepared[i] = ses.prepared[k]
    <3>1. ses.prepared \in Seq(Slots)
      BY <1>1, CaptureFields
    <3>2. CASE ses'.prepared = ses.prepared
      BY <3>2
    <3>3. CASE ses.prepared # <<>> /\ ses'.prepared = Tail(ses.prepared)
      BY <3>1, <3>3, TailCases
    <3> QED
      BY <1>5, <3>2, <3>3
  <2>2. \A i \in DOMAIN ses'.prepared, k \in DOMAIN ses'.prepared :
          ses'.prepared[i] = ses'.prepared[k] => i = k
    <3>1. ses.prepared \in Seq(Slots)
      BY <1>1, CaptureFields
    <3>2. CASE ses'.prepared = ses.prepared
      BY <3>2, <1>1 DEF JobsAreOwned
    <3>3. CASE ses.prepared # <<>> /\ ses'.prepared = Tail(ses.prepared)
      <4>1. \A i \in DOMAIN ses'.prepared : /\ i \in Int /\ i + 1 \in DOMAIN ses.prepared
                                          /\ ses'.prepared[i] = ses.prepared[i + 1]
        BY <3>1, <3>3, TailCases
      <4> QED
        BY <4>1, <1>1 DEF JobsAreOwned
    <3> QED
      BY <1>5, <3>2, <3>3
  <2>3. \A j \in Corrections : job[j].window <= ctl'.window
    <3>1. \A j \in Corrections : job[j].window \in Nat
      BY <1>1, CaptureIntegers
    <3> QED
      BY <1>1, <1>3, <1>4, <3>1 DEF JobsAreOwned
  <2> QED
    BY <1>1, <1>2, <1>5, <2>1, <2>2, <2>3 DEF JobsAreOwned, InWindows
<1>11. PlacesApart' /\ WindowsFit'
  BY <1>1, <1>2, <1>5, PlacesStay
<1>12. ActiveIsOpen'
  BY <1>1, <1>2, <1>4, <1>5 DEF ActiveIsOpen, InWindows, Closing, OpenSlots, RoutedSlots, DoneSlots,
     MonitorSlots, Opening
<1>13. ClosedInOrder'
  BY <1>2, <1>5, <1>7, ControlKeepsOrder
<1>14. GradesVouch'
  BY <1>1, <1>2, <1>4, <1>5, <1>7, ControlKeepsGrades DEF GradesVouch, InWindows
<1> QED
  BY <1>6, <1>8, <1>9, <1>10, <1>11, <1>12, <1>13, <1>14 DEF CaptureInv

(* A command of the human.                                                 *)
LEMMA CommandKeeps ==
  ASSUME CaptureInv, Command
  PROVE  CaptureInv'
<1>1. /\ CaptureTypeOK /\ StagesAgree /\ OneForAll /\ JobsAreOwned /\ PlacesApart /\ WindowsFit
      /\ ActiveIsOpen /\ ClosedInOrder /\ GradesVouch /\ StopSettles
  BY DEF CaptureInv
<1> DEFINE n == ctl.window
           many == ctl.issued[n] + 1
           a == [window |-> n, command |-> many]
           all == [ctl.issued EXCEPT ![n] = many]
           used == ctl.commands + 1
<1>2. /\ ctl.manual = TRUE /\ ctl.closing = FALSE
      /\ ctl' = [ctl EXCEPT !.issued = all, !.commands = used]
      /\ actions' = Append(actions, a) \/ actions' = actions
      /\ UNCHANGED <<ses, slot, job, reg, events, mon, boundaries, completed, router, file, faults>>
  <2>1. Command
    OBVIOUS
  <2>2. ctl' = [ctl EXCEPT !.issued[n] = @ + 1, !.commands = @ + 1]
    BY <2>1 DEF Command
  <2>3. ctl' = [ctl EXCEPT !.issued = all, !.commands = used]
    BY <2>2, <1>1 DEF CaptureTypeOK, Controls
  <2> QED
    BY <2>1, <2>3, <1>1, CaptureFields DEF Command, session
<1>3. n \in Windows /\ many \in Nat /\ many = ctl.issued[n] + 1 /\ used \in Nat
  <2>1. n \in Windows \cup {0} /\ n # 0
    BY <1>1, <1>2, CaptureFields DEF StagesAgree
  <2>2. ctl.issued[n] \in Nat /\ ctl.commands \in Nat
    BY <2>1, <1>1 DEF CaptureTypeOK, Controls
  <2> QED
    BY <2>1, <2>2
<1>4. /\ all \in [Windows -> Nat] /\ all[n] = many /\ \A m \in Windows : m # n => all[m] = ctl.issued[m]
  BY <1>1, <1>3 DEF CaptureTypeOK, Controls
<1> HIDE DEF all, many, used
<1>5. /\ ctl' \in Controls /\ ctl'.manual = ctl.manual /\ ctl'.segment = ctl.segment
      /\ ctl'.closing = ctl.closing /\ ctl'.window = ctl.window /\ ctl'.issued = all
  BY <1>1, <1>2, <1>3, <1>4 DEF CaptureTypeOK, Controls
<1>6. actions \in Seq(Commands) /\ actions' \in Seq(Commands)
  <2>1. a \in Commands
    BY <1>3 DEF Commands
  <2>2. actions \in Seq(Commands)
    BY <1>1 DEF CaptureTypeOK
  <2> HIDE DEF a
  <2>3. Append(actions, a) \in Seq(Commands)
    BY <2>1, <2>2
  <2> QED
    BY <1>2, <2>2, <2>3
<1>7. CaptureTypeOK'
  BY <1>1, <1>2, <1>5, <1>6 DEF CaptureTypeOK
<1>8. ControlMoves
  <2>1. ctl.window \in Windows /\ \A m \in Windows : ctl.issued[m] \in Nat
    BY <1>1, <1>3, CaptureFields
  <2>2. \A m \in Windows : /\ Over(m) => Over(m)' /\ m # n
                           /\ ctl'.issued[m] >= ctl.issued[m]
    <3> SUFFICES ASSUME NEW m \in Windows
                 PROVE  /\ Over(m) => Over(m)' /\ m # n
                        /\ ctl'.issued[m] >= ctl.issued[m]
      OBVIOUS
    <3>1. /\ m \in Nat /\ n \in Nat /\ n = ctl.window /\ n = ctl'.window
          /\ ctl.manual = TRUE /\ ctl.closing = FALSE
      BY <1>2, <1>5, <2>1, CaptureNumbers
    <3>2. Over(m) => Over(m)' /\ m # n
      BY ONLY <3>1 DEF Over
    <3>3. ctl'.issued[m] >= ctl.issued[m]
      BY <1>3, <1>4, <1>5, <2>1
    <3> QED
      BY <3>2, <3>3
  <2>3. ctl.window <= ctl'.window
    BY <1>5, <2>1, CaptureNumbers DEF Windows
  <2> QED
    BY <1>4, <1>5, <2>2, <2>3 DEF ControlMoves
<1>9. StagesAgree'
  <2>1. ses.stage # "new"
    BY <1>1, <1>2 DEF StagesAgree, CaptureInit
  <2> QED
    BY <1>1, <1>2, <1>5, <2>1 DEF StagesAgree
<1>10. OneForAll' /\ StopSettles'
  BY <1>1, <1>2, <1>5 DEF OneForAll, StopSettles, InSession, Full
<1>11. JobsAreOwned'
  <2>1. UNCHANGED <<ses, slot, job, reg, events, mon, file>> /\ ctl'.window = ctl.window
    BY <1>2, <1>5
  <2> QED
    BY ONLY <1>1, <2>1 DEF JobsAreOwned, InWindows
<1>12. PlacesApart' /\ WindowsFit'
  BY <1>1, <1>2, PlacesStay
<1>13. ActiveIsOpen'
  BY <1>1, <1>2, <1>5 DEF ActiveIsOpen, InWindows, Closing, OpenSlots, RoutedSlots, DoneSlots,
     MonitorSlots, Opening
<1>14. ClosedInOrder'
  BY <1>2, <1>8, ControlKeepsOrder
<1>15. GradesVouch'
  <2> SUFFICES ASSUME InWindows
               PROVE  GradesVouch'
    BY <1>2 DEF GradesVouch, InWindows
  <2>1. \A i \in DOMAIN actions : /\ actions[i] \in Commands
                                  /\ actions[i].command \in 1..ctl.issued[actions[i].window]
    BY <1>1, <1>6 DEF GradesVouch
  <2>2. \A i \in DOMAIN actions : actions[i].command \in 1..all[actions[i].window]
    <3> SUFFICES ASSUME NEW i \in DOMAIN actions
                 PROVE  actions[i].command \in 1..all[actions[i].window]
      OBVIOUS
    <3>1. actions[i].window \in Windows /\ actions[i].command \in Nat
      BY <2>1 DEF Commands
    <3>2. ctl.issued[actions[i].window] \in Nat
      BY <3>1, <1>1, CaptureFields
    <3> QED
      BY <2>1, <3>1, <3>2, <1>3, <1>4
  <2>3. a.command \in 1..all[a.window]
    BY <1>3, <1>4, <1>1, CaptureFields
  <2>4. \A i \in DOMAIN actions' : actions'[i].command \in 1..ctl'.issued[actions'[i].window]
    BY <1>2, <1>5, <1>6, <2>2, <2>3, AppendCases
  <2> QED
    BY <1>2, <1>8, <2>4, ControlKeepsGrades
<1> QED
  BY <1>7, <1>9, <1>10, <1>11, <1>12, <1>13, <1>14, <1>15 DEF CaptureInv

(* What is left to show of a step in a session of one mode.                *)
LEMMA InvOfSession ==
  ASSUME CaptureTypeOK', StagesAgree', OneForAll', StopSettles', ses'.mode = "full_session"
  PROVE  CaptureInv'
<1>1. ~InWindows'
  BY DEF InWindows
<1> QED
  BY <1>1 DEF CaptureInv, JobsAreOwned, PlacesApart, WindowsFit, ActiveIsOpen, ClosedInOrder,
     GradesVouch

(* In corrections_only, the parts about a full session say nothing.        *)
LEMMA InvOfWindows ==
  ASSUME CaptureTypeOK', StagesAgree', JobsAreOwned', PlacesApart', WindowsFit', ActiveIsOpen',
         ClosedInOrder', GradesVouch', StopSettles', ses'.mode = "corrections_only"
  PROVE  CaptureInv'
BY DEF CaptureInv, OneForAll, InSession

(* The control that leaves its window, or is closing it, moves on.         *)
LEMMA ControlEnds ==
  ASSUME CaptureTypeOK, ctl' \in Controls, ctl'.window = ctl.window, ctl'.issued = ctl.issued,
         ctl'.manual = FALSE \/ ctl'.closing = TRUE
  PROVE  ControlMoves
<1>1. \A n \in Windows : Over(n)'
  BY DEF Over
<1>2. ctl.window \in Nat /\ \A n \in Windows : ctl.issued[n] \in Nat
  BY CaptureIntegers
<1>3. ctl.window <= ctl'.window /\ \A n \in Windows : ctl'.issued[n] >= ctl.issued[n]
  BY <1>2
<1> QED
  BY <1>1, <1>3 DEF ControlMoves

(* The control that stays moves on.                                        *)
LEMMA ControlStays ==
  ASSUME CaptureTypeOK, UNCHANGED ctl
  PROVE  ControlMoves
<1>1. ctl.window \in Nat /\ \A n \in Windows : ctl.issued[n] \in Nat
  BY CaptureIntegers
<1>2. ctl.window <= ctl'.window /\ \A n \in Windows : ctl'.issued[n] >= ctl.issued[n]
  BY <1>1
<1> QED
  BY <1>2 DEF ControlMoves, Over, CaptureTypeOK

(* A slot that changes its state changes nothing else.                     *)
LEMMA SlotMoves ==
  ASSUME CaptureTypeOK, NEW a \in Slots, NEW state \in SlotStates,
         slot' = [slot EXCEPT ![a].state = state]
  PROVE  /\ slot' \in [Slots -> SlotRecords] /\ slot'[a].state = state
         /\ \A s \in Slots : slot'[s].job = slot[s].job /\ slot'[s].writer = slot[s].writer
         /\ \A s \in Slots : s # a => slot'[s] = slot[s]
BY DEF CaptureTypeOK, SlotRecords

(* A job that changes its state keeps its window and its grade.            *)
LEMMA JobMoves ==
  ASSUME CaptureTypeOK, NEW j \in Corrections,
         NEW state \in {"armed", "capturing", "draining", "source_complete", "failed"},
         job' = [job EXCEPT ![j].state = state]
  PROVE  /\ job' \in [Corrections -> JobRecords]
         /\ \A i \in Corrections : job'[i].window = job[i].window /\ job'[i].grade = job[i].grade
BY DEF CaptureTypeOK, JobRecords

(* An interval of a full session ends.                                     *)
LEMMA CloseIntervalKeeps ==
  ASSUME CaptureInv, CloseInterval
  PROVE  CaptureInv'
<1>1. /\ CaptureTypeOK /\ StagesAgree /\ OneForAll /\ StopSettles
  BY DEF CaptureInv
<1>2. /\ ctl.manual = TRUE /\ ctl.closing = FALSE /\ ctl.segment = TRUE /\ Full
      /\ ctl' = [ctl EXCEPT !.manual = FALSE, !.segment = FALSE]
      /\ boundaries' = Append(boundaries, CloseEvent) \/ boundaries' = boundaries
      /\ UNCHANGED <<slot, job, reg, events, mon, actions, completed, router, file, faults>>
  BY <1>1, CaptureFields DEF CloseInterval, Release, Left, Announced
<1>3. /\ ctl' \in Controls /\ ctl'.manual = FALSE /\ ctl'.segment = FALSE
      /\ ctl'.closing = FALSE /\ ctl'.window = ctl.window /\ ctl'.issued = ctl.issued
  BY <1>1, <1>2 DEF CaptureTypeOK, Controls
<1>4. PICK token \in Windows \cup {0} : ses' = [ses EXCEPT !.token = token]
  BY <1>1, CaptureFields DEF CloseInterval
<1>5. /\ ses' \in Sessions /\ ses'.mode = ses.mode /\ ses'.stage = ses.stage
      /\ ses'.closing = ses.closing /\ ses'.active = ses.active /\ ses'.error = ses.error
      /\ ses'.prepared = ses.prepared
  BY <1>1, <1>4 DEF CaptureTypeOK, Sessions
<1>6. boundaries' \in Seq(Boundaries)
  <2>1. ctl.window \in Windows /\ ctl.issued[ctl.window] \in Nat
    BY <1>1, <1>2, CaptureFields DEF StagesAgree
  <2>2. CloseEvent \in Boundaries
    BY <2>1 DEF CloseEvent, Boundaries, Closes
  <2>3. boundaries \in Seq(Boundaries)
    BY <1>1 DEF CaptureTypeOK
  <2> HIDE DEF CloseEvent
  <2>4. Append(boundaries, CloseEvent) \in Seq(Boundaries)
    BY <2>2, <2>3
  <2> QED
    BY <1>2, <2>3, <2>4
<1>7. CaptureTypeOK'
  BY <1>1, <1>2, <1>3, <1>5, <1>6 DEF CaptureTypeOK
<1>8. StagesAgree'
  BY <1>1, <1>2, <1>3, <1>5 DEF StagesAgree, CaptureInit
<1>9. OneForAll' /\ StopSettles'
  BY <1>1, <1>2, <1>3, <1>5 DEF OneForAll, StopSettles, InSession, Full
<1> QED
  BY <1>2, <1>5, <1>7, <1>8, <1>9, InvOfSession DEF Full

(* A window gets its last command: the event that says so is in the queue, *)
(* or the queue was full.                                                  *)
LEMMA CloseWindowKeeps ==
  ASSUME CaptureInv, CloseWindow
  PROVE  CaptureInv'
<1>1. /\ CaptureTypeOK /\ StagesAgree /\ OneForAll /\ JobsAreOwned /\ PlacesApart /\ WindowsFit
      /\ ActiveIsOpen /\ ClosedInOrder /\ GradesVouch /\ StopSettles
  BY DEF CaptureInv
<1>2. /\ ctl.manual = TRUE /\ ctl.closing = FALSE /\ ctl.segment = TRUE /\ ~Full
      /\ UNCHANGED <<ses, slot, job, reg, events, mon, actions, completed, router, file, faults>>
  BY <1>1, CaptureFields DEF CloseWindow, Release, session
<1>3. \/ boundaries' = boundaries /\ ctl' = [ctl EXCEPT !.manual = FALSE, !.segment = FALSE]
      \/ boundaries' = Append(boundaries, CloseEvent) /\ ctl' = [ctl EXCEPT !.closing = TRUE]
  <2>1. boundaries \in Seq(Boundaries)
    BY <1>1 DEF CaptureTypeOK
  <2> HIDE DEF CloseEvent
  <2>2. Append(boundaries, CloseEvent) # boundaries
    BY <2>1
  <2> QED
    BY <2>2 DEF CloseWindow, Announced, Left
<1>4. /\ ctl' \in Controls /\ ctl'.window = ctl.window /\ ctl'.issued = ctl.issued
      /\ ctl'.manual = FALSE \/ ctl'.closing = TRUE
      /\ boundaries' = boundaries =>
           ctl'.manual = FALSE /\ ctl'.segment = FALSE /\ ctl'.closing = FALSE
      /\ boundaries' # boundaries =>
           ctl'.manual = TRUE /\ ctl'.segment = TRUE /\ ctl'.closing = TRUE
  <2>1. CASE boundaries' = boundaries /\ ctl' = [ctl EXCEPT !.manual = FALSE, !.segment = FALSE]
    BY <2>1, <1>1, <1>2 DEF CaptureTypeOK, Controls
  <2>2. CASE boundaries' = Append(boundaries, CloseEvent) /\ ctl' = [ctl EXCEPT !.closing = TRUE]
    <3>1. boundaries' # boundaries
      <4>1. boundaries \in Seq(Boundaries)
        BY <1>1 DEF CaptureTypeOK
      <4> HIDE DEF CloseEvent
      <4> QED
        BY <4>1, <2>2
    <3> QED
      BY <3>1, <2>2, <1>1, <1>2 DEF CaptureTypeOK, Controls
  <2> QED
    BY <2>1, <2>2, <1>3
<1>5. ControlMoves
  BY <1>1, <1>4, ControlEnds
<1>6. InWindows /\ ses.stage # "new"
  <2>1. ses.stage # "new"
    BY <1>1, <1>2 DEF StagesAgree, CaptureInit
  <2> QED
    BY <2>1, <1>1, <1>2, ModeIsKept DEF InWindows
<1>7. StagesAgree' /\ StopSettles'
  BY <1>1, <1>2, <1>4, <1>6 DEF StagesAgree, CaptureInit, StopSettles, Full
<1>8. JobsAreOwned'
  BY <1>1, <1>2, <1>4 DEF JobsAreOwned, InWindows
<1>9. GradesVouch'
  BY <1>1, <1>2, <1>4, <1>5, <1>6, ControlKeepsGrades DEF GradesVouch
<1>10. boundaries' = boundaries =>
          CaptureTypeOK' /\ PlacesApart' /\ WindowsFit' /\ ActiveIsOpen' /\ ClosedInOrder'
  <2> SUFFICES ASSUME boundaries' = boundaries
               PROVE  CaptureTypeOK' /\ PlacesApart' /\ WindowsFit' /\ ActiveIsOpen' /\ ClosedInOrder'
    OBVIOUS
  <2>1. CaptureTypeOK'
    BY <1>1, <1>2, <1>4 DEF CaptureTypeOK
  <2>2. PlacesApart' /\ WindowsFit'
    BY <1>1, <1>2, PlacesStay
  <2>3. ActiveIsOpen'
    BY <1>1, <1>2, <1>4 DEF ActiveIsOpen, InWindows, Closing, OpenSlots, RoutedSlots, DoneSlots,
     MonitorSlots, Opening
  <2>4. ClosedInOrder'
    BY <1>1, <1>2, <1>5, ControlKeepsOrder DEF CaptureInv
  <2> QED
    BY <2>1, <2>2, <2>3, <2>4
<1>11. boundaries' # boundaries =>
          CaptureTypeOK' /\ PlacesApart' /\ WindowsFit' /\ ActiveIsOpen' /\ ClosedInOrder'
  <2> SUFFICES ASSUME boundaries' # boundaries
               PROVE  CaptureTypeOK' /\ PlacesApart' /\ WindowsFit' /\ ActiveIsOpen' /\ ClosedInOrder'
    OBVIOUS
  <2> DEFINE n == ctl.window
             e == CloseEvent
             l == Len(boundaries)
  <2>1. n \in Windows /\ n \in Nat /\ ctl.issued[n] \in Nat /\ n # 0
    BY <1>1, <1>2, CaptureFields, CaptureIntegers DEF StagesAgree
  <2>2. e \in Boundaries /\ e.op = "close" /\ e.window = n /\ e.last = ctl.issued[n]
    BY <2>1 DEF CloseEvent, Boundaries, Closes
  <2>3. boundaries \in Seq(Boundaries)
    BY <1>1 DEF CaptureTypeOK
  <2> HIDE DEF e, n
  <2>4. /\ boundaries' \in Seq(Boundaries) /\ DOMAIN boundaries = 1..l /\ l \in Nat
        /\ DOMAIN boundaries' = 1..(l + 1)
        /\ \A i \in DOMAIN boundaries : boundaries'[i] = boundaries[i]
        /\ boundaries'[l + 1] = e
    BY <2>2, <2>3, <1>3, AppendCases DEF e
  <2> HIDE DEF l
  <2>5. /\ DOMAIN boundaries \subseteq DOMAIN boundaries'
        /\ \A i \in DOMAIN boundaries' : i \in Nat /\ (i \in DOMAIN boundaries \/ i = l + 1)
        /\ l + 1 \notin DOMAIN boundaries /\ \A i \in DOMAIN boundaries : i < l + 1
    BY <2>4
  <2>6. CaptureTypeOK'
    BY <1>1, <1>2, <1>4, <2>4 DEF CaptureTypeOK
  <2>7. /\ \A i \in DOMAIN boundaries', s \in Slots :
             Opening(i, s)' => i \in DOMAIN boundaries /\ Opening(i, s)
        /\ \A i \in DOMAIN boundaries, s \in Slots : Opening(i, s) => Opening(i, s)'
    BY <2>2, <2>4, <2>5 DEF Opening
  <2>8. /\ OpenSlots' = OpenSlots /\ RoutedSlots' = RoutedSlots
        /\ DoneSlots' = DoneSlots /\ MonitorSlots' = MonitorSlots /\ FinishingSlots' = FinishingSlots
        /\ InWindows'
    BY <1>2, <1>6, <2>5, <2>7
       DEF OpenSlots, RoutedSlots, DoneSlots, MonitorSlots, FinishingSlots, InWindows
  <2>9. PlacesApart'
    BY <1>1, <1>2, <1>6, <2>7, <2>8 DEF PlacesApart
  <2>10. WindowsFit'
    BY <1>1, <1>2, <1>6, <2>4, <2>7, <2>8 DEF WindowsFit
  <2>11. ActiveIsOpen'
    BY <1>1, <1>2, <1>4, <1>6, <2>8 DEF ActiveIsOpen
  <2>12. /\ ses.active \in Slots /\ ses.token = n /\ job[slot[ses.active].job].window = n
         /\ router.windows[n].last = -1 /\ \A i \in DOMAIN boundaries : ~Closing(i, n)
         /\ router.runs = TRUE => ses.active \in OpenSlots \cup RoutedSlots
    BY <1>1, <1>2, <1>6, CaptureFields DEF ActiveIsOpen, n
  <2>13. router.runs = TRUE /\ router.windows[n].slot = NoSlot =>
           \E k \in DOMAIN boundaries : boundaries[k].op = "open" /\ boundaries[k].window = n
    <3> SUFFICES ASSUME router.runs = TRUE, router.windows[n].slot = NoSlot
                 PROVE  \E k \in DOMAIN boundaries : boundaries[k].op = "open"
                                                     /\ boundaries[k].window = n
      OBVIOUS
    <3>1. ses.active \notin RoutedSlots
      <4> SUFFICES ASSUME NEW m \in Windows, router.windows[m].slot = ses.active
                   PROVE  FALSE
        BY DEF RoutedSlots
      <4>1. job[slot[ses.active].job].window = m
        BY <1>1, <1>6, <2>12 DEF WindowsFit
      <4> QED
        BY <4>1, <2>12, CaptureNumbers
    <3>2. PICK k \in DOMAIN boundaries : Opening(k, ses.active)
      BY <2>12, <3>1 DEF OpenSlots
    <3>3. job[slot[ses.active].job].window = boundaries[k].window
      BY <1>1, <1>6, <2>12, <3>2 DEF WindowsFit
    <3> QED
      BY <2>12, <3>2, <3>3 DEF Opening
  <2>14. \A i \in DOMAIN boundaries', m \in Windows :
           Closing(i, m)' => \/ i \in DOMAIN boundaries /\ Closing(i, m)
                             \/ i = l + 1 /\ m = n
    BY <2>2, <2>4, <2>5 DEF Closing
  <2>15. ClosedInOrder'
    <3>1. \A m \in Windows :
            router.windows[m].last # -1 =>
              router.windows[m].slot # NoSlot /\ router.windows[m].last = ctl.issued[m] /\ Over(m)'
      BY <1>1, <1>4, <1>6 DEF ClosedInOrder, Over
    <3>2. ASSUME NEW i \in DOMAIN boundaries', NEW m \in Windows, Closing(i, m)'
          PROVE  /\ boundaries'[i].last = ctl.issued[m] /\ Over(m)' /\ m <= ctl'.window
                 /\ router.windows[m].last = -1
                 /\ \A k \in DOMAIN boundaries' : Closing(k, m)' => i = k
                 /\ router.runs = TRUE /\ router.windows[m].slot = NoSlot =>
                      \E k \in DOMAIN boundaries' :
                        k < i /\ boundaries'[k].op = "open" /\ boundaries'[k].window = m
      <4>1. Over(m)'
        BY <1>4 DEF Over
      <4>2. CASE i \in DOMAIN boundaries /\ Closing(i, m)
        <5>1. m # n
          BY <4>2, <2>12
        <5>2. /\ boundaries[i].last = ctl.issued[m] /\ m <= ctl.window
              /\ router.windows[m].last = -1
              /\ \A k \in DOMAIN boundaries : Closing(k, m) => i = k
              /\ router.runs = TRUE /\ router.windows[m].slot = NoSlot =>
                   \E k \in DOMAIN boundaries :
                     k < i /\ boundaries[k].op = "open" /\ boundaries[k].window = m
          BY <4>2, <1>1, <1>6 DEF ClosedInOrder
        <5> QED
          BY <4>1, <4>2, <5>1, <5>2, <1>4, <2>4, <2>5, <2>14
      <4>3. CASE i = l + 1 /\ m = n
        <5>1. m <= ctl'.window
          BY <4>3, <1>4, <2>1 DEF n
        <5>2. \A k \in DOMAIN boundaries' : Closing(k, m)' => i = k
          BY <4>3, <2>12, <2>14
        <5>3. router.runs = TRUE /\ router.windows[m].slot = NoSlot =>
                      \E k \in DOMAIN boundaries' :
                        k < i /\ boundaries'[k].op = "open" /\ boundaries'[k].window = m
          BY <4>3, <2>4, <2>5, <2>13
        <5> QED
          BY <4>1, <4>3, <5>1, <5>2, <5>3, <2>2, <2>4, <2>12
      <4> QED
        BY <3>2, <4>2, <4>3, <2>14
    <3>3. \A m \in Windows :
            router'.windows[m].last # -1 =>
              router'.windows[m].slot # NoSlot /\ router'.windows[m].last = ctl'.issued[m] /\ Over(m)'
      BY <1>2, <1>4, <3>1
    <3>4. \A i \in DOMAIN boundaries', m \in Windows :
            Closing(i, m)' =>
              /\ boundaries'[i].last = ctl'.issued[m] /\ Over(m)' /\ m <= ctl'.window
              /\ router'.windows[m].last = -1
              /\ \A k \in DOMAIN boundaries' : Closing(k, m)' => i = k
              /\ router'.runs = TRUE /\ router'.windows[m].slot = NoSlot =>
                   \E k \in DOMAIN boundaries' :
                     k < i /\ boundaries'[k].op = "open" /\ boundaries'[k].window = m
      <4> SUFFICES ASSUME NEW i \in DOMAIN boundaries', NEW m \in Windows, Closing(i, m)'
                   PROVE  /\ boundaries'[i].last = ctl'.issued[m] /\ Over(m)' /\ m <= ctl'.window
                          /\ router'.windows[m].last = -1
                          /\ \A k \in DOMAIN boundaries' : Closing(k, m)' => i = k
                          /\ router'.runs = TRUE /\ router'.windows[m].slot = NoSlot =>
                               \E k \in DOMAIN boundaries' :
                                 k < i /\ boundaries'[k].op = "open" /\ boundaries'[k].window = m
        OBVIOUS
      <4>1. /\ boundaries'[i].last = ctl.issued[m] /\ Over(m)' /\ m <= ctl'.window
            /\ router.windows[m].last = -1
            /\ \A k \in DOMAIN boundaries' : Closing(k, m)' => i = k
            /\ router.runs = TRUE /\ router.windows[m].slot = NoSlot =>
                 \E k \in DOMAIN boundaries' :
                   k < i /\ boundaries'[k].op = "open" /\ boundaries'[k].window = m
        BY <3>2
      <4>2. router' = router /\ ctl'.issued = ctl.issued
        BY <1>2, <1>4
      <4> QED
        BY ONLY <4>1, <4>2
    <3> QED
      BY <3>3, <3>4 DEF ClosedInOrder
  <2> QED
    BY <2>6, <2>9, <2>10, <2>11, <2>15
<1>12. ses'.mode = "corrections_only"
  BY <1>2, <1>6 DEF InWindows
<1> QED
  BY <1>7, <1>8, <1>9, <1>10, <1>11, <1>12, InvOfWindows

(* close is done: the slot drains, and its lifecycle is notified.          *)
LEMMA CloseWindowDoneKeeps ==
  ASSUME CaptureInv, CloseWindowDone
  PROVE  CaptureInv'
<1>1. /\ CaptureTypeOK /\ StagesAgree /\ OneForAll /\ JobsAreOwned /\ PlacesApart /\ WindowsFit
      /\ ActiveIsOpen /\ ClosedInOrder /\ GradesVouch /\ StopSettles
  BY DEF CaptureInv
<1> DEFINE a == ses.active
           j == slot[a].job
           e == [job |-> j, state |-> "draining"]
<1>2. /\ ctl.closing = TRUE /\ ctl.segment = TRUE /\ ses.stage = "up" /\ InWindows
      /\ ses.closing = FALSE /\ a \in Slots /\ j \in Corrections /\ job[j].window # 0
      /\ slot[a].state \in {"capturing", "complete"}
  <2>1. ctl.closing = TRUE /\ ctl.segment = TRUE
    BY <1>1, CaptureFields DEF CloseWindowDone, StagesAgree
  <2>2. ses.stage # "new"
    BY <1>1, <2>1 DEF StagesAgree, CaptureInit
  <2>3. InWindows
    BY <1>1, <2>1, <2>2, ModeIsKept DEF OneForAll
  <2>4. a \in Slots /\ job[j].window # 0 /\ slot[a].state \in {"capturing", "complete"}
    BY <1>1, <2>1, <2>3, CaptureFields DEF ActiveIsOpen
  <2>5. j \in Corrections
    BY <1>1, <2>3, <2>4, CaptureFields DEF JobsAreOwned
  <2>6. ses.stage = "up" /\ ses.closing = FALSE
    BY <1>1, <2>4, CaptureFields, CaptureNumbers DEF StagesAgree
  <2> QED
    BY <2>1, <2>3, <2>4, <2>5, <2>6
<1>3. /\ ctl' = [ctl EXCEPT !.manual = FALSE, !.segment = FALSE, !.closing = FALSE]
      /\ job' = [job EXCEPT ![j].state = "draining"]
      /\ slot' = [slot EXCEPT ![a].state = "draining"]
      /\ events' = Append(events, e)
      /\ ses' = [ses EXCEPT !.active = NoSlot, !.token = 0]
      /\ UNCHANGED <<reg, mon, boundaries, actions, completed, router, file, faults>>
  BY <1>1 DEF CloseWindowDone, Left, process, CaptureTypeOK, Controls
<1>4. /\ ctl' \in Controls /\ ctl'.manual = FALSE /\ ctl'.segment = FALSE
      /\ ctl'.closing = FALSE /\ ctl'.window = ctl.window /\ ctl'.issued = ctl.issued
  BY <1>1, <1>3 DEF CaptureTypeOK, Controls
<1>5. /\ ses' \in Sessions /\ ses'.mode = ses.mode /\ ses'.stage = ses.stage
      /\ ses'.closing = ses.closing /\ ses'.active = NoSlot /\ ses'.error = ses.error
      /\ ses'.prepared = ses.prepared
  BY <1>1, <1>3 DEF CaptureTypeOK, Sessions
<1>6. /\ slot' \in [Slots -> SlotRecords] /\ slot'[a].state = "draining"
      /\ \A s \in Slots : slot'[s].job = slot[s].job /\ slot'[s].writer = slot[s].writer
      /\ \A s \in Slots : s # a => slot'[s] = slot[s]
  BY <1>1, <1>2, <1>3, SlotMoves DEF SlotStates
<1>7. /\ job' \in [Corrections -> JobRecords]
      /\ \A i \in Corrections : job'[i].window = job[i].window /\ job'[i].grade = job[i].grade
  BY <1>1, <1>2, <1>3, JobMoves
<1>8. e \in Changes /\ e.job = j
  BY <1>2 DEF Changes
<1> HIDE DEF a, j, e
<1>9. /\ events' \in Seq(Changes) /\ \A i \in DOMAIN events : events[i] \in Changes
      /\ \A i \in DOMAIN events' : (i \in DOMAIN events /\ events'[i] = events[i]) \/ events'[i] = e
  <2>1. events \in Seq(Changes)
    BY <1>1 DEF CaptureTypeOK
  <2> QED
    BY <2>1, <1>3, <1>8, AppendCases
<1>10. CaptureTypeOK'
  BY <1>1, <1>3, <1>4, <1>5, <1>6, <1>7, <1>9 DEF CaptureTypeOK
<1>11. ControlMoves
  BY <1>1, <1>4, ControlEnds
<1>12. StagesAgree' /\ StopSettles'
  BY <1>1, <1>2, <1>3, <1>4, <1>5 DEF StagesAgree, StopSettles, a
<1>13. JobsAreOwned'
  <2>1. \A s \in Slots :
         /\ slot'[s].state # "preparing" /\ slot'[s].job # 0 /\ reg[slot'[s].job] # "none"
         /\ slot'[s].job \in Corrections
         /\ slot'[s].state = "prepared" <=> slot[s].state = "prepared"
         /\ slot'[s].state \in {"waiting", "complete"} => slot[s].state \in {"waiting", "complete"}
         /\ slot[s].state \in Working => slot'[s].state \in Working
    BY <1>1, <1>2, <1>6, CaptureFields DEF JobsAreOwned, Working, a
  <2>2. \A i \in DOMAIN events' : job'[events'[i].job].window # 0
    BY <1>1, <1>2, <1>7, <1>8, <1>9 DEF JobsAreOwned, Changes
  <2>3. mon.changes \in Seq(Changes) /\ \A i \in DOMAIN mon.changes : mon.changes[i] \in Changes
    BY <1>1, CaptureFields
  <2>4. \A i \in DOMAIN mon.changes : job'[mon.changes[i].job].window # 0
    BY <1>1, <1>2, <1>7, <2>3 DEF JobsAreOwned, Changes
  <2>5. \A i \in DOMAIN ses.prepared : ses.prepared[i] \in Slots
    BY <1>1, CaptureFields
  <2>6. \A s \in Slots :
         /\ slot'[s].state = "prepared" =>
              /\ job'[slot'[s].job].window = 0 /\ reg[slot'[s].job] \in {"armed", "deleted"}
              /\ file[slot'[s].job] = {}
         /\ slot'[s].state # "prepared" => job'[slot'[s].job].window # 0
         /\ slot'[s].state \in {"waiting", "complete"} => reg[slot'[s].job] \in Closed
    <3> SUFFICES ASSUME NEW s \in Slots
                 PROVE  /\ slot'[s].state = "prepared" =>
                             /\ job'[slot'[s].job].window = 0
                             /\ reg[slot'[s].job] \in {"armed", "deleted"}
                             /\ file[slot'[s].job] = {}
                        /\ slot'[s].state # "prepared" => job'[slot'[s].job].window # 0
                        /\ slot'[s].state \in {"waiting", "complete"} => reg[slot'[s].job] \in Closed
      OBVIOUS
    <3>1. slot'[s].job = slot[s].job /\ slot[s].job \in Corrections
      BY <1>6, <2>1
    <3>2. job'[slot[s].job].window = job[slot[s].job].window
      BY <3>1, <1>7
    <3> QED
      BY <1>1, <1>2, <2>1, <3>1, <3>2 DEF JobsAreOwned
  <2>7. \A i \in Corrections :
         /\ reg[i] = "none" => job'[i].window = 0 /\ file[i] = {}
         /\ job'[i].window = 0 /\ reg[i] \notin {"none", "deleted"} =>
              \E s \in Slots : slot'[s].job = i /\ slot'[s].state = "prepared"
         /\ job'[i].window # 0 /\ reg[i] \notin Closed =>
              \E s \in Slots : slot'[s].job = i /\ slot'[s].state \in Working
         /\ job'[i].window <= ctl'.window
    BY <1>1, <1>2, <1>4, <1>6, <1>7, <2>1 DEF JobsAreOwned
  <2>8. \A i \in DOMAIN ses.prepared : slot'[ses.prepared[i]].state = "prepared"
    BY <1>1, <1>2, <2>1, <2>5 DEF JobsAreOwned
  <2>9. \A s \in Slots, t \in Slots : slot'[s].job = slot'[t].job => s = t
    BY <1>1, <1>2, <1>6 DEF JobsAreOwned
  <2>10. \A i \in Corrections, k \in Corrections :
           job'[i].window = job'[k].window /\ job'[i].window # 0 => i = k
    BY <1>1, <1>2, <1>7 DEF JobsAreOwned
  <2>11. \A i \in DOMAIN ses.prepared, k \in DOMAIN ses.prepared :
           ses.prepared[i] = ses.prepared[k] => i = k
    BY <1>1, <1>2 DEF JobsAreOwned
  <2> QED
    BY <1>3, <1>5, <2>1, <2>2, <2>4, <2>6, <2>7, <2>8, <2>9, <2>10, <2>11 DEF JobsAreOwned
<1>14. PlacesApart'
  BY <1>1, <1>3, <1>5, PlacesStayApart
<1>15. WindowsFit'
  <2>1. /\ InWindows' = InWindows /\ OpenSlots' = OpenSlots /\ RoutedSlots' = RoutedSlots
        /\ DoneSlots' = DoneSlots /\ MonitorSlots' = MonitorSlots
        /\ FinishingSlots' = FinishingSlots
        /\ \A i, s : Opening(i, s)' = Opening(i, s)
    BY <1>1, <1>3, <1>5, PlacesStayApart
  <2>2. \A s \in OpenSlots \cup RoutedSlots \cup DoneSlots \cup FinishingSlots : s \in Slots
    BY DEF OpenSlots, RoutedSlots, DoneSlots, FinishingSlots
  <2>3. \A s \in Slots : slot[s].job \in Corrections
    BY <1>1, <1>2, CaptureFields DEF JobsAreOwned
  <2>4. \A s \in OpenSlots \cup RoutedSlots \cup DoneSlots \cup FinishingSlots :
          slot'[s].state \in Working /\ reg[slot'[s].job] # "source_complete"
    BY <1>1, <1>2, <1>6, <2>2 DEF WindowsFit, Working
  <2>5. mon.pc = "prepare" => \A s \in MonitorSlots :
          slot'[s].state \in {"complete", "draining"} /\ reg[slot'[s].job] \in Closed
    BY <1>1, <1>2, <1>6 DEF WindowsFit, MonitorSlots
  <2> QED
    BY <1>1, <1>2, <1>3, <1>6, <1>7, <2>1, <2>3, <2>4, <2>5 DEF WindowsFit
<1>16. ActiveIsOpen'
  BY <1>4, <1>5 DEF ActiveIsOpen
<1>17. ClosedInOrder'
  BY <1>3, <1>5, <1>11, ControlKeepsOrder
<1>18. GradesVouch'
  <2>1. \A i \in DOMAIN actions' : actions'[i].command \in 1..ctl'.issued[actions'[i].window]
    BY <1>1, <1>2, <1>3, <1>4 DEF GradesVouch
  <2> QED
    BY <1>3, <1>5, <1>6, <1>7, <1>11, <2>1, ControlKeepsGrades
<1>19. ses'.mode = "corrections_only"
  BY <1>2, <1>5 DEF InWindows
<1> QED
  BY <1>10, <1>12, <1>13, <1>14, <1>15, <1>16, <1>17, <1>18, <1>19, InvOfWindows

(* Every slot of corrections_only has a job, of a window that was opened.  *)
LEMMA OwnedJobs ==
  ASSUME CaptureTypeOK, JobsAreOwned, InWindows
  PROVE  /\ \A s \in Slots : slot[s].job \in Corrections
         /\ \A j \in Corrections : job[j].window <= ctl.window
         /\ \A n \in Windows, s \in Slots : WindowsFit /\ router.windows[n].slot = s => n <= ctl.window
<1>1. \A s \in Slots : slot[s].job \in Corrections
  BY CaptureFields DEF JobsAreOwned
<1> QED
  BY <1>1 DEF JobsAreOwned, WindowsFit

(* A takeover that opens a window.                                         *)
LEMMA OpenControl ==
  ASSUME CaptureInv, ctl.manual = FALSE, ctl.window < MaxWindows, Manual(TRUE)
  PROVE  /\ NextWindow \in Windows /\ NextWindow \in Nat /\ NextWindow # 0 /\ ctl.window < NextWindow
         /\ ctl' \in Controls /\ ctl'.manual = TRUE /\ ctl'.segment = TRUE
         /\ ctl'.closing = FALSE /\ ctl'.window = NextWindow /\ ctl'.issued = ctl.issued
         /\ ControlMoves
<1>1. CaptureTypeOK /\ StagesAgree
  BY DEF CaptureInv
<1>2. ctl.closing = FALSE
  BY <1>1, CaptureFields DEF StagesAgree
<1>3. NextWindow \in Windows /\ NextWindow = ctl.window + 1 /\ ctl.window \in Nat
  <2>1. ctl.window \in Nat
    BY <1>1, CaptureIntegers
  <2> QED
    BY <2>1, CaptureNumbers DEF NextWindow, Windows
<1>4. /\ ctl' \in Controls /\ ctl'.manual = TRUE /\ ctl'.segment = TRUE
      /\ ctl'.closing = FALSE /\ ctl'.window = NextWindow /\ ctl'.issued = ctl.issued
  BY <1>1, <1>2, <1>3 DEF CaptureTypeOK, Controls, Manual
<1>5. ControlMoves
  <2>1. \A n \in Windows : ctl.issued[n] \in Nat /\ n \in Nat
    BY <1>1, CaptureIntegers
  <2>2. \A n \in Windows : n <= ctl.window => Over(n)'
    BY <1>3, <1>4, <2>1 DEF Over
  <2> QED
    BY <1>3, <1>4, <2>1, <2>2 DEF ControlMoves
<1> QED
  BY <1>3, <1>4, <1>5

(* A takeover in a full session opens an interval.                         *)
LEMMA OpenIntervalKeeps ==
  ASSUME CaptureInv, Open, Full
  PROVE  CaptureInv'
<1>1. /\ CaptureTypeOK /\ StagesAgree /\ OneForAll /\ StopSettles
  BY DEF CaptureInv
<1> DEFINE e == [op |-> "open", slot |-> First, window |-> NextWindow]
<1>2. /\ ctl.manual = FALSE /\ ctl.window < MaxWindows /\ Manual(TRUE)
      /\ ses.stage \in {"up", "stopping"} /\ ses.closing = FALSE
      /\ boundaries' = Append(boundaries, e) /\ ses' = [ses EXCEPT !.token = NextWindow]
      /\ UNCHANGED <<slot, job, events, reg, mon, actions, completed, router, file, faults>>
  BY <1>1, CaptureFields DEF Open, OpenWindow, OpenInterval, Takeover
<1>3. /\ NextWindow \in Windows /\ NextWindow # 0 /\ ctl' \in Controls /\ ctl'.segment = TRUE
      /\ ctl'.manual = TRUE /\ ctl'.closing = FALSE /\ ctl'.window = NextWindow
  BY <1>2, OpenControl
<1>4. /\ ses' \in Sessions /\ ses'.mode = ses.mode /\ ses'.stage = ses.stage
      /\ ses'.closing = ses.closing /\ ses'.active = ses.active /\ ses'.error = ses.error
      /\ ses'.prepared = ses.prepared
  BY <1>1, <1>2, <1>3 DEF CaptureTypeOK, Sessions
<1>5. boundaries' \in Seq(Boundaries)
  <2>1. e \in Boundaries
    BY <1>3, CaptureNumbers DEF Boundaries, Opens
  <2>2. boundaries \in Seq(Boundaries)
    BY <1>1 DEF CaptureTypeOK
  <2> HIDE DEF e
  <2> QED
    BY <1>2, <2>1, <2>2
<1>6. CaptureTypeOK'
  BY <1>1, <1>2, <1>3, <1>4, <1>5 DEF CaptureTypeOK
<1>7. StagesAgree'
  BY <1>1, <1>2, <1>3, <1>4 DEF StagesAgree, CaptureInit
<1>8. OneForAll' /\ StopSettles'
  BY <1>1, <1>2, <1>3, <1>4 DEF OneForAll, StopSettles, InSession, Full
<1> QED
  BY <1>4, <1>6, <1>7, <1>8, InvOfSession DEF Full

(* A takeover opens a window in the first prepared slot.                   *)
LEMMA OpenWindowKeeps ==
  ASSUME CaptureInv, Open, ~Full
  PROVE  CaptureInv'
<1>1. /\ CaptureTypeOK /\ StagesAgree /\ OneForAll /\ JobsAreOwned /\ PlacesApart /\ WindowsFit
      /\ ActiveIsOpen /\ ClosedInOrder /\ GradesVouch /\ StopSettles
  BY DEF CaptureInv
<1>2. /\ ctl.manual = FALSE /\ ctl.window < MaxWindows /\ Manual(TRUE) /\ OpenWindow
      /\ ses.stage = "up" /\ ses.closing = FALSE /\ ses.active = NoSlot
      /\ ses.prepared # <<>> /\ InWindows
      /\ UNCHANGED <<reg, mon, actions, completed, router, file, faults>>
  <2>1. /\ ctl.manual = FALSE /\ ctl.window < MaxWindows /\ Manual(TRUE) /\ OpenWindow
        /\ ses.stage \in {"up", "stopping"} /\ ses.closing = FALSE /\ ses.active = NoSlot
        /\ ses.prepared # <<>>
        /\ UNCHANGED <<reg, mon, actions, completed, router, file, faults>>
    BY <1>1, CaptureFields DEF Open, OpenWindow, OpenInterval, Takeover
  <2>2. ses.stage = "up" /\ InWindows
    BY <1>1, <2>1, ModeIsKept DEF StagesAgree
  <2> QED
    BY <2>1, <2>2
<1> DEFINE left == Tail(ses.prepared)
<1>3. PICK a \in Slots, n \in Windows, j \in Corrections, l \in Nat :
        a = Head(ses.prepared) /\ n = NextWindow /\ j = slot[a].job /\ l = Len(boundaries)
  <2>1. ses.prepared \in Seq(Slots) /\ boundaries \in Seq(Boundaries)
    BY <1>1, CaptureFields DEF CaptureTypeOK
  <2>2. Head(ses.prepared) \in Slots /\ Len(boundaries) \in Nat
    BY <1>2, <2>1
  <2>3. slot[Head(ses.prepared)].job \in Corrections
    BY <1>1, <1>2, <2>2, OwnedJobs
  <2> QED
    BY <1>2, <2>2, <2>3, OpenControl
<1> DEFINE e == [op |-> "open", slot |-> a, window |-> n]
           c == [job |-> j, state |-> "capturing"]
<1>4. /\ boundaries' = Append(boundaries, e) /\ events' = Append(events, c)
      /\ ses' = [ses EXCEPT !.active = a, !.token = n, !.prepared = left]
      /\ job' = [job EXCEPT ![j].window = n, ![j].state = "capturing"]
      /\ slot' = [slot EXCEPT ![a].state = "capturing"]
  <2>1. ses' = [ses EXCEPT !.active = a, !.token = n, !.prepared = left]
    BY <1>1, <1>2, <1>3 DEF OpenWindow, CaptureTypeOK, Sessions
  <2> QED
    BY <1>2, <1>3, <2>1 DEF OpenWindow
<1>5. /\ n \in Nat /\ n # 0 /\ ctl.window < n /\ ctl.window \in Nat
      /\ ctl' \in Controls /\ ctl'.segment = TRUE
      /\ ctl'.manual = TRUE /\ ctl'.closing = FALSE /\ ctl'.window = n /\ ctl'.issued = ctl.issued
      /\ ControlMoves
  BY <1>1, <1>2, <1>3, OpenControl, CaptureIntegers
<1>6. /\ left \in Seq(Slots) /\ slot[a].state = "prepared"
      /\ \A i \in DOMAIN left : i + 1 \in DOMAIN ses.prepared /\ left[i] = ses.prepared[i + 1]
      /\ \A i \in DOMAIN left : i \in Nat /\ i + 1 # 1 /\ left[i] \in Slots /\ left[i] # a
  <2>1. ses.prepared \in Seq(Slots)
    BY <1>1, CaptureFields
  <2>2. /\ a = ses.prepared[1] /\ 1 \in DOMAIN ses.prepared /\ left \in Seq(Slots)
        /\ \A i \in DOMAIN left : i + 1 \in DOMAIN ses.prepared /\ left[i] = ses.prepared[i + 1]
        /\ \A i \in DOMAIN left : i \in 1..(Len(ses.prepared) - 1)
        /\ Len(ses.prepared) \in Nat
    BY <1>2, <1>3, <2>1, TailCases
  <2> HIDE DEF left
  <2>3. \A i \in DOMAIN left : i \in Nat /\ i + 1 # 1
    BY <2>2
  <2>4. \A i \in DOMAIN left : left[i] \in Slots
    BY <2>2
  <2>5. \A i \in DOMAIN left : left[i] # a
    BY <1>1, <1>2, <2>2, <2>3 DEF JobsAreOwned
  <2> QED
    BY <1>1, <1>2, <2>2, <2>3, <2>4, <2>5 DEF JobsAreOwned
<1> HIDE DEF left
<1>7. /\ slot[a].job = j /\ job[j].window = 0 /\ reg[j] \in {"armed", "deleted"} /\ file[j] = {}
      /\ \A s \in Slots : slot[s].job = j => s = a
  BY <1>1, <1>2, <1>3, <1>6 DEF JobsAreOwned
<1>8. /\ ses' \in Sessions /\ ses'.mode = ses.mode /\ ses'.stage = ses.stage
      /\ ses'.closing = ses.closing /\ ses'.active = a /\ ses'.token = n
      /\ ses'.error = ses.error /\ ses'.prepared = left
  BY <1>1, <1>2, <1>4, <1>5, <1>6 DEF CaptureTypeOK, Sessions
<1>9. /\ slot' \in [Slots -> SlotRecords] /\ slot'[a].state = "capturing"
      /\ \A s \in Slots : slot'[s].job = slot[s].job /\ slot'[s].writer = slot[s].writer
      /\ \A s \in Slots : s # a => slot'[s] = slot[s]
  BY <1>1, <1>2, <1>4, <1>6, SlotMoves DEF SlotStates
<1>10. /\ job' \in [Corrections -> JobRecords] /\ job'[j].window = n
       /\ \A i \in Corrections : i # j => job'[i].window = job[i].window
       /\ \A i \in Corrections : job'[i].grade = job[i].grade
  <2> DEFINE r == [job[j] EXCEPT !.window = n, !.state = "capturing"]
  <2>1. job \in [Corrections -> JobRecords] /\ job[j] \in JobRecords
    BY <1>1 DEF CaptureTypeOK
  <2>2. r \in JobRecords /\ r.window = n /\ r.grade = job[j].grade
    BY <2>1 DEF JobRecords
  <2>3. job' = [job EXCEPT ![j] = r]
    BY <1>4, <2>1 DEF JobRecords
  <2> HIDE DEF r
  <2> QED
    BY <2>1, <2>2, <2>3
<1>11. /\ e \in Boundaries /\ e.op = "open" /\ e.slot = a /\ e.window = n
       /\ c \in Changes /\ c.job = j
  BY <1>5, <1>6, <1>7 DEF Boundaries, Opens, Changes
<1> HIDE DEF e, c
<1>12. /\ boundaries' \in Seq(Boundaries) /\ DOMAIN boundaries = 1..l
       /\ DOMAIN boundaries' = 1..(l + 1)
       /\ \A i \in DOMAIN boundaries : boundaries'[i] = boundaries[i]
       /\ boundaries'[l + 1] = e
  <2>1. boundaries \in Seq(Boundaries)
    BY <1>1 DEF CaptureTypeOK
  <2>2. boundaries' = Append(boundaries, e) /\ e \in Boundaries /\ l = Len(boundaries)
    BY <1>3, <1>4, <1>11
  <2>3. Append(boundaries, e) \in Seq(Boundaries)
    BY <2>1, <2>2
  <2>4. /\ DOMAIN boundaries = 1..Len(boundaries) /\ Len(boundaries) \in Nat
        /\ DOMAIN Append(boundaries, e) = 1..(Len(boundaries) + 1)
        /\ \A i \in DOMAIN boundaries : Append(boundaries, e)[i] = boundaries[i]
        /\ Append(boundaries, e)[Len(boundaries) + 1] = e
    BY ONLY <2>1, AppendCases
  <2> QED
    BY ONLY <2>2, <2>3, <2>4
<1>13. /\ DOMAIN boundaries \subseteq DOMAIN boundaries'
       /\ \A i \in DOMAIN boundaries' : i \in Nat /\ (i \in DOMAIN boundaries \/ i = l + 1)
       /\ l + 1 \in DOMAIN boundaries' /\ l + 1 \notin DOMAIN boundaries
       /\ \A i \in DOMAIN boundaries : i < l + 1
  BY <1>12
<1>14. /\ events' \in Seq(Changes) /\ \A i \in DOMAIN events : events[i] \in Changes
       /\ \A i \in DOMAIN events' : (i \in DOMAIN events /\ events'[i] = events[i]) \/ events'[i] = c
  <2>1. events \in Seq(Changes)
    BY <1>1 DEF CaptureTypeOK
  <2>2. events' = Append(events, c) /\ c \in Changes
    BY <1>3, <1>4, <1>11
  <2>3. Append(events, c) \in Seq(Changes)
    BY <2>1, <2>2
  <2>4. /\ DOMAIN events = 1..Len(events) /\ Len(events) \in Nat
        /\ DOMAIN Append(events, c) = 1..(Len(events) + 1)
        /\ \A i \in DOMAIN events : Append(events, c)[i] = events[i]
        /\ Append(events, c)[Len(events) + 1] = c
    BY ONLY <2>1, AppendCases
  <2>5. \A i \in DOMAIN events : events[i] \in Changes
    BY <2>1
  <2>6. \A i \in 1..(Len(events) + 1) : i \in 1..Len(events) \/ i = Len(events) + 1
    BY <2>4
  <2> QED
    BY ONLY <2>2, <2>3, <2>4, <2>5, <2>6
<1>15. CaptureTypeOK'
  BY <1>1, <1>2, <1>4, <1>5, <1>8, <1>9, <1>10, <1>12, <1>14 DEF CaptureTypeOK
<1>16. StagesAgree' /\ StopSettles'
  BY <1>1, <1>2, <1>4, <1>5, <1>8 DEF StagesAgree, StopSettles
<1>17. JobsAreOwned'
  <2>1. \A s \in Slots : slot[s].job \in Corrections /\ (s # a => slot[s].job # j)
    BY <1>1, <1>2, <1>4, <1>7, OwnedJobs
  <2>2. \A s \in Slots :
         /\ slot'[s].state # "preparing" /\ slot'[s].job # 0 /\ reg[slot'[s].job] # "none"
         /\ slot'[s].state = "prepared" =>
              /\ job'[slot'[s].job].window = 0 /\ reg[slot'[s].job] \in {"armed", "deleted"}
              /\ file[slot'[s].job] = {}
         /\ slot'[s].state # "prepared" => job'[slot'[s].job].window # 0
         /\ slot'[s].state \in {"waiting", "complete"} => reg[slot'[s].job] \in Closed
    <3> SUFFICES ASSUME NEW s \in Slots
                 PROVE  /\ slot'[s].state # "preparing" /\ slot'[s].job # 0
                        /\ reg[slot'[s].job] # "none"
                        /\ slot'[s].state = "prepared" =>
                             /\ job'[slot'[s].job].window = 0
                             /\ reg[slot'[s].job] \in {"armed", "deleted"}
                             /\ file[slot'[s].job] = {}
                        /\ slot'[s].state # "prepared" => job'[slot'[s].job].window # 0
                        /\ slot'[s].state \in {"waiting", "complete"} => reg[slot'[s].job] \in Closed
      OBVIOUS
    <3>1. CASE s = a
      <4>1. slot'[s].job = j
        BY <3>1, <1>9, <1>7
      <4> QED
        BY <3>1, <4>1, <1>5, <1>7, <1>9, <1>10, CaptureNumbers
    <3>2. CASE s # a
      <4>1. slot'[s] = slot[s] /\ job'[slot[s].job].window = job[slot[s].job].window
        BY <3>2, <2>1, <1>9, <1>10
      <4> QED
        BY <4>1, <1>1, <1>2, <1>4 DEF JobsAreOwned
    <3> QED
      BY <3>1, <3>2
  <2>3. \A i \in Corrections :
         /\ reg[i] = "none" => job'[i].window = 0 /\ file[i] = {}
         /\ job'[i].window = 0 /\ reg[i] \notin {"none", "deleted"} =>
              \E s \in Slots : slot'[s].job = i /\ slot'[s].state = "prepared"
         /\ job'[i].window # 0 /\ reg[i] \notin Closed =>
              \E s \in Slots : slot'[s].job = i /\ slot'[s].state \in Working
         /\ job'[i].window <= ctl'.window
    <3> SUFFICES ASSUME NEW i \in Corrections
                 PROVE  /\ reg[i] = "none" => job'[i].window = 0 /\ file[i] = {}
                        /\ job'[i].window = 0 /\ reg[i] \notin {"none", "deleted"} =>
                             \E s \in Slots : slot'[s].job = i /\ slot'[s].state = "prepared"
                        /\ job'[i].window # 0 /\ reg[i] \notin Closed =>
                             \E s \in Slots : slot'[s].job = i /\ slot'[s].state \in Working
                        /\ job'[i].window <= ctl'.window
      OBVIOUS
    <3>1. CASE i = j
      <4>1. slot'[a].job = j /\ slot'[a].state \in Working
        BY <1>6, <1>9, <1>7 DEF Working
      <4> QED
        BY <3>1, <4>1, <1>5, <1>6, <1>7, <1>10
    <3>2. CASE i # j
      <4>1. job'[i].window = job[i].window /\ job[i].window \in Nat
        BY <3>2, <1>1, <1>10, CaptureIntegers
      <4>2. \A s \in Slots : slot[s].job = i => slot'[s] = slot[s]
        BY <3>2, <1>9, <1>7
      <4>3. /\ reg[i] = "none" => job[i].window = 0 /\ file[i] = {}
            /\ job[i].window = 0 /\ reg[i] \notin {"none", "deleted"} =>
                 \E s \in Slots : slot[s].job = i /\ slot[s].state = "prepared"
            /\ job[i].window # 0 /\ reg[i] \notin Closed =>
                 \E s \in Slots : slot[s].job = i /\ slot[s].state \in Working
            /\ job[i].window <= ctl.window
        BY <1>1, <1>2 DEF JobsAreOwned
      <4>4. job[i].window <= ctl'.window
        BY <4>1, <4>3, <1>5
      <4> QED
        BY <4>1, <4>2, <4>3, <4>4
    <3> QED
      BY <3>1, <3>2
  <2>4. \A s \in Slots, t \in Slots : slot'[s].job = slot'[t].job => s = t
    BY <1>1, <1>2, <1>4, <1>9 DEF JobsAreOwned
  <2>5. \A i \in Corrections, k \in Corrections :
           job'[i].window = job'[k].window /\ job'[i].window # 0 => i = k
    <3>1. \A i \in Corrections : i # j => job'[i].window # n
      BY <1>1, <1>2, <1>4, <1>5, <1>10, OwnedJobs, CaptureIntegers
    <3> QED
      BY <3>1, <1>1, <1>2, <1>4, <1>10 DEF JobsAreOwned
  <2>6. \A i \in DOMAIN left : slot'[left[i]].state = "prepared"
    BY <1>1, <1>2, <1>4, <1>6, <1>9 DEF JobsAreOwned
  <2>7. \A i \in DOMAIN left, k \in DOMAIN left : left[i] = left[k] => i = k
    BY <1>1, <1>2, <1>4, <1>6 DEF JobsAreOwned
  <2>8. \A i \in DOMAIN events' : job'[events'[i].job].window # 0
    BY <1>1, <1>2, <1>4, <1>5, <1>10, <1>11, <1>14 DEF JobsAreOwned, Changes
  <2>9. mon.changes \in Seq(Changes) /\ \A i \in DOMAIN mon.changes : mon.changes[i] \in Changes
    BY <1>1, CaptureFields
  <2>10. \A i \in DOMAIN mon.changes : job'[mon.changes[i].job].window # 0
    BY <1>1, <1>2, <1>4, <1>5, <1>10, <2>9 DEF JobsAreOwned, Changes
  <2>11. UNCHANGED <<reg, mon, file>> /\ ses'.prepared = left
    BY <1>2, <1>8
  <2> QED
    BY <2>2, <2>3, <2>4, <2>5, <2>6, <2>7, <2>8, <2>10, <2>11 DEF JobsAreOwned
<1>18. /\ a \notin OpenSlots /\ a \notin RoutedSlots /\ a \notin DoneSlots
       /\ a \notin MonitorSlots /\ a \notin FinishingSlots
  <2>1. a \notin OpenSlots \cup RoutedSlots \cup DoneSlots \cup FinishingSlots
    BY <1>1, <1>2, <1>4, <1>6 DEF WindowsFit, Working
  <2>2. a \in MonitorSlots => mon.pc \in {"finish", "prepare"}
    BY <1>1, <1>6, CaptureNumbers DEF StagesAgree, MonitorSlots
  <2>3. a \notin MonitorSlots
    BY <1>1, <1>2, <1>4, <1>6, <2>1, <2>2 DEF WindowsFit, MonitorSlots, FinishingSlots
  <2> QED
    BY <2>1, <2>3
<1>19. /\ \A i \in DOMAIN boundaries', s \in Slots :
            Opening(i, s)' => (i \in DOMAIN boundaries /\ Opening(i, s)) \/ (i = l + 1 /\ s = a)
       /\ \A i \in DOMAIN boundaries, s \in Slots : Opening(i, s) => Opening(i, s)'
       /\ Opening(l + 1, a)'
       /\ \A i \in DOMAIN boundaries' : ~Opening(i, a) \/ i \notin DOMAIN boundaries
  BY <1>6, <1>11, <1>12, <1>13, <1>18 DEF Opening, OpenSlots
<1>20. /\ OpenSlots' = OpenSlots \cup {a} /\ RoutedSlots' = RoutedSlots
       /\ DoneSlots' = DoneSlots /\ MonitorSlots' = MonitorSlots /\ FinishingSlots' = FinishingSlots
       /\ InWindows'
  <2>1. OpenSlots' = OpenSlots \cup {a}
    BY <1>6, <1>13, <1>19 DEF OpenSlots
  <2> QED
    BY <2>1, <1>2, <1>4, <1>8 DEF RoutedSlots, DoneSlots, MonitorSlots, FinishingSlots, InWindows
<1>21. PlacesApart'
  BY <1>1, <1>2, <1>4, <1>18, <1>19, <1>20 DEF PlacesApart
<1>22. \A s \in Slots : s # a =>
          /\ slot'[s] = slot[s] /\ slot[s].job \in Corrections
          /\ job'[slot[s].job].window = job[slot[s].job].window
  BY <1>1, <1>2, <1>4, <1>7, <1>9, <1>10, OwnedJobs
<1>23. WindowsFit'
  <2>1. \A s \in OpenSlots' \cup RoutedSlots \cup DoneSlots \cup FinishingSlots :
          slot'[s].state \in Working /\ reg[slot'[s].job] # "source_complete"
    <3> SUFFICES ASSUME NEW s \in OpenSlots' \cup RoutedSlots \cup DoneSlots \cup FinishingSlots
                 PROVE  slot'[s].state \in Working /\ reg[slot'[s].job] # "source_complete"
      OBVIOUS
    <3>1. s \in Slots
      BY <1>6, <1>20 DEF OpenSlots, RoutedSlots, DoneSlots, FinishingSlots
    <3>2. CASE s = a
      BY <3>2, <3>1, <1>7, <1>9, <1>7 DEF Working
    <3>3. CASE s # a
      BY <3>1, <3>3, <1>1, <1>2, <1>4, <1>20, <1>22 DEF WindowsFit
    <3> QED
      BY <3>2, <3>3
  <2>2. mon.pc = "prepare" =>
         \A s \in MonitorSlots :
           slot'[s].state \in {"complete", "draining"} /\ reg[slot'[s].job] \in Closed
    BY <1>1, <1>2, <1>4, <1>18, <1>22 DEF WindowsFit, MonitorSlots
  <2>3. \A i \in DOMAIN boundaries', s \in Slots :
         Opening(i, s)' => job'[slot'[s].job].window = boundaries'[i].window /\ file[slot'[s].job] = {}
    <3> SUFFICES ASSUME NEW i \in DOMAIN boundaries', NEW s \in Slots, Opening(i, s)'
                 PROVE  job'[slot'[s].job].window = boundaries'[i].window /\ file[slot'[s].job] = {}
      OBVIOUS
    <3>1. CASE i = l + 1 /\ s = a
      BY <3>1, <1>6, <1>7, <1>9, <1>10, <1>11, <1>12, <1>7
    <3>2. CASE i \in DOMAIN boundaries /\ Opening(i, s)
      <4>1. s # a
        BY <3>2, <1>19
      <4>2. job[slot[s].job].window = boundaries[i].window /\ file[slot[s].job] = {}
        BY <3>2, <1>1, <1>2 DEF WindowsFit
      <4>3. boundaries'[i] = boundaries[i]
        BY <3>2, <1>12
      <4> QED
        BY <4>1, <4>2, <4>3, <1>22
    <3> QED
      BY <3>1, <3>2, <1>19
  <2>4. \A m \in Windows, s \in Slots :
         router.windows[m].slot = s => job'[slot'[s].job].window = m
    <3>1. \A m \in Windows, s \in Slots :
            router.windows[m].slot = s => job[slot[s].job].window = m /\ s # a
      BY <1>1, <1>2, <1>18 DEF WindowsFit, RoutedSlots
    <3> QED
      BY <3>1, <1>22
  <2> QED
    BY <1>2, <1>4, <1>20, <2>1, <2>2, <2>3, <2>4 DEF WindowsFit
<1>24. \A i \in DOMAIN boundaries', m \in Windows :
         Closing(i, m)' => i \in DOMAIN boundaries /\ Closing(i, m)
  BY <1>11, <1>12, <1>13 DEF Closing
<1>25. /\ \A i \in DOMAIN boundaries : ~Closing(i, n)
       /\ router.windows[n].last = -1 /\ router.windows[n].slot \notin Slots
  <2>1. \A i \in DOMAIN boundaries : ~Closing(i, n)
    BY <1>1, <1>2, <1>4, <1>5 DEF ClosedInOrder
  <2>2. router.windows[n].slot \notin Slots
    BY <1>1, <1>2, <1>4, <1>5, OwnedJobs
  <2>3. router.windows[n].slot = NoSlot
    BY <1>1, <1>5, <2>2, CaptureFields
  <2> QED
    BY <1>1, <1>2, <1>4, <1>5, <2>1, <2>2, <2>3 DEF ClosedInOrder
<1>26. ActiveIsOpen'
  <2>1. slot'[a].job = j
    BY <1>6, <1>9, <1>7
  <2>2. \A i \in DOMAIN boundaries' : ~Closing(i, n)'
    BY <1>5, <1>24, <1>25
  <2>3. \A i \in DOMAIN boundaries' : ~(boundaries'[i].op = "close" /\ boundaries'[i].window = n)
    BY <2>2 DEF Closing
  <2>4. ses'.active = a /\ ses'.token = n /\ ctl'.window = n /\ n # 0 /\ a # NoSlot
    BY <1>5, <1>8, CaptureNumbers
  <2>5. slot'[a].state = "capturing" /\ job'[slot'[a].job].window = n
    BY <1>9, <1>10, <2>1
  <2>6. a \notin DoneSlots' \cup MonitorSlots' /\ a \in OpenSlots'
    BY <1>18, <1>20
  <2>7. router'.windows[n].last = -1 /\ ctl'.closing = FALSE
    BY <1>2, <1>5, <1>25
  <2> QED
    BY ONLY <2>3, <2>4, <2>5, <2>6, <2>7 DEF ActiveIsOpen, Closing
<1>27. ClosedInOrder'
  <2>1. \A m \in Windows : m <= ctl.window => Over(m)'
    BY <1>1, <1>5, CaptureIntegers DEF Over
  <2>2. \A m \in Windows :
          router'.windows[m].last # -1 =>
            router'.windows[m].slot # NoSlot /\ router'.windows[m].last = ctl'.issued[m] /\ Over(m)'
    <3> SUFFICES ASSUME NEW m \in Windows, router.windows[m].last # -1
                 PROVE  router.windows[m].slot # NoSlot /\ router.windows[m].last = ctl.issued[m]
                        /\ Over(m)'
      BY <1>2, <1>4, <1>5
    <3>1. router.windows[m].slot \in Slots /\ router.windows[m].last = ctl.issued[m]
      BY <1>1, <1>2, <1>4, CaptureFields DEF ClosedInOrder
    <3>2. m <= ctl.window
      BY <3>1, <1>1, <1>2, <1>4, OwnedJobs
    <3> QED
      BY <2>1, <3>1, <3>2, CaptureNumbers
  <2>3. \A i \in DOMAIN boundaries', m \in Windows :
          Closing(i, m)' =>
            /\ boundaries'[i].last = ctl'.issued[m] /\ Over(m)' /\ m <= ctl'.window
            /\ router'.windows[m].last = -1
            /\ \A k \in DOMAIN boundaries' : Closing(k, m)' => i = k
            /\ router'.runs = TRUE /\ router'.windows[m].slot = NoSlot =>
                 \E k \in DOMAIN boundaries' :
                   k < i /\ boundaries'[k].op = "open" /\ boundaries'[k].window = m
    <3> SUFFICES ASSUME NEW i \in DOMAIN boundaries', NEW m \in Windows, Closing(i, m)'
                 PROVE  /\ boundaries'[i].last = ctl'.issued[m] /\ Over(m)' /\ m <= ctl'.window
                        /\ router'.windows[m].last = -1
                        /\ \A k \in DOMAIN boundaries' : Closing(k, m)' => i = k
                        /\ router'.runs = TRUE /\ router'.windows[m].slot = NoSlot =>
                             \E k \in DOMAIN boundaries' :
                               k < i /\ boundaries'[k].op = "open" /\ boundaries'[k].window = m
      OBVIOUS
    <3>1. i \in DOMAIN boundaries /\ Closing(i, m)
      BY <1>24
    <3>2. /\ boundaries[i].last = ctl.issued[m] /\ m <= ctl.window
          /\ router.windows[m].last = -1
          /\ \A k \in DOMAIN boundaries : Closing(k, m) => i = k
          /\ router.runs = TRUE /\ router.windows[m].slot = NoSlot =>
               \E k \in DOMAIN boundaries :
                 k < i /\ boundaries[k].op = "open" /\ boundaries[k].window = m
      BY <3>1, <1>1, <1>2, <1>4 DEF ClosedInOrder
    <3>3. m <= ctl'.window
      BY <3>2, <1>1, <1>5, CaptureIntegers
    <3>4. router'.runs = TRUE /\ router'.windows[m].slot = NoSlot =>
            \E k \in DOMAIN boundaries' :
              k < i /\ boundaries'[k].op = "open" /\ boundaries'[k].window = m
      BY <3>2, <1>2, <1>4, <1>12, <1>13
    <3>5. \A k \in DOMAIN boundaries' : Closing(k, m)' => i = k
      BY <3>2, <1>24
    <3> QED
      BY <2>1, <3>1, <3>2, <3>3, <3>4, <3>5, <1>2, <1>4, <1>5, <1>12
  <2> QED
    BY <2>2, <2>3 DEF ClosedInOrder
<1>28. GradesVouch'
  <2> DEFINE whole == {i \in Corrections : Complete(i)'}
  <2>1. \A i \in Corrections : Complete(i) => i \in whole /\ i # j
    BY <1>1, <1>2, <1>4, <1>5, <1>7, <1>10, CompleteStays, OwnedJobs DEF Complete
  <2> HIDE DEF whole
  <2>2. \A i \in DOMAIN completed : completed[i] \in Results
    BY <1>1 DEF CaptureTypeOK
  <2>3. \A i \in DOMAIN completed : completed[i].slot \in Slots
    BY <2>2 DEF Results
  <2>4. \A i \in DOMAIN completed :
          completed[i].grade = "ok" => slot'[completed[i].slot].job \in whole
    BY <1>1, <1>2, <1>4, <1>9, <2>1, <2>3, OwnedJobs DEF GradesVouch
  <2>5. \A s \in FinishingSlots : mon.result.grade = "ok" => slot'[s].job \in whole
    BY <1>1, <1>2, <1>4, <1>9, <2>1, OwnedJobs DEF GradesVouch, FinishingSlots
  <2>6. \A i \in Corrections : reg[i] = "source_complete" /\ job'[i].grade = "ok" => i \in whole
    BY <1>1, <1>2, <1>4, <1>10, <2>1 DEF GradesVouch
  <2>7. \A i \in DOMAIN actions : actions[i].command \in 1..ctl.issued[actions[i].window]
    BY <1>1, <1>2, <1>4 DEF GradesVouch
  <2>8. \A m \in Windows, s \in Slots : router.windows[m].slot = s =>
         /\ router.windows[m].got \subseteq 1..ctl.issued[m]
         /\ router.windows[m].rejected = FALSE =>
              file[slot'[s].job] = {[window |-> m, command |-> c_] : c_ \in router.windows[m].got}
    BY <1>1, <1>2, <1>4, <1>9 DEF GradesVouch
  <2> QED
    BY <1>2, <1>4, <1>5, <1>20, <2>4, <2>5, <2>6, <2>7, <2>8 DEF GradesVouch, Complete, whole
<1> QED
  BY <1>2, <1>4, <1>8, <1>15, <1>16, <1>17, <1>21, <1>23, <1>26, <1>27, <1>28, InvOfWindows DEF InWindows

(* The number of faults stays a number.                                    *)
LEMMA FaultCounted ==
  ASSUME CaptureTypeOK, NEW good \in BOOLEAN, FaultUnless(good)
  PROVE  faults' \in Nat
BY DEF FaultUnless, Fault, CaptureTypeOK

(* What a step of the capture process leaves alone.                        *)
LEMMA CaptureLeaves ==
  ASSUME CaptureInv, UNCHANGED <<session, mon, ctl>>, ses.stage # "new",
         router'.runs = TRUE => router.runs = TRUE, router'.runs \in BOOLEAN
  PROVE  /\ StagesAgree' /\ StopSettles' /\ ControlMoves
         /\ UNCHANGED file => JobsAreOwned'
<1>1. CaptureTypeOK /\ StagesAgree /\ JobsAreOwned /\ StopSettles
  BY DEF CaptureInv
<1>2. StagesAgree'
  BY <1>1 DEF StagesAgree, session
<1>3. StopSettles'
  BY <1>1 DEF StopSettles, session, Full
<1>4. ControlMoves
  BY <1>1, ControlStays
<1>5. UNCHANGED file => JobsAreOwned'
  BY <1>1 DEF JobsAreOwned, session, InWindows
<1> QED
  BY <1>2, <1>3, <1>4, <1>5

(* The capture process runs in a session that was prepared.                *)
LEMMA RouterRuns ==
  ASSUME CaptureInv, router.runs
  PROVE  ses.stage # "new" /\ router.runs = TRUE /\ CaptureTypeOK
<1>1. CaptureTypeOK /\ StagesAgree
  BY DEF CaptureInv
<1>2. router.runs = TRUE
  BY <1>1, CaptureFields
<1> QED
  BY <1>1, <1>2 DEF StagesAgree, CaptureInit, NoRouter

(* What the queue of boundaries is without its first event.                *)
LEMMA BoundaryTaken ==
  ASSUME CaptureTypeOK, boundaries # <<>>, boundaries' = Tail(boundaries)
  PROVE  /\ Head(boundaries) = boundaries[1] /\ boundaries[1] \in Boundaries
         /\ 1 \in DOMAIN boundaries /\ boundaries' \in Seq(Boundaries)
         /\ \A i \in DOMAIN boundaries' :
              /\ i \in Nat /\ i + 1 # 1 /\ i + 1 \in DOMAIN boundaries
              /\ boundaries'[i] = boundaries[i + 1]
         /\ \A i \in DOMAIN boundaries :
              i \in Nat /\ (i = 1 \/ (i - 1 \in DOMAIN boundaries' /\ boundaries'[i - 1] = boundaries[i]))
         /\ \A i \in DOMAIN boundaries', n \in Windows : Closing(i, n)' => Closing(i + 1, n)
         /\ \A i \in DOMAIN boundaries', s \in Slots : Opening(i, s)' => Opening(i + 1, s)
<1>1. boundaries \in Seq(Boundaries)
  BY DEF CaptureTypeOK
<1>2. /\ Head(boundaries) = boundaries[1] /\ boundaries[1] \in Boundaries
      /\ 1 \in DOMAIN boundaries /\ boundaries' \in Seq(Boundaries)
      /\ DOMAIN boundaries = 1..Len(boundaries) /\ Len(boundaries) \in Nat
      /\ DOMAIN boundaries' = 1..(Len(boundaries) - 1)
      /\ \A i \in DOMAIN boundaries' :
           i + 1 \in DOMAIN boundaries /\ boundaries'[i] = boundaries[i + 1]
      /\ \A i \in DOMAIN boundaries :
           i = 1 \/ (i - 1 \in DOMAIN boundaries' /\ boundaries'[i - 1] = boundaries[i])
  BY <1>1, TailCases
<1>3. /\ \A i \in DOMAIN boundaries' : i \in Nat /\ i + 1 # 1
      /\ \A i \in DOMAIN boundaries : i \in Nat
  BY <1>2
<1> QED
  BY <1>2, <1>3 DEF Closing, Opening

(* The process dies, with all it knew.                                     *)
LEMMA CaptureDiesKeeps ==
  ASSUME CaptureInv, CaptureDies
  PROVE  CaptureInv'
<1>1. /\ CaptureTypeOK /\ StagesAgree /\ OneForAll /\ JobsAreOwned /\ PlacesApart /\ WindowsFit
      /\ ActiveIsOpen /\ ClosedInOrder /\ GradesVouch /\ StopSettles
  BY DEF CaptureInv
<1>2. /\ router' = NoRouter /\ ses.stage # "new" /\ faults' \in Nat
      /\ UNCHANGED <<ses, slot, job, reg, events, mon, boundaries, actions, completed, ctl, file>>
  BY <1>1, RouterRuns DEF CaptureDies, session, Fault, CaptureTypeOK
<1>3. /\ router' \in Routers /\ router'.runs = FALSE
      /\ \A n \in Windows :
           /\ router'.windows[n].slot = NoSlot /\ router'.windows[n].last = -1
           /\ router'.windows[n].slot \notin Slots
  BY <1>2, CaptureNumbers DEF NoRouter, NoWindow, Routers, RouterWindows
<1>4. CaptureTypeOK'
  BY <1>1, <1>2, <1>3 DEF CaptureTypeOK
<1>5. StagesAgree' /\ StopSettles' /\ JobsAreOwned'
  BY <1>1, <1>2, <1>3, CaptureLeaves DEF session
<1>6. OneForAll'
  BY <1>1, <1>2 DEF OneForAll, InSession
<1>7. /\ OpenSlots' = OpenSlots /\ RoutedSlots' = {}
      /\ DoneSlots' = DoneSlots /\ MonitorSlots' = MonitorSlots /\ FinishingSlots' = FinishingSlots
      /\ InWindows' = InWindows /\ \A i, s : Opening(i, s)' = Opening(i, s)
      /\ \A i, n : Closing(i, n)' = Closing(i, n)
  <2>1. RoutedSlots' = {}
    BY <1>3 DEF RoutedSlots
  <2> QED
    BY <2>1, <1>2 DEF OpenSlots, DoneSlots, MonitorSlots, FinishingSlots, InWindows, Opening, Closing
<1>8. PlacesApart'
  BY <1>1, <1>2, <1>7 DEF PlacesApart
<1>9. WindowsFit'
  BY <1>1, <1>2, <1>3, <1>7 DEF WindowsFit
<1>10. ActiveIsOpen'
  <2> SUFFICES ASSUME InWindows
               PROVE  ActiveIsOpen'
    BY <1>7 DEF ActiveIsOpen
  <2>1. ses.active # NoSlot => ses.token \in Windows
    BY <1>1, CaptureFields DEF ActiveIsOpen
  <2> QED
    BY <1>1, <1>2, <1>3, <1>7, <2>1 DEF ActiveIsOpen
<1>11. ClosedInOrder'
  BY <1>1, <1>2, <1>3, <1>7 DEF ClosedInOrder, Over
<1>12. GradesVouch'
  <2> SUFFICES ASSUME InWindows
               PROVE  GradesVouch'
    BY <1>7 DEF GradesVouch
  <2>1. /\ \A i \in DOMAIN completed :
             completed[i].grade = "ok" => Complete(slot[completed[i].slot].job)
        /\ \A s \in FinishingSlots : mon.result.grade = "ok" => Complete(slot[s].job)
        /\ \A j \in Corrections :
             reg[j] = "source_complete" /\ job[j].grade = "ok" => Complete(j)
    BY <1>1 DEF GradesVouch
  <2>2. \A n \in Windows, s \in Slots : router'.windows[n].slot = s =>
         /\ router'.windows[n].got \subseteq 1..ctl.issued[n]
         /\ router'.windows[n].rejected = FALSE =>
              file[slot[s].job] = {[window |-> n, command |-> c] : c \in router'.windows[n].got}
    BY <1>3
  <2>3. UNCHANGED <<slot, job, reg, mon, actions, completed, ctl, file>> /\ FinishingSlots' = FinishingSlots
    BY <1>2, <1>7
  <2> QED
    BY <1>1, <2>1, <2>2, <2>3, GradesStay
<1> QED
  BY <1>4, <1>5, <1>6, <1>8, <1>9, <1>10, <1>11, <1>12 DEF CaptureInv

(* The router opens a window.                                              *)
LEMMA TakeOpenKeeps ==
  ASSUME CaptureInv, NEW saved \in BOOLEAN, TakeBoundary(saved), InWindows,
         Head(boundaries).op = "open"
  PROVE  CaptureInv'
<1>1. /\ CaptureTypeOK /\ StagesAgree /\ OneForAll /\ JobsAreOwned /\ PlacesApart /\ WindowsFit
      /\ ActiveIsOpen /\ ClosedInOrder /\ GradesVouch /\ StopSettles
  BY DEF CaptureInv
<1>2. /\ router.runs = TRUE /\ boundaries # <<>> /\ boundaries' = Tail(boundaries)
      /\ ses.stage # "new" /\ faults' \in Nat
      /\ UNCHANGED <<ses, slot, job, reg, events, mon, actions, completed, ctl, file>>
  BY <1>1, FaultCounted, RouterRuns DEF TakeBoundary, session
<1>3. /\ Head(boundaries) = boundaries[1] /\ boundaries[1] \in Boundaries
      /\ 1 \in DOMAIN boundaries /\ boundaries' \in Seq(Boundaries)
      /\ \A i \in DOMAIN boundaries' :
           /\ i \in Nat /\ i + 1 # 1 /\ i + 1 \in DOMAIN boundaries
           /\ boundaries'[i] = boundaries[i + 1]
      /\ \A i \in DOMAIN boundaries :
           i \in Nat /\ (i = 1 \/ (i - 1 \in DOMAIN boundaries' /\ boundaries'[i - 1] = boundaries[i]))
      /\ \A i \in DOMAIN boundaries', n \in Windows : Closing(i, n)' => Closing(i + 1, n)
      /\ \A i \in DOMAIN boundaries', s \in Slots : Opening(i, s)' => Opening(i + 1, s)
  BY <1>1, <1>2, BoundaryTaken
<1>4. PICK a \in Slots, n \in Windows, lost \in BOOLEAN :
        /\ a = boundaries[1].slot /\ n = boundaries[1].window
        /\ boundaries[1].op = "open" /\ Opening(1, a)
        /\ router' = [router EXCEPT !.windows[n] = NewWindow(boundaries[1]), !.rejected = lost]
  <2>1. boundaries[1] \in Opens
    BY <1>3 DEF Boundaries, Closes
  <2>2. boundaries[1].slot \in Slots /\ boundaries[1].window \in Windows
    BY <2>1 DEF Opens
  <2>3. (router.rejected \/ (Full /\ ~saved)) \in BOOLEAN
    OBVIOUS
  <2>4. router' = [router EXCEPT !.windows[boundaries[1].window] = NewWindow(boundaries[1]),
                                 !.rejected = router.rejected \/ (Full /\ ~saved)]
    BY <1>3 DEF TakeBoundary
  <2> QED
    BY <1>3, <2>2, <2>3, <2>4 DEF Opening
<1>5. /\ router' \in Routers /\ router'.runs = TRUE
      /\ router'.windows[n].slot = a /\ router'.windows[n].got = {}
      /\ router'.windows[n].last = -1 /\ router'.windows[n].rejected = FALSE
      /\ \A m \in Windows : m # n => router'.windows[m] = router.windows[m]
  <2> DEFINE w == NewWindow(boundaries[1])
             all == [router.windows EXCEPT ![n] = w]
  <2>1. w \in RouterWindows /\ w.slot = a /\ w.got = {} /\ w.last = -1 /\ w.rejected = FALSE
    BY <1>4 DEF NewWindow, NoWindow, RouterWindows
  <2>2. router.windows \in [Windows -> RouterWindows]
    BY <1>1 DEF CaptureTypeOK, Routers
  <2> HIDE DEF w
  <2>3. /\ all \in [Windows -> RouterWindows] /\ all[n] = w
        /\ \A m \in Windows : m # n => all[m] = router.windows[m]
    BY <2>1, <2>2
  <2>4. router' = [router EXCEPT !.windows = all, !.rejected = lost]
    BY <1>1, <1>4 DEF CaptureTypeOK, Routers, w
  <2> HIDE DEF all
  <2>5. router' \in Routers /\ router'.runs = TRUE /\ router'.windows = all
    BY <1>1, <1>2, <2>3, <2>4 DEF CaptureTypeOK, Routers
  <2> QED
    BY <2>1, <2>3, <2>5
<1>6. CaptureTypeOK'
  BY <1>1, <1>2, <1>3, <1>5 DEF CaptureTypeOK
<1>7. StagesAgree' /\ StopSettles' /\ JobsAreOwned' /\ ControlMoves
  BY <1>1, <1>2, <1>5, CaptureLeaves DEF session
<1>8. /\ job[slot[a].job].window = n /\ file[slot[a].job] = {} /\ n # 0
      /\ router.windows[n].slot \notin Slots /\ router.windows[n].slot = NoSlot
      /\ router.windows[n].last = -1
  <2>1. job[slot[a].job].window = n /\ file[slot[a].job] = {} /\ n # 0
    BY <1>1, <1>3, <1>4, CaptureNumbers DEF WindowsFit
  <2>2. ASSUME NEW t \in Slots, router.windows[n].slot = t
        PROVE  FALSE
    <3>1. job[slot[t].job].window = n
      BY <1>1, <2>2 DEF WindowsFit
    <3>2. slot[t].job = slot[a].job
      BY <1>1, <2>1, <3>1, OwnedJobs DEF JobsAreOwned
    <3>3. t = a
      BY <1>1, <3>2 DEF JobsAreOwned
    <3> QED
      BY <1>1, <1>3, <1>4, <2>2, <3>3 DEF PlacesApart, OpenSlots, RoutedSlots
  <2>3. router.windows[n].slot = NoSlot
    BY <1>1, <2>2, CaptureFields
  <2>4. router.windows[n].last = -1
    BY <1>1, <2>3 DEF ClosedInOrder
  <2> QED
    BY <2>1, <2>2, <2>3, <2>4
<1>9. /\ \A i \in DOMAIN boundaries', s \in Slots : Opening(i, s)' => s # a
      /\ OpenSlots' \cup {a} = OpenSlots /\ a \notin OpenSlots'
      /\ RoutedSlots' = RoutedSlots \cup {a}
      /\ DoneSlots' = DoneSlots /\ MonitorSlots' = MonitorSlots /\ FinishingSlots' = FinishingSlots
      /\ InWindows'
  <2>1. \A i \in DOMAIN boundaries', s \in Slots : Opening(i, s)' => s # a
    BY <1>1, <1>3, <1>4 DEF PlacesApart
  <2>2. \A i \in DOMAIN boundaries, s \in Slots : Opening(i, s) /\ s # a => Opening(i - 1, s)'
                                                  /\ i - 1 \in DOMAIN boundaries'
    BY <1>3, <1>4 DEF Opening
  <2>3. OpenSlots' \cup {a} = OpenSlots /\ a \notin OpenSlots'
    BY <1>3, <1>4, <2>1, <2>2 DEF OpenSlots
  <2>4. RoutedSlots' = RoutedSlots \cup {a}
    BY <1>5, <1>8 DEF RoutedSlots
  <2> QED
    BY <1>2, <2>1, <2>3, <2>4 DEF DoneSlots, MonitorSlots, FinishingSlots, InWindows
<1>10. PlacesApart'
  <2>1. \A s \in Slots, i \in DOMAIN boundaries', k \in DOMAIN boundaries' :
         Opening(i, s)' /\ Opening(k, s)' => i = k
    <3> SUFFICES ASSUME NEW s \in Slots, NEW i \in DOMAIN boundaries', NEW k \in DOMAIN boundaries',
                        Opening(i, s)', Opening(k, s)'
                 PROVE  i = k
      OBVIOUS
    <3>1. i + 1 = k + 1
      BY <1>1, <1>3 DEF PlacesApart
    <3> QED
      BY <1>3, <3>1
  <2>2. a \notin DoneSlots \cup MonitorSlots
    BY <1>1, <1>9 DEF PlacesApart
  <2> QED
    BY <1>1, <1>2, <1>9, <2>1, <2>2 DEF PlacesApart
<1>11. WindowsFit'
  <2>1. \A s \in OpenSlots' \cup RoutedSlots' \cup DoneSlots \cup FinishingSlots :
          slot[s].state \in Working /\ reg[slot[s].job] # "source_complete"
    BY <1>1, <1>9 DEF WindowsFit
  <2>2. \A i \in DOMAIN boundaries', s \in Slots : Opening(i, s)' =>
          job[slot[s].job].window = boundaries'[i].window /\ file[slot[s].job] = {}
    BY <1>1, <1>3 DEF WindowsFit
  <2>3. \A m \in Windows, s \in Slots :
          router'.windows[m].slot = s => job[slot[s].job].window = m
    BY <1>1, <1>5, <1>8 DEF WindowsFit
  <2> QED
    BY <1>1, <1>2, <1>9, <2>1, <2>2, <2>3 DEF WindowsFit
<1>12. \A m \in Windows : router'.windows[m].last = router.windows[m].last
  BY <1>5, <1>8
<1>13. ActiveIsOpen'
  <2>1. ses.active # NoSlot => ses.token \in Windows
    BY <1>1, CaptureFields DEF ActiveIsOpen
  <2>2. \A m \in Windows : (\A i \in DOMAIN boundaries : ~Closing(i, m)) =>
          \A i \in DOMAIN boundaries' : ~(boundaries'[i].op = "close" /\ boundaries'[i].window = m)
    BY <1>3 DEF Closing
  <2>3. OpenSlots' \cup RoutedSlots' = OpenSlots \cup RoutedSlots
    BY <1>9
  <2> QED
    BY <1>1, <1>2, <1>5, <1>9, <1>12, <2>1, <2>2, <2>3 DEF ActiveIsOpen, Closing
<1>14. ClosedInOrder'
  <2>1. \A i \in DOMAIN boundaries', m \in Windows :
          Closing(i, m)' =>
            /\ boundaries'[i].last = ctl'.issued[m] /\ Over(m)' /\ m <= ctl'.window
            /\ router'.windows[m].last = -1
            /\ \A k \in DOMAIN boundaries' : Closing(k, m)' => i = k
            /\ router'.runs = TRUE /\ router'.windows[m].slot = NoSlot =>
                 \E k \in DOMAIN boundaries' :
                   k < i /\ boundaries'[k].op = "open" /\ boundaries'[k].window = m
    <3> SUFFICES ASSUME NEW i \in DOMAIN boundaries', NEW m \in Windows, Closing(i, m)'
                 PROVE  /\ boundaries'[i].last = ctl'.issued[m] /\ Over(m)' /\ m <= ctl'.window
                        /\ router'.windows[m].last = -1
                        /\ \A k \in DOMAIN boundaries' : Closing(k, m)' => i = k
                        /\ router'.runs = TRUE /\ router'.windows[m].slot = NoSlot =>
                             \E k \in DOMAIN boundaries' :
                               k < i /\ boundaries'[k].op = "open" /\ boundaries'[k].window = m
      OBVIOUS
    <3>1. i + 1 \in DOMAIN boundaries /\ Closing(i + 1, m) /\ i \in Nat
      BY <1>3
    <3>2. /\ boundaries[i + 1].last = ctl.issued[m] /\ Over(m) /\ m <= ctl.window
          /\ router.windows[m].last = -1
          /\ \A k \in DOMAIN boundaries : Closing(k, m) => i + 1 = k
          /\ router.runs = TRUE /\ router.windows[m].slot = NoSlot =>
               \E k \in DOMAIN boundaries :
                 k < i + 1 /\ boundaries[k].op = "open" /\ boundaries[k].window = m
      BY <1>1, <3>1 DEF ClosedInOrder
    <3>3. Over(m)'
      BY <1>2, <3>2 DEF Over
    <3>4. ASSUME NEW k \in DOMAIN boundaries', Closing(k, m)'
          PROVE  i = k
      <4>1. i + 1 = k + 1
        BY <1>3, <3>2, <3>4
      <4> QED
        BY <1>3, <3>1, <4>1
    <3>5. ASSUME router'.windows[m].slot = NoSlot
          PROVE  \E k \in DOMAIN boundaries' :
                   k < i /\ boundaries'[k].op = "open" /\ boundaries'[k].window = m
      <4>1. m # n /\ router.windows[m].slot = NoSlot
        BY <1>5, <3>5, CaptureNumbers
      <4>2. PICK k \in DOMAIN boundaries :
              k < i + 1 /\ boundaries[k].op = "open" /\ boundaries[k].window = m
        BY <1>2, <3>2, <4>1
      <4>3. k # 1 /\ k - 1 \in DOMAIN boundaries' /\ boundaries'[k - 1] = boundaries[k] /\ k \in Nat
        BY <1>3, <1>4, <4>1, <4>2
      <4>4. k - 1 < i
        BY <3>1, <4>2, <4>3
      <4> QED
        BY <4>2, <4>3, <4>4
    <3> QED
      BY <1>2, <1>3, <1>12, <3>1, <3>2, <3>3, <3>4, <3>5
  <2>2. \A m \in Windows :
          router'.windows[m].last # -1 =>
            router'.windows[m].slot # NoSlot /\ router'.windows[m].last = ctl'.issued[m] /\ Over(m)'
    BY <1>1, <1>2, <1>5, <1>12 DEF ClosedInOrder, Over
  <2> QED
    BY <2>1, <2>2 DEF ClosedInOrder
<1>15. GradesVouch'
  <2>1. /\ \A i \in DOMAIN completed :
             completed[i].grade = "ok" => Complete(slot[completed[i].slot].job)
        /\ \A s \in FinishingSlots : mon.result.grade = "ok" => Complete(slot[s].job)
        /\ \A j \in Corrections :
             reg[j] = "source_complete" /\ job[j].grade = "ok" => Complete(j)
    BY <1>1 DEF GradesVouch
  <2>2. \A m \in Windows, s \in Slots : router'.windows[m].slot = s =>
         /\ router'.windows[m].got \subseteq 1..ctl.issued[m]
         /\ router'.windows[m].rejected = FALSE =>
              file[slot[s].job] = {[window |-> m, command |-> c] : c \in router'.windows[m].got}
    BY <1>1, <1>5, <1>8 DEF GradesVouch
  <2>3. UNCHANGED <<slot, job, reg, mon, actions, completed, ctl, file>> /\ FinishingSlots' = FinishingSlots
    BY <1>2, <1>9
  <2> QED
    BY <1>1, <2>1, <2>2, <2>3, GradesStay
<1> QED
  BY <1>2, <1>6, <1>7, <1>10, <1>11, <1>13, <1>14, <1>15, InvOfWindows DEF InWindows

(* The router takes a boundary, of whatever kind.                          *)
LEMMA RouterTakes ==
  ASSUME CaptureTypeOK, NEW saved \in BOOLEAN, TakeBoundary(saved)
  PROVE  /\ router' \in Routers /\ router'.runs = router.runs
         /\ boundaries[1].op # "open" =>
              \A m \in Windows :
                /\ router'.windows[m].slot = router.windows[m].slot
                /\ router'.windows[m].got = router.windows[m].got
                /\ router'.windows[m].rejected = router.windows[m].rejected
                /\ IF Closing(1, m) THEN router'.windows[m].last = boundaries[1].last
                   ELSE router'.windows[m].last = router.windows[m].last
<1>1. Head(boundaries) = boundaries[1] /\ boundaries[1] \in Boundaries
  BY BoundaryTaken DEF TakeBoundary
<1>2. PICK lost \in BOOLEAN : lost = (router.rejected \/ (Full /\ ~saved))
  OBVIOUS
<1>3. router \in Routers /\ router.windows \in [Windows -> RouterWindows]
  BY DEF CaptureTypeOK, Routers
<1>4. CASE boundaries[1].op = "open"
  <2>1. boundaries[1].slot \in Slots /\ boundaries[1].window \in Windows
    BY <1>1, <1>4 DEF Boundaries, Opens, Closes
  <2> DEFINE w == NewWindow(boundaries[1])
             all == [router.windows EXCEPT ![boundaries[1].window] = w]
  <2>2. w \in RouterWindows
    BY <2>1 DEF NewWindow, NoWindow, RouterWindows
  <2> HIDE DEF w
  <2>3. all \in [Windows -> RouterWindows]
    BY <1>3, <2>1, <2>2
  <2>4. router' = [router EXCEPT !.windows = all, !.rejected = lost]
    BY <1>1, <1>2, <1>3, <1>4 DEF TakeBoundary, w, Routers
  <2> HIDE DEF all
  <2> QED
    BY <1>3, <1>4, <2>3, <2>4 DEF Routers
<1>5. CASE boundaries[1].op = "close"
  <2>1. PICK n \in Windows, last \in Nat : n = boundaries[1].window /\ last = boundaries[1].last
    BY <1>1, <1>5 DEF Boundaries, Opens, Closes
  <2> DEFINE w == [router.windows[n] EXCEPT !.last = last]
             all == [router.windows EXCEPT ![n] = w]
  <2>2. /\ w \in RouterWindows /\ w.last = last /\ w.slot = router.windows[n].slot
        /\ w.got = router.windows[n].got /\ w.rejected = router.windows[n].rejected
    BY <1>3, <2>1 DEF RouterWindows
  <2>3. router' = [router EXCEPT !.windows = all, !.rejected = lost]
    BY <1>1, <1>2, <1>3, <1>5, <2>1 DEF TakeBoundary, Routers, RouterWindows
  <2> HIDE DEF w
  <2>4. /\ all \in [Windows -> RouterWindows] /\ all[n] = w
        /\ \A m \in Windows : m # n => all[m] = router.windows[m]
    BY <1>3, <2>1, <2>2
  <2> HIDE DEF all
  <2>5. router' \in Routers /\ router'.runs = router.runs /\ router'.windows = all
    BY <1>3, <2>3, <2>4 DEF Routers
  <2>6. \A m \in Windows : Closing(1, m) <=> m = n
    BY <1>5, <2>1 DEF Closing
  <2> QED
    BY <2>1, <2>2, <2>4, <2>5, <2>6
<1>6. CASE boundaries[1].op = "finish"
  <2>1. router' = [router EXCEPT !.ending = TRUE]
    BY <1>1, <1>6 DEF TakeBoundary
  <2>2. router' \in Routers /\ router'.runs = router.runs /\ router'.windows = router.windows
    BY <1>3, <2>1 DEF Routers
  <2>3. \A m \in Windows : ~Closing(1, m)
    BY <1>6 DEF Closing
  <2> QED
    BY <2>2, <2>3
<1> QED
  BY <1>1, <1>4, <1>5, <1>6 DEF Boundaries, Opens, Closes

(* The capture process takes a boundary that opens no window.              *)
LEMMA TakeOtherKeeps ==
  ASSUME CaptureInv, NEW saved \in BOOLEAN, TakeBoundary(saved), InWindows,
         Head(boundaries).op # "open"
  PROVE  CaptureInv'
<1>1. /\ CaptureTypeOK /\ StagesAgree /\ OneForAll /\ JobsAreOwned /\ PlacesApart /\ WindowsFit
      /\ ActiveIsOpen /\ ClosedInOrder /\ GradesVouch /\ StopSettles
  BY DEF CaptureInv
<1>2. /\ router.runs = TRUE /\ boundaries # <<>> /\ boundaries' = Tail(boundaries)
      /\ ses.stage # "new" /\ faults' \in Nat
      /\ UNCHANGED <<ses, slot, job, reg, events, mon, actions, completed, ctl, file>>
  BY <1>1, FaultCounted, RouterRuns DEF TakeBoundary, session
<1>3. /\ Head(boundaries) = boundaries[1] /\ boundaries[1] \in Boundaries
      /\ 1 \in DOMAIN boundaries /\ boundaries' \in Seq(Boundaries)
      /\ \A i \in DOMAIN boundaries' :
           /\ i \in Nat /\ i + 1 # 1 /\ i + 1 \in DOMAIN boundaries
           /\ boundaries'[i] = boundaries[i + 1]
      /\ \A i \in DOMAIN boundaries :
           i \in Nat /\ (i = 1 \/ (i - 1 \in DOMAIN boundaries' /\ boundaries'[i - 1] = boundaries[i]))
      /\ \A i \in DOMAIN boundaries', n \in Windows : Closing(i, n)' => Closing(i + 1, n)
      /\ \A i \in DOMAIN boundaries', s \in Slots : Opening(i, s)' => Opening(i + 1, s)
  BY <1>1, <1>2, BoundaryTaken
<1>4. /\ router' \in Routers /\ router'.runs = TRUE
      /\ \A m \in Windows :
           /\ router'.windows[m].slot = router.windows[m].slot
           /\ router'.windows[m].got = router.windows[m].got
           /\ router'.windows[m].rejected = router.windows[m].rejected
      /\ \A m \in Windows : Closing(1, m) => router'.windows[m].last = boundaries[1].last
      /\ \A m \in Windows : ~Closing(1, m) => router'.windows[m].last = router.windows[m].last
  BY <1>1, <1>2, <1>3, RouterTakes
<1>5. boundaries[1].op # "open" /\ \A s \in Slots : ~Opening(1, s)
  BY <1>3 DEF Opening
<1>6. CaptureTypeOK'
  BY <1>1, <1>2, <1>3, <1>4 DEF CaptureTypeOK
<1>7. StagesAgree' /\ StopSettles' /\ JobsAreOwned' /\ ControlMoves
  BY <1>1, <1>2, <1>4, CaptureLeaves DEF session
<1>8. /\ OpenSlots' = OpenSlots /\ RoutedSlots' = RoutedSlots
      /\ DoneSlots' = DoneSlots /\ MonitorSlots' = MonitorSlots /\ FinishingSlots' = FinishingSlots
      /\ InWindows'
  <2>1. \A i \in DOMAIN boundaries, s \in Slots :
          Opening(i, s) => Opening(i - 1, s)' /\ i - 1 \in DOMAIN boundaries'
    BY <1>3, <1>5 DEF Opening
  <2>2. OpenSlots' = OpenSlots
    BY <1>3, <2>1 DEF OpenSlots
  <2>3. RoutedSlots' = RoutedSlots
    BY <1>4 DEF RoutedSlots
  <2> QED
    BY <1>2, <2>2, <2>3 DEF DoneSlots, MonitorSlots, FinishingSlots, InWindows
<1>9. PlacesApart'
  <2>1. \A s \in Slots, i \in DOMAIN boundaries', k \in DOMAIN boundaries' :
         Opening(i, s)' /\ Opening(k, s)' => i = k
    <3> SUFFICES ASSUME NEW s \in Slots, NEW i \in DOMAIN boundaries', NEW k \in DOMAIN boundaries',
                        Opening(i, s)', Opening(k, s)'
                 PROVE  i = k
      OBVIOUS
    <3>1. i + 1 = k + 1
      BY <1>1, <1>3 DEF PlacesApart
    <3> QED
      BY <1>3, <3>1
  <2> QED
    BY <1>1, <1>2, <1>8, <2>1 DEF PlacesApart
<1>10. WindowsFit'
  <2>1. \A i \in DOMAIN boundaries', s \in Slots : Opening(i, s)' =>
          job[slot[s].job].window = boundaries'[i].window /\ file[slot[s].job] = {}
    BY <1>1, <1>3 DEF WindowsFit
  <2>2. \A m \in Windows, s \in Slots :
          router'.windows[m].slot = s => job[slot[s].job].window = m
    BY <1>1, <1>4 DEF WindowsFit
  <2>3. UNCHANGED <<slot, job, reg, mon, file>>
    BY <1>2
  <2> QED
    BY <1>1, <1>8, <2>1, <2>2, <2>3 DEF WindowsFit
<1>11. ActiveIsOpen'
  <2>1. ses.active # NoSlot => ses.token \in Windows
    BY <1>1, CaptureFields DEF ActiveIsOpen
  <2>2. \A m \in Windows : (\A i \in DOMAIN boundaries : ~Closing(i, m)) =>
          /\ \A i \in DOMAIN boundaries' : ~(boundaries'[i].op = "close" /\ boundaries'[i].window = m)
          /\ router'.windows[m].last = router.windows[m].last
    BY <1>3, <1>4 DEF Closing
  <2> QED
    BY <1>1, <1>2, <1>4, <1>8, <2>1, <2>2 DEF ActiveIsOpen, Closing
<1>12. ClosedInOrder'
  <2>1. \A i \in DOMAIN boundaries', m \in Windows :
          Closing(i, m)' =>
            /\ boundaries'[i].last = ctl'.issued[m] /\ Over(m)' /\ m <= ctl'.window
            /\ router'.windows[m].last = -1
            /\ \A k \in DOMAIN boundaries' : Closing(k, m)' => i = k
            /\ router'.runs = TRUE /\ router'.windows[m].slot = NoSlot =>
                 \E k \in DOMAIN boundaries' :
                   k < i /\ boundaries'[k].op = "open" /\ boundaries'[k].window = m
    <3> SUFFICES ASSUME NEW i \in DOMAIN boundaries', NEW m \in Windows, Closing(i, m)'
                 PROVE  /\ boundaries'[i].last = ctl'.issued[m] /\ Over(m)' /\ m <= ctl'.window
                        /\ router'.windows[m].last = -1
                        /\ \A k \in DOMAIN boundaries' : Closing(k, m)' => i = k
                        /\ router'.runs = TRUE /\ router'.windows[m].slot = NoSlot =>
                             \E k \in DOMAIN boundaries' :
                               k < i /\ boundaries'[k].op = "open" /\ boundaries'[k].window = m
      OBVIOUS
    <3>1. i + 1 \in DOMAIN boundaries /\ Closing(i + 1, m) /\ i \in Nat
      BY <1>3
    <3>2. /\ boundaries[i + 1].last = ctl.issued[m] /\ Over(m) /\ m <= ctl.window
          /\ router.windows[m].last = -1
          /\ \A k \in DOMAIN boundaries : Closing(k, m) => i + 1 = k
          /\ router.runs = TRUE /\ router.windows[m].slot = NoSlot =>
               \E k \in DOMAIN boundaries :
                 k < i + 1 /\ boundaries[k].op = "open" /\ boundaries[k].window = m
      BY <1>1, <3>1 DEF ClosedInOrder
    <3>3. Over(m)'
      BY <1>2, <3>2 DEF Over
    <3>4. ASSUME NEW k \in DOMAIN boundaries', Closing(k, m)'
          PROVE  i = k
      <4>1. i + 1 = k + 1
        BY <1>3, <3>2, <3>4
      <4> QED
        BY <1>3, <3>1, <4>1
    <3>5. ASSUME router'.windows[m].slot = NoSlot
          PROVE  \E k \in DOMAIN boundaries' :
                   k < i /\ boundaries'[k].op = "open" /\ boundaries'[k].window = m
      <4>1. PICK k \in DOMAIN boundaries :
              k < i + 1 /\ boundaries[k].op = "open" /\ boundaries[k].window = m
        BY <1>2, <1>4, <3>2, <3>5
      <4>2. k # 1 /\ k - 1 \in DOMAIN boundaries' /\ boundaries'[k - 1] = boundaries[k] /\ k \in Nat
        BY <1>3, <1>5, <4>1
      <4>3. k - 1 < i
        BY <3>1, <4>1, <4>2
      <4> QED
        BY <4>1, <4>2, <4>3
    <3>6. ~Closing(1, m)
      BY <1>3, <3>1, <3>2
    <3> QED
      BY <1>2, <1>3, <1>4, <3>1, <3>2, <3>3, <3>4, <3>5, <3>6
  <2>2. \A m \in Windows :
          router'.windows[m].last # -1 =>
            router'.windows[m].slot # NoSlot /\ router'.windows[m].last = ctl'.issued[m] /\ Over(m)'
    <3> SUFFICES ASSUME NEW m \in Windows, router'.windows[m].last # -1
                 PROVE  /\ router.windows[m].slot # NoSlot /\ router'.windows[m].last = ctl.issued[m]
                        /\ Over(m)
      BY <1>2, <1>4 DEF Over
    <3>1. CASE Closing(1, m)
      <4>1. /\ boundaries[1].last = ctl.issued[m] /\ Over(m)
            /\ router.windows[m].slot = NoSlot =>
                 \E k \in DOMAIN boundaries :
                   k < 1 /\ boundaries[k].op = "open" /\ boundaries[k].window = m
        BY <1>1, <1>2, <1>3, <3>1 DEF ClosedInOrder
      <4>2. DOMAIN boundaries = 1..Len(boundaries) /\ Len(boundaries) \in Nat
        BY <1>1, <1>2, TailCases DEF CaptureTypeOK
      <4>3. \A k \in DOMAIN boundaries : ~(k < 1)
        BY <4>2
      <4> QED
        BY <1>4, <3>1, <4>1, <4>3
    <3>2. CASE ~Closing(1, m)
      BY <1>1, <1>4, <3>2 DEF ClosedInOrder
    <3> QED
      BY <3>1, <3>2
  <2> QED
    BY <2>1, <2>2 DEF ClosedInOrder
<1>13. GradesVouch'
  <2>1. \A m \in Windows, s \in Slots : router'.windows[m].slot = s =>
         /\ router'.windows[m].got \subseteq 1..ctl.issued[m]
         /\ router'.windows[m].rejected = FALSE =>
              file[slot[s].job] = {[window |-> m, command |-> c] : c \in router'.windows[m].got}
    BY <1>1, <1>4 DEF GradesVouch
  <2>2. /\ \A i \in DOMAIN completed :
             completed[i].grade = "ok" => Complete(slot[completed[i].slot].job)
        /\ \A s \in FinishingSlots : mon.result.grade = "ok" => Complete(slot[s].job)
        /\ \A j \in Corrections :
             reg[j] = "source_complete" /\ job[j].grade = "ok" => Complete(j)
    BY <1>1 DEF GradesVouch
  <2>3. UNCHANGED <<slot, job, reg, mon, actions, completed, ctl, file>> /\ FinishingSlots' = FinishingSlots
    BY <1>2, <1>8
  <2> QED
    BY <1>1, <2>1, <2>2, <2>3, GradesStay
<1> QED
  BY <1>2, <1>6, <1>7, <1>9, <1>10, <1>11, <1>12, <1>13, InvOfWindows DEF InWindows

(* The capture process takes a boundary.                                   *)
LEMMA TakeBoundaryKeeps ==
  ASSUME CaptureInv, NEW saved \in BOOLEAN, TakeBoundary(saved)
  PROVE  CaptureInv'
<1>1. CaptureTypeOK /\ StagesAgree /\ OneForAll /\ StopSettles
  BY DEF CaptureInv
<1>2. /\ router.runs = TRUE /\ boundaries # <<>> /\ boundaries' = Tail(boundaries)
      /\ ses.stage # "new" /\ faults' \in Nat
      /\ UNCHANGED <<ses, slot, job, reg, events, mon, actions, completed, ctl, file>>
  BY <1>1, FaultCounted, RouterRuns DEF TakeBoundary, session
<1>3. CASE Full
  <2>1. router' \in Routers /\ router'.runs = TRUE /\ boundaries' \in Seq(Boundaries)
    BY <1>1, <1>2, RouterTakes, BoundaryTaken
  <2>2. CaptureTypeOK'
    BY <1>1, <1>2, <2>1 DEF CaptureTypeOK
  <2>3. StagesAgree' /\ StopSettles'
    BY <1>1, <1>2, <2>1, CaptureLeaves DEF session
  <2>4. OneForAll'
    BY <1>1, <1>2 DEF OneForAll, InSession
  <2> QED
    BY <1>2, <1>3, <2>2, <2>3, <2>4, InvOfSession DEF Full
<1>4. CASE ~Full
  <2>1. InWindows
    BY <1>1, <1>2, <1>4, ModeIsKept
  <2> QED
    BY <2>1, TakeOpenKeeps, TakeOtherKeeps
<1> QED
  BY <1>3, <1>4

(* The router takes a command.  A window that is not open, or finished,     *)
(* takes none; what the writer refuses spoils the grade.                    *)
LEMMA TakeActionKeeps ==
  ASSUME CaptureInv, NEW saved \in BOOLEAN, TakeAction(saved)
  PROVE  CaptureInv'
<1>1. /\ CaptureTypeOK /\ StagesAgree /\ OneForAll /\ JobsAreOwned /\ PlacesApart /\ WindowsFit
      /\ ActiveIsOpen /\ ClosedInOrder /\ GradesVouch /\ StopSettles
  BY DEF CaptureInv
<1>2. /\ router.runs = TRUE /\ actions # <<>> /\ actions' = Tail(actions)
      /\ ses.stage # "new" /\ faults' \in Nat
      /\ UNCHANGED <<ses, slot, job, reg, events, mon, boundaries, completed, ctl>>
  BY <1>1, FaultCounted, RouterRuns DEF TakeAction, session
<1>3. /\ actions \in Seq(Commands) /\ actions' \in Seq(Commands)
      /\ 1 \in DOMAIN actions /\ Head(actions) = actions[1] /\ actions[1] \in Commands
      /\ \A i \in DOMAIN actions' : i + 1 \in DOMAIN actions /\ actions'[i] = actions[i + 1]
  <2>1. actions \in Seq(Commands)
    BY <1>1 DEF CaptureTypeOK
  <2> QED
    BY <1>2, <2>1, TailCases
<1>4. PICK n \in Windows, c \in Nat : actions[1] = [window |-> n, command |-> c]
  BY <1>3 DEF Commands
<1> DEFINE a == [window |-> n, command |-> c]
           w == router.windows[n]
           to == IF Full THEN First ELSE w.slot
<1>5. /\ router' = CASE Full -> [router EXCEPT !.rejected = @ \/ ~saved]
                     [] ~Full /\ to # NoSlot ->
                          [router EXCEPT !.windows[n].got = @ \cup {c},
                                         !.windows[n].rejected = @ \/ ~saved]
                     [] OTHER -> router
      /\ file' = IF saved /\ to # NoSlot THEN [file EXCEPT ![slot[to].job] = @ \cup {a}] ELSE file
  <2>1. Head(actions) = a /\ a.window = n /\ a.command = c
    BY <1>3, <1>4
  <2> HIDE DEF a
  <2>2. TakeAction(saved)
    OBVIOUS
  <2> QED
    BY <2>1, <2>2 DEF TakeAction
<1>6. router \in Routers /\ router.windows \in [Windows -> RouterWindows] /\ w \in RouterWindows
  BY <1>1 DEF CaptureTypeOK, Routers
<1>7. file \in [Corrections -> SUBSET Commands] /\ a \in Commands
  BY <1>1 DEF CaptureTypeOK, Commands
<1> HIDE DEF a
<1>8. CASE Full
  <2>1. router' = [router EXCEPT !.rejected = router.rejected \/ ~saved]
    BY <1>5, <1>6, <1>8 DEF Routers
  <2>2. router' \in Routers /\ router'.runs = TRUE
    BY <1>2, <1>6, <2>1 DEF Routers
  <2>3. file' \in [Corrections -> SUBSET Commands]
    <3> DEFINE j == slot[to].job
    <3>1. file' = file \/ file' = [file EXCEPT ![j] = file[j] \cup {a}]
      BY <1>5
    <3> HIDE DEF j
    <3>2. [file EXCEPT ![j] = file[j] \cup {a}] \in [Corrections -> SUBSET Commands]
      BY <1>7
    <3> QED
      BY <1>7, <3>1, <3>2
  <2>4. CaptureTypeOK'
    BY <1>1, <1>2, <1>3, <2>2, <2>3 DEF CaptureTypeOK
  <2>5. StagesAgree' /\ StopSettles'
    BY <1>1, <1>2, <2>2, CaptureLeaves DEF session
  <2>6. OneForAll'
    BY <1>1, <1>2 DEF OneForAll, InSession
  <2> QED
    BY <1>2, <1>8, <2>4, <2>5, <2>6, InvOfSession DEF Full
<1>9. CASE ~Full
  <2>1. InWindows /\ ses.mode = "corrections_only"
    BY <1>1, <1>2, <1>9, ModeIsKept DEF InWindows
  <2>2. \A i \in DOMAIN actions' : actions'[i].command \in 1..ctl.issued[actions'[i].window]
    BY <1>1, <1>3, <2>1 DEF GradesVouch
  <2>3. c \in 1..ctl.issued[n]
    BY <1>1, <1>3, <1>4, <2>1 DEF GradesVouch
  <2>4. CASE to = NoSlot
    <3>1. router' = router /\ file' = file
      BY <1>5, <1>9, <2>4
    <3>2. CaptureTypeOK'
      BY <1>1, <1>2, <1>3, <3>1 DEF CaptureTypeOK
    <3>3. StagesAgree' /\ StopSettles' /\ JobsAreOwned' /\ ControlMoves
      BY <1>1, <1>2, <3>1, CaptureLeaves DEF session
    <3>4. PlacesApart' /\ WindowsFit'
      BY <1>1, <1>2, <3>1, PlacesStay
    <3>5. ActiveIsOpen'
      BY <1>1, <1>2, <3>1 DEF ActiveIsOpen, InWindows, Closing, OpenSlots, RoutedSlots, DoneSlots,
         MonitorSlots, Opening
    <3>6. ClosedInOrder'
      BY <1>2, <3>1, <3>3, ControlKeepsOrder
    <3>7. GradesVouch'
      BY <1>2, <2>2, <3>1, <3>3, ControlKeepsGrades
    <3> QED
      BY <1>2, <2>1, <3>2, <3>3, <3>4, <3>5, <3>6, <3>7, InvOfWindows
  <2>5. CASE to # NoSlot
    <3>1. PICK s \in Slots, j \in Corrections : s = w.slot /\ j = slot[s].job /\ s = to
      BY <1>6, <1>9, <2>1, <2>5, <1>1, OwnedJobs DEF RouterWindows
    <3>2. /\ job[j].window = n /\ slot[s].state \in Working /\ reg[j] # "source_complete"
          /\ n # 0 /\ reg[j] # "none"
      <4>1. s \in RoutedSlots
        BY <3>1 DEF RoutedSlots
      <4>2. slot[s].state \in Working /\ reg[j] # "source_complete"
        BY <1>1, <2>1, <3>1, <4>1 DEF WindowsFit
      <4>3. job[j].window = n
        BY <1>1, <2>1, <3>1 DEF WindowsFit
      <4> QED
        BY <1>1, <2>1, <3>1, <4>2, <4>3, CaptureNumbers DEF JobsAreOwned
    <3> DEFINE got == w.got \cup {c}
               rejected == (w.rejected \/ ~saved)
               v == [w EXCEPT !.got = got, !.rejected = rejected]
               all == [router.windows EXCEPT ![n] = v]
    <3>3. /\ v \in RouterWindows /\ v.slot = w.slot /\ v.last = w.last /\ v.got = got
          /\ v.rejected = FALSE => w.rejected = FALSE /\ saved
      BY <1>6 DEF RouterWindows
    <3>4. router' = [router EXCEPT !.windows = all]
      BY <1>5, <1>6, <1>9, <2>5 DEF Routers, RouterWindows
    <3> HIDE DEF v
    <3>5. /\ all \in [Windows -> RouterWindows] /\ all[n] = v
          /\ \A m \in Windows : m # n => all[m] = router.windows[m]
      BY <1>6, <3>3
    <3> HIDE DEF all
    <3>6. router' \in Routers /\ router'.runs = TRUE /\ router'.windows = all
      BY <1>2, <1>6, <3>4, <3>5 DEF Routers
    <3>7. \A m \in Windows : /\ router'.windows[m].slot = router.windows[m].slot
                             /\ router'.windows[m].last = router.windows[m].last
      BY <3>3, <3>5, <3>6
    <3>8. /\ file' \in [Corrections -> SUBSET Commands]
          /\ \A i \in Corrections : i # j => file'[i] = file[i]
          /\ saved => file'[j] = file[j] \cup {a}
      <4>1. file' = IF saved THEN [file EXCEPT ![j] = file[j] \cup {a}] ELSE file
        BY <1>5, <2>5, <3>1
      <4> QED
        BY <1>7, <4>1
    <3>9. CaptureTypeOK'
      BY <1>1, <1>2, <1>3, <3>6, <3>8 DEF CaptureTypeOK
    <3>10. StagesAgree' /\ StopSettles' /\ ControlMoves
      BY <1>1, <1>2, <3>6, CaptureLeaves DEF session
    <3>11. \A t \in Slots : slot[t].job \in Corrections /\ (t # s => slot[t].job # j)
      BY <1>1, <2>1, <3>1, OwnedJobs DEF JobsAreOwned
    <3>12. JobsAreOwned'
      <4>1. \A i \in Corrections : reg[i] = "none" => file'[i] = {}
        BY <1>1, <2>1, <3>2, <3>8 DEF JobsAreOwned
      <4>2. \A t \in Slots : slot[t].state = "prepared" => file'[slot[t].job] = {}
        BY <1>1, <2>1, <3>2, <3>8, <3>11 DEF JobsAreOwned, Working
      <4> DEFINE owned(i) ==
                   /\ job[i].window = 0 /\ reg[i] \notin {"none", "deleted"} =>
                        \E t \in Slots : slot[t].job = i /\ slot[t].state = "prepared"
                   /\ job[i].window # 0 /\ reg[i] \notin Closed =>
                        \E t \in Slots : slot[t].job = i /\ slot[t].state \in Working
      <4>3. \A i \in Corrections : owned(i)
        BY <1>1, <2>1 DEF JobsAreOwned
      <4> HIDE DEF owned
      <4>4. \A t \in Slots :
             /\ slot[t].state # "preparing" /\ slot[t].job # 0 /\ reg[slot[t].job] # "none"
             /\ slot[t].state = "prepared" =>
                  /\ job[slot[t].job].window = 0 /\ reg[slot[t].job] \in {"armed", "deleted"}
                  /\ file'[slot[t].job] = {}
             /\ slot[t].state # "prepared" => job[slot[t].job].window # 0
             /\ slot[t].state \in {"waiting", "complete"} => reg[slot[t].job] \in Closed
        BY <1>1, <2>1, <4>2 DEF JobsAreOwned
      <4>5. \A i \in Corrections :
              /\ reg[i] = "none" => job[i].window = 0 /\ file'[i] = {}
              /\ job[i].window = 0 /\ reg[i] \notin {"none", "deleted"} =>
                   \E t \in Slots : slot[t].job = i /\ slot[t].state = "prepared"
              /\ job[i].window # 0 /\ reg[i] \notin Closed =>
                   \E t \in Slots : slot[t].job = i /\ slot[t].state \in Working
              /\ job[i].window <= ctl.window
        BY <1>1, <2>1, <4>1, <4>3 DEF JobsAreOwned, owned
      <4>6. UNCHANGED <<ses, slot, job, reg, events, mon, ctl>>
        BY <1>2
      <4> QED
        BY <1>1, <2>1, <4>4, <4>5, <4>6 DEF JobsAreOwned
    <3>13. /\ OpenSlots' = OpenSlots /\ RoutedSlots' = RoutedSlots /\ InWindows'
           /\ DoneSlots' = DoneSlots /\ MonitorSlots' = MonitorSlots
           /\ FinishingSlots' = FinishingSlots
           /\ \A i, t : Opening(i, t)' = Opening(i, t)
           /\ \A i, m : Closing(i, m)' = Closing(i, m)
      <4>1. RoutedSlots' = RoutedSlots
        BY <3>7 DEF RoutedSlots
      <4> QED
        BY <1>2, <2>1, <4>1 DEF OpenSlots, DoneSlots, MonitorSlots, FinishingSlots, InWindows,
           Opening, Closing
    <3>14. PlacesApart'
      BY <1>1, <1>2, <2>1, <3>13 DEF PlacesApart
    <3>15. s \in RoutedSlots /\ s \notin OpenSlots /\ s \notin DoneSlots /\ s \notin MonitorSlots
      BY <1>1, <2>1, <3>1 DEF PlacesApart, RoutedSlots
    <3>16. WindowsFit'
      <4>1. \A i \in DOMAIN boundaries, t \in Slots : Opening(i, t) =>
              /\ job[slot[t].job].window = boundaries[i].window /\ file[slot[t].job] = {}
              /\ t # s
        BY <1>1, <2>1, <3>15 DEF WindowsFit, OpenSlots
      <4>2. \A i \in DOMAIN boundaries, t \in Slots : Opening(i, t) =>
              job[slot[t].job].window = boundaries[i].window /\ file'[slot[t].job] = {}
        BY <4>1, <3>8, <3>11
      <4>3. \A m \in Windows, t \in Slots :
              router'.windows[m].slot = t => job[slot[t].job].window = m
        BY <1>1, <2>1, <3>7 DEF WindowsFit
      <4>4. UNCHANGED <<slot, job, reg, mon, boundaries>>
        BY <1>2
      <4> QED
        BY <1>1, <2>1, <3>13, <4>2, <4>3, <4>4 DEF WindowsFit
    <3>17. ActiveIsOpen'
      <4>1. ses.active # NoSlot => ses.token \in Windows
        BY <1>1, <2>1, CaptureFields DEF ActiveIsOpen
      <4>2. UNCHANGED <<ses, slot, job, mon, ctl, boundaries>>
        BY <1>2
      <4> QED
        BY <1>1, <1>2, <2>1, <3>6, <3>7, <3>13, <4>1, <4>2 DEF ActiveIsOpen
    <3>18. ClosedInOrder'
      BY <1>1, <1>2, <2>1, <3>6, <3>7, <3>13 DEF ClosedInOrder, Over
    <3>19. \A i \in Corrections : Complete(i) /\ i # j => Complete(i)'
      BY <1>2, <3>8 DEF Complete, Issued, Over
    <3>20. GradesVouch'
      <4> DEFINE whole == {i \in Corrections : Complete(i)'}
      <4>1. \A i \in Corrections : Complete(i) /\ i # j => i \in whole
        BY <3>19
      <4> HIDE DEF whole
      <4>2. \A i \in DOMAIN completed : completed[i] \in Results
        BY <1>1 DEF CaptureTypeOK
      <4>3. \A i \in DOMAIN completed : completed[i].slot \in Slots /\ completed[i].slot # s
        BY <3>15, <4>2 DEF DoneSlots, Results
      <4>4. \A i \in DOMAIN completed :
              completed[i].grade = "ok" => slot[completed[i].slot].job \in whole
        BY <1>1, <2>1, <3>11, <4>1, <4>3 DEF GradesVouch
      <4>5. \A t \in FinishingSlots : mon.result.grade = "ok" => slot[t].job \in whole
        BY <1>1, <2>1, <3>11, <3>15, <4>1 DEF GradesVouch, FinishingSlots, MonitorSlots
      <4>6. \A i \in Corrections : reg[i] = "source_complete" /\ job[i].grade = "ok" => i \in whole
        BY <1>1, <2>1, <3>2, <4>1 DEF GradesVouch
      <4>7. /\ w.got \subseteq 1..ctl.issued[n]
            /\ w.rejected = FALSE => file[j] = {[window |-> n, command |-> d] : d \in w.got}
        BY <1>1, <2>1, <3>1 DEF GradesVouch
      <4>8. /\ v.got \subseteq 1..ctl.issued[n]
            /\ v.rejected = FALSE => file'[j] = {[window |-> n, command |-> d] : d \in v.got}
        BY <2>3, <3>3, <3>8, <4>7 DEF a
      <4>9. \A m \in Windows, t \in Slots : router'.windows[m].slot = t =>
             /\ router'.windows[m].got \subseteq 1..ctl.issued[m]
             /\ router'.windows[m].rejected = FALSE =>
                  file'[slot[t].job] = {[window |-> m, command |-> d] : d \in router'.windows[m].got}
        <5> SUFFICES ASSUME NEW m \in Windows, NEW t \in Slots, router'.windows[m].slot = t
                     PROVE  /\ router'.windows[m].got \subseteq 1..ctl.issued[m]
                            /\ router'.windows[m].rejected = FALSE =>
                                 file'[slot[t].job] =
                                   {[window |-> m, command |-> d] : d \in router'.windows[m].got}
          OBVIOUS
        <5>1. CASE m = n
          BY <5>1, <3>1, <3>3, <3>5, <3>6, <4>8
        <5>2. CASE m # n
          <6>1. router'.windows[m] = router.windows[m]
            BY <5>2, <3>5, <3>6
          <6>2. t # s
            BY <5>2, <6>1, <1>1, <2>1, <3>2, <3>1 DEF WindowsFit
          <6> QED
            BY <6>1, <6>2, <1>1, <2>1, <3>8, <3>11 DEF GradesVouch
        <5> QED
          BY <5>1, <5>2
      <4> QED
        BY <1>2, <2>2, <3>13, <4>4, <4>5, <4>6, <4>9 DEF GradesVouch, Complete, whole
    <3> QED
      BY <1>2, <2>1, <3>9, <3>10, <3>12, <3>14, <3>16, <3>17, <3>18, <3>20, InvOfWindows
  <2> QED
    BY <2>4, <2>5
<1> QED
  BY <1>8, <1>9

(* As many commands as the last number says are all of them.               *)
LEMMA AllReceived ==
  ASSUME NEW k \in Nat, NEW S \in SUBSET (1..k), ~(Cardinality(S) < k)
  PROVE  S = 1..k
<1>1. IsFiniteSet(1..k) /\ Cardinality(1..k) = k
  BY FS_Interval
<1> DEFINE all == 1..k
<1>2. IsFiniteSet(all) /\ S \in SUBSET all /\ Cardinality(all) = k
  BY <1>1
<1> HIDE DEF all
<1>3. IsFiniteSet(S) /\ Cardinality(S) <= k /\ (k = Cardinality(S) => all = S)
  BY <1>2, FS_Subset
<1>4. Cardinality(S) \in Nat
  BY <1>3, FS_CardinalityType
<1> QED
  BY <1>3, <1>4 DEF all

(* The results with one more are those before and the new one.             *)
LEMMA ResultAdded ==
  ASSUME CaptureTypeOK, NEW r \in Results, completed' = Append(completed, r)
  PROVE  /\ completed' \in Seq(Results)
         /\ \E l \in Nat :
              /\ DOMAIN completed = 1..l /\ DOMAIN completed' = 1..(l + 1)
              /\ completed'[l + 1] = r
              /\ \A i \in DOMAIN completed : completed'[i] = completed[i]
              /\ \A i \in DOMAIN completed' : i \in DOMAIN completed \/ i = l + 1
<1>1. completed \in Seq(Results)
  BY DEF CaptureTypeOK
<1>2. /\ DOMAIN completed = 1..Len(completed) /\ Len(completed) \in Nat
      /\ DOMAIN completed' = 1..(Len(completed) + 1)
      /\ \A i \in DOMAIN completed : completed'[i] = completed[i]
      /\ completed'[Len(completed) + 1] = r
  BY <1>1, AppendCases
<1>3. \A i \in DOMAIN completed' : i \in DOMAIN completed \/ i = Len(completed) + 1
  BY <1>2
<1>4. completed' \in Seq(Results)
  BY <1>1
<1>5. PICK l \in Nat : l = Len(completed)
  BY <1>2
<1> QED
  BY <1>2, <1>3, <1>4, <1>5

(* The router finishes a window and sends its grade.                       *)
LEMMA FinishWindowKeeps ==
  ASSUME CaptureInv, NEW saved \in BOOLEAN, NEW n \in Windows, FinishWindow(n, saved)
  PROVE  CaptureInv'
<1>1. /\ CaptureTypeOK /\ StagesAgree /\ OneForAll /\ JobsAreOwned /\ PlacesApart /\ WindowsFit
      /\ ActiveIsOpen /\ ClosedInOrder /\ GradesVouch /\ StopSettles
  BY DEF CaptureInv
<1> DEFINE w == router.windows[n]
           g == IF saved THEN Grade(w) ELSE IF w.got = {} THEN "review" ELSE "warning"
           all == [router.windows EXCEPT ![n] = NoWindow]
<1>2. /\ router.runs = TRUE /\ ~Full /\ ses.stage # "new" /\ faults' \in Nat
      /\ w.last >= 0
      /\ completed' = Append(completed, [slot |-> w.slot, grade |-> g])
      /\ router' = [router EXCEPT !.windows = all]
      /\ UNCHANGED <<ses, slot, job, reg, events, mon, boundaries, actions, ctl, file>>
  <2>1. router' = [router EXCEPT !.windows = all]
    BY <1>1 DEF FinishWindow, CaptureTypeOK, Routers
  <2> QED
    BY <1>1, <2>1, FaultCounted, RouterRuns DEF FinishWindow, session
<1>3. InWindows /\ ses.mode = "corrections_only"
  BY <1>1, <1>2, ModeIsKept DEF InWindows
<1>4. router \in Routers /\ router.windows \in [Windows -> RouterWindows] /\ w \in RouterWindows
  BY <1>1 DEF CaptureTypeOK, Routers
<1>5. /\ w.last # -1 /\ w.slot \in Slots /\ w.last = ctl.issued[n] /\ w.last \in Nat /\ Over(n)
      /\ n # 0
  <2>1. w.last \in Nat \cup {-1}
    BY <1>4 DEF RouterWindows
  <2>2. w.last # -1
    BY <1>2, <2>1
  <2> QED
    BY <1>1, <1>3, <1>4, <2>1, <2>2, CaptureNumbers DEF ClosedInOrder, RouterWindows
<1>6. PICK a \in Slots, j \in Corrections, grade \in Grades : a = w.slot /\ j = slot[a].job /\ grade = g
  <2>1. g \in Grades
    BY DEF Grade, Grades
  <2>2. slot[w.slot].job \in Corrections
    BY <1>1, <1>3, <1>5, OwnedJobs
  <2> QED
    BY <1>5, <2>1, <2>2
<1>7. job[j].window = n
  BY <1>1, <1>3, <1>6 DEF WindowsFit
<1>8. grade = "ok" => Complete(j)
  <2> SUFFICES ASSUME grade = "ok"
               PROVE  Complete(j)
    OBVIOUS
  <2>1. saved /\ ~(Cardinality(w.got) < w.last) /\ ~w.rejected
    BY <1>6 DEF Grade
  <2>2. w.rejected = FALSE
    BY <1>4, <2>1 DEF RouterWindows
  <2>3. /\ w.got \subseteq 1..w.last
        /\ file[j] = {[window |-> n, command |-> c] : c \in w.got}
    BY <1>1, <1>3, <1>5, <1>6, <2>2 DEF GradesVouch
  <2>4. w.got = 1..w.last
    BY <1>5, <2>1, <2>3, AllReceived
  <2>5. file[j] = Issued(n)
    BY <1>5, <2>3, <2>4 DEF Issued
  <2> QED
    BY <1>5, <1>7, <2>5 DEF Complete
<1> DEFINE r == [slot |-> a, grade |-> grade]
<1>9. r \in Results /\ r.slot = a /\ r.grade = grade /\ completed' = Append(completed, r)
  BY <1>2, <1>6 DEF Results
<1> HIDE DEF r, g
<1>10. /\ all \in [Windows -> RouterWindows] /\ all[n] = NoWindow
       /\ \A m \in Windows : m # n => all[m] = router.windows[m]
  <2>1. NoWindow \in RouterWindows
    BY DEF NoWindow, RouterWindows
  <2> QED
    BY <1>4, <2>1
<1> HIDE DEF all
<1>11. /\ router' \in Routers /\ router'.runs = TRUE
       /\ router'.windows[n].slot = NoSlot /\ router'.windows[n].last = -1
       /\ \A m \in Windows : m # n => router'.windows[m] = router.windows[m]
  <2>1. router' \in Routers /\ router'.runs = TRUE /\ router'.windows = all
    BY <1>2, <1>4, <1>10 DEF Routers
  <2> QED
    BY <1>10, <2>1 DEF NoWindow
<1>12. completed' \in Seq(Results)
  BY <1>1, <1>9, ResultAdded
<1>13. PICK l \in Nat :
         /\ DOMAIN completed = 1..l /\ DOMAIN completed' = 1..(l + 1)
         /\ completed'[l + 1] = r
         /\ \A i \in DOMAIN completed : completed'[i] = completed[i]
         /\ \A i \in DOMAIN completed' : i \in DOMAIN completed \/ i = l + 1
  BY <1>1, <1>9, ResultAdded
<1>14. /\ DOMAIN completed \subseteq DOMAIN completed' /\ l + 1 \in DOMAIN completed'
  BY <1>13
<1>15. CaptureTypeOK'
  BY <1>1, <1>2, <1>11, <1>12 DEF CaptureTypeOK
<1>16. StagesAgree' /\ StopSettles' /\ JobsAreOwned' /\ ControlMoves
  BY <1>1, <1>2, <1>11, CaptureLeaves DEF session
<1>17. /\ OpenSlots' = OpenSlots /\ RoutedSlots' = RoutedSlots \ {a}
       /\ DoneSlots' = DoneSlots \cup {a} /\ MonitorSlots' = MonitorSlots
       /\ FinishingSlots' = FinishingSlots /\ InWindows'
       /\ \A i, t : Opening(i, t)' = Opening(i, t)
       /\ \A i, m : Closing(i, m)' = Closing(i, m)
       /\ a \in RoutedSlots
  <2>1. \A m \in Windows : router.windows[m].slot = a => m = n
    BY <1>1, <1>3, <1>6, <1>7 DEF WindowsFit
  <2>2. a \in RoutedSlots
    BY <1>6 DEF RoutedSlots
  <2>3. RoutedSlots' = RoutedSlots \ {a}
    BY <1>6, <1>11, <2>1, CaptureNumbers DEF RoutedSlots
  <2>4. DoneSlots' = DoneSlots \cup {a}
    BY <1>9, <1>13, <1>14 DEF DoneSlots
  <2> QED
    BY <1>2, <1>3, <2>2, <2>3, <2>4 DEF OpenSlots, MonitorSlots, FinishingSlots, InWindows,
       Opening, Closing
<1>18. PlacesApart'
  <2>1. /\ OpenSlots \cap RoutedSlots = {} /\ OpenSlots \cap DoneSlots = {}
        /\ OpenSlots \cap MonitorSlots = {} /\ RoutedSlots \cap DoneSlots = {}
        /\ RoutedSlots \cap MonitorSlots = {} /\ DoneSlots \cap MonitorSlots = {}
    BY <1>1, <1>3 DEF PlacesApart
  <2>2. \A i \in DOMAIN completed', k \in DOMAIN completed' :
         completed'[i].slot = completed'[k].slot => i = k
    <3>1. \A i \in DOMAIN completed : completed[i].slot # a
      BY <2>1, <1>17 DEF DoneSlots
    <3> QED
      BY <3>1, <1>1, <1>3, <1>9, <1>13 DEF PlacesApart
  <2>3. \A s \in Slots, i \in DOMAIN boundaries, k \in DOMAIN boundaries :
         Opening(i, s) /\ Opening(k, s) => i = k
    BY <1>1, <1>3 DEF PlacesApart
  <2> QED
    BY <1>2, <1>17, <2>1, <2>2, <2>3 DEF PlacesApart
<1>19. WindowsFit'
  <2>1. \A m \in Windows, s \in Slots :
          router'.windows[m].slot = s => job[slot[s].job].window = m
    BY <1>1, <1>3, <1>11, CaptureNumbers DEF WindowsFit
  <2>2. UNCHANGED <<slot, job, reg, mon, boundaries, file>>
    BY <1>2
  <2>3. \A s \in OpenSlots \cup RoutedSlots' \cup DoneSlots' \cup FinishingSlots :
          slot[s].state \in Working /\ reg[slot[s].job] # "source_complete"
    BY <1>1, <1>3, <1>17 DEF WindowsFit
  <2> QED
    BY <1>1, <1>3, <1>17, <2>1, <2>2, <2>3 DEF WindowsFit
<1>20. ActiveIsOpen'
  <2>1. ses.active # NoSlot => ses.token \in Windows
    BY <1>1, <1>3, CaptureFields DEF ActiveIsOpen
  <2>2. ses.active # NoSlot /\ ctl.closing = FALSE => ses.token # n /\ ses.active # a
    BY <1>1, <1>3, <1>5, <1>6, <1>7 DEF ActiveIsOpen
  <2>3. UNCHANGED <<ses, slot, job, mon, boundaries, ctl>>
    BY <1>2
  <2> QED
    BY <1>1, <1>2, <1>3, <1>11, <1>17, <2>1, <2>2, <2>3 DEF ActiveIsOpen
<1>21. ClosedInOrder'
  <2>1. \A i \in DOMAIN boundaries : ~Closing(i, n)
    BY <1>1, <1>3, <1>5 DEF ClosedInOrder
  <2>2. \A i \in DOMAIN boundaries, m \in Windows : Closing(i, m) => m # n
    BY <2>1
  <2>3. \A i \in DOMAIN boundaries, m \in Windows :
         Closing(i, m) =>
           /\ boundaries[i].last = ctl.issued[m] /\ Over(m) /\ m <= ctl.window
           /\ router'.windows[m].last = -1
           /\ \A k \in DOMAIN boundaries : Closing(k, m) => i = k
           /\ router.runs = TRUE /\ router'.windows[m].slot = NoSlot =>
                \E k \in DOMAIN boundaries :
                  k < i /\ boundaries[k].op = "open" /\ boundaries[k].window = m
    BY <1>1, <1>3, <1>11, <2>2 DEF ClosedInOrder
  <2>4. \A m \in Windows :
         router'.windows[m].last # -1 =>
           router'.windows[m].slot # NoSlot /\ router'.windows[m].last = ctl.issued[m] /\ Over(m)
    BY <1>1, <1>3, <1>11 DEF ClosedInOrder
  <2>5. UNCHANGED <<boundaries, ctl>> /\ router'.runs = router.runs
    BY <1>2, <1>11
  <2> QED
    BY <1>17, <2>3, <2>4, <2>5 DEF ClosedInOrder, Over
<1>22. GradesVouch'
  <2>1. \A i \in DOMAIN completed' :
         completed'[i].grade = "ok" => Complete(slot[completed'[i].slot].job)
    <3>1. \A i \in DOMAIN completed :
           completed[i].grade = "ok" => Complete(slot[completed[i].slot].job)
      BY <1>1, <1>3 DEF GradesVouch
    <3> QED
      BY <3>1, <1>6, <1>8, <1>9, <1>13
  <2>2. \A m \in Windows, s \in Slots : router'.windows[m].slot = s =>
         /\ router'.windows[m].got \subseteq 1..ctl.issued[m]
         /\ router'.windows[m].rejected = FALSE =>
              file[slot[s].job] = {[window |-> m, command |-> c] : c \in router'.windows[m].got}
    BY <1>1, <1>3, <1>11, CaptureNumbers DEF GradesVouch
  <2>3. UNCHANGED <<slot, job, reg, mon, actions, ctl, file>>
    BY <1>2
  <2>4. /\ \A s \in FinishingSlots : mon.result.grade = "ok" => Complete(slot[s].job)
        /\ \A i \in Corrections :
             reg[i] = "source_complete" /\ job[i].grade = "ok" => Complete(i)
    BY <1>1, <1>3 DEF GradesVouch
  <2> QED
    BY <1>1, <1>3, <1>17, <2>1, <2>2, <2>3, <2>4, GradesStay
<1> QED
  BY <1>2, <1>3, <1>15, <1>16, <1>18, <1>19, <1>20, <1>21, <1>22, InvOfWindows

(* The router of a full session sends its grade.                           *)
LEMMA FinishSessionKeeps ==
  ASSUME CaptureInv, NEW saved \in BOOLEAN, FinishSession(saved)
  PROVE  CaptureInv'
<1>1. CaptureTypeOK /\ StagesAgree /\ OneForAll /\ StopSettles
  BY DEF CaptureInv
<1>2. PICK grade \in Grades : completed' = Append(completed, [slot |-> First, grade |-> grade])
  BY DEF FinishSession, Grades
<1>3. /\ router.runs = TRUE /\ Full /\ ses.stage # "new" /\ faults' \in Nat
      /\ router' = [router EXCEPT !.ending = FALSE]
      /\ UNCHANGED <<ses, slot, job, reg, events, mon, boundaries, actions, ctl, file>>
  BY <1>1, FaultCounted, RouterRuns DEF FinishSession, session
<1>4. router' \in Routers /\ router'.runs = TRUE
  BY <1>1, <1>3 DEF CaptureTypeOK, Routers
<1> DEFINE r == [slot |-> First, grade |-> grade]
<1>5. r \in Results /\ r.slot = First
  BY CaptureNumbers DEF Results
<1> HIDE DEF r
<1>6. completed' \in Seq(Results)
  BY <1>1, <1>2, <1>5, ResultAdded DEF r
<1>7. CaptureTypeOK'
  BY <1>1, <1>3, <1>4, <1>6 DEF CaptureTypeOK
<1>8. StagesAgree' /\ StopSettles'
  BY <1>1, <1>3, <1>4, CaptureLeaves DEF session
<1>9. OneForAll'
  <2>1. InSession /\ \A i \in DOMAIN completed : completed[i].slot = First
    BY <1>1, <1>3, ModeIsKept DEF OneForAll
  <2>2. \A i \in DOMAIN completed' : completed'[i].slot = First
    BY <1>1, <1>2, <1>5, <2>1, ResultAdded DEF r
  <2> QED
    BY <1>1, <1>3, <2>1, <2>2 DEF OneForAll, InSession
<1> QED
  BY <1>3, <1>7, <1>8, <1>9, InvOfSession DEF Full

(* The process of a writer dies.                                           *)
LEMMA WriterDiesKeeps ==
  ASSUME CaptureInv, NEW a \in Slots, WriterDies(a)
  PROVE  CaptureInv'
<1>1. /\ CaptureTypeOK /\ StagesAgree /\ OneForAll /\ JobsAreOwned /\ PlacesApart /\ WindowsFit
      /\ ActiveIsOpen /\ ClosedInOrder /\ GradesVouch /\ StopSettles
  BY DEF CaptureInv
<1>2. /\ slot[a].writer /\ slot' = [slot EXCEPT ![a].writer = FALSE] /\ faults' \in Nat
      /\ UNCHANGED <<ses, job, reg, events, mon, boundaries, actions, completed, router, file, ctl>>
  BY <1>1 DEF WriterDies, process, Fault, CaptureTypeOK
<1>3. /\ slot' \in [Slots -> SlotRecords]
      /\ \A s \in Slots : slot'[s].job = slot[s].job /\ slot'[s].state = slot[s].state
  BY <1>1, <1>2 DEF CaptureTypeOK, SlotRecords
<1>4. CaptureTypeOK'
  BY <1>1, <1>2, <1>3 DEF CaptureTypeOK
<1>5. ses.stage # "new"
  BY <1>1, <1>2 DEF StagesAgree, CaptureInit
<1>6. StagesAgree' /\ StopSettles'
  BY <1>1, <1>2, <1>3, <1>5 DEF StagesAgree, StopSettles, Full
<1>7. OneForAll'
  BY <1>1, <1>2, <1>3, CaptureNumbers DEF OneForAll, InSession
<1>8. JobsAreOwned'
  <2> SUFFICES ASSUME InWindows
               PROVE  JobsAreOwned'
    BY <1>2 DEF JobsAreOwned, InWindows
  <2>1. \A s \in Slots :
         /\ slot'[s].state # "preparing" /\ slot'[s].job # 0 /\ reg[slot'[s].job] # "none"
         /\ slot'[s].state = "prepared" =>
              /\ job[slot'[s].job].window = 0 /\ reg[slot'[s].job] \in {"armed", "deleted"}
              /\ file[slot'[s].job] = {}
         /\ slot'[s].state # "prepared" => job[slot'[s].job].window # 0
         /\ slot'[s].state \in {"waiting", "complete"} => reg[slot'[s].job] \in Closed
    BY <1>1, <1>3 DEF JobsAreOwned
  <2>2. \A i \in Corrections :
         /\ reg[i] = "none" => job[i].window = 0 /\ file[i] = {}
         /\ job[i].window = 0 /\ reg[i] \notin {"none", "deleted"} =>
              \E s \in Slots : slot'[s].job = i /\ slot'[s].state = "prepared"
         /\ job[i].window # 0 /\ reg[i] \notin Closed =>
              \E s \in Slots : slot'[s].job = i /\ slot'[s].state \in Working
         /\ job[i].window <= ctl.window
    BY <1>1, <1>3 DEF JobsAreOwned
  <2>3. ses.prepared \in Seq(Slots)
    BY <1>1, CaptureFields
  <2>4. \A i \in DOMAIN ses.prepared : slot'[ses.prepared[i]].state = "prepared"
    BY <1>1, <1>3, <2>3 DEF JobsAreOwned
  <2>5. \A s \in Slots, t \in Slots : slot'[s].job = slot'[t].job => s = t
    BY <1>1, <1>3 DEF JobsAreOwned
  <2> QED
    BY <1>1, <1>2, <2>1, <2>2, <2>4, <2>5 DEF JobsAreOwned
<1>9. /\ InWindows' = InWindows /\ OpenSlots' = OpenSlots /\ RoutedSlots' = RoutedSlots
      /\ DoneSlots' = DoneSlots /\ MonitorSlots' = MonitorSlots
      /\ FinishingSlots' = FinishingSlots
      /\ \A i, s : Opening(i, s)' = Opening(i, s)
      /\ \A i, m : Closing(i, m)' = Closing(i, m)
      /\ PlacesApart'
  BY <1>1, <1>2, PlacesStayApart DEF Closing
<1>10. WindowsFit'
  <2>1. \A s \in OpenSlots \cup RoutedSlots \cup DoneSlots \cup FinishingSlots \cup MonitorSlots :
          s \in Slots
    BY DEF OpenSlots, RoutedSlots, DoneSlots, FinishingSlots, MonitorSlots
  <2> QED
    BY <1>1, <1>2, <1>3, <1>9, <2>1 DEF WindowsFit
<1>11. ActiveIsOpen'
  BY <1>1, <1>2, <1>3, <1>9, CaptureFields DEF ActiveIsOpen
<1>12. ControlMoves
  BY <1>1, <1>2, ControlStays
<1>13. ClosedInOrder'
  BY <1>2, <1>12, ControlKeepsOrder
<1>14. GradesVouch'
  <2>1. InWindows => \A i \in DOMAIN actions : actions[i].command \in 1..ctl.issued[actions[i].window]
    BY <1>1 DEF GradesVouch
  <2> QED
    BY <1>2, <1>3, <1>9, <1>12, <2>1, ControlKeepsGrades DEF GradesVouch
<1> QED
  BY <1>4, <1>6, <1>7, <1>8, <1>9, <1>10, <1>11, <1>13, <1>14 DEF CaptureInv

(* The monitor runs from the preparation until the session is stopped.     *)
LEMMA MonitorUp ==
  ASSUME CaptureInv, mon.pc # "ended"
  PROVE  CaptureTypeOK /\ ses.stage \notin {"new", "stopped"}
<1>1. CaptureTypeOK /\ StagesAgree
  BY DEF CaptureInv
<1>2. ses.stage \notin {"new", "stopped"}
  BY <1>1 DEF StagesAgree, CaptureInit
<1> QED
  BY <1>1, <1>2

(* The monitor without a result ends, or looks at the notifications.       *)
LEMMA MonitorGoesOn ==
  ASSUME CaptureInv, UNCHANGED <<ses, slot, job, reg, process, ctl, faults>>,
         mon.pc \in {"loop", "save"}, mon'.pc \in {"ended", "loop", "save"},
         mon' \in Monitors, mon'.result = mon.result, events' \in Seq(Changes)
  PROVE  /\ CaptureTypeOK' /\ PlacesApart' /\ WindowsFit' /\ ActiveIsOpen' /\ ClosedInOrder'
         /\ GradesVouch' /\ StopSettles'
<1>1. /\ CaptureTypeOK /\ StagesAgree /\ JobsAreOwned /\ PlacesApart /\ WindowsFit
      /\ ActiveIsOpen /\ ClosedInOrder /\ GradesVouch /\ StopSettles
  BY DEF CaptureInv
<1>2. UNCHANGED <<ses, slot, job, reg, boundaries, actions, completed, router, file, ctl, faults>>
  BY DEF process
<1>3. CaptureTypeOK'
  BY <1>1, <1>2 DEF CaptureTypeOK
<1>4. /\ InWindows' = InWindows /\ OpenSlots' = OpenSlots /\ RoutedSlots' = RoutedSlots
      /\ DoneSlots' = DoneSlots /\ MonitorSlots' = MonitorSlots
      /\ FinishingSlots' = FinishingSlots
      /\ \A i, s : Opening(i, s)' = Opening(i, s)
      /\ \A i, n : Closing(i, n)' = Closing(i, n)
  <2>1. FinishingSlots' = FinishingSlots /\ MonitorSlots' = MonitorSlots
    BY DEF FinishingSlots, MonitorSlots
  <2> QED
    BY <1>2, <2>1 DEF InWindows, OpenSlots, RoutedSlots, DoneSlots, Opening, Closing
<1>5. PlacesApart'
  BY <1>1, <1>2, <1>4 DEF PlacesApart
<1>6. WindowsFit'
  BY <1>1, <1>2, <1>4 DEF WindowsFit
<1>7. ActiveIsOpen'
  BY <1>1, <1>2, <1>4 DEF ActiveIsOpen
<1>8. ClosedInOrder'
  BY <1>1, <1>2, <1>4 DEF ClosedInOrder, Over
<1>9. GradesVouch'
  <2> SUFFICES ASSUME InWindows
               PROVE  GradesVouch'
    BY <1>4 DEF GradesVouch
  <2>1. /\ \A i \in DOMAIN completed :
             completed[i].grade = "ok" => Complete(slot[completed[i].slot].job)
        /\ \A s \in FinishingSlots : mon.result.grade = "ok" => Complete(slot[s].job)
        /\ \A j \in Corrections :
             reg[j] = "source_complete" /\ job[j].grade = "ok" => Complete(j)
    BY <1>1 DEF GradesVouch
  <2>2. \A n \in Windows, s \in Slots : router.windows[n].slot = s =>
         /\ router.windows[n].got \subseteq 1..ctl.issued[n]
         /\ router.windows[n].rejected = FALSE =>
              file[slot[s].job] = {[window |-> n, command |-> c] : c \in router.windows[n].got}
    BY <1>1, <1>2 DEF GradesVouch
  <2>3. FinishingSlots' = {}
    BY <1>4 DEF FinishingSlots
  <2> QED
    BY <1>1, <1>2, <2>1, <2>2, <2>3, GradesStay
<1>10. StopSettles'
  BY <1>1, <1>2 DEF StopSettles, Full
<1> QED
  BY <1>3, <1>5, <1>6, <1>7, <1>8, <1>9, <1>10

(* Nothing is captured any more: the thread ends.                          *)
LEMMA MonitorEndsKeeps ==
  ASSUME CaptureInv, MonitorEnds
  PROVE  CaptureInv'
<1>1. CaptureTypeOK /\ StagesAgree /\ OneForAll /\ JobsAreOwned
  BY DEF CaptureInv
<1>2. /\ mon.pc \in {"loop", "save"} /\ ses.closing = TRUE /\ ~SlotsBusy
      /\ mon' = [mon EXCEPT !.pc = "ended"]
      /\ UNCHANGED <<ses, slot, job, reg, events, process, ctl, faults>>
  BY <1>1, CaptureFields DEF MonitorEnds, Waits, session
<1>3. /\ mon' \in Monitors /\ mon'.pc = "ended" /\ mon'.result = mon.result
      /\ mon'.changes = mon.changes /\ events' \in Seq(Changes)
  BY <1>1, <1>2 DEF CaptureTypeOK, Monitors
<1>4. /\ CaptureTypeOK' /\ PlacesApart' /\ WindowsFit' /\ ActiveIsOpen' /\ ClosedInOrder'
      /\ GradesVouch' /\ StopSettles'
  BY <1>2, <1>3, MonitorGoesOn
<1>5. StagesAgree'
  <2>1. ses.stage # "new"
    BY <1>2, MonitorUp
  <2>2. \A s \in Slots : slot[s].state \notin Working
    BY <1>2 DEF SlotsBusy, Working
  <2>3. UNCHANGED <<ses, slot, ctl, router>>
    BY <1>2 DEF process
  <2> QED
    BY <1>1, <1>2, <1>3, <2>1, <2>2, <2>3 DEF StagesAgree
<1>6. OneForAll'
  BY <1>1, <1>2, <1>3 DEF OneForAll, InSession, process
<1>7. JobsAreOwned'
  <2>1. UNCHANGED <<ses, slot, job, reg, events, ctl, file, router>>
    BY <1>2 DEF process
  <2>2. mon'.changes = mon.changes
    BY <1>3
  <2>3. JobsAreOwned
    BY <1>1
  <2> QED
    BY ONLY <2>1, <2>2, <2>3 DEF JobsAreOwned, InWindows
<1> QED
  BY <1>4, <1>5, <1>6, <1>7 DEF CaptureInv

(* The monitor takes the notifications it has to save.                     *)
LEMMA TakeChangesKeeps ==
  ASSUME CaptureInv, TakeChanges
  PROVE  CaptureInv'
<1>1. CaptureTypeOK /\ StagesAgree /\ OneForAll /\ JobsAreOwned
  BY DEF CaptureInv
<1>2. /\ mon.pc \in {"loop", "save"}
      /\ mon' = [mon EXCEPT !.pc = "save", !.changes = events] /\ events' = <<>>
      /\ UNCHANGED <<ses, slot, job, reg, process, ctl, faults>>
  BY <1>1, CaptureFields DEF TakeChanges, Waits
<1>3. /\ mon' \in Monitors /\ mon'.pc = "save" /\ mon'.result = mon.result
      /\ mon'.changes = events /\ events' \in Seq(Changes)
  <2>1. events \in Seq(Changes) /\ events' \in Seq(Changes) /\ mon \in Monitors
    BY <1>1, <1>2 DEF CaptureTypeOK
  <2>2. PICK es \in Seq(Changes) : es = events
    BY <2>1
  <2>3. mon' = [mon EXCEPT !.pc = "save", !.changes = es]
    BY <1>2, <2>2
  <2> QED
    BY <2>1, <2>2, <2>3 DEF Monitors
<1>4. /\ CaptureTypeOK' /\ PlacesApart' /\ WindowsFit' /\ ActiveIsOpen' /\ ClosedInOrder'
      /\ GradesVouch' /\ StopSettles'
  BY <1>2, <1>3, MonitorGoesOn
<1>5. StagesAgree'
  <2>1. ses.stage \notin {"new", "stopped"}
    BY <1>2, MonitorUp
  <2>3. UNCHANGED <<ses, slot, ctl, router>>
    BY <1>2 DEF process
  <2> QED
    BY <1>1, <1>2, <1>3, <2>1, <2>3 DEF StagesAgree
<1>6. OneForAll'
  BY <1>1, <1>2, <1>3 DEF OneForAll, InSession, process
<1>7. JobsAreOwned'
  <2>1. UNCHANGED <<ses, slot, job, reg, file, ctl>>
    BY <1>2 DEF process
  <2> QED
    BY <1>1, <1>2, <1>3, <2>1 DEF JobsAreOwned, InWindows
<1> QED
  BY <1>4, <1>5, <1>6, <1>7 DEF CaptureInv

(* A notification is saved: of a closed file the registry keeps its end.   *)
LEMMA SaveChangeKeeps ==
  ASSUME CaptureInv, SaveChange
  PROVE  CaptureInv'
<1>1. /\ CaptureTypeOK /\ StagesAgree /\ OneForAll /\ JobsAreOwned /\ PlacesApart /\ WindowsFit
      /\ ActiveIsOpen /\ ClosedInOrder /\ GradesVouch /\ StopSettles
  BY DEF CaptureInv
<1>2. /\ mon.pc = "save" /\ mon.changes # <<>>
      /\ ses.stage \notin {"new", "stopped"} /\ InWindows /\ ses.mode = "corrections_only"
      /\ UNCHANGED <<ses, slot, job, events, boundaries, actions, completed, router, file, ctl, faults>>
  <2>1. mon.pc = "save" /\ mon.changes # <<>> /\ ses.stage \notin {"new", "stopped"}
    BY MonitorUp DEF SaveChange
  <2>2. InWindows
    BY <1>1, <2>1, ModeIsKept DEF OneForAll
  <2> QED
    BY <2>1, <2>2 DEF SaveChange, process, InWindows
<1>3. PICK c \in Changes, left \in Seq(Changes) :
        /\ c = mon.changes[1] /\ left = Tail(mon.changes) /\ 1 \in DOMAIN mon.changes
        /\ \A i \in DOMAIN left : i + 1 \in DOMAIN mon.changes /\ left[i] = mon.changes[i + 1]
        /\ reg' = [reg EXCEPT ![c.job] = Saved(c.job, c.state)]
        /\ mon' = [mon EXCEPT !.changes = left]
  <2>1. mon.changes \in Seq(Changes)
    BY <1>1, CaptureFields
  <2>2. mon' = [mon EXCEPT !.changes = Tail(mon.changes)]
    BY <1>1 DEF SaveChange, CaptureTypeOK, Monitors
  <2>3. /\ Head(mon.changes) = mon.changes[1] /\ 1 \in DOMAIN mon.changes
        /\ mon.changes[1] \in Changes /\ Tail(mon.changes) \in Seq(Changes)
        /\ \A i \in DOMAIN Tail(mon.changes) :
             i + 1 \in DOMAIN mon.changes /\ Tail(mon.changes)[i] = mon.changes[i + 1]
    BY <1>2, <2>1, TailCases
  <2>4. reg' = [reg EXCEPT ![mon.changes[1].job] = Saved(mon.changes[1].job, mon.changes[1].state)]
    BY <2>3 DEF SaveChange
  <2>5. PICK c \in Changes, left \in Seq(Changes) : c = mon.changes[1] /\ left = Tail(mon.changes)
    BY <2>3
  <2> QED
    BY <2>2, <2>3, <2>4, <2>5
<1>4. PICK j \in Corrections : j = c.job /\ job[j].window # 0
  BY <1>1, <1>2, <1>3 DEF Changes, JobsAreOwned
<1>5. /\ reg' \in [Corrections -> RegStates]
      /\ \A i \in Corrections : i # j => reg'[i] = reg[i]
      /\ reg'[j] = reg[j] \/ (reg[j] \notin Closed /\ reg'[j] \in {"capturing", "draining"})
  BY <1>1, <1>3, <1>4 DEF CaptureTypeOK, Changes, Saved, Closed, RegStates
<1>6. \A i \in Corrections :
        /\ reg'[i] \in Closed <=> reg[i] \in Closed
        /\ reg'[i] = "source_complete" => reg[i] = "source_complete"
        /\ job[i].window = 0 => reg'[i] = reg[i]
        /\ reg[i] # "none" => reg'[i] # "none"
        /\ reg'[i] = "none" => reg[i] = "none"
  <2>1. reg[j] # "none"
    BY <1>1, <1>2, <1>4 DEF JobsAreOwned
  <2> QED
    BY <1>4, <1>5, <2>1 DEF Closed
<1>7. mon' \in Monitors /\ mon'.pc = mon.pc /\ mon'.result = mon.result /\ mon'.changes = left
  BY <1>1, <1>3 DEF CaptureTypeOK, Monitors
<1>8. CaptureTypeOK'
  BY <1>1, <1>2, <1>5, <1>7 DEF CaptureTypeOK
<1>9. StagesAgree' /\ StopSettles'
  BY <1>1, <1>2, <1>7 DEF StagesAgree, StopSettles
<1>10. \A s \in Slots : slot[s].job \in Corrections
  BY <1>1, <1>2, OwnedJobs
<1>11. JobsAreOwned'
  <2> DEFINE owned(i, state) == \E s \in Slots : slot[s].job = i /\ slot[s].state \in state
  <2>1. \A i \in Corrections :
          /\ job[i].window = 0 /\ reg[i] \notin {"none", "deleted"} => owned(i, {"prepared"})
          /\ job[i].window # 0 /\ reg[i] \notin Closed => owned(i, Working)
    BY <1>1, <1>2 DEF JobsAreOwned
  <2> HIDE DEF owned
  <2>2. \A i \in Corrections :
          /\ job[i].window = 0 /\ reg'[i] \notin {"none", "deleted"} => owned(i, {"prepared"})
          /\ job[i].window # 0 /\ reg'[i] \notin Closed => owned(i, Working)
    BY <1>6, <2>1
  <2>3. \A i \in Corrections :
          /\ reg'[i] = "none" => job[i].window = 0 /\ file[i] = {}
          /\ job[i].window <= ctl.window
    BY <1>1, <1>2, <1>6 DEF JobsAreOwned
  <2>4. \A s \in Slots :
         /\ slot[s].state # "preparing" /\ slot[s].job # 0 /\ reg'[slot[s].job] # "none"
         /\ slot[s].state = "prepared" =>
              /\ job[slot[s].job].window = 0 /\ reg'[slot[s].job] \in {"armed", "deleted"}
              /\ file[slot[s].job] = {}
         /\ slot[s].state # "prepared" => job[slot[s].job].window # 0
         /\ slot[s].state \in {"waiting", "complete"} => reg'[slot[s].job] \in Closed
    <3> SUFFICES ASSUME NEW s \in Slots
                 PROVE  /\ slot[s].state # "preparing" /\ slot[s].job # 0
                        /\ reg'[slot[s].job] # "none"
                        /\ slot[s].state = "prepared" =>
                             /\ job[slot[s].job].window = 0
                             /\ reg'[slot[s].job] \in {"armed", "deleted"}
                             /\ file[slot[s].job] = {}
                        /\ slot[s].state # "prepared" => job[slot[s].job].window # 0
                        /\ slot[s].state \in {"waiting", "complete"} => reg'[slot[s].job] \in Closed
      OBVIOUS
    <3>1. /\ slot[s].state # "preparing" /\ slot[s].job # 0 /\ reg[slot[s].job] # "none"
          /\ slot[s].state = "prepared" =>
               /\ job[slot[s].job].window = 0 /\ reg[slot[s].job] \in {"armed", "deleted"}
               /\ file[slot[s].job] = {}
          /\ slot[s].state # "prepared" => job[slot[s].job].window # 0
          /\ slot[s].state \in {"waiting", "complete"} => reg[slot[s].job] \in Closed
      BY <1>1, <1>2 DEF JobsAreOwned
    <3>2. slot[s].job \in Corrections
      BY <1>10
    <3> QED
      BY <1>6, <3>1, <3>2
  <2>5. \A i \in DOMAIN left : job[left[i].job].window # 0
    BY <1>1, <1>2, <1>3 DEF JobsAreOwned
  <2>6. UNCHANGED <<ses, slot, job, events, file, ctl>>
    BY <1>2
  <2>7. \A i \in Corrections :
         /\ reg'[i] = "none" => job[i].window = 0 /\ file[i] = {}
         /\ job[i].window = 0 /\ reg'[i] \notin {"none", "deleted"} =>
              \E s \in Slots : slot[s].job = i /\ slot[s].state = "prepared"
         /\ job[i].window # 0 /\ reg'[i] \notin Closed =>
              \E s \in Slots : slot[s].job = i /\ slot[s].state \in Working
         /\ job[i].window <= ctl.window
    BY <2>2, <2>3 DEF owned
  <2>8. /\ \A s \in Slots, t \in Slots : slot[s].job = slot[t].job => s = t
        /\ \A i \in Corrections, k \in Corrections :
             job[i].window = job[k].window /\ job[i].window # 0 => i = k
        /\ \A i \in DOMAIN ses.prepared : slot[ses.prepared[i]].state = "prepared"
        /\ \A i \in DOMAIN ses.prepared, k \in DOMAIN ses.prepared :
             ses.prepared[i] = ses.prepared[k] => i = k
        /\ \A i \in DOMAIN events : job[events[i].job].window # 0
    BY <1>1, <1>2 DEF JobsAreOwned
  <2> QED
    BY <1>7, <2>4, <2>5, <2>6, <2>7, <2>8 DEF JobsAreOwned
<1>12. /\ InWindows' = InWindows /\ OpenSlots' = OpenSlots /\ RoutedSlots' = RoutedSlots
       /\ DoneSlots' = DoneSlots /\ MonitorSlots' = MonitorSlots
       /\ FinishingSlots' = FinishingSlots
       /\ \A i, s : Opening(i, s)' = Opening(i, s)
       /\ \A i, n : Closing(i, n)' = Closing(i, n)
  BY <1>2, <1>7 DEF InWindows, OpenSlots, RoutedSlots, DoneSlots, MonitorSlots, FinishingSlots,
     Opening, Closing
<1>13. PlacesApart'
  BY <1>1, <1>2, <1>12 DEF PlacesApart
<1>14. WindowsFit'
  <2>1. \A s \in OpenSlots \cup RoutedSlots \cup DoneSlots \cup FinishingSlots :
          slot[s].state \in Working /\ reg'[slot[s].job] # "source_complete"
    <3>1. \A s \in OpenSlots \cup RoutedSlots \cup DoneSlots \cup FinishingSlots : s \in Slots
      BY DEF OpenSlots, RoutedSlots, DoneSlots, FinishingSlots
    <3> QED
      BY <1>1, <1>2, <1>6, <1>10, <3>1 DEF WindowsFit
  <2>2. UNCHANGED <<slot, job, boundaries, router, file>> /\ mon'.pc # "prepare"
    BY <1>2, <1>7
  <2> QED
    BY <1>1, <1>2, <1>12, <2>1, <2>2 DEF WindowsFit
<1>15. ActiveIsOpen'
  BY <1>1, <1>2, <1>7, <1>12 DEF ActiveIsOpen
<1>16. ControlMoves
  BY <1>1, <1>2, ControlStays
<1>17. ClosedInOrder'
  BY <1>2, <1>16, ControlKeepsOrder
<1>18. GradesVouch'
  <2>1. \A i \in Corrections : reg'[i] = "source_complete" /\ job[i].grade = "ok" => Complete(i)
    BY <1>1, <1>2, <1>6 DEF GradesVouch
  <2>2. FinishingSlots = {}
    BY <1>2 DEF FinishingSlots
  <2>3. UNCHANGED <<slot, job, actions, completed, router, ctl, file>>
    BY <1>2
  <2>4. \A i \in DOMAIN completed :
          completed[i].grade = "ok" => Complete(slot[completed[i].slot].job)
    BY <1>1, <1>2 DEF GradesVouch
  <2>5. \A n \in Windows, s \in Slots : router.windows[n].slot = s =>
         /\ router.windows[n].got \subseteq 1..ctl.issued[n]
         /\ router.windows[n].rejected = FALSE =>
              file[slot[s].job] = {[window |-> n, command |-> k] : k \in router.windows[n].got}
    BY <1>1, <1>2 DEF GradesVouch
  <2> QED
    BY <1>1, <1>2, <1>12, <2>1, <2>2, <2>3, <2>4, <2>5, GradesStay
<1> QED
  BY <1>2, <1>8, <1>9, <1>11, <1>13, <1>14, <1>15, <1>17, <1>18, InvOfWindows

(* The monitor gets the result of a window.                                *)
LEMMA GetResultKeeps ==
  ASSUME CaptureInv, GetResult
  PROVE  CaptureInv'
<1>1. /\ CaptureTypeOK /\ StagesAgree /\ OneForAll /\ JobsAreOwned /\ PlacesApart /\ WindowsFit
      /\ ActiveIsOpen /\ ClosedInOrder /\ GradesVouch /\ StopSettles
  BY DEF CaptureInv
<1>2. /\ mon.pc = "save" /\ completed # <<>> /\ ses.stage \notin {"new", "stopped"}
      /\ mon' = [mon EXCEPT !.pc = "finish", !.result = Head(completed)]
      /\ completed' = Tail(completed)
      /\ UNCHANGED <<ses, slot, job, reg, events, boundaries, actions, router, ctl, file, faults>>
  BY MonitorUp DEF GetResult, session
<1>3. PICK r \in Results :
        /\ r = Head(completed) /\ r = completed[1] /\ 1 \in DOMAIN completed
        /\ completed' \in Seq(Results)
        /\ \A i \in DOMAIN completed' : /\ i \in Nat /\ i + 1 # 1 /\ i + 1 \in DOMAIN completed
                                        /\ completed'[i] = completed[i + 1]
        /\ \A i \in DOMAIN completed :
             i = 1 \/ (i - 1 \in DOMAIN completed' /\ completed'[i - 1] = completed[i])
  <2>1. completed \in Seq(Results)
    BY <1>1 DEF CaptureTypeOK
  <2>2. /\ Head(completed) = completed[1] /\ 1 \in DOMAIN completed /\ completed[1] \in Results
        /\ completed' \in Seq(Results) /\ Len(completed) \in Nat
        /\ DOMAIN completed' = 1..(Len(completed) - 1)
        /\ \A i \in DOMAIN completed' :
             i + 1 \in DOMAIN completed /\ completed'[i] = completed[i + 1]
        /\ \A i \in DOMAIN completed :
             i = 1 \/ (i - 1 \in DOMAIN completed' /\ completed'[i - 1] = completed[i])
    BY <1>2, <2>1, TailCases
  <2>3. \A i \in DOMAIN completed' : i \in Nat /\ i + 1 # 1
    BY <2>2
  <2> QED
    BY <2>2, <2>3
<1>4. PICK a \in Slots, g \in Grades : r.slot = a /\ r.grade = g
  BY <1>3 DEF Results
<1>5. /\ mon' \in Monitors /\ mon'.pc = "finish" /\ mon'.result = r /\ mon'.changes = mon.changes
      /\ mon'.result.slot = a /\ mon'.result.grade = g
  <2>1. mon' = [mon EXCEPT !.pc = "finish", !.result = r] /\ r \in Results
    BY <1>2, <1>3
  <2>2. r \in [slot: Slots \cup {NoSlot}, grade: Grades \cup {"none"}]
    BY <2>1 DEF Results
  <2> QED
    BY <1>1, <1>4, <2>1, <2>2 DEF CaptureTypeOK, Monitors
<1>6. CaptureTypeOK'
  BY <1>1, <1>2, <1>3, <1>5 DEF CaptureTypeOK
<1>7. StagesAgree' /\ StopSettles'
  BY <1>1, <1>2, <1>5, CaptureNumbers DEF StagesAgree, StopSettles
<1>8. CASE Full
  <2>1. OneForAll'
    BY <1>1, <1>2, <1>3, <1>4, <1>5 DEF OneForAll, InSession
  <2> QED
    BY <1>2, <1>6, <1>7, <1>8, <2>1, InvOfSession DEF Full
<1>9. CASE ~Full
  <2>1. InWindows /\ ses.mode = "corrections_only"
    BY <1>1, <1>2, <1>9, ModeIsKept DEF InWindows
  <2>2. JobsAreOwned'
    BY <1>1, <1>2, <1>5 DEF JobsAreOwned, InWindows
  <2>3. /\ MonitorSlots = {} /\ FinishingSlots = {} /\ MonitorSlots' = {a} /\ FinishingSlots' = {a}
        /\ OpenSlots' = OpenSlots /\ RoutedSlots' = RoutedSlots
        /\ DoneSlots = DoneSlots' \cup {a} /\ a \notin DoneSlots' /\ InWindows'
        /\ \A i, s : Opening(i, s)' = Opening(i, s)
        /\ \A i, n : Closing(i, n)' = Closing(i, n)
    <3>1. mon.result.slot = NoSlot
      BY <1>1, <1>2 DEF StagesAgree
    <3>2. MonitorSlots = {} /\ FinishingSlots = {} /\ MonitorSlots' = {a} /\ FinishingSlots' = {a}
      BY <1>5, <3>1, CaptureNumbers DEF MonitorSlots, FinishingSlots
    <3>3. \A i \in DOMAIN completed' : completed'[i].slot # a
      BY <1>1, <1>3, <1>4, <2>1 DEF PlacesApart
    <3>4. a \notin DoneSlots' /\ DoneSlots = DoneSlots' \cup {a}
      BY <1>3, <1>4, <3>3 DEF DoneSlots
    <3> QED
      BY <1>2, <2>1, <3>2, <3>4 DEF OpenSlots, RoutedSlots, InWindows, Opening, Closing
  <2>4. PlacesApart'
    <3>1. \A i \in DOMAIN completed', k \in DOMAIN completed' :
         completed'[i].slot = completed'[k].slot => i = k
      <4> SUFFICES ASSUME NEW i \in DOMAIN completed', NEW k \in DOMAIN completed',
                          completed'[i].slot = completed'[k].slot
                   PROVE  i = k
        OBVIOUS
      <4>1. i + 1 = k + 1
        BY <1>1, <1>3, <2>1 DEF PlacesApart
      <4> QED
        BY <1>3, <4>1
    <3> QED
      BY <1>1, <1>2, <2>1, <2>3, <3>1 DEF PlacesApart
  <2>5. WindowsFit'
    <3>1. UNCHANGED <<slot, job, reg, boundaries, router, file>> /\ mon'.pc # "prepare"
      BY <1>2, <1>5
    <3> QED
      BY <1>1, <2>1, <2>3, <3>1 DEF WindowsFit
  <2>6. ActiveIsOpen'
    <3>1. mon.pc # "prepare" /\ mon.pc # "ended" /\ DoneSlots' \cup MonitorSlots' = DoneSlots
      BY <1>2, <2>3
    <3> QED
      BY <1>1, <1>2, <2>1, <2>3, <3>1 DEF ActiveIsOpen
  <2>7. ControlMoves
    BY <1>1, <1>2, ControlStays
  <2>8. ClosedInOrder'
    BY <1>2, <2>7, ControlKeepsOrder
  <2>9. GradesVouch'
    <3>1. g = "ok" => Complete(slot[a].job)
      BY <1>1, <1>3, <1>4, <2>1 DEF GradesVouch
    <3>2. \A i \in DOMAIN completed' :
            completed'[i].grade = "ok" => Complete(slot[completed'[i].slot].job)
      BY <1>1, <1>3, <2>1 DEF GradesVouch
    <3>3. \A s \in FinishingSlots' : mon'.result.grade = "ok" => Complete(slot[s].job)
      BY <1>5, <2>3, <3>1
    <3>4. UNCHANGED <<slot, job, reg, actions, router, ctl, file>>
      BY <1>2
    <3>5. /\ \A j \in Corrections :
               reg[j] = "source_complete" /\ job[j].grade = "ok" => Complete(j)
          /\ \A n \in Windows, s \in Slots : router.windows[n].slot = s =>
               /\ router.windows[n].got \subseteq 1..ctl.issued[n]
               /\ router.windows[n].rejected = FALSE =>
                    file[slot[s].job] = {[window |-> n, command |-> c] : c \in router.windows[n].got}
      BY <1>1, <2>1 DEF GradesVouch
    <3> QED
      BY <1>1, <2>1, <3>2, <3>3, <3>4, <3>5, GradesStay
  <2> QED
    BY <1>2, <1>6, <1>7, <2>1, <2>2, <2>4, <2>5, <2>6, <2>8, <2>9, InvOfWindows
<1> QED
  BY <1>8, <1>9

(* The monitor closes the job of a result, whatever became of its writer.  *)
LEMMA FinishKeeps ==
  ASSUME CaptureInv, NEW state \in Closed, Finish(state)
  PROVE  CaptureInv'
<1>1. /\ CaptureTypeOK /\ StagesAgree /\ OneForAll /\ JobsAreOwned /\ PlacesApart /\ WindowsFit
      /\ ActiveIsOpen /\ ClosedInOrder /\ GradesVouch /\ StopSettles
  BY DEF CaptureInv
<1>2. /\ mon.pc = "finish" /\ ses.stage \notin {"new", "stopped"}
      /\ mon.result.slot \in Slots /\ mon.result.grade \in Grades
      /\ slot[mon.result.slot].job \in Corrections
  <2>1. mon.pc = "finish" /\ ses.stage \notin {"new", "stopped"}
    BY MonitorUp DEF Finish
  <2>2. mon.result.slot \in Slots /\ mon.result.grade \in Grades
    BY <1>1, <2>1, CaptureFields DEF StagesAgree
  <2>3. CASE Full
    BY <1>1, <2>1, <2>2, <2>3, ModeIsKept, CaptureNumbers DEF OneForAll
  <2>4. CASE ~Full
    BY <1>1, <2>1, <2>2, <2>4, ModeIsKept, OwnedJobs
  <2> QED
    BY <2>1, <2>2, <2>3, <2>4
<1>3. PICK a \in Slots, j \in Corrections, g \in Grades :
        a = mon.result.slot /\ j = slot[a].job /\ g = mon.result.grade
  BY <1>2
<1>4. /\ job' = [job EXCEPT ![j].state = state, ![j].grade = g]
      /\ reg' = [reg EXCEPT ![j] = state]
      /\ slot' = [slot EXCEPT ![a].state = "complete"]
      /\ mon' = IF ses.closing \/ Full THEN [mon EXCEPT !.pc = "loop", !.result = NoResult]
                 ELSE [mon EXCEPT !.pc = "prepare"]
      /\ faults' \in Nat
      /\ UNCHANGED <<ses, events, boundaries, actions, completed, router, file, ctl>>
  <2>1. faults' \in Nat
    BY <1>1, FaultCounted DEF Finish
  <2> QED
    BY <1>3, <2>1 DEF Finish, process
<1>5. /\ slot' \in [Slots -> SlotRecords] /\ slot'[a].state = "complete"
      /\ \A s \in Slots : slot'[s].job = slot[s].job /\ slot'[s].writer = slot[s].writer
      /\ \A s \in Slots : s # a => slot'[s] = slot[s]
  BY <1>1, <1>4, SlotMoves DEF SlotStates
<1>6. /\ job' \in [Corrections -> JobRecords] /\ job'[j].grade = g
      /\ \A i \in Corrections : job'[i].window = job[i].window
      /\ \A i \in Corrections : i # j => job'[i].grade = job[i].grade
  <2> DEFINE r == [job[j] EXCEPT !.state = state, !.grade = g]
  <2>1. job \in [Corrections -> JobRecords] /\ job[j] \in JobRecords
    BY <1>1 DEF CaptureTypeOK
  <2>2. r \in JobRecords /\ r.window = job[j].window /\ r.grade = g
    BY <2>1 DEF JobRecords, Closed
  <2>3. job' = [job EXCEPT ![j] = r]
    BY <1>4, <2>1 DEF JobRecords
  <2> HIDE DEF r
  <2> QED
    BY <2>1, <2>2, <2>3
<1>7. /\ reg' \in [Corrections -> RegStates] /\ reg'[j] = state /\ state \in Closed
      /\ \A i \in Corrections : i # j => reg'[i] = reg[i]
  BY <1>1, <1>4 DEF CaptureTypeOK, RegStates, Closed
<1>8. /\ mon' \in Monitors /\ mon'.changes = mon.changes /\ mon'.result.grade \in Grades \cup {"none"}
      /\ mon'.pc \in {"loop", "prepare"}
      /\ mon'.pc = "loop" => mon'.result.slot = NoSlot /\ (ses.closing = TRUE \/ Full)
      /\ mon'.pc = "prepare" => mon'.result.slot = a /\ ses.closing = FALSE /\ ~Full
  <2>1. ses.closing \in BOOLEAN
    BY <1>1, CaptureFields
  <2>2. mon \in Monitors /\ NoResult \in [slot: Slots \cup {NoSlot}, grade: Grades \cup {"none"}]
        /\ NoResult.slot = NoSlot
    BY <1>1 DEF CaptureTypeOK, NoResult
  <2>3. CASE ses.closing \/ Full
    BY <1>4, <2>1, <2>2, <2>3 DEF Monitors
  <2>4. CASE ~(ses.closing \/ Full)
    BY <1>3, <1>4, <2>1, <2>2, <2>4 DEF Monitors
  <2> QED
    BY <2>3, <2>4
<1>9. CaptureTypeOK'
  BY <1>1, <1>4, <1>5, <1>6, <1>7, <1>8 DEF CaptureTypeOK
<1>10. StagesAgree' /\ StopSettles'
  <2>1. NoSlot \notin Slots
    BY CaptureNumbers
  <2>2. UNCHANGED <<ses, ctl, router>>
    BY <1>4
  <2> QED
    BY <1>1, <1>2, <1>3, <1>8, <2>1, <2>2 DEF StagesAgree, StopSettles
<1>11. CASE Full
  <2>1. InSession
    BY <1>1, <1>2, <1>11, ModeIsKept
  <2>2. a = First /\ j = First
    BY <1>1, <1>3, <2>1, CaptureNumbers DEF OneForAll
  <2>3. OneForAll'
    BY <1>1, <1>4, <1>5, <1>7, <1>8, <1>11, <2>1, <2>2, CaptureNumbers DEF OneForAll, InSession
  <2> QED
    BY <1>4, <1>9, <1>10, <1>11, <2>3, InvOfSession DEF Full
<1>12. CASE ~Full
  <2>1. InWindows /\ ses.mode = "corrections_only"
    BY <1>1, <1>2, <1>12, ModeIsKept DEF InWindows
  <2>2. /\ a \in FinishingSlots /\ a \in MonitorSlots /\ slot[a].state \in Working
        /\ a \notin OpenSlots /\ a \notin RoutedSlots /\ a \notin DoneSlots
        /\ job[j].window # 0 /\ reg[j] # "none"
        /\ FinishingSlots = {a} /\ MonitorSlots = {a}
    <3>1. FinishingSlots = {a} /\ MonitorSlots = {a}
      BY <1>2, <1>3 DEF FinishingSlots, MonitorSlots
    <3>2. slot[a].state \in Working
      BY <1>1, <2>1, <3>1 DEF WindowsFit
    <3>3. job[j].window # 0 /\ reg[j] # "none"
      BY <1>1, <1>3, <2>1, <3>2 DEF JobsAreOwned, Working
    <3> QED
      BY <1>1, <2>1, <3>1, <3>2, <3>3 DEF PlacesApart
  <2>3. \A s \in Slots : slot[s].job \in Corrections /\ (s # a => slot[s].job # j)
    BY <1>1, <1>3, <2>1, OwnedJobs DEF JobsAreOwned
  <2>4. JobsAreOwned'
    <3>1. \A s \in Slots :
           /\ slot'[s].state # "preparing" /\ slot'[s].job # 0 /\ reg'[slot'[s].job] # "none"
           /\ slot'[s].state = "prepared" =>
                /\ job'[slot'[s].job].window = 0 /\ reg'[slot'[s].job] \in {"armed", "deleted"}
                /\ file[slot'[s].job] = {}
           /\ slot'[s].state # "prepared" => job'[slot'[s].job].window # 0
           /\ slot'[s].state \in {"waiting", "complete"} => reg'[slot'[s].job] \in Closed
      <4> SUFFICES ASSUME NEW s \in Slots
                   PROVE  /\ slot'[s].state # "preparing" /\ slot'[s].job # 0
                          /\ reg'[slot'[s].job] # "none"
                          /\ slot'[s].state = "prepared" =>
                               /\ job'[slot'[s].job].window = 0
                               /\ reg'[slot'[s].job] \in {"armed", "deleted"}
                               /\ file[slot'[s].job] = {}
                          /\ slot'[s].state # "prepared" => job'[slot'[s].job].window # 0
                          /\ slot'[s].state \in {"waiting", "complete"} => reg'[slot'[s].job] \in Closed
        OBVIOUS
      <4>1. CASE s = a
        <5>1. slot'[s].job = j
          BY <4>1, <1>3, <1>5
        <5> QED
          BY <4>1, <5>1, <1>5, <1>6, <1>7, <2>2, CaptureNumbers DEF Closed
      <4>2. CASE s # a
        <5>1. /\ slot'[s] = slot[s] /\ reg'[slot[s].job] = reg[slot[s].job]
              /\ job'[slot[s].job].window = job[slot[s].job].window
          BY <4>2, <1>5, <1>6, <1>7, <2>3
        <5>2. /\ slot[s].state # "preparing" /\ slot[s].job # 0 /\ reg[slot[s].job] # "none"
              /\ slot[s].state = "prepared" =>
                   /\ job[slot[s].job].window = 0 /\ reg[slot[s].job] \in {"armed", "deleted"}
                   /\ file[slot[s].job] = {}
              /\ slot[s].state # "prepared" => job[slot[s].job].window # 0
              /\ slot[s].state \in {"waiting", "complete"} => reg[slot[s].job] \in Closed
          BY <1>1, <2>1 DEF JobsAreOwned
        <5> QED
          BY <5>1, <5>2
      <4> QED
        BY <4>1, <4>2
    <3>2. ASSUME NEW i \in Corrections
          PROVE  /\ reg'[i] = "none" => job'[i].window = 0 /\ file[i] = {}
                 /\ job'[i].window = 0 /\ reg'[i] \notin {"none", "deleted"} =>
                      \E s \in Slots : slot'[s].job = i /\ slot'[s].state = "prepared"
                 /\ job'[i].window # 0 /\ reg'[i] \notin Closed =>
                      \E s \in Slots : slot'[s].job = i /\ slot'[s].state \in Working
                 /\ job'[i].window <= ctl.window
      <4>1. /\ reg[i] = "none" => job[i].window = 0 /\ file[i] = {}
            /\ job[i].window = 0 /\ reg[i] \notin {"none", "deleted"} =>
                 \E s \in Slots : slot[s].job = i /\ slot[s].state = "prepared"
            /\ job[i].window # 0 /\ reg[i] \notin Closed =>
                 \E s \in Slots : slot[s].job = i /\ slot[s].state \in Working
            /\ job[i].window <= ctl.window
        BY <1>1, <2>1 DEF JobsAreOwned
      <4>2. CASE i = j
        BY <4>1, <4>2, <1>6, <1>7, <2>2 DEF Closed
      <4>3. CASE i # j
        <5>1. \A s \in Slots : slot[s].job = i => slot'[s] = slot[s]
          BY <4>3, <1>3, <1>5
        <5> QED
          BY <4>1, <4>3, <5>1, <1>6, <1>7
      <4> QED
        BY <4>2, <4>3
    <3>3. ses.prepared \in Seq(Slots)
      BY <1>1, CaptureFields
    <3>4. \A i \in DOMAIN ses.prepared : slot'[ses.prepared[i]].state = "prepared"
      BY <1>1, <1>5, <2>1, <2>2, <3>3 DEF JobsAreOwned, Working
    <3>5. \A s \in Slots, t \in Slots : slot'[s].job = slot'[t].job => s = t
      BY <1>1, <1>5, <2>1 DEF JobsAreOwned
    <3>6. \A i \in Corrections, k \in Corrections :
            job'[i].window = job'[k].window /\ job'[i].window # 0 => i = k
      BY <1>1, <1>6, <2>1 DEF JobsAreOwned
    <3>7. \A i \in DOMAIN events : job'[events[i].job].window # 0
      <4>1. \A i \in DOMAIN events : events[i] \in Changes
        BY <1>1 DEF CaptureTypeOK
      <4> QED
        BY <4>1, <1>1, <1>6, <2>1 DEF JobsAreOwned, Changes
    <3>8. \A i \in DOMAIN mon.changes : job'[mon.changes[i].job].window # 0
      <4>1. mon.changes \in Seq(Changes)
        BY <1>1, CaptureFields
      <4>2. \A i \in DOMAIN mon.changes : mon.changes[i] \in Changes
        BY <4>1
      <4> QED
        BY <4>2, <1>1, <1>6, <2>1 DEF JobsAreOwned, Changes
    <3>9. UNCHANGED <<ses, events, file, ctl>>
      BY <1>4
    <3>10. \A i \in DOMAIN ses.prepared, k \in DOMAIN ses.prepared :
             ses.prepared[i] = ses.prepared[k] => i = k
      BY <1>1, <2>1 DEF JobsAreOwned
    <3> QED
      BY <1>8, <3>1, <3>2, <3>4, <3>5, <3>6, <3>7, <3>8, <3>9, <3>10 DEF JobsAreOwned
  <2>5. /\ OpenSlots' = OpenSlots /\ RoutedSlots' = RoutedSlots /\ DoneSlots' = DoneSlots
        /\ FinishingSlots' = {} /\ MonitorSlots' \subseteq {a} /\ InWindows'
        /\ \A i, s : Opening(i, s)' = Opening(i, s)
        /\ \A i, n : Closing(i, n)' = Closing(i, n)
    <3>1. FinishingSlots' = {}
      BY <1>8 DEF FinishingSlots
    <3>2. MonitorSlots' \subseteq {a}
      BY <1>8, CaptureNumbers DEF MonitorSlots
    <3> QED
      BY <1>4, <2>1, <3>1, <3>2 DEF OpenSlots, RoutedSlots, DoneSlots, InWindows, Opening, Closing
  <2>6. PlacesApart'
    BY <1>1, <1>4, <2>1, <2>2, <2>5 DEF PlacesApart
  <2>7. WindowsFit'
    <3>1. \A s \in OpenSlots \cup RoutedSlots \cup DoneSlots :
            slot'[s].state \in Working /\ reg'[slot'[s].job] # "source_complete"
      <4>1. \A s \in OpenSlots \cup RoutedSlots \cup DoneSlots : s \in Slots /\ s # a
        BY <2>2 DEF OpenSlots, RoutedSlots, DoneSlots
      <4> QED
        BY <4>1, <1>1, <1>5, <1>7, <2>1, <2>3 DEF WindowsFit
    <3>2. slot'[a].state = "complete" /\ reg'[slot'[a].job] \in Closed
      BY <1>3, <1>5, <1>7
    <3>3. \A i \in DOMAIN boundaries, s \in Slots :
            Opening(i, s) => job'[slot'[s].job].window = boundaries[i].window /\ file[slot'[s].job] = {}
      <4>1. \A i \in DOMAIN boundaries, s \in Slots :
              Opening(i, s) => job[slot[s].job].window = boundaries[i].window /\ file[slot[s].job] = {}
        BY <1>1, <2>1 DEF WindowsFit
      <4>2. \A s \in Slots : job'[slot'[s].job].window = job[slot[s].job].window
                             /\ slot'[s].job = slot[s].job
        BY <1>5, <1>6, <2>3
      <4> SUFFICES ASSUME NEW i \in DOMAIN boundaries, NEW s \in Slots, Opening(i, s)
                   PROVE  job'[slot'[s].job].window = boundaries[i].window
                          /\ file[slot'[s].job] = {}
        OBVIOUS
      <4> QED
        BY <4>1, <4>2
    <3>4. \A n \in Windows, s \in Slots :
            router.windows[n].slot = s => job'[slot'[s].job].window = n
      BY <1>1, <1>5, <1>6, <2>1, <2>3 DEF WindowsFit
    <3>5. UNCHANGED <<boundaries, router, file>>
      BY <1>4
    <3>6. mon'.pc = "prepare" =>
            \A s \in MonitorSlots' :
              slot'[s].state \in {"complete", "draining"} /\ reg'[slot'[s].job] \in Closed
      BY <2>5, <3>2
    <3> QED
      BY <2>5, <3>1, <3>3, <3>4, <3>5, <3>6 DEF WindowsFit
  <2>8. ActiveIsOpen'
    <3>1. ses.active # NoSlot => ses.active \in Slots /\ ses.closing = FALSE
      BY <1>1, CaptureFields DEF StagesAgree
    <3>2. ses.active = a => ctl.closing = TRUE
      BY <1>1, <2>1, <2>2, <3>1, CaptureNumbers, CaptureFields DEF ActiveIsOpen
    <3>3. ses.active = a => mon'.pc = "prepare" /\ mon'.result.slot = a
      BY <1>8, <1>12, <3>1, CaptureNumbers
    <3>4. ses.active # NoSlot => job'[slot'[ses.active].job].window = job[slot[ses.active].job].window
      BY <1>5, <1>6, <2>3, <3>1
    <3>5. ses.active # NoSlot =>
            \/ slot'[ses.active].state = "capturing"
            \/ /\ slot'[ses.active].state = "complete" /\ ctl.closing = TRUE
               /\ (mon'.pc = "prepare" /\ mon'.result.slot = ses.active) \/ mon'.pc = "ended"
      <4> SUFFICES ASSUME ses.active # NoSlot, ses.active # a
                   PROVE  slot'[ses.active].state = "capturing"
        BY <1>5, <3>2, <3>3
      <4>1. slot[ses.active].state = "capturing"
        BY <1>1, <1>2, <2>1 DEF ActiveIsOpen
      <4> QED
        BY <4>1, <3>1, <1>5
    <3>6. ctl.closing = FALSE /\ ses.active # NoSlot => ses.active \notin MonitorSlots'
      BY <2>5, <3>2
    <3>7. UNCHANGED <<ses, ctl, boundaries, router>>
      BY <1>4
    <3> QED
      BY <1>1, <2>1, <2>5, <3>4, <3>5, <3>6, <3>7 DEF ActiveIsOpen
  <2>9. ControlMoves
    BY <1>1, <1>4, ControlStays
  <2>10. ClosedInOrder'
    BY <1>4, <2>9, ControlKeepsOrder
  <2>11. GradesVouch'
    <3> DEFINE whole == {i \in Corrections : Complete(i)'}
    <3>1. \A i \in Corrections : Complete(i) => i \in whole
      BY <1>4, <1>6 DEF Complete, Issued, Over
    <3> HIDE DEF whole
    <3>2. g = "ok" => j \in whole
      BY <1>1, <1>3, <2>1, <2>2, <3>1 DEF GradesVouch
    <3>3. \A i \in Corrections : reg'[i] = "source_complete" /\ job'[i].grade = "ok" => i \in whole
      <4>1. \A i \in Corrections : reg[i] = "source_complete" /\ job[i].grade = "ok" => i \in whole
        BY <1>1, <2>1, <3>1 DEF GradesVouch
      <4> QED
        BY <1>6, <1>7, <3>2, <4>1
    <3>4. \A i \in DOMAIN completed : completed[i] \in Results
      BY <1>1 DEF CaptureTypeOK
    <3>5. \A i \in DOMAIN completed :
            completed[i].grade = "ok" => slot'[completed[i].slot].job \in whole
      BY <1>1, <1>5, <2>1, <2>3, <3>1, <3>4 DEF GradesVouch, Results
    <3>6. \A m \in Windows, s \in Slots : router.windows[m].slot = s =>
           /\ router.windows[m].got \subseteq 1..ctl.issued[m]
           /\ router.windows[m].rejected = FALSE =>
                file[slot'[s].job] = {[window |-> m, command |-> c] : c \in router.windows[m].got}
      BY <1>1, <1>5, <2>1 DEF GradesVouch
    <3>7. \A i \in DOMAIN actions : actions[i].command \in 1..ctl.issued[actions[i].window]
      BY <1>1, <2>1 DEF GradesVouch
    <3>8. UNCHANGED <<completed, actions, router, ctl, file>>
      BY <1>4
    <3> QED
      BY <2>5, <3>3, <3>5, <3>6, <3>7, <3>8 DEF GradesVouch, Complete, whole
  <2> QED
    BY <1>4, <1>9, <1>10, <2>1, <2>4, <2>6, <2>7, <2>8, <2>10, <2>11, InvOfWindows
<1> QED
  BY <1>11, <1>12

(* A slot whose job is done is prepared with a new one.                    *)
LEMMA RearmKeeps ==
  ASSUME CaptureInv, InWindows, NEW a \in Slots, Rearm(a),
         ses.stage \notin {"new", "stopped"}, ctl.closing = FALSE, ses.closing = FALSE \/ ses.active = NoSlot,
         slot[a].state # "prepared", reg[slot[a].job] \in Closed, ses.active # a,
         a \notin OpenSlots, a \notin RoutedSlots, a \notin DoneSlots,
         FinishingSlots = {}, FinishingSlots' = {}, MonitorSlots' = {}, mon' \in Monitors,
         mon'.pc \in {"loop", "save"}, mon'.result.slot = NoSlot, mon'.changes = mon.changes,
         UNCHANGED <<job, events, process, ctl, faults>>
  PROVE  CaptureInv'
<1>1. /\ CaptureTypeOK /\ StagesAgree /\ OneForAll /\ JobsAreOwned /\ PlacesApart /\ WindowsFit
      /\ ActiveIsOpen /\ ClosedInOrder /\ GradesVouch /\ StopSettles
  BY DEF CaptureInv
<1>2. UNCHANGED <<job, events, boundaries, actions, completed, router, file, ctl, faults>>
  BY DEF process
<1> DEFINE more == Append(ses.prepared, a)
<1>3. PICK j \in Corrections :
        /\ reg[j] = "none"
        /\ slot' = [slot EXCEPT ![a] = [state |-> "prepared", job |-> j, writer |-> TRUE]]
        /\ reg' = [reg EXCEPT ![j] = "armed"]
        /\ ses' = [ses EXCEPT !.prepared = more]
  BY <1>1 DEF Rearm, New, CaptureTypeOK, Sessions
<1>4. job[j].window = 0 /\ file[j] = {}
  BY <1>1, <1>3 DEF JobsAreOwned
<1> DEFINE r == [state |-> "prepared", job |-> j, writer |-> TRUE]
<1>5. /\ r \in SlotRecords /\ r.state = "prepared" /\ r.job = j
  BY DEF SlotRecords, SlotStates
<1> HIDE DEF r
<1>6. /\ slot' \in [Slots -> SlotRecords] /\ slot'[a] = r /\ slot'[a].state = "prepared"
      /\ slot'[a].job = j /\ \A s \in Slots : s # a => slot'[s] = slot[s]
  BY <1>1, <1>3, <1>5 DEF CaptureTypeOK, r
<1>7. /\ reg' \in [Corrections -> RegStates] /\ reg'[j] = "armed"
      /\ \A i \in Corrections : i # j => reg'[i] = reg[i]
  BY <1>1, <1>3 DEF CaptureTypeOK, RegStates
<1>8. /\ more \in Seq(Slots)
      /\ \A i \in DOMAIN more :
           \/ i \in DOMAIN ses.prepared /\ more[i] = ses.prepared[i] /\ more[i] # a /\ more[i] \in Slots
           \/ i = Len(ses.prepared) + 1 /\ more[i] = a
  <2>1. ses.prepared \in Seq(Slots)
    BY <1>1, CaptureFields
  <2>2. /\ DOMAIN more = 1..(Len(ses.prepared) + 1) /\ DOMAIN ses.prepared = 1..Len(ses.prepared)
        /\ Len(ses.prepared) \in Nat
        /\ \A i \in DOMAIN ses.prepared : more[i] = ses.prepared[i]
        /\ more[Len(ses.prepared) + 1] = a
    BY <2>1, AppendCases
  <2>3. more \in Seq(Slots)
    BY <2>1
  <2>4. \A i \in DOMAIN ses.prepared : ses.prepared[i] # a /\ ses.prepared[i] \in Slots
    BY <1>1, <2>1 DEF JobsAreOwned
  <2> HIDE DEF more
  <2>5. \A i \in DOMAIN more : i \in DOMAIN ses.prepared \/ i = Len(ses.prepared) + 1
    BY <2>2
  <2> QED
    BY <2>2, <2>3, <2>4, <2>5
<1> HIDE DEF more
<1>9. /\ ses' \in Sessions /\ ses'.mode = ses.mode /\ ses'.stage = ses.stage
      /\ ses'.closing = ses.closing /\ ses'.active = ses.active /\ ses'.token = ses.token
      /\ ses'.error = ses.error /\ ses'.prepared = more
  BY <1>1, <1>3, <1>8 DEF CaptureTypeOK, Sessions
<1>10. CaptureTypeOK'
  BY <1>1, <1>2, <1>6, <1>7, <1>9 DEF CaptureTypeOK
<1>11. StagesAgree' /\ StopSettles'
  BY <1>1, <1>2, <1>9 DEF StagesAgree, StopSettles
<1>12. \A s \in Slots : /\ slot[s].job \in Corrections /\ slot[s].job # j
                        /\ s # a => /\ slot'[s] = slot[s] /\ slot'[s].job = slot[s].job
                                    /\ reg'[slot[s].job] = reg[slot[s].job]
  <2>1. \A s \in Slots : slot[s].job \in Corrections /\ slot[s].job # j
    BY <1>1, <1>3, OwnedJobs DEF JobsAreOwned
  <2> QED
    BY <1>6, <1>7, <2>1
<1>13. JobsAreOwned'
  <2>1. ASSUME NEW s \in Slots
        PROVE  /\ slot'[s].state # "preparing" /\ slot'[s].job # 0 /\ reg'[slot'[s].job] # "none"
               /\ slot'[s].state = "prepared" =>
                    /\ job[slot'[s].job].window = 0 /\ reg'[slot'[s].job] \in {"armed", "deleted"}
                    /\ file[slot'[s].job] = {}
               /\ slot'[s].state # "prepared" => job[slot'[s].job].window # 0
               /\ slot'[s].state \in {"waiting", "complete"} => reg'[slot'[s].job] \in Closed
    <3>1. /\ slot[s].state # "preparing" /\ slot[s].job # 0 /\ reg[slot[s].job] # "none"
          /\ slot[s].state = "prepared" =>
               /\ job[slot[s].job].window = 0 /\ reg[slot[s].job] \in {"armed", "deleted"}
               /\ file[slot[s].job] = {}
          /\ slot[s].state # "prepared" => job[slot[s].job].window # 0
          /\ slot[s].state \in {"waiting", "complete"} => reg[slot[s].job] \in Closed
      BY <1>1 DEF JobsAreOwned
    <3>2. CASE s = a
      BY <3>2, <1>4, <1>6, <1>7, CaptureNumbers
    <3>3. CASE s # a
      BY <3>1, <3>3, <1>12
    <3> QED
      BY <3>2, <3>3
  <2>2. ASSUME NEW i \in Corrections
        PROVE  /\ reg'[i] = "none" => job[i].window = 0 /\ file[i] = {}
               /\ job[i].window = 0 /\ reg'[i] \notin {"none", "deleted"} =>
                    \E s \in Slots : slot'[s].job = i /\ slot'[s].state = "prepared"
               /\ job[i].window # 0 /\ reg'[i] \notin Closed =>
                    \E s \in Slots : slot'[s].job = i /\ slot'[s].state \in Working
               /\ job[i].window <= ctl.window
    <3>1. /\ reg[i] = "none" => job[i].window = 0 /\ file[i] = {}
          /\ job[i].window = 0 /\ reg[i] \notin {"none", "deleted"} =>
               \E s \in Slots : slot[s].job = i /\ slot[s].state = "prepared"
          /\ job[i].window # 0 /\ reg[i] \notin Closed =>
               \E s \in Slots : slot[s].job = i /\ slot[s].state \in Working
          /\ job[i].window <= ctl.window
      BY <1>1 DEF JobsAreOwned
    <3>2. CASE i = j
      BY <3>1, <3>2, <1>4, <1>6, <1>7
    <3>3. CASE i # j
      <4>1. reg'[i] = reg[i]
        BY <3>3, <1>7
      <4>2. \A s \in Slots : s # a => slot'[s] = slot[s]
        BY <1>12
      <4> QED
        BY <3>1, <4>1, <4>2
    <3> QED
      BY <3>2, <3>3
  <2>3. \A i \in DOMAIN more : slot'[more[i]].state = "prepared"
    BY <1>1, <1>6, <1>8 DEF JobsAreOwned
  <2>4. \A i \in DOMAIN more, k \in DOMAIN more : more[i] = more[k] => i = k
    BY <1>1, <1>8 DEF JobsAreOwned
  <2>5. \A s \in Slots, t \in Slots : slot'[s].job = slot'[t].job => s = t
    BY <1>1, <1>6, <1>12 DEF JobsAreOwned
  <2>6. /\ \A i \in Corrections, k \in Corrections :
             job[i].window = job[k].window /\ job[i].window # 0 => i = k
        /\ \A i \in DOMAIN events : job[events[i].job].window # 0
        /\ \A i \in DOMAIN mon.changes : job[mon.changes[i].job].window # 0
    BY <1>1 DEF JobsAreOwned
  <2> QED
    BY <1>2, <1>9, <2>1, <2>2, <2>3, <2>4, <2>5, <2>6 DEF JobsAreOwned
<1>14. /\ InWindows' = InWindows /\ OpenSlots' = OpenSlots /\ RoutedSlots' = RoutedSlots
       /\ DoneSlots' = DoneSlots
       /\ \A i, s : Opening(i, s)' = Opening(i, s)
       /\ \A i, n : Closing(i, n)' = Closing(i, n)
  BY <1>2, <1>9 DEF InWindows, OpenSlots, RoutedSlots, DoneSlots, Opening, Closing
<1>15. PlacesApart'
  BY <1>1, <1>2, <1>14 DEF PlacesApart
<1>16. WindowsFit'
  <2>1. \A s \in OpenSlots \cup RoutedSlots \cup DoneSlots :
          slot'[s].state \in Working /\ reg'[slot'[s].job] # "source_complete"
    <3>1. \A s \in OpenSlots \cup RoutedSlots \cup DoneSlots : s \in Slots /\ s # a
      BY DEF OpenSlots, RoutedSlots, DoneSlots
    <3> QED
      BY <3>1, <1>1, <1>12 DEF WindowsFit
  <2>2. \A i \in DOMAIN boundaries, s \in Slots : Opening(i, s) =>
          job[slot'[s].job].window = boundaries[i].window /\ file[slot'[s].job] = {}
    <3>1. \A i \in DOMAIN boundaries, s \in Slots : Opening(i, s) =>
            /\ job[slot[s].job].window = boundaries[i].window /\ file[slot[s].job] = {}
            /\ s # a
      BY <1>1 DEF WindowsFit, OpenSlots
    <3> QED
      BY <3>1, <1>12
  <2>3. \A n \in Windows, s \in Slots :
          router.windows[n].slot = s => job[slot'[s].job].window = n
    <3>1. \A n \in Windows, s \in Slots :
            router.windows[n].slot = s => job[slot[s].job].window = n /\ s # a
      BY <1>1 DEF WindowsFit, RoutedSlots
    <3> QED
      BY <3>1, <1>12
  <2> QED
    BY <1>2, <1>14, <2>1, <2>2, <2>3 DEF WindowsFit
<1>17. ActiveIsOpen'
  <2>1. ses.active # NoSlot =>
          /\ slot'[ses.active] = slot[ses.active] /\ slot[ses.active].state = "capturing"
          /\ ses.active \notin MonitorSlots'
    BY <1>1, <1>12, CaptureFields DEF ActiveIsOpen
  <2> QED
    BY <1>1, <1>2, <1>9, <1>14, <2>1 DEF ActiveIsOpen
<1>18. ControlMoves
  BY <1>1, <1>2, ControlStays
<1>19. ClosedInOrder'
  BY <1>2, <1>9, <1>18, ControlKeepsOrder
<1>20. GradesVouch'
  <2>1. \A i \in DOMAIN completed : completed[i] \in Results
    BY <1>1 DEF CaptureTypeOK
  <2>2. \A i \in DOMAIN completed : completed[i].slot \in Slots /\ completed[i].slot # a
    BY <2>1 DEF Results, DoneSlots
  <2>3. \A i \in DOMAIN completed :
          completed[i].grade = "ok" => Complete(slot'[completed[i].slot].job)
    BY <1>1, <1>12, <2>2 DEF GradesVouch
  <2>4. \A i \in Corrections : reg'[i] = "source_complete" /\ job[i].grade = "ok" => Complete(i)
    BY <1>1, <1>7 DEF GradesVouch
  <2>5. \A m \in Windows, s \in Slots : router.windows[m].slot = s =>
         /\ router.windows[m].got \subseteq 1..ctl.issued[m]
         /\ router.windows[m].rejected = FALSE =>
              file[slot'[s].job] = {[window |-> m, command |-> c] : c \in router.windows[m].got}
    <3>1. \A m \in Windows, s \in Slots : router.windows[m].slot = s => s # a
      BY DEF RoutedSlots
    <3> QED
      BY <3>1, <1>1, <1>12 DEF GradesVouch
  <2>6. \A i \in DOMAIN actions : actions[i].command \in 1..ctl.issued[actions[i].window]
    BY <1>1 DEF GradesVouch
  <2> DEFINE whole == {i \in Corrections : Complete(i)'}
  <2>7. \A i : Complete(i)' = Complete(i)
    BY <1>2 DEF Complete, Issued, Over
  <2>8. \A i \in Corrections : Complete(i) => i \in whole
    BY <2>7
  <2> HIDE DEF whole
  <2>9. \A i \in DOMAIN completed :
          completed[i].grade = "ok" => slot'[completed[i].slot].job \in whole
    BY <2>2, <2>3, <2>8, <1>12
  <2>10. \A i \in Corrections : reg'[i] = "source_complete" /\ job[i].grade = "ok" => i \in whole
    BY <2>4, <2>8
  <2> QED
    BY <1>2, <2>5, <2>6, <2>9, <2>10 DEF GradesVouch, Complete, whole
<1> QED
  BY <1>9, <1>10, <1>11, <1>13, <1>15, <1>16, <1>17, <1>19, <1>20, InvOfWindows DEF InWindows

(* A slot that waits is tried again.                                       *)
LEMMA PrepareWaitingKeeps ==
  ASSUME CaptureInv, NEW a \in Slots, PrepareWaiting(a)
  PROVE  CaptureInv'
<1>1. /\ CaptureTypeOK /\ StagesAgree /\ OneForAll /\ JobsAreOwned /\ PlacesApart /\ WindowsFit
      /\ ActiveIsOpen
  BY DEF CaptureInv
<1>2. /\ mon.pc \in {"loop", "save"} /\ ctl.closing = FALSE /\ ses.closing = FALSE
      /\ slot[a].state = "waiting" /\ Rearm(a) /\ ses.stage \notin {"new", "stopped"}
      /\ UNCHANGED <<job, events, mon, process, ctl, faults>>
  BY <1>1, MonitorUp, CaptureFields DEF PrepareWaiting, Waits, Unlocked
<1>3. InWindows
  BY <1>1, <1>2, ModeIsKept DEF OneForAll, Working
<1>4. reg[slot[a].job] \in Closed
  BY <1>1, <1>2, <1>3 DEF JobsAreOwned
<1>5. a \notin OpenSlots /\ a \notin RoutedSlots /\ a \notin DoneSlots
  BY <1>1, <1>2, <1>3 DEF WindowsFit, Working
<1>6. ses.active # a
  BY <1>1, <1>2, <1>3, CaptureNumbers DEF ActiveIsOpen
<1>7. /\ mon.result.slot = NoSlot /\ FinishingSlots = {} /\ FinishingSlots' = {} /\ MonitorSlots' = {}
      /\ mon' \in Monitors /\ mon'.pc \in {"loop", "save"} /\ mon'.result.slot = NoSlot
      /\ mon'.changes = mon.changes
  <2>1. mon.result.slot = NoSlot
    BY <1>1, <1>2 DEF StagesAgree
  <2> QED
    BY <1>1, <1>2, <2>1, CaptureNumbers DEF FinishingSlots, MonitorSlots, CaptureTypeOK
<1> QED
  BY <1>2, <1>3, <1>4, <1>5, <1>6, <1>7, RearmKeeps

(* The slot of the job just closed is prepared again, or waits.            *)
LEMMA PrepareAgainKeeps ==
  ASSUME CaptureInv, PrepareAgain
  PROVE  CaptureInv'
<1>1. /\ CaptureTypeOK /\ StagesAgree /\ OneForAll /\ JobsAreOwned /\ PlacesApart /\ WindowsFit
      /\ ActiveIsOpen /\ ClosedInOrder /\ GradesVouch /\ StopSettles
  BY DEF CaptureInv
<1>2. /\ mon.pc = "prepare" /\ ctl.closing = FALSE /\ ses.stage \notin {"new", "stopped"}
      /\ mon' = [mon EXCEPT !.pc = "loop", !.result = NoResult]
      /\ \/ Rearm(mon.result.slot)
         \/ /\ slot' = [slot EXCEPT ![mon.result.slot].state = "waiting"]
            /\ UNCHANGED <<ses, reg>>
      /\ UNCHANGED <<job, events, process, ctl, faults>>
  BY <1>1, MonitorUp, CaptureFields DEF PrepareAgain, Unlocked
<1>3. PICK a \in Slots : a = mon.result.slot
  BY <1>1, <1>2, CaptureFields DEF StagesAgree
<1>4. InWindows /\ ses.mode = "corrections_only"
  BY <1>1, <1>2, ModeIsKept DEF OneForAll, InWindows
<1>5. /\ MonitorSlots = {a} /\ FinishingSlots = {}
      /\ slot[a].state \in {"complete", "draining"} /\ reg[slot[a].job] \in Closed
      /\ a \notin OpenSlots /\ a \notin RoutedSlots /\ a \notin DoneSlots
  <2>1. MonitorSlots = {a} /\ FinishingSlots = {}
    BY <1>2, <1>3 DEF MonitorSlots, FinishingSlots
  <2> QED
    BY <1>1, <1>2, <1>4, <2>1 DEF WindowsFit, PlacesApart
<1>6. /\ mon' \in Monitors /\ mon'.pc = "loop" /\ mon'.result.slot = NoSlot
      /\ mon'.changes = mon.changes
  <2>1. mon \in Monitors /\ NoResult \in [slot: Slots \cup {NoSlot}, grade: Grades \cup {"none"}]
        /\ NoResult.slot = NoSlot
    BY <1>1 DEF CaptureTypeOK, NoResult
  <2> QED
    BY <1>2, <2>1 DEF Monitors
<1>7. FinishingSlots' = {} /\ MonitorSlots' = {}
  BY <1>6, CaptureNumbers DEF FinishingSlots, MonitorSlots
<1>8. ses.active # a /\ (ses.closing = FALSE \/ ses.active = NoSlot)
  <2>1. ses.active # a
    BY <1>1, <1>2, <1>4, <1>5, CaptureNumbers DEF ActiveIsOpen
  <2> QED
    BY <1>1, <2>1, CaptureFields DEF StagesAgree
<1>9. CASE Rearm(a)
  BY <1>2, <1>4, <1>5, <1>6, <1>7, <1>8, <1>9, RearmKeeps
<1>10. CASE slot' = [slot EXCEPT ![a].state = "waiting"] /\ UNCHANGED <<ses, reg>>
  <2>1. /\ slot' \in [Slots -> SlotRecords] /\ slot'[a].state = "waiting"
        /\ \A s \in Slots : slot'[s].job = slot[s].job
        /\ \A s \in Slots : s # a => slot'[s] = slot[s]
    BY <1>1, <1>10, SlotMoves DEF SlotStates
  <2>2. UNCHANGED <<ses, job, reg, events, boundaries, actions, completed, router, file, ctl, faults>>
    BY <1>2, <1>10 DEF process
  <2>3. CaptureTypeOK'
    BY <1>1, <1>6, <2>1, <2>2 DEF CaptureTypeOK
  <2>4. StagesAgree' /\ StopSettles'
    BY <1>1, <1>2, <1>6, <2>2 DEF StagesAgree, StopSettles
  <2>5. JobsAreOwned'
    <3>1. \A s \in Slots :
           /\ slot'[s].state # "preparing" /\ slot'[s].job # 0 /\ reg[slot'[s].job] # "none"
           /\ slot'[s].state = "prepared" =>
                /\ job[slot'[s].job].window = 0 /\ reg[slot'[s].job] \in {"armed", "deleted"}
                /\ file[slot'[s].job] = {}
           /\ slot'[s].state # "prepared" => job[slot'[s].job].window # 0
           /\ slot'[s].state \in {"waiting", "complete"} => reg[slot'[s].job] \in Closed
      BY <1>1, <1>4, <1>5, <2>1 DEF JobsAreOwned
    <3>2. ASSUME NEW i \in Corrections
          PROVE  /\ reg[i] = "none" => job[i].window = 0 /\ file[i] = {}
                 /\ job[i].window = 0 /\ reg[i] \notin {"none", "deleted"} =>
                      \E s \in Slots : slot'[s].job = i /\ slot'[s].state = "prepared"
                 /\ job[i].window # 0 /\ reg[i] \notin Closed =>
                      \E s \in Slots : slot'[s].job = i /\ slot'[s].state \in Working
                 /\ job[i].window <= ctl.window
      <4>1. /\ reg[i] = "none" => job[i].window = 0 /\ file[i] = {}
            /\ job[i].window = 0 /\ reg[i] \notin {"none", "deleted"} =>
                 \E s \in Slots : slot[s].job = i /\ slot[s].state = "prepared"
            /\ job[i].window # 0 /\ reg[i] \notin Closed =>
                 \E s \in Slots : slot[s].job = i /\ slot[s].state \in Working
            /\ job[i].window <= ctl.window
        BY <1>1, <1>4 DEF JobsAreOwned
      <4> QED
        BY <4>1, <1>5, <2>1
    <3>3. ses.prepared \in Seq(Slots)
      BY <1>1, CaptureFields
    <3>4. \A i \in DOMAIN ses.prepared : slot'[ses.prepared[i]].state = "prepared"
      BY <1>1, <1>4, <1>5, <2>1, <3>3 DEF JobsAreOwned
    <3>5. \A s \in Slots, t \in Slots : slot'[s].job = slot'[t].job => s = t
      BY <1>1, <1>4, <2>1 DEF JobsAreOwned
    <3>6. /\ \A i \in Corrections, k \in Corrections :
               job[i].window = job[k].window /\ job[i].window # 0 => i = k
          /\ \A i \in DOMAIN events : job[events[i].job].window # 0
          /\ \A i \in DOMAIN mon.changes : job[mon.changes[i].job].window # 0
          /\ \A i \in DOMAIN ses.prepared, k \in DOMAIN ses.prepared :
               ses.prepared[i] = ses.prepared[k] => i = k
      BY <1>1, <1>4 DEF JobsAreOwned
    <3> QED
      BY <1>6, <2>2, <3>1, <3>2, <3>4, <3>5, <3>6 DEF JobsAreOwned
  <2>6. /\ InWindows' /\ OpenSlots' = OpenSlots /\ RoutedSlots' = RoutedSlots
        /\ DoneSlots' = DoneSlots
        /\ \A i, s : Opening(i, s)' = Opening(i, s)
        /\ \A i, n : Closing(i, n)' = Closing(i, n)
    BY <1>4, <2>2 DEF InWindows, OpenSlots, RoutedSlots, DoneSlots, Opening, Closing
  <2>7. PlacesApart'
    BY <1>1, <1>4, <1>7, <2>2, <2>6 DEF PlacesApart
  <2>8. WindowsFit'
    <3>1. \A s \in OpenSlots \cup RoutedSlots \cup DoneSlots :
            slot'[s].state \in Working /\ reg[slot'[s].job] # "source_complete"
      <4>1. \A s \in OpenSlots \cup RoutedSlots \cup DoneSlots : s \in Slots /\ s # a
        BY <1>5 DEF OpenSlots, RoutedSlots, DoneSlots
      <4> QED
        BY <4>1, <1>1, <1>4, <2>1 DEF WindowsFit
    <3>2. \A i \in DOMAIN boundaries, s \in Slots : Opening(i, s) =>
            job[slot'[s].job].window = boundaries[i].window /\ file[slot'[s].job] = {}
      BY <1>1, <1>4, <2>1 DEF WindowsFit
    <3>3. \A n \in Windows, s \in Slots :
            router.windows[n].slot = s => job[slot'[s].job].window = n
      BY <1>1, <1>4, <2>1 DEF WindowsFit
    <3> QED
      BY <1>6, <1>7, <2>2, <2>6, <3>1, <3>2, <3>3 DEF WindowsFit
  <2>9. ActiveIsOpen'
    <3>1. ses.active # NoSlot =>
            /\ slot'[ses.active] = slot[ses.active] /\ slot[ses.active].state = "capturing"
      BY <1>1, <1>2, <1>4, <1>8, <2>1, CaptureFields DEF ActiveIsOpen
    <3> QED
      BY <1>1, <1>4, <1>7, <2>2, <2>6, <3>1 DEF ActiveIsOpen
  <2>10. ControlMoves
    BY <1>1, <1>2, ControlStays
  <2>11. ClosedInOrder'
    BY <2>2, <2>10, ControlKeepsOrder
  <2>12. GradesVouch'
    <3>1. \A i \in DOMAIN completed : completed[i] \in Results
      BY <1>1 DEF CaptureTypeOK
    <3>2. \A i \in DOMAIN completed :
            completed[i].grade = "ok" => Complete(slot'[completed[i].slot].job)
      BY <1>1, <1>4, <2>1, <3>1 DEF GradesVouch, Results
    <3>3. \A m \in Windows, s \in Slots : router.windows[m].slot = s =>
           /\ router.windows[m].got \subseteq 1..ctl.issued[m]
           /\ router.windows[m].rejected = FALSE =>
                file[slot'[s].job] = {[window |-> m, command |-> c] : c \in router.windows[m].got}
      BY <1>1, <1>4, <2>1 DEF GradesVouch
    <3>4. /\ \A i \in DOMAIN actions : actions[i].command \in 1..ctl.issued[actions[i].window]
          /\ \A i \in Corrections : reg[i] = "source_complete" /\ job[i].grade = "ok" => Complete(i)
      BY <1>1, <1>4 DEF GradesVouch
    <3>5. \A i \in DOMAIN completed' :
            completed'[i].grade = "ok" => Complete(slot[completed[i].slot].job)'
      BY <2>2, <3>2 DEF Complete, Issued, Over
    <3>6. \A i \in Corrections :
            reg'[i] = "source_complete" /\ job'[i].grade = "ok" => Complete(i)'
      BY <2>2, <3>4 DEF Complete, Issued, Over
    <3>7. FinishingSlots' = {}
      BY <1>7
    <3> QED
      BY <2>2, <3>3, <3>4, <3>5, <3>6, <3>7 DEF GradesVouch
  <2> QED
    BY <1>4, <2>2, <2>3, <2>4, <2>5, <2>7, <2>8, <2>9, <2>11, <2>12, InvOfWindows
<1> QED
  BY <1>2, <1>3, <1>9, <1>10

(* The monitor fails: what is being captured is lost, and the thread ends. *)
LEMMA MonitorFailsKeeps ==
  ASSUME CaptureInv, MonitorFails
  PROVE  CaptureInv'
<1>1. /\ CaptureTypeOK /\ StagesAgree /\ OneForAll /\ JobsAreOwned /\ PlacesApart /\ WindowsFit
      /\ ActiveIsOpen /\ ClosedInOrder /\ GradesVouch /\ StopSettles
  BY DEF CaptureInv
<1>2. mon.pc # "ended" /\ ses.stage \notin {"new", "stopped"}
      /\ (mon.pc = "prepare" => ctl.closing = FALSE)
  <2>1. mon.pc # "ended" /\ (mon.pc = "prepare" => ctl.closing = FALSE)
    <3>1. ctl.closing \in BOOLEAN
      BY <1>1 DEF CaptureTypeOK, Controls
    <3> QED
      BY <3>1 DEF MonitorFails, Broken, Waits, Unlocked
  <2> QED
    BY <2>1, MonitorUp
<1> DEFINE lost == {slot[s].job : s \in {t \in Slots : slot[t].state \in {"capturing", "draining"}}}
<1>3. /\ mon' = [mon EXCEPT !.pc = "ended", !.result = NoResult]
      /\ ses' = [ses EXCEPT !.error = TRUE]
      /\ job' = [j \in Corrections |-> IF j \in lost THEN [job[j] EXCEPT !.state = "failed"] ELSE job[j]]
      /\ reg' = [j \in Corrections |-> IF j \in lost THEN "failed" ELSE reg[j]]
      /\ UNCHANGED <<slot, events, boundaries, actions, completed, router, file, ctl>>
      /\ faults' \in Nat
  <2>1. faults' \in Nat
    <3>1. UNCHANGED faults \/ Fault
      BY DEF MonitorFails, Broken, FaultUnless
    <3> QED
      BY <1>1, <3>1 DEF Fault, CaptureTypeOK
  <2> QED
    BY <2>1 DEF MonitorFails, process
<1>4. \A s \in Slots : slot[s].state \in Working => slot[s].job \in lost
  BY DEF Working
<1>5. \A j \in lost : \E s \in Slots : slot[s].job = j /\ slot[s].state \in Working
  BY DEF Working
<1> HIDE DEF lost
<1>6. /\ job' \in [Corrections -> JobRecords]
      /\ \A i \in Corrections : job'[i].window = job[i].window /\ job'[i].grade = job[i].grade
  <2>1. ASSUME NEW i \in Corrections
        PROVE  job'[i] \in JobRecords /\ job'[i].window = job[i].window /\ job'[i].grade = job[i].grade
    <3> DEFINE r == [job[i] EXCEPT !.state = "failed"]
    <3>1. job[i] \in JobRecords
      BY <1>1 DEF CaptureTypeOK
    <3>2. r \in JobRecords /\ r.window = job[i].window /\ r.grade = job[i].grade
      BY <3>1 DEF JobRecords
    <3>3. job'[i] = r \/ job'[i] = job[i]
      BY <1>3
    <3> HIDE DEF r
    <3> QED
      BY <3>1, <3>2, <3>3
  <2> DEFINE f(i) == IF i \in lost THEN [job[i] EXCEPT !.state = "failed"] ELSE job[i]
  <2>2. job' = [i \in Corrections |-> f(i)]
    BY <1>3
  <2> HIDE DEF f
  <2> QED
    BY <2>1, <2>2
<1>7. /\ reg' \in [Corrections -> RegStates]
      /\ \A i \in Corrections : i \in lost => reg'[i] = "failed"
      /\ \A i \in Corrections : i \notin lost => reg'[i] = reg[i]
      /\ \A i \in Corrections : reg[i] \in Closed => reg'[i] \in Closed
  BY <1>1, <1>3 DEF CaptureTypeOK, RegStates, Closed
<1>8. /\ ses' \in Sessions /\ ses'.error = TRUE /\ ses'.mode = ses.mode /\ ses'.stage = ses.stage
      /\ ses'.closing = ses.closing /\ ses'.active = ses.active /\ ses'.token = ses.token
      /\ ses'.prepared = ses.prepared
  BY <1>1, <1>3 DEF CaptureTypeOK, Sessions
<1>9. /\ mon' \in Monitors /\ mon'.pc = "ended" /\ mon'.changes = mon.changes
      /\ mon'.result.slot = NoSlot
  <2>1. mon \in Monitors /\ NoResult \in [slot: Slots \cup {NoSlot}, grade: Grades \cup {"none"}]
        /\ NoResult.slot = NoSlot
    BY <1>1 DEF CaptureTypeOK, NoResult
  <2> QED
    BY <1>3, <2>1 DEF Monitors
<1>10. CaptureTypeOK'
  BY <1>1, <1>3, <1>6, <1>7, <1>8, <1>9 DEF CaptureTypeOK
<1>11. StagesAgree' /\ StopSettles'
  <2>1. UNCHANGED <<ctl, router>>
    BY <1>3
  <2> QED
    BY <1>1, <1>2, <1>8, <1>9, <2>1 DEF StagesAgree, StopSettles
<1>12. CASE Full
  <2>1. InSession
    BY <1>1, <1>2, <1>12, ModeIsKept
  <2>2. \A i \in Corrections : i # First => i \notin lost
    BY <1>1, <1>5, <2>1, CaptureNumbers DEF OneForAll, Working
  <2>3. UNCHANGED <<slot, events, completed, ctl>>
    BY <1>3
  <2>4. First \in Corrections
    BY CaptureNumbers
  <2>5. OneForAll'
    BY <1>1, <1>7, <1>8, <1>9, <2>1, <2>2, <2>3, <2>4 DEF OneForAll, InSession
  <2> QED
    BY <1>8, <1>10, <1>11, <1>12, <2>5, InvOfSession DEF Full
<1>13. CASE ~Full
  <2>1. InWindows /\ ses.mode = "corrections_only"
    BY <1>1, <1>2, <1>13, ModeIsKept DEF InWindows
  <2>2. \A s \in Slots : /\ slot[s].job \in Corrections
                         /\ slot[s].state \in Working <=> slot[s].job \in lost
    <3>1. \A s \in Slots : slot[s].job \in Corrections
      BY <1>1, <2>1, OwnedJobs
    <3> QED
      BY <1>1, <1>4, <1>5, <2>1, <3>1 DEF JobsAreOwned
  <2>3. JobsAreOwned'
    <3>1. \A s \in Slots :
           /\ slot[s].state # "preparing" /\ slot[s].job # 0 /\ reg'[slot[s].job] # "none"
           /\ slot[s].state = "prepared" =>
                /\ job'[slot[s].job].window = 0 /\ reg'[slot[s].job] \in {"armed", "deleted"}
                /\ file[slot[s].job] = {}
           /\ slot[s].state # "prepared" => job'[slot[s].job].window # 0
           /\ slot[s].state \in {"waiting", "complete"} => reg'[slot[s].job] \in Closed
      <4> SUFFICES ASSUME NEW s \in Slots
                   PROVE  /\ slot[s].state # "preparing" /\ slot[s].job # 0
                          /\ reg'[slot[s].job] # "none"
                          /\ slot[s].state = "prepared" =>
                               /\ job'[slot[s].job].window = 0
                               /\ reg'[slot[s].job] \in {"armed", "deleted"}
                               /\ file[slot[s].job] = {}
                          /\ slot[s].state # "prepared" => job'[slot[s].job].window # 0
                          /\ slot[s].state \in {"waiting", "complete"} => reg'[slot[s].job] \in Closed
        OBVIOUS
      <4>1. /\ slot[s].state # "preparing" /\ slot[s].job # 0 /\ reg[slot[s].job] # "none"
            /\ slot[s].state = "prepared" =>
                 /\ job[slot[s].job].window = 0 /\ reg[slot[s].job] \in {"armed", "deleted"}
                 /\ file[slot[s].job] = {}
            /\ slot[s].state # "prepared" => job[slot[s].job].window # 0
            /\ slot[s].state \in {"waiting", "complete"} => reg[slot[s].job] \in Closed
        BY <1>1, <2>1 DEF JobsAreOwned
      <4>2. slot[s].state = "prepared" => slot[s].job \notin lost
        BY <2>2 DEF Working
      <4> QED
        BY <4>1, <4>2, <1>6, <1>7, <2>2
    <3>2. ASSUME NEW i \in Corrections
          PROVE  /\ reg'[i] = "none" => job'[i].window = 0 /\ file[i] = {}
                 /\ job'[i].window = 0 /\ reg'[i] \notin {"none", "deleted"} =>
                      \E s \in Slots : slot[s].job = i /\ slot[s].state = "prepared"
                 /\ job'[i].window # 0 /\ reg'[i] \notin Closed =>
                      \E s \in Slots : slot[s].job = i /\ slot[s].state \in Working
                 /\ job'[i].window <= ctl.window
      <4>1. /\ reg[i] = "none" => job[i].window = 0 /\ file[i] = {}
            /\ job[i].window = 0 /\ reg[i] \notin {"none", "deleted"} =>
                 \E s \in Slots : slot[s].job = i /\ slot[s].state = "prepared"
            /\ job[i].window # 0 /\ reg[i] \notin Closed =>
                 \E s \in Slots : slot[s].job = i /\ slot[s].state \in Working
            /\ job[i].window <= ctl.window
        BY <1>1, <2>1 DEF JobsAreOwned
      <4>2. i \in lost => reg'[i] \in Closed /\ job[i].window # 0 /\ reg'[i] # "none"
        <5>1. i \in lost => \E s \in Slots : slot[s].job = i /\ slot[s].state # "prepared"
          BY <1>5 DEF Working
        <5> QED
          BY <5>1, <1>1, <1>7, <2>1 DEF JobsAreOwned, Closed
      <4> QED
        BY <4>1, <4>2, <1>6, <1>7
    <3>3. ses.prepared \in Seq(Slots)
      BY <1>1, CaptureFields
    <3>4. \A i \in DOMAIN ses.prepared : slot[ses.prepared[i]].state = "prepared"
      BY <1>1, <2>1 DEF JobsAreOwned
    <3>5. \A s \in Slots, t \in Slots : slot[s].job = slot[t].job => s = t
      BY <1>1, <2>1 DEF JobsAreOwned
    <3>6. \A i \in Corrections, k \in Corrections :
            job'[i].window = job'[k].window /\ job'[i].window # 0 => i = k
      BY <1>1, <1>6, <2>1 DEF JobsAreOwned
    <3>7. \A i \in DOMAIN events : job'[events[i].job].window # 0
      <4>1. \A i \in DOMAIN events : events[i] \in Changes
        BY <1>1 DEF CaptureTypeOK
      <4> QED
        BY <4>1, <1>1, <1>6, <2>1 DEF JobsAreOwned, Changes
    <3>8. \A i \in DOMAIN mon.changes : job'[mon.changes[i].job].window # 0
      <4>1. mon.changes \in Seq(Changes)
        BY <1>1, CaptureFields
      <4>2. \A i \in DOMAIN mon.changes : mon.changes[i] \in Changes
        BY <4>1
      <4> QED
        BY <4>2, <1>1, <1>6, <2>1 DEF JobsAreOwned, Changes
    <3>9. UNCHANGED <<slot, events, file, ctl>>
      BY <1>3
    <3>10. \A i \in DOMAIN ses.prepared, k \in DOMAIN ses.prepared :
             ses.prepared[i] = ses.prepared[k] => i = k
      BY <1>1, <2>1 DEF JobsAreOwned
    <3> QED
      BY <1>8, <1>9, <3>1, <3>2, <3>4, <3>5, <3>6, <3>7, <3>8, <3>9, <3>10 DEF JobsAreOwned
  <2>4. /\ OpenSlots' = OpenSlots /\ RoutedSlots' = RoutedSlots /\ DoneSlots' = DoneSlots
        /\ FinishingSlots' = {} /\ MonitorSlots' = {} /\ InWindows'
        /\ \A i, s : Opening(i, s)' = Opening(i, s)
        /\ \A i, n : Closing(i, n)' = Closing(i, n)
    <3>1. FinishingSlots' = {}
      BY <1>9 DEF FinishingSlots
    <3>2. MonitorSlots' = {}
      BY <1>9, CaptureNumbers DEF MonitorSlots
    <3>3. UNCHANGED <<boundaries, completed, router>>
      BY <1>3
    <3>4. InWindows'
      BY <1>8, <2>1 DEF InWindows
    <3> QED
      BY <3>1, <3>2, <3>3, <3>4 DEF OpenSlots, RoutedSlots, DoneSlots, Opening, Closing
  <2>5. PlacesApart'
    <3>1. UNCHANGED <<boundaries, completed>>
      BY <1>3
    <3> QED
      BY <1>1, <2>1, <2>4, <3>1 DEF PlacesApart
  <2>6. WindowsFit'
    <3>1. \A s \in OpenSlots \cup RoutedSlots \cup DoneSlots :
            slot[s].state \in Working /\ reg'[slot[s].job] # "source_complete"
      <4>1. \A s \in OpenSlots \cup RoutedSlots \cup DoneSlots : s \in Slots
        BY DEF OpenSlots, RoutedSlots, DoneSlots
      <4> QED
        BY <4>1, <1>1, <1>7, <2>1, <2>2 DEF WindowsFit
    <3>2. \A i \in DOMAIN boundaries, s \in Slots :
            Opening(i, s) => job'[slot[s].job].window = boundaries[i].window /\ file[slot[s].job] = {}
      BY <1>1, <1>6, <2>1, <2>2 DEF WindowsFit
    <3>3. \A n \in Windows, s \in Slots :
            router.windows[n].slot = s => job'[slot[s].job].window = n
      BY <1>1, <1>6, <2>1, <2>2 DEF WindowsFit
    <3>4. UNCHANGED <<slot, boundaries, router, file>>
      BY <1>3
    <3> QED
      BY <1>9, <2>4, <3>1, <3>2, <3>3, <3>4 DEF WindowsFit
  <2>7. ActiveIsOpen'
    <3>1. ses.active # NoSlot => ses.active \in Slots
      BY <1>1, CaptureFields
    <3>2. ses.active # NoSlot => job'[slot[ses.active].job].window = job[slot[ses.active].job].window
      BY <1>6, <2>2, <3>1
    <3>3. ses.active # NoSlot => slot[ses.active].state = "capturing"
      <4>1. ctl.closing \in BOOLEAN
        BY <1>1 DEF CaptureTypeOK, Controls
      <4> QED
        BY <1>1, <1>2, <2>1, <4>1 DEF ActiveIsOpen
    <3>4. UNCHANGED <<slot, ctl, boundaries, router>>
      BY <1>3
    <3> QED
      BY <1>1, <1>8, <2>1, <2>4, <3>2, <3>3, <3>4 DEF ActiveIsOpen
  <2>8. ControlMoves
    BY <1>1, <1>3, ControlStays
  <2>9. ClosedInOrder'
    BY <1>3, <1>8, <2>8, ControlKeepsOrder
  <2>10. GradesVouch'
    <3> DEFINE whole == {i \in Corrections : Complete(i)'}
    <3>1. \A i \in Corrections : Complete(i) => i \in whole
      BY <1>3, <1>6 DEF Complete, Issued, Over
    <3> HIDE DEF whole
    <3>2. \A i \in Corrections : reg'[i] = "source_complete" /\ job'[i].grade = "ok" => i \in whole
      <4>1. \A i \in Corrections : reg[i] = "source_complete" /\ job[i].grade = "ok" => i \in whole
        BY <1>1, <2>1, <3>1 DEF GradesVouch
      <4> QED
        BY <1>6, <1>7, <4>1
    <3>3. \A i \in DOMAIN completed : completed[i] \in Results
      BY <1>1 DEF CaptureTypeOK
    <3>4. \A i \in DOMAIN completed :
            completed[i].grade = "ok" => slot[completed[i].slot].job \in whole
      BY <1>1, <2>1, <2>2, <3>1, <3>3 DEF GradesVouch, Results
    <3>5. \A m \in Windows, s \in Slots : router.windows[m].slot = s =>
           /\ router.windows[m].got \subseteq 1..ctl.issued[m]
           /\ router.windows[m].rejected = FALSE =>
                file[slot[s].job] = {[window |-> m, command |-> c] : c \in router.windows[m].got}
      BY <1>1, <2>1 DEF GradesVouch
    <3>6. \A i \in DOMAIN actions : actions[i].command \in 1..ctl.issued[actions[i].window]
      BY <1>1, <2>1 DEF GradesVouch
    <3>7. UNCHANGED <<slot, completed, actions, router, ctl, file>>
      BY <1>3
    <3> QED
      BY <2>4, <3>2, <3>4, <3>5, <3>6, <3>7 DEF GradesVouch, Complete, whole
  <2> QED
    BY <1>8, <1>10, <1>11, <2>1, <2>3, <2>5, <2>6, <2>7, <2>9, <2>10, InvOfWindows
<1> QED
  BY <1>12, <1>13

(* Stopping: no window is open, or the full session ends with its event.   *)
LEMMA StopKeeps ==
  ASSUME CaptureInv, Stop
  PROVE  CaptureInv'
<1>1. /\ CaptureTypeOK /\ StagesAgree /\ OneForAll /\ JobsAreOwned /\ PlacesApart /\ WindowsFit
      /\ ActiveIsOpen /\ ClosedInOrder /\ GradesVouch /\ StopSettles
  BY DEF CaptureInv
<1>2. /\ ses.stage = "up"
      /\ ses' = [ses EXCEPT !.stage = "stopping", !.closing = TRUE, !.active = NoSlot]
      /\ UNCHANGED <<reg, events, mon, actions, completed, router, ctl, file, faults>>
  BY DEF Stop
<1>3. /\ ses' \in Sessions /\ ses'.mode = ses.mode /\ ses'.stage = "stopping" /\ ses'.closing = TRUE
      /\ ses'.active = NoSlot /\ ses'.token = ses.token /\ ses'.error = ses.error
      /\ ses'.prepared = ses.prepared
  BY <1>1, <1>2, CaptureNumbers DEF CaptureTypeOK, Sessions
<1>4. StopSettles'
  BY <1>3 DEF StopSettles
<1>5. ASSUME UNCHANGED slot \/ Full PROVE StagesAgree'
  <2>1. ses.closing \in BOOLEAN /\ ses.error \in BOOLEAN
    BY <1>1, CaptureFields
  <2>2. mon.pc = "ended" => ses.error = TRUE
    BY <1>1, <1>2, <2>1 DEF StagesAgree
  <2>3. UNCHANGED <<mon, router, ctl>>
    BY <1>2
  <2> QED
    BY <1>1, <1>2, <1>3, <2>1, <2>2, <2>3 DEF StagesAgree
<1>6. CASE Full
  <2>1. InSession
    BY <1>1, <1>2, <1>6, ModeIsKept
  <2>2. boundaries' = boundaries \/ boundaries' = Append(boundaries, [op |-> "finish"])
    BY DEF Stop
  <2>3. boundaries' \in Seq(Boundaries)
    <3>1. boundaries \in Seq(Boundaries) /\ [op |-> "finish"] \in Boundaries
      BY <1>1 DEF CaptureTypeOK, Boundaries
    <3> QED
      BY <2>2, <3>1
  <2>4. /\ slot' \in [Slots -> SlotRecords] /\ slot'[First].job = slot[First].job
        /\ slot'[First].state = slot[First].state \/ slot'[First].state = "draining"
        /\ \A s \in Slots : s # First => slot'[s] = slot[s]
    <3>1. slot' = slot \/ slot' = [slot EXCEPT ![First].state = "draining"]
      BY DEF Stop
    <3>2. First \in Slots /\ "draining" \in SlotStates
      BY CaptureNumbers DEF SlotStates
    <3>3. CASE slot' = slot
      BY <1>1, <3>2, <3>3 DEF CaptureTypeOK
    <3>4. CASE slot' = [slot EXCEPT ![First].state = "draining"]
      BY <1>1, <3>2, <3>4, SlotMoves
    <3> QED
      BY <3>1, <3>3, <3>4
  <2>5. job' \in [Corrections -> JobRecords]
    <3>1. job' = job \/ job' = [job EXCEPT ![First].state = "draining"]
      BY DEF Stop
    <3>2. First \in Corrections
      BY CaptureNumbers
    <3> QED
      BY <1>1, <3>1, <3>2, JobMoves DEF CaptureTypeOK
  <2>6. CaptureTypeOK'
    BY <1>1, <1>2, <1>3, <2>3, <2>4, <2>5 DEF CaptureTypeOK
  <2>7. OneForAll'
    <3>1. UNCHANGED <<reg, events, mon, completed, ctl>>
      BY <1>2
    <3> QED
      BY <1>1, <1>3, <2>1, <2>4, <3>1, CaptureNumbers DEF OneForAll, InSession, Working
  <2> QED
    BY <1>3, <1>4, <1>5, <1>6, <2>6, <2>7, InvOfSession DEF Full
<1>7. CASE ~Full
  <2>1. InWindows /\ ses.mode = "corrections_only"
    BY <1>1, <1>2, <1>7, ModeIsKept DEF InWindows
  <2>2. ses.active = NoSlot /\ UNCHANGED <<boundaries, slot, job>>
    BY <1>7 DEF Stop
  <2>3. CaptureTypeOK'
    BY <1>1, <1>2, <1>3, <2>2 DEF CaptureTypeOK
  <2>4. JobsAreOwned'
    BY <1>1, <1>2, <1>3, <2>1, <2>2 DEF JobsAreOwned
  <2>5. /\ OpenSlots' = OpenSlots /\ RoutedSlots' = RoutedSlots /\ DoneSlots' = DoneSlots
        /\ FinishingSlots' = FinishingSlots /\ MonitorSlots' = MonitorSlots /\ InWindows'
        /\ \A i, s : Opening(i, s)' = Opening(i, s)
        /\ \A i, n : Closing(i, n)' = Closing(i, n)
    BY <1>2, <1>3, <2>1, <2>2 DEF OpenSlots, RoutedSlots, DoneSlots, FinishingSlots, MonitorSlots,
       Opening, Closing, InWindows
  <2>6. PlacesApart'
    BY <1>1, <1>2, <2>1, <2>2, <2>5 DEF PlacesApart
  <2>7. WindowsFit'
    BY <1>1, <1>2, <2>1, <2>2, <2>5 DEF WindowsFit
  <2>8. ActiveIsOpen'
    BY <1>1, <1>2, <1>3, <2>1, <2>2 DEF ActiveIsOpen
  <2>9. ClosedInOrder'
    BY <1>1, <1>2, <2>1, <2>2, <2>5 DEF ClosedInOrder, Over
  <2>10. GradesVouch'
    <3>1. /\ \A i \in DOMAIN completed :
               completed[i].grade = "ok" => Complete(slot[completed[i].slot].job)
          /\ \A s \in FinishingSlots : mon.result.grade = "ok" => Complete(slot[s].job)
          /\ \A j \in Corrections :
               reg[j] = "source_complete" /\ job[j].grade = "ok" => Complete(j)
      BY <1>1, <2>1 DEF GradesVouch
    <3>2. \A n \in Windows, s \in Slots : router.windows[n].slot = s =>
            /\ router.windows[n].got \subseteq 1..ctl.issued[n]
            /\ router.windows[n].rejected = FALSE =>
                 file[slot[s].job] = {[window |-> n, command |-> c] : c \in router.windows[n].got}
      BY <1>1, <2>1 DEF GradesVouch
    <3>3. UNCHANGED <<slot, job, reg, mon, actions, completed, router, ctl, file>>
      BY <1>2, <2>2
    <3> QED
      BY <1>1, <2>1, <2>5, <3>1, <3>2, <3>3, GradesStay
  <2> QED
    BY <1>3, <1>4, <1>5, <2>1, <2>2, <2>3, <2>4, <2>6, <2>7, <2>8, <2>9, <2>10, InvOfWindows
<1> QED
  BY <1>6, <1>7

(* What a stopped session leaves: its warm slots are deleted, and no other *)
(* recording is.                                                           *)
LEMMA StoppedDeletes ==
  ASSUME CaptureInv, Stopped
  PROVE  /\ mon.pc = "ended" /\ ses.stage = "stopping"
         /\ Full => reg' = reg
         /\ reg' \in [Corrections -> RegStates]
         /\ ~Full => \A j \in Corrections :
              /\ reg'[j] = reg[j] \/ reg'[j] = "deleted"
              /\ job[j].window # 0 => reg'[j] = reg[j]
              /\ reg[j] = "none" <=> reg'[j] = "none"
              /\ job[j].window = 0 => reg'[j] \in {"none", "deleted"}
              /\ reg[j] = "deleted" => reg'[j] = "deleted"
<1>1. CaptureTypeOK /\ StagesAgree /\ OneForAll /\ JobsAreOwned
  BY DEF CaptureInv
<1>2. /\ mon.pc = "ended" /\ ses.stage = "stopping"
      /\ reg' = [j \in Corrections |-> IF \E s \in UsedSlots(ses.mode) : slot[s].job = j /\ Unused(s)
                                      THEN "deleted" ELSE reg[j]]
  BY DEF Stopped
<1>3. reg' \in [Corrections -> RegStates]
  BY <1>1, <1>2 DEF CaptureTypeOK, RegStates
<1>4. CASE Full
  <2>1. InSession
    BY <1>1, <1>2, <1>4, ModeIsKept
  <2>2. UsedSlots(ses.mode) = {First} /\ ~Unused(First)
    BY <1>1, <1>4, <2>1 DEF OneForAll, Working, Full, UsedSlots, Unused
  <2>3. reg = [j \in Corrections |-> reg[j]]
    BY <1>1 DEF CaptureTypeOK
  <2>4. \A j \in Corrections : reg'[j] = reg[j]
    BY <1>2, <2>2
  <2>5. reg' = reg
    BY <1>3, <2>3, <2>4
  <2> QED
    BY <1>2, <1>3, <1>4, <2>5
<1>5. CASE ~Full
  <2>1. InWindows
    BY <1>1, <1>2, <1>5, ModeIsKept
  <2>2. UsedSlots(ses.mode) = Slots
    BY <1>5 DEF Full, UsedSlots
  <2>3. ASSUME NEW j \in Corrections
        PROVE  /\ reg'[j] = reg[j] \/ reg'[j] = "deleted"
               /\ job[j].window # 0 => reg'[j] = reg[j]
               /\ reg[j] = "none" <=> reg'[j] = "none"
               /\ job[j].window = 0 => reg'[j] \in {"none", "deleted"}
               /\ reg[j] = "deleted" => reg'[j] = "deleted"
    <3>1. CASE \E s \in Slots : slot[s].job = j /\ Unused(s)
      <4>1. reg'[j] = "deleted"
        BY <1>2, <2>2, <3>1
      <4>2. job[j].window = 0 /\ reg[j] # "none"
        BY <1>1, <2>1, <3>1 DEF Unused, JobsAreOwned
      <4> QED
        BY <4>1, <4>2
    <3>2. CASE ~\E s \in Slots : slot[s].job = j /\ Unused(s)
      <4>1. reg'[j] = reg[j]
        BY <1>2, <2>2, <3>2
      <4>2. \A s \in Slots : slot[s].job = j /\ slot[s].state = "prepared" => job[j].window # 0
        BY <3>2 DEF Unused
      <4>3. job[j].window = 0 => reg[j] \in {"none", "deleted"}
        BY <1>1, <2>1, <4>2 DEF JobsAreOwned
      <4> QED
        BY <4>1, <4>3
    <3> QED
      BY <3>1, <3>2
  <2> QED
    BY <1>2, <1>3, <1>5, <2>3
<1> QED
  BY <1>4, <1>5

(* The session is stopped once its monitor has ended.                      *)
LEMMA StoppedKeeps ==
  ASSUME CaptureInv, Stopped
  PROVE  CaptureInv'
<1>1. /\ CaptureTypeOK /\ StagesAgree /\ OneForAll /\ JobsAreOwned /\ PlacesApart /\ WindowsFit
      /\ ActiveIsOpen /\ ClosedInOrder /\ GradesVouch /\ StopSettles
  BY DEF CaptureInv
<1>2. /\ ses.stage = "stopping" /\ mon.pc = "ended"
      /\ ses' = [ses EXCEPT !.stage = "stopped"] /\ router' = NoRouter
      /\ UNCHANGED <<slot, job, events, mon, boundaries, actions, completed, ctl, file, faults>>
  BY DEF Stopped
<1>3. /\ ses' \in Sessions /\ ses'.mode = ses.mode /\ ses'.stage = "stopped"
      /\ ses'.closing = ses.closing /\ ses'.active = ses.active /\ ses'.token = ses.token
      /\ ses'.error = ses.error /\ ses'.prepared = ses.prepared
  BY <1>1, <1>2 DEF CaptureTypeOK, Sessions
<1>4. reg' \in [Corrections -> RegStates] /\ ses.active = NoSlot
  BY <1>1, <1>2, StoppedDeletes DEF StagesAgree
<1>5. /\ router' \in Routers /\ router'.runs = FALSE
      /\ \A n \in Windows : /\ router'.windows[n].slot = NoSlot /\ router'.windows[n].last = -1
  BY <1>2, CaptureNumbers DEF NoRouter, NoWindow, Routers, RouterWindows
<1>6. CaptureTypeOK'
  BY <1>1, <1>2, <1>3, <1>4, <1>5 DEF CaptureTypeOK
<1>7. StagesAgree'
  <2>1. UNCHANGED <<slot, mon, ctl>>
    BY <1>2
  <2> QED
    BY <1>1, <1>2, <1>3, <1>5, <2>1 DEF StagesAgree
<1>8. ses.error = FALSE => \A s \in Slots : slot[s].state \notin Working
  BY <1>1, <1>2 DEF StagesAgree
<1>9. CASE Full
  <2>1. InSession /\ reg' = reg
    BY <1>1, <1>2, <1>9, ModeIsKept, StoppedDeletes
  <2>2. OneForAll'
    BY <1>1, <1>2, <1>3, <2>1 DEF OneForAll, InSession
  <2>3. StopSettles'
    <3>1. ses.error = FALSE => \A j \in Corrections : reg[j] \in Closed \cup {"none"}
      BY <1>1, <1>8, <2>1, CaptureNumbers DEF OneForAll
    <3>2. ses.error \in BOOLEAN /\ Full' /\ UNCHANGED job
      BY <1>1, <1>2, <1>3, <1>9, CaptureFields DEF Full
    <3> QED
      BY <1>3, <2>1, <3>1, <3>2 DEF StopSettles
  <2> QED
    BY <1>3, <1>6, <1>7, <1>9, <2>2, <2>3, InvOfSession DEF Full
<1>10. CASE ~Full
  <2>1. InWindows /\ ses.mode = "corrections_only" /\ InWindows'
    BY <1>1, <1>2, <1>3, <1>10, ModeIsKept DEF InWindows
  <2>2. \A j \in Corrections :
          /\ reg'[j] = reg[j] \/ reg'[j] = "deleted"
          /\ job[j].window # 0 => reg'[j] = reg[j]
          /\ reg[j] = "none" <=> reg'[j] = "none"
          /\ job[j].window = 0 => reg'[j] \in {"none", "deleted"}
          /\ reg[j] = "deleted" => reg'[j] = "deleted"
    BY <1>10, StoppedDeletes
  <2>3. UNCHANGED <<slot, job, events, mon, boundaries, actions, completed, ctl, file>>
    BY <1>2
  <2>4. \A s \in Slots : slot[s].job \in Corrections
    BY <1>1, <2>1, OwnedJobs
  <2>5. JobsAreOwned'
    <3>1. \A s \in Slots :
           /\ slot[s].state # "preparing" /\ slot[s].job # 0 /\ reg'[slot[s].job] # "none"
           /\ slot[s].state = "prepared" =>
                /\ job[slot[s].job].window = 0 /\ reg'[slot[s].job] \in {"armed", "deleted"}
                /\ file[slot[s].job] = {}
           /\ slot[s].state # "prepared" => job[slot[s].job].window # 0
           /\ slot[s].state \in {"waiting", "complete"} => reg'[slot[s].job] \in Closed
      <4> SUFFICES ASSUME NEW s \in Slots
                   PROVE  /\ slot[s].state # "preparing" /\ slot[s].job # 0
                          /\ reg'[slot[s].job] # "none"
                          /\ slot[s].state = "prepared" =>
                               /\ job[slot[s].job].window = 0
                               /\ reg'[slot[s].job] \in {"armed", "deleted"}
                               /\ file[slot[s].job] = {}
                          /\ slot[s].state # "prepared" => job[slot[s].job].window # 0
                          /\ slot[s].state \in {"waiting", "complete"} => reg'[slot[s].job] \in Closed
        OBVIOUS
      <4>1. /\ slot[s].state # "preparing" /\ slot[s].job # 0 /\ reg[slot[s].job] # "none"
            /\ slot[s].state = "prepared" =>
                 /\ job[slot[s].job].window = 0 /\ reg[slot[s].job] \in {"armed", "deleted"}
                 /\ file[slot[s].job] = {}
            /\ slot[s].state # "prepared" => job[slot[s].job].window # 0
            /\ slot[s].state \in {"waiting", "complete"} => reg[slot[s].job] \in Closed
        BY <1>1, <2>1 DEF JobsAreOwned
      <4> QED
        BY <4>1, <2>2, <2>4
    <3>2. ASSUME NEW i \in Corrections
          PROVE  /\ reg'[i] = "none" => job[i].window = 0 /\ file[i] = {}
                 /\ job[i].window = 0 /\ reg'[i] \notin {"none", "deleted"} =>
                      \E s \in Slots : slot[s].job = i /\ slot[s].state = "prepared"
                 /\ job[i].window # 0 /\ reg'[i] \notin Closed =>
                      \E s \in Slots : slot[s].job = i /\ slot[s].state \in Working
                 /\ job[i].window <= ctl.window
      <4>1. /\ reg[i] = "none" => job[i].window = 0 /\ file[i] = {}
            /\ job[i].window # 0 /\ reg[i] \notin Closed =>
                 \E s \in Slots : slot[s].job = i /\ slot[s].state \in Working
            /\ job[i].window <= ctl.window
        BY <1>1, <2>1 DEF JobsAreOwned
      <4> QED
        BY <4>1, <2>2
    <3>3. /\ \A s \in Slots, t \in Slots : slot[s].job = slot[t].job => s = t
          /\ \A i \in Corrections, k \in Corrections :
               job[i].window = job[k].window /\ job[i].window # 0 => i = k
          /\ \A i \in DOMAIN ses.prepared : slot[ses.prepared[i]].state = "prepared"
          /\ \A i \in DOMAIN ses.prepared, k \in DOMAIN ses.prepared :
               ses.prepared[i] = ses.prepared[k] => i = k
          /\ \A i \in DOMAIN events : job[events[i].job].window # 0
          /\ \A i \in DOMAIN mon.changes : job[mon.changes[i].job].window # 0
      BY <1>1, <2>1 DEF JobsAreOwned
    <3> QED
      BY <1>3, <2>3, <3>1, <3>2, <3>3 DEF JobsAreOwned
  <2>6. /\ OpenSlots' = OpenSlots /\ RoutedSlots' = {} /\ DoneSlots' = DoneSlots
        /\ FinishingSlots' = {} /\ MonitorSlots' = MonitorSlots
        /\ \A i, s : Opening(i, s)' = Opening(i, s)
        /\ \A i, n : Closing(i, n)' = Closing(i, n)
    <3>1. RoutedSlots' = {}
      BY <1>5, CaptureNumbers DEF RoutedSlots
    <3>2. FinishingSlots' = {}
      BY <1>2, <2>3 DEF FinishingSlots
    <3> QED
      BY <2>3, <3>1, <3>2 DEF OpenSlots, DoneSlots, MonitorSlots, Opening, Closing
  <2>7. PlacesApart'
    BY <1>1, <2>1, <2>3, <2>6 DEF PlacesApart
  <2>8. WindowsFit'
    <3>1. \A s \in OpenSlots \cup DoneSlots :
            slot[s].state \in Working /\ reg'[slot[s].job] # "source_complete"
      <4>1. \A s \in OpenSlots \cup DoneSlots : s \in Slots
        BY DEF OpenSlots, DoneSlots
      <4> QED
        BY <4>1, <1>1, <2>1, <2>2, <2>4 DEF WindowsFit
    <3>2. \A i \in DOMAIN boundaries, s \in Slots :
            Opening(i, s) => job[slot[s].job].window = boundaries[i].window /\ file[slot[s].job] = {}
      BY <1>1, <2>1 DEF WindowsFit
    <3>3. \A n \in Windows, s \in Slots : router'.windows[n].slot # s
      BY <1>5, CaptureNumbers
    <3> QED
      BY <1>2, <2>3, <2>6, <3>1, <3>2, <3>3 DEF WindowsFit
  <2>9. ActiveIsOpen'
    BY <1>1, <1>3, <1>4, <2>1, <2>3 DEF ActiveIsOpen
  <2>10. ClosedInOrder'
    BY <1>1, <1>5, <2>1, <2>3, <2>6 DEF ClosedInOrder, Over
  <2>11. GradesVouch'
    <3> DEFINE whole == {i \in Corrections : Complete(i)'}
    <3>1. \A i \in Corrections : Complete(i) => i \in whole
      BY <2>3 DEF Complete, Issued, Over
    <3> HIDE DEF whole
    <3>2. \A i \in Corrections : reg'[i] = "source_complete" /\ job[i].grade = "ok" => i \in whole
      BY <1>1, <2>1, <2>2, <3>1 DEF GradesVouch
    <3>3. \A i \in DOMAIN completed : completed[i] \in Results
      BY <1>1 DEF CaptureTypeOK
    <3>4. \A i \in DOMAIN completed :
            completed[i].grade = "ok" => slot[completed[i].slot].job \in whole
      BY <1>1, <2>1, <2>4, <3>1, <3>3 DEF GradesVouch, Results
    <3>5. \A n \in Windows, s \in Slots : router'.windows[n].slot # s
      BY <1>5, CaptureNumbers
    <3>6. \A i \in DOMAIN actions : actions[i].command \in 1..ctl.issued[actions[i].window]
      BY <1>1, <2>1 DEF GradesVouch
    <3> QED
      BY <2>3, <2>6, <3>2, <3>4, <3>5, <3>6 DEF GradesVouch, whole
  <2>12. StopSettles'
    <3>1. ses.error = FALSE => \A j \in Corrections : job[j].window # 0 => reg[j] \in Closed
      BY <1>1, <1>8, <2>1 DEF JobsAreOwned
    <3>2. ses.error \in BOOLEAN /\ ~Full'
      BY <1>1, <1>3, <1>10, CaptureFields DEF Full
    <3> QED
      BY <1>3, <2>2, <2>3, <3>1, <3>2 DEF StopSettles
  <2> QED
    BY <1>3, <1>6, <1>7, <2>1, <2>5, <2>7, <2>8, <2>9, <2>10, <2>11, <2>12, InvOfWindows
<1> QED
  BY <1>9, <1>10

(* A session is prepared: all its slots are warm, or one records all of it. *)
LEMMA PrepareCaptureKeeps ==
  ASSUME CaptureInv, NEW mode \in {"corrections_only", "full_session"}, PrepareCapture(mode)
  PROVE  CaptureInv'
<1>1. CaptureTypeOK /\ CaptureInit
  BY DEF CaptureInv, StagesAgree, PrepareCapture
<1>2. /\ router' = [router EXCEPT !.runs = TRUE] /\ mon' = [mon EXCEPT !.pc = "loop"]
      /\ UNCHANGED <<events, boundaries, actions, completed, ctl, file, faults>>
  BY DEF PrepareCapture
<1>3. /\ events = <<>> /\ boundaries = <<>> /\ actions = <<>> /\ completed = <<>>
      /\ ctl.window = 0 /\ ctl.manual = FALSE /\ ctl.segment = FALSE /\ ctl.closing = FALSE
      /\ \A j \in Corrections : job[j].window = 0 /\ file[j] = {}
  BY <1>1 DEF CaptureInit
<1>4. mon' = [pc |-> "loop", changes |-> <<>>, result |-> NoResult] /\ mon' \in Monitors
      /\ mon'.pc = "loop" /\ mon'.changes = <<>> /\ mon'.result.slot = NoSlot
  <2>1. mon' = [pc |-> "loop", changes |-> <<>>, result |-> NoResult]
    BY <1>1, <1>2 DEF CaptureInit
  <2> QED
    BY <2>1 DEF Monitors, NoResult
<1>5. /\ router' \in Routers
      /\ \A n \in Windows : router'.windows[n].slot = NoSlot /\ router'.windows[n].last = -1
  <2>1. router \in Routers /\ router = NoRouter
    BY <1>1 DEF CaptureTypeOK, CaptureInit
  <2>2. router' \in Routers /\ router'.windows = NoRouter.windows
    BY <1>2, <2>1 DEF Routers
  <2> QED
    BY <2>2 DEF NoRouter, NoWindow
<1>6. /\ ses' \in Sessions /\ ses'.mode = mode /\ ses'.stage = "up" /\ ses'.closing = FALSE
      /\ mode = "full_session" => ses'.active = First /\ ses'.prepared = <<>>
      /\ mode # "full_session" => ses'.active = NoSlot /\ ses'.prepared = [s \in Slots |-> s]
  <2>1. ses \in Sessions /\ ses.closing = FALSE
    BY <1>1 DEF CaptureTypeOK, CaptureInit
  <2>2. PICK p \in Seq(Slots), a \in Slots \cup {NoSlot} :
          /\ p = IF mode = "full_session" THEN <<>> ELSE [s \in Slots |-> s]
          /\ a = IF mode = "full_session" THEN First ELSE NoSlot
    <3>1. PreparedSlots \in Nat /\ Slots = 1..PreparedSlots
      BY CaptureNumbers DEF Slots
    <3>2. [s \in Slots |-> s] \in Seq(Slots)
      BY <3>1
    <3>3. <<>> \in Seq(Slots) /\ First \in Slots
      BY CaptureNumbers
    <3> DEFINE q == IF mode = "full_session" THEN <<>> ELSE [s \in Slots |-> s]
    <3> DEFINE b == IF mode = "full_session" THEN First ELSE NoSlot
    <3>4. q \in Seq(Slots)
      BY <3>2, <3>3
    <3>5. b \in Slots \cup {NoSlot}
      BY <3>3
    <3> QED
      BY <3>4, <3>5
  <2>3. ses' = [ses EXCEPT !.mode = mode, !.stage = "up", !.prepared = p, !.active = a]
    BY <2>2 DEF PrepareCapture
  <2> QED
    BY <2>1, <2>2, <2>3 DEF Sessions
<1>7. StagesAgree' /\ StopSettles'
  BY <1>2, <1>3, <1>4, <1>6 DEF StagesAgree, StopSettles
<1>8. CASE mode = "full_session"
  <2>1. /\ slot' = [s \in Slots |-> IF s = First THEN [state |-> "capturing", job |-> s, writer |-> TRUE]
                                   ELSE [state |-> "preparing", job |-> 0, writer |-> FALSE]]
        /\ reg' = [j \in Corrections |-> IF j = First THEN "capturing" ELSE "none"]
        /\ job' = [job EXCEPT ![First].state = "capturing"]
    <3>1. UsedSlots(mode) = {First}
      BY <1>8 DEF UsedSlots
    <3>2. slot = [s \in Slots |-> [state |-> "preparing", job |-> 0, writer |-> FALSE]]
      BY <1>1 DEF CaptureInit
    <3>3. \A s \in Slots : slot[s] = [state |-> "preparing", job |-> 0, writer |-> FALSE]
      BY <3>2
    <3>4. slot' = [s \in Slots |-> IF s = First THEN [state |-> "capturing", job |-> s, writer |-> TRUE]
                                   ELSE slot[s]]
      BY <1>8, <3>1 DEF PrepareCapture
    <3>5. reg' = [j \in Corrections |-> IF j = First THEN "capturing" ELSE "none"]
      BY <1>8, <3>1 DEF PrepareCapture
    <3> QED
      BY <1>8, <3>3, <3>4, <3>5 DEF PrepareCapture
  <2>2. First \in Slots /\ First \in Corrections
    BY CaptureNumbers
  <2>3. /\ slot' \in [Slots -> SlotRecords] /\ slot'[First].job = First
        /\ slot'[First].state = "capturing"
        /\ \A s \in Slots : s # First => slot'[s].state = "preparing"
    BY <2>1, <2>2 DEF SlotRecords, SlotStates
  <2>4. job' \in [Corrections -> JobRecords]
    BY <1>1, <2>1, <2>2, JobMoves
  <2>5. /\ reg' \in [Corrections -> RegStates]
        /\ \A j \in Corrections : j # First => reg'[j] = "none"
    BY <2>1 DEF RegStates
  <2>6. CaptureTypeOK'
    BY <1>1, <1>2, <1>4, <1>5, <1>6, <2>3, <2>4, <2>5 DEF CaptureTypeOK
  <2>7. OneForAll'
    BY <1>2, <1>3, <1>4, <1>6, <1>8, <2>3, <2>5 DEF OneForAll, Working
  <2> QED
    BY <1>6, <1>7, <1>8, <2>6, <2>7, InvOfSession
<1>9. CASE mode = "corrections_only"
  <2>1. /\ slot' = [s \in Slots |-> [state |-> "prepared", job |-> s, writer |-> TRUE]]
        /\ reg' = [j \in Corrections |-> IF j \in Slots THEN "armed" ELSE "none"]
        /\ job' = job
    <3>1. UsedSlots(mode) = Slots
      BY <1>9 DEF UsedSlots
    <3>2. slot' = [s \in Slots |-> [state |-> "prepared", job |-> s, writer |-> TRUE]]
      BY <1>9, <3>1 DEF PrepareCapture
    <3>3. reg' = [j \in Corrections |-> IF j \in Slots THEN "armed" ELSE "none"]
      BY <1>9, <3>1 DEF PrepareCapture
    <3> QED
      BY <1>9, <3>2, <3>3 DEF PrepareCapture
  <2>2. /\ slot' \in [Slots -> SlotRecords] /\ reg' \in [Corrections -> RegStates]
        /\ \A s \in Slots : slot'[s].state = "prepared" /\ slot'[s].job = s /\ reg'[s] = "armed"
        /\ \A j \in Corrections : j \in Slots \/ reg'[j] = "none"
        /\ \A j \in Corrections : reg'[j] \in {"none", "armed"}
        /\ \A s \in Slots : job'[s].window = 0 /\ file'[s] = {}
    BY <1>2, <1>3, <2>1, CaptureNumbers DEF SlotRecords, SlotStates, RegStates
  <2>3. CaptureTypeOK'
    BY <1>1, <1>2, <1>4, <1>5, <1>6, <2>1, <2>2 DEF CaptureTypeOK
  <2>4. /\ ses'.prepared = [s \in Slots |-> s] /\ DOMAIN ses'.prepared = Slots
        /\ \A s \in Slots : ses'.prepared[s] = s
    BY <1>6, <1>9
  <2>5. InWindows'
    BY <1>6, <1>9 DEF InWindows
  <2>6. JobsAreOwned'
    <3>1. \A s \in Slots :
           /\ slot'[s].state # "preparing" /\ slot'[s].job # 0 /\ reg'[slot'[s].job] # "none"
           /\ slot'[s].state = "prepared" =>
                /\ job'[slot'[s].job].window = 0 /\ reg'[slot'[s].job] \in {"armed", "deleted"}
                /\ file'[slot'[s].job] = {}
           /\ slot'[s].state # "prepared" => job'[slot'[s].job].window # 0
           /\ slot'[s].state \in {"waiting", "complete"} => reg'[slot'[s].job] \in Closed
      BY <2>2, CaptureNumbers
    <3>2. \A j \in Corrections :
            /\ reg'[j] = "none" => job'[j].window = 0 /\ file'[j] = {}
            /\ job'[j].window = 0 /\ reg'[j] \notin {"none", "deleted"} =>
                 \E s \in Slots : slot'[s].job = j /\ slot'[s].state = "prepared"
            /\ job'[j].window # 0 /\ reg'[j] \notin Closed =>
                 \E s \in Slots : slot'[s].job = j /\ slot'[s].state \in Working
            /\ job'[j].window <= ctl'.window
      BY <1>2, <1>3, <2>1, <2>2
    <3>3. \A i \in DOMAIN ses'.prepared : slot'[ses'.prepared[i]].state = "prepared"
      BY <2>2, <2>4
    <3>4. \A i \in DOMAIN ses'.prepared, k \in DOMAIN ses'.prepared :
             ses'.prepared[i] = ses'.prepared[k] => i = k
      BY <2>4
    <3>5. \A i \in Corrections, k \in Corrections :
            job'[i].window = job'[k].window /\ job'[i].window # 0 => i = k
      BY <1>3, <2>1
    <3>6. events' = <<>> /\ mon'.changes = <<>>
      BY <1>2, <1>3, <1>4
    <3>7. \A s \in Slots, t \in Slots : slot'[s].job = slot'[t].job => s = t
      BY <2>2
    <3> QED
      BY <3>1, <3>2, <3>3, <3>4, <3>5, <3>6, <3>7 DEF JobsAreOwned
  <2>7. /\ OpenSlots' = {} /\ RoutedSlots' = {} /\ DoneSlots' = {} /\ MonitorSlots' = {}
        /\ FinishingSlots' = {} /\ boundaries' = <<>> /\ completed' = <<>> /\ actions' = <<>>
    BY <1>2, <1>3, <1>4, <1>5, CaptureNumbers
       DEF OpenSlots, RoutedSlots, DoneSlots, MonitorSlots, FinishingSlots
  <2>8. PlacesApart'
    BY <2>7 DEF PlacesApart
  <2>9. WindowsFit'
    BY <1>4, <1>5, <2>7, CaptureNumbers DEF WindowsFit
  <2>10. ActiveIsOpen'
    BY <1>2, <1>3, <1>6, <1>9 DEF ActiveIsOpen
  <2>11. ClosedInOrder'
    BY <1>5, <2>7 DEF ClosedInOrder
  <2>12. GradesVouch'
    BY <1>5, <2>2, <2>7, CaptureNumbers DEF GradesVouch
  <2> QED
    BY <1>6, <1>7, <1>9, <2>3, <2>6, <2>8, <2>9, <2>10, <2>11, <2>12, InvOfWindows
<1> QED
  BY <1>8, <1>9

(* Every step keeps the invariant.                                         *)
LEMMA CaptureStep ==
  ASSUME CaptureInv, [CaptureNext]_captureVars
  PROVE  CaptureInv'
<1>1. CASE UNCHANGED captureVars
  <2>1. UNCHANGED <<ses, slot, job, reg, events, mon, boundaries, actions, completed, router, ctl,
                    file, faults>>
    BY <1>1 DEF captureVars
  <2>2. CaptureTypeOK /\ StagesAgree /\ OneForAll /\ JobsAreOwned /\ PlacesApart /\ WindowsFit
        /\ ActiveIsOpen /\ ClosedInOrder /\ GradesVouch /\ StopSettles
    BY DEF CaptureInv
  <2>3. CaptureTypeOK'
    BY <2>1, <2>2 DEF CaptureTypeOK
  <2>4. StagesAgree'
    BY <2>1, <2>2 DEF StagesAgree, CaptureInit
  <2>5. OneForAll' /\ InWindows' = InWindows
    BY <2>1, <2>2 DEF OneForAll, InSession, InWindows
  <2>6. JobsAreOwned'
    BY <2>1, <2>2, <2>5 DEF JobsAreOwned
  <2>7. PlacesApart' /\ WindowsFit'
    BY <2>1, <2>2, PlacesStay
  <2>8. OpenSlots' = OpenSlots /\ RoutedSlots' = RoutedSlots /\ DoneSlots' = DoneSlots
        /\ MonitorSlots' = MonitorSlots
    BY <2>1, <2>2, PlacesStayApart
  <2>9. ActiveIsOpen'
    BY <2>1, <2>2, <2>5, <2>8 DEF ActiveIsOpen, Closing
  <2>10. ControlMoves
    BY <2>1, <2>2, ControlStays
  <2>11. ClosedInOrder'
    BY <2>1, <2>10, ControlKeepsOrder
  <2>12. GradesVouch'
    <3>1. \A i \in DOMAIN actions' : actions'[i].command \in 1..ctl'.issued[actions'[i].window]
          \/ ~InWindows
      BY <2>1, <2>2 DEF GradesVouch
    <3> QED
      BY <2>1, <2>2, <2>5, <2>10, <3>1, ControlKeepsGrades DEF GradesVouch
  <2>13. StopSettles'
    BY <2>1, <2>2 DEF StopSettles, Full
  <2> QED
    BY <2>3, <2>4, <2>5, <2>6, <2>7, <2>9, <2>11, <2>12, <2>13 DEF CaptureInv
<1>2. CASE \E mode \in {"corrections_only", "full_session"} : PrepareCapture(mode)
  BY <1>2, PrepareCaptureKeeps
<1>3. CASE Open
  BY <1>3, OpenIntervalKeeps, OpenWindowKeeps
<1>4. CASE OpenFails
  BY <1>4, OpenFailsKeeps
<1>5. CASE Command
  BY <1>5, CommandKeeps
<1>6. CASE CloseInterval \/ CloseWindow \/ CloseWindowDone \/ ReleaseUnrecorded
  BY <1>6, CloseIntervalKeeps, CloseWindowKeeps, CloseWindowDoneKeeps, ReleaseUnrecordedKeeps
<1>7. CASE Capture
  <2>1. PICK saved \in BOOLEAN :
          \/ TakeBoundary(saved) \/ TakeAction(saved) \/ FinishSession(saved)
          \/ \E n \in Windows : FinishWindow(n, saved)
    BY <1>7 DEF Capture
  <2>2. CASE TakeBoundary(saved)
    BY <2>2, TakeBoundaryKeeps
  <2>3. CASE TakeAction(saved)
    BY <2>3, TakeActionKeeps
  <2>4. CASE FinishSession(saved)
    BY <2>4, FinishSessionKeeps
  <2>5. CASE \E n \in Windows : FinishWindow(n, saved)
    BY <2>5, FinishWindowKeeps
  <2> QED
    BY <2>1, <2>2, <2>3, <2>4, <2>5
<1>8. CASE CaptureDies
  BY <1>8, CaptureDiesKeeps
<1>9. CASE \E s \in Slots : WriterDies(s)
  BY <1>9, WriterDiesKeeps
<1>10. CASE Monitor
  <2>1. CASE MonitorEnds \/ TakeChanges \/ SaveChange \/ GetResult
    BY <2>1, MonitorEndsKeeps, TakeChangesKeeps, SaveChangeKeeps, GetResultKeeps
  <2>2. CASE \E state \in Closed : Finish(state)
    BY <2>2, FinishKeeps
  <2>3. CASE PrepareAgain \/ MonitorFails
    BY <2>3, PrepareAgainKeeps, MonitorFailsKeeps
  <2> QED
    BY <1>10, <2>1, <2>2, <2>3 DEF Monitor
<1>11. CASE \E s \in Slots : PrepareWaiting(s)
  BY <1>11, PrepareWaitingKeeps
<1>12. CASE Stop
  BY <1>12, StopKeeps
<1>13. CASE Stopped
  BY <1>13, StoppedKeeps
<1> QED
  BY <1>1, <1>2, <1>3, <1>4, <1>5, <1>6, <1>7, <1>8, <1>9, <1>10, <1>11, <1>12, <1>13
     DEF CaptureNext

(* The invariant holds.                                                    *)
LEMMA CaptureInvariant == CaptureSpec => []CaptureInv
<1>1. CaptureInit => CaptureInv
  BY CaptureInitially
<1>2. CaptureInv /\ [CaptureNext]_captureVars => CaptureInv'
  BY CaptureStep
<1> QED
  BY <1>1, <1>2, PTL DEF CaptureSpec

(* The variables of the session, the monitor, the capture process and the  *)
(* control keep their types.                                               *)
THEOREM CaptureTypeCorrect == CaptureSpec => []CaptureTypeOK
<1>1. CaptureInv => CaptureTypeOK
  BY DEF CaptureInv
<1> QED
  BY <1>1, CaptureInvariant, PTL

(* The slots of the session, the queues and the monitor agree on where a   *)
(* window is: no slot is opened, routed, done or finished twice at a time. *)
THEOREM WindowIsInOnePlace == CaptureSpec => [](PlacesApart /\ WindowsFit)
<1>1. CaptureInv => PlacesApart /\ WindowsFit
  BY DEF CaptureInv
<1> QED
  BY <1>1, CaptureInvariant, PTL

(* A correction that is graded ok has every command of its human.          *)
THEOREM GradesAreHonest == CaptureSpec => []GradeIsHonest
<1>1. CaptureInv => GradeIsHonest
  <2> SUFFICES ASSUME CaptureInv, NEW j \in Corrections, reg[j] = "source_complete",
                      job[j].grade = "ok", ~Full
               PROVE  file[j] = Issued(job[j].window)
    BY DEF GradeIsHonest
  <2>1. CaptureTypeOK /\ StagesAgree /\ GradesVouch
    BY DEF CaptureInv
  <2>2. ses.stage # "new"
    BY <2>1 DEF StagesAgree, CaptureInit
  <2>3. InWindows
    BY <2>1, <2>2, ModeIsKept
  <2> QED
    BY <2>1, <2>3 DEF GradesVouch, Complete
<1> QED
  BY <1>1, CaptureInvariant, PTL

(* A session that stops without an error leaves every correction closed,   *)
(* and no warm slot.                                                       *)
THEOREM StopIsSettled == CaptureSpec => []StopSettles
<1>1. CaptureInv => StopSettles
  BY DEF CaptureInv
<1> QED
  BY <1>1, CaptureInvariant, PTL

(* What re-arms a slot takes a job that was never in the registry.         *)
LEMMA RearmTakesNew ==
  ASSUME CaptureTypeOK, NEW s \in Slots, Rearm(s), NEW j \in Corrections, reg[j] \in Closed
  PROVE  reg'[j] \in Closed
<1>1. PICK i \in Corrections : New(i) /\ reg' = [reg EXCEPT ![i] = "armed"]
  BY DEF Rearm
<1>2. i # j
  BY <1>1 DEF New, Closed
<1> QED
  BY <1>1, <1>2 DEF CaptureTypeOK

(* No step reopens a correction that is closed in the registry.            *)
LEMMA ClosedStays ==
  ASSUME CaptureInv, CaptureNext, NEW j \in Corrections, reg[j] \in Closed
  PROVE  reg'[j] \in Closed
<1>1. CaptureTypeOK /\ StagesAgree /\ OneForAll /\ JobsAreOwned
  BY DEF CaptureInv
<1>2. ses.stage # "new"
  BY <1>1 DEF StagesAgree, CaptureInit, Closed
<1>3. UNCHANGED reg => reg'[j] \in Closed
  OBVIOUS
<1>4. CASE \E mode \in {"corrections_only", "full_session"} : PrepareCapture(mode)
  BY <1>2, <1>4 DEF PrepareCapture
<1>5. CASE Open \/ OpenFails \/ Command \/ CloseInterval \/ CloseWindow \/ CloseWindowDone
           \/ ReleaseUnrecorded
  BY <1>3, <1>5 DEF Open, OpenFails, Command, CloseInterval, CloseWindow, CloseWindowDone,
     ReleaseUnrecorded, session
<1>6. CASE Capture \/ CaptureDies
  BY <1>3, <1>6 DEF Capture, TakeBoundary, TakeAction, FinishSession, FinishWindow, CaptureDies,
     session
<1>7. CASE \E s \in Slots : WriterDies(s)
  BY <1>3, <1>7 DEF WriterDies
<1>8. CASE MonitorEnds \/ TakeChanges \/ GetResult
  BY <1>3, <1>8 DEF MonitorEnds, TakeChanges, GetResult, session
<1>9. CASE SaveChange
  <2>1. PICK c \in Changes : reg' = [reg EXCEPT ![c.job] = Saved(c.job, c.state)]
    <3>1. mon.changes \in Seq(Changes) /\ mon.changes # <<>>
      BY <1>1, <1>9, CaptureFields DEF SaveChange
    <3>2. Head(mon.changes) \in Changes
      BY <3>1
    <3> QED
      BY <1>9, <3>2 DEF SaveChange
  <2>2. c.job = j => Saved(c.job, c.state) \in Closed
    BY DEF Saved
  <2> QED
    BY <1>1, <2>1, <2>2 DEF CaptureTypeOK
<1>10. CASE \E state \in Closed : Finish(state)
  <2>1. PICK state \in Closed : reg' = [reg EXCEPT ![slot[mon.result.slot].job] = state]
    BY <1>10 DEF Finish
  <2> QED
    BY <1>1, <2>1 DEF CaptureTypeOK
<1>11. CASE PrepareAgain
  <2>1. mon.result.slot \in Slots
    BY <1>1, <1>11, CaptureFields DEF StagesAgree, PrepareAgain
  <2> QED
    BY <1>1, <1>3, <1>11, <2>1, RearmTakesNew DEF PrepareAgain
<1>12. CASE MonitorFails
  BY <1>12 DEF MonitorFails, Closed
<1>13. CASE \E s \in Slots : PrepareWaiting(s)
  BY <1>1, <1>13, RearmTakesNew DEF PrepareWaiting
<1>14. CASE Stop
  BY <1>3, <1>14 DEF Stop
<1>15. CASE Stopped
  <2>1. CASE Full
    BY <1>3, <1>15, <2>1, StoppedDeletes
  <2>2. CASE ~Full
    <3>1. InWindows
      BY <1>1, <1>2, <2>2, ModeIsKept
    <3>2. /\ job[j].window # 0 => reg'[j] = reg[j]
          /\ job[j].window = 0 => reg'[j] \in {"none", "deleted"}
      BY <1>15, <2>2, StoppedDeletes
    <3>3. job[j].window # 0
      BY <1>1, <3>1 DEF JobsAreOwned, Closed
    <3> QED
      BY <3>2, <3>3
  <2> QED
    BY <2>1, <2>2
<1> QED
  BY <1>4, <1>5, <1>6, <1>7, <1>8, <1>9, <1>10, <1>11, <1>12, <1>13, <1>14, <1>15
     DEF CaptureNext, Monitor

(* A delayed notification cannot reopen a closed file.                     *)
THEOREM ClosedIsKept == CaptureSpec => ClosedStaysClosed
<1>1. CaptureInv /\ [CaptureNext]_captureVars =>
        [\A j \in Corrections : reg[j] \in Closed => reg'[j] \in Closed]_captureVars
  BY ClosedStays
<1> QED
  BY <1>1, CaptureInvariant, PTL DEF CaptureSpec, ClosedStaysClosed
=============================================================================
