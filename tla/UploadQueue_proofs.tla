------------------------- MODULE UploadQueue_proofs -------------------------
(***************************************************************************)
(* Proofs about UploadQueue for any artifacts, tasks, jobs, callers and    *)
(* bounds: the copies of a tick never overwrite what others wrote, nothing *)
(* that is deleted is read, a cancel is obeyed after two more calls, no    *)
(* result is stored without its receipt, and the queue with the platform   *)
(* implements UploadDelivery.                                              *)
(***************************************************************************)
EXTENDS UploadQueue, TLAPS

Reads == {"session", "grant", "put", "complete", "verify", "recheck",
          "commit", "resume", "processing"}
InHand == Steps \ {"idle", "next"}

(* A LeRobot job that is over has its receipt.                             *)
Honest(row) ==
  (/\ descriptor[row.art].format = "LEROBOT_V3"
   /\ row.terminal /\ row.state \in {"ready", "processing_failed"})
  => row.receipt = row.outcome

Alike(row, other) == row.art = other.art /\ row.binding = other.binding

(* What a job's row is about never changes, in no copy of it.              *)
Identity ==
  /\ \A j \in DOMAIN batch : Alike(batch[j], rows[j])
  /\ edit # NoEdit => Alike(edit.row, rows[edit.job])

(* artifact_jobs: an artifact has one job.                                 *)
OneJob == \A j, k \in Queued : rows[j].art = rows[k].art => j = k

(* The platform hears of a job when it is queued.                          *)
Unheard == \A j \in Jobs \ Queued : sessions[j].state = "NONE"

(* worker_lock.                                                            *)
Exclusive == step # "idle" => edit = NoEdit

Receipts ==
  /\ \A j \in Queued : Honest(rows[j])
  /\ \A j \in DOMAIN batch : Honest(batch[j])
  /\ edit # NoEdit => ~edit.row.terminal

(* How many changing calls a job may be late by when it reaches a step.    *)
LateBound(s) ==
  IF s \in {"session", "put", "commit"} THEN 0
  ELSE IF s \in {"complete", "resume", "processing"} THEN 1 ELSE 2

LateCalls == \A j \in cancelled : late[j] <= 2 /\ (current = j => late[j] <= LateBound(step))

Inv ==
  /\ UploadTypeOK /\ Identity /\ OneJob /\ Unheard /\ Exclusive
  /\ CopyIsCurrent /\ Receipts /\ LateCalls /\ ReadersHaveFiles

---------------------------------------------------------------------------
(* Rows.                                                                   *)

LEMMA NoRowIsNone == \A r \in Rows : r # NoRow /\ r.state # "none"
BY DEF Rows, NoRow, States

LEMMA QueuedRows ==
  ASSUME UploadTypeOK, NEW j \in Queued
  PROVE  j \in Jobs /\ rows[j] \in Rows /\ rows[j].art \in Artifacts /\ rows[j].binding \in Bindings
<1>1. j \in Jobs /\ rows[j] \in Rows
  BY DEF UploadTypeOK, Queued
<1> QED
  BY <1>1 DEF Rows

(* The copy in hand is a row of a job that is queued.                      *)
LEMMA HandHolds ==
  ASSUME UploadTypeOK, current # NoJob
  PROVE  /\ current \in DOMAIN batch /\ current \in Queued /\ current \in Jobs
         /\ Copy \in Rows /\ Copy.art \in Artifacts
         /\ rows[current] \in Rows
         /\ Session \in Sessions
<1>1. current \in DOMAIN batch /\ current \in Queued
  BY DEF UploadTypeOK
<1>2. Copy \in Rows /\ current \in Jobs /\ rows[current] \in Rows
  BY <1>1, QueuedRows DEF UploadTypeOK, Copy
<1>3. Copy.art \in Artifacts
  BY <1>2 DEF Rows
<1>4. Session \in Sessions
  BY <1>2 DEF UploadTypeOK, Session
<1> QED
  BY <1>1, <1>2, <1>3, <1>4

(* Which jobs are queued after one row was written.                        *)
LEMMA WrittenRow ==
  ASSUME UploadTypeOK, NEW j \in Jobs, NEW row \in Rows, rows' = [rows EXCEPT ![j] = row]
  PROVE  /\ rows' \in [Jobs -> Rows \cup {NoRow}] /\ rows'[j] = row
         /\ \A k \in Jobs \ {j} : rows'[k] = rows[k]
         /\ Queued' = Queued \cup {j}
<1>1. rows' \in [Jobs -> Rows \cup {NoRow}] /\ rows'[j] = row
  BY DEF UploadTypeOK
<1>2. \A k \in Jobs \ {j} : rows'[k] = rows[k]
  BY DEF UploadTypeOK
<1>3. row # NoRow
  BY NoRowIsNone
<1> QED
  BY <1>1, <1>2, <1>3 DEF Queued

LEMMA InvInit == Init => Inv
<1> SUFFICES ASSUME Init PROVE Inv
  OBVIOUS
<1> USE NamesAssumption, BoundsAssumption
<1>1. Queued = {} /\ DOMAIN batch = {}
  BY DEF Init, Queued, NoBatch
<1>2. \A j \in Jobs : sessions[j] = [state |-> "NONE", part |-> "missing", outcome |-> "none"]
  BY DEF Init
<1>3. sessions \in [Jobs -> Sessions] /\ late \in [Jobs -> Nat]
  BY DEF Init, Sessions, SessionStates, Outcomes
<1>4. rows \in [Jobs -> Rows \cup {NoRow}] /\ callers \in [Callers -> Requests \cup {Idle}]
  BY DEF Init
<1>5. UploadTypeOK
  <2>1. faults \in 0..MaxFaults /\ retries \in 0..MaxRetries /\ stops \in 0..MaxStops
    BY DEF Init
  <2>2. current \in DOMAIN batch \cup {NoJob} /\ (current = NoJob <=> step \in {"idle", "next"})
    BY DEF Init
  <2>3. /\ DOMAIN batch \in SUBSET Queued /\ \A j \in DOMAIN batch : batch[j] \in Rows
        /\ step \in Steps /\ (step = "idle" => batch = NoBatch) /\ edit = NoEdit
    BY <1>1 DEF Init, Steps
  <2>4. /\ descriptor \in [Artifacts -> [format: Formats, binding: Bindings \cup {NoBinding}]]
        /\ backoff \in BOOLEAN /\ stopping \in BOOLEAN /\ cancelled \in SUBSET Queued
        /\ deleting \in SUBSET Artifacts /\ tombstones \in SUBSET Artifacts
    BY DEF Init
  <2> QED
    BY <1>3, <1>4, <2>1, <2>2, <2>3, <2>4 DEF UploadTypeOK
<1>6. ReadersHaveFiles
  BY DEF Init, ReadersHaveFiles
<1>7. Identity /\ OneJob /\ Exclusive /\ CopyIsCurrent /\ Receipts /\ LateCalls
  BY <1>1 DEF Init, Identity, OneJob, Exclusive, CopyIsCurrent, Receipts, LateCalls
<1>8. Unheard
  BY <1>2 DEF Unheard
<1> QED
  BY <1>5, <1>6, <1>7, <1>8 DEF Inv

---------------------------------------------------------------------------
(* Steps of process: the job in hand.                                      *)

(* What such a step may do to the copies, and to the rows.                 *)
Handled ==
  /\ DOMAIN batch' = DOMAIN batch /\ batch'[current] \in Rows
  /\ \A j \in DOMAIN batch \ {current} : batch'[j] = batch[j]
  /\ Alike(batch'[current], Copy) /\ Honest(batch'[current])
  /\ backoff' \in BOOLEAN

SameFacts(row, other) == row.asked = other.asked /\ row.server = other.server

Stored ==
  \/ rows' = rows /\ SameFacts(batch'[current], Copy)
  \/ \E row \in Rows :
       /\ rows' = [rows EXCEPT ![current] = row]
       /\ Alike(row, Copy) /\ Honest(row) /\ SameFacts(batch'[current], row)

LEMMA GotoHandles ==
  ASSUME Inv, current # NoJob, NEW s, Goto(s)
  PROVE  step' = s /\ Handled /\ SameFacts(batch'[current], Copy)
<1>1. UploadTypeOK /\ Receipts
  BY DEF Inv
<1>2. Copy \in Rows /\ current \in DOMAIN batch /\ batch' = batch /\ backoff' = backoff
  BY <1>1, HandHolds DEF Goto
<1>3. batch'[current] = Copy /\ Honest(Copy) /\ backoff \in BOOLEAN
  BY <1>1, <1>2 DEF Copy, Receipts, UploadTypeOK
<1> QED
  BY <1>2, <1>3 DEF Goto, Handled, Alike, SameFacts

(* The copy in hand is replaced.                                           *)
LEMMA HoldHandles ==
  ASSUME Inv, current # NoJob, NEW row \in Rows, Hold(row), Alike(row, Copy), Honest(row),
         backoff' \in BOOLEAN
  PROVE  Handled /\ batch'[current] = row
<1>1. current \in DOMAIN batch
  BY HandHolds DEF Inv
<1>2. DOMAIN batch' = DOMAIN batch /\ batch'[current] = row
  BY <1>1 DEF Hold
<1>3. \A j \in DOMAIN batch \ {current} : batch'[j] = batch[j]
  BY <1>1 DEF Hold
<1> QED
  BY <1>2, <1>3 DEF Handled

LEMMA FailedHandles ==
  ASSUME Inv, current # NoJob, NEW kind, Failed(kind)
  PROVE  step' = "settle" /\ Handled /\ SameFacts(batch'[current], Copy)
<1>1. Copy \in Rows /\ backoff \in BOOLEAN
  BY HandHolds DEF Inv, UploadTypeOK
<1>2. PICK attempts \in 0..3, terminal \in BOOLEAN, st \in {"retry_wait", "needs_attention"} :
        Hold([Copy EXCEPT !.attempts = attempts, !.terminal = terminal, !.state = st])
  <2> DEFINE n == IF Copy.attempts = 3 THEN 3 ELSE Copy.attempts + 1
             retry == /\ kind \in {"busy", "down", "conflict"}
                      /\ MaxAttempts = 0 \/ n < MaxAttempts
                      /\ ~(kind = "conflict" /\ n = 3)
  <2>1. Copy.attempts \in 0..3
    BY <1>1 DEF Rows
  <2>2. n \in 0..3 /\ (~retry) \in BOOLEAN
    BY <2>1
  <2>3. (IF retry THEN "retry_wait" ELSE "needs_attention") \in {"retry_wait", "needs_attention"}
    OBVIOUS
  <2>4. Hold([Copy EXCEPT !.attempts = n, !.terminal = ~retry,
                          !.state = IF retry THEN "retry_wait" ELSE "needs_attention"])
    BY DEF Failed
  <2> HIDE DEF n, retry
  <2> QED
    BY <2>2, <2>3, <2>4
<1> DEFINE row == [Copy EXCEPT !.attempts = attempts, !.terminal = terminal, !.state = st]
<1>3. row \in Rows /\ Alike(row, Copy) /\ SameFacts(row, Copy) /\ row.state = st
  BY <1>1 DEF Rows, States, Alike, SameFacts
<1>4. Honest(row)
  BY <1>3 DEF Honest
<1>5. backoff' \in BOOLEAN /\ step' = "settle"
  BY <1>1 DEF Failed
<1> HIDE DEF row
<1>6. Handled /\ batch'[current] = row
  BY <1>2, <1>3, <1>4, <1>5, HoldHandles DEF row
<1> QED
  BY <1>3, <1>5, <1>6

(* Saved, and where process returns, counted as done.                      *)
LEMMA SaveHandles ==
  ASSUME Inv, current # NoJob, NEW row \in Rows, NEW next, SaveAndGo(row, next),
         Alike(row, Copy), Honest(row)
  PROVE  step' = next /\ Handled /\ Stored
<1>1. backoff \in BOOLEAN
  BY DEF Inv, UploadTypeOK
<1>2. step' = next /\ rows' = [rows EXCEPT ![current] = row] /\ backoff' \in BOOLEAN
  BY <1>1 DEF SaveAndGo
<1>3. PICK held \in Rows : /\ Hold(held) /\ Alike(held, row) /\ SameFacts(held, row)
                           /\ Honest(held)
  <2> DEFINE done == [row EXCEPT !.attempts = 0]
             used == [row EXCEPT !.resume = FALSE]
  <2>1. done \in Rows /\ Alike(done, row) /\ SameFacts(done, row)
    BY DEF Rows, Alike, SameFacts
  <2>5. used \in Rows /\ Alike(used, row) /\ SameFacts(used, row)
    BY DEF Rows, Alike, SameFacts
  <2>2. Honest(done) /\ Honest(used)
    BY DEF Rows, Honest
  <2>3. Hold(row) \/ Hold(done) \/ Hold(used)
    BY DEF SaveAndGo
  <2>4. Alike(row, row) /\ SameFacts(row, row)
    BY DEF Alike, SameFacts
  <2> QED
    BY <2>1, <2>2, <2>3, <2>4, <2>5
<1>4. Alike(held, Copy)
  BY <1>3 DEF Alike
<1>5. Handled /\ batch'[current] = held
  BY <1>2, <1>3, <1>4, HoldHandles
<1> QED
  BY <1>2, <1>3, <1>5 DEF Stored

(* facts: a result is not the end of a LeRobot job.                        *)
LEMMA FactsAreHonest ==
  ASSUME Inv, current # NoJob, NEW s \in Sessions
  PROVE  /\ FactsRow(s) \in Rows /\ Alike(FactsRow(s), Copy) /\ Honest(FactsRow(s))
         /\ FactsRow(s).resume = Copy.resume
<1>1. Copy \in Rows
  BY HandHolds DEF Inv
<1>2. s.state \in SessionStates /\ s.outcome \in Outcomes
  BY DEF Sessions
<1>3. StateFor(s) \in States /\ (StateFor(s) \in {"ready", "processing_failed"} => s.state = "COMMITTED")
  BY <1>2 DEF StateFor, States, SessionStates, Outcomes
<1>4. FactsEndJob(s) \in BOOLEAN
  BY DEF FactsEndJob, Final
<1>5. FactsRow(s) \in Rows
  BY <1>1, <1>2, <1>3, <1>4 DEF FactsRow, Rows
<1>6. /\ FactsRow(s).art = Copy.art /\ FactsRow(s).binding = Copy.binding
      /\ FactsRow(s).state = StateFor(s) /\ FactsRow(s).terminal = FactsEndJob(s)
      /\ FactsRow(s).resume = Copy.resume
  BY <1>1 DEF FactsRow, Rows
<1>7. Honest(FactsRow(s))
  BY <1>3, <1>6 DEF Honest, FactsEndJob, Format
<1> QED
  BY <1>5, <1>6, <1>7 DEF Alike

---------------------------------------------------------------------------
(* What such a step leaves of the invariant.                               *)

Quiet == UNCHANGED <<cancelled, current, edit, stopping, files, retries, stops>>

(* The platform heard of no other job than the one in hand.                *)
Heard ==
  /\ sessions' \in [Jobs -> Sessions] /\ late' \in [Jobs -> Nat]
  /\ \A j \in Jobs \ {current} : sessions'[j] = sessions[j] /\ late'[j] = late[j]

LEMMA SilenceIsHeard == ASSUME Inv, UNCHANGED platform PROVE Heard
BY DEF Inv, UploadTypeOK, Heard, platform

LEMMA EffectIsHeard ==
  ASSUME Inv, current # NoJob, NEW s \in Sessions, Effect(s)
  PROVE  /\ Heard /\ sessions'[current] = s
         /\ late'[current] <= late[current] + 1
<1>1. current \in Jobs /\ late[current] \in Nat
  BY HandHolds DEF Inv, UploadTypeOK
<1>2. sessions \in [Jobs -> Sessions] /\ late \in [Jobs -> Nat]
  BY DEF Inv, UploadTypeOK
<1>3. sessions' = [sessions EXCEPT ![current] = s]
  BY DEF Effect
<1>4. late' = [late EXCEPT ![current] = @ + 1] \/ late' = late
  BY DEF Effect
<1> QED
  BY <1>1, <1>2, <1>3, <1>4 DEF Heard

LEMMA HandKeepsTypes ==
  ASSUME Inv, current # NoJob, Handled, Stored, Quiet, Heard,
         step' \in InHand, faults' \in 0..MaxFaults
  PROVE  UploadTypeOK' /\ Queued' = Queued
<1>0. UploadTypeOK
  BY DEF Inv
<1>1. current \in DOMAIN batch /\ current \in Jobs /\ current \in Queued
  BY <1>0, HandHolds
<1>2. rows' \in [Jobs -> Rows \cup {NoRow}] /\ Queued' = Queued
  <2>1. CASE rows' = rows
    BY <1>0, <2>1 DEF UploadTypeOK, Queued
  <2>2. CASE \E row \in Rows : rows' = [rows EXCEPT ![current] = row]
    <3>1. PICK row \in Rows : rows' = [rows EXCEPT ![current] = row]
      BY <2>2
    <3>2. rows' \in [Jobs -> Rows \cup {NoRow}] /\ Queued' = Queued \cup {current}
      BY <1>0, <1>1, <3>1, WrittenRow
    <3> QED
      BY <1>1, <3>2
  <2> QED
    BY <2>1, <2>2 DEF Stored
<1>3. DOMAIN batch' \in SUBSET Queued' /\ \A j \in DOMAIN batch' : batch'[j] \in Rows
  BY <1>0, <1>2 DEF Handled, UploadTypeOK
<1>4. /\ step' \in Steps /\ step' \notin {"idle", "next"} /\ current' = current
      /\ current' \in DOMAIN batch' \cup {NoJob}
  BY <1>1 DEF InHand, Quiet, Handled
<1>5. /\ backoff' \in BOOLEAN /\ stopping' \in BOOLEAN /\ cancelled' \in SUBSET Queued'
      /\ retries' \in 0..MaxRetries /\ stops' \in 0..MaxStops
  BY <1>0, <1>2 DEF Handled, Quiet, UploadTypeOK
<1>6. /\ descriptor' \in [Artifacts -> [format: Formats, binding: Bindings \cup {NoBinding}]]
      /\ callers' \in [Callers -> Requests \cup {Idle}]
      /\ deleting' \in SUBSET Artifacts /\ tombstones' \in SUBSET Artifacts
  BY <1>0 DEF Quiet, files, UploadTypeOK
<1>7. edit' = NoEdit \/ (edit'.job \in Queued' /\ edit'.row \in Rows)
  BY <1>0, <1>2 DEF Quiet, UploadTypeOK
<1>8. sessions' \in [Jobs -> Sessions] /\ late' \in [Jobs -> Nat]
  BY DEF Heard
<1>9. (current' = NoJob <=> step' \in {"idle", "next"}) /\ (step' = "idle" => batch' = NoBatch)
  BY <1>4
<1> QED
  BY <1>2, <1>3, <1>4, <1>5, <1>6, <1>7, <1>8, <1>9 DEF UploadTypeOK

(* The rows of other jobs stay, and the row in hand stays what it is about.*)
LEMMA StoredRows ==
  ASSUME Inv, current # NoJob, Handled, Stored
  PROVE  /\ \A j \in Jobs \ {current} : rows'[j] = rows[j]
         /\ Alike(rows'[current], Copy) /\ Alike(rows'[current], rows[current])
         /\ Honest(rows'[current])
         /\ batch'[current].asked = rows'[current].asked
         /\ rows'[current].server = "COMMITTED" => batch'[current].server = "COMMITTED"
<1>0. UploadTypeOK /\ Identity /\ Receipts /\ CopyIsCurrent
  BY DEF Inv
<1>1. current \in DOMAIN batch /\ current \in Jobs /\ current \in Queued
  BY <1>0, HandHolds
<1>2. Alike(Copy, rows[current]) /\ Honest(rows[current])
  BY <1>0, <1>1 DEF Identity, Copy, Receipts
<1>3. CASE rows' = rows /\ SameFacts(batch'[current], Copy)
  BY <1>0, <1>2, <1>3 DEF SameFacts, CopyIsCurrent, Alike
<1>4. CASE \E row \in Rows :
            /\ rows' = [rows EXCEPT ![current] = row]
            /\ Alike(row, Copy) /\ Honest(row) /\ SameFacts(batch'[current], row)
  <2>1. PICK row \in Rows : /\ rows' = [rows EXCEPT ![current] = row]
                            /\ Alike(row, Copy) /\ Honest(row) /\ SameFacts(batch'[current], row)
    BY <1>4
  <2>2. rows'[current] = row /\ \A j \in Jobs \ {current} : rows'[j] = rows[j]
    BY <1>0, <1>1, <2>1, WrittenRow
  <2> QED
    BY <1>2, <2>1, <2>2 DEF Alike, SameFacts
<1> QED
  BY <1>3, <1>4 DEF Stored

LEMMA HandKeepsCopies ==
  ASSUME Inv, current # NoJob, Handled, Stored, Quiet, Heard,
         step' \in InHand, faults' \in 0..MaxFaults
  PROVE  Identity' /\ OneJob' /\ Unheard' /\ Exclusive' /\ CopyIsCurrent' /\ Receipts'
<1>0. /\ UploadTypeOK /\ Identity /\ OneJob /\ Unheard /\ Exclusive /\ CopyIsCurrent /\ Receipts
      /\ step # "idle"
  BY DEF Inv, UploadTypeOK
<1>1. current \in DOMAIN batch /\ current \in Jobs /\ current \in Queued /\ Queued' = Queued
  BY <1>0, HandHolds, HandKeepsTypes
<1>2. /\ current' = current /\ edit' = edit /\ edit = NoEdit /\ descriptor' = descriptor
      /\ DOMAIN batch' = DOMAIN batch
      /\ \A j \in DOMAIN batch \ {current} : batch'[j] = batch[j]
  BY <1>0 DEF Quiet, files, Exclusive, Handled
<1>3. /\ \A j \in Jobs \ {current} : rows'[j] = rows[j]
      /\ Alike(rows'[current], Copy) /\ Alike(rows'[current], rows[current])
      /\ Honest(rows'[current])
      /\ batch'[current].asked = rows'[current].asked
      /\ rows'[current].server = "COMMITTED" => batch'[current].server = "COMMITTED"
  BY StoredRows
<1>4. DOMAIN batch \subseteq Jobs
  BY <1>0 DEF UploadTypeOK, Queued
<1>5. Identity'
  BY <1>0, <1>2, <1>3, <1>4 DEF Identity, Handled, Alike
<1>6. OneJob'
  BY <1>0, <1>1, <1>3 DEF OneJob, Alike, Queued
<1>7. Unheard'
  BY <1>0, <1>1 DEF Unheard, Heard
<1>8. Exclusive'
  BY <1>2 DEF Exclusive
<1>9. CopyIsCurrent'
  BY <1>0, <1>2, <1>3, <1>4 DEF CopyIsCurrent, Copy
<1>10. Receipts'
  BY <1>0, <1>1, <1>2, <1>3 DEF Receipts, Honest, Handled, Queued
<1> QED
  BY <1>5, <1>6, <1>7, <1>8, <1>9, <1>10

(* A step of process, and what else of the invariant it has to mind: the   *)
(* calls after a cancel, and the files it goes on to read.                 *)
Worked ==
  /\ Handled /\ Stored /\ Quiet /\ Heard
  /\ step' \in InHand /\ faults' \in 0..MaxFaults
  /\ current \in cancelled => late'[current] <= LateBound(step')
  /\ step' \in Reads => step \in Reads \/ Copy.art \notin tombstones

LEMMA WorkedKeepsInv == ASSUME Inv, current # NoJob, Worked PROVE Inv'
<1>0. UploadTypeOK /\ LateCalls /\ ReadersHaveFiles
  BY DEF Inv
<1>1. UploadTypeOK' /\ Queued' = Queued
  BY HandKeepsTypes DEF Worked
<1>2. Identity' /\ OneJob' /\ Unheard' /\ Exclusive' /\ CopyIsCurrent' /\ Receipts'
  BY HandKeepsCopies DEF Worked
<1>3. /\ current' = current /\ cancelled' = cancelled /\ cancelled \subseteq Jobs
      /\ callers' = callers /\ tombstones' = tombstones
  BY <1>0 DEF Worked, Quiet, files, UploadTypeOK, Queued
<1>4. LateCalls'
  <2> SUFFICES ASSUME NEW j \in cancelled
               PROVE  late'[j] <= 2 /\ (current = j => late'[j] <= LateBound(step'))
    BY <1>3 DEF LateCalls, LateBound
  <2>1. CASE j = current
    <3>1. late'[j] <= LateBound(step') /\ late'[j] \in Nat
      BY <1>3, <2>1 DEF Worked, Heard
    <3>2. LateBound(step') \in 0..2
      BY DEF LateBound
    <3> QED
      BY <3>1, <3>2
  <2>2. CASE j # current
    BY <1>0, <1>3, <2>2 DEF Worked, Heard, LateCalls
  <2> QED
    BY <2>1, <2>2
<1>5. ReadersHaveFiles'
  <2>1. batch'[current].art = Copy.art
    BY DEF Worked, Handled, Alike
  <2> SUFFICES ASSUME NEW a \in tombstones, Reading(a)' PROVE FALSE
    BY <1>3 DEF ReadersHaveFiles
  <2>2. ~Reading(a)
    BY <1>0 DEF ReadersHaveFiles
  <2> QED
    BY <1>3, <2>1, <2>2 DEF Reading, Worked, Reads, Copy
<1> QED
  BY <1>1, <1>2, <1>4, <1>5 DEF Inv

---------------------------------------------------------------------------
(* The steps of process, each of them such a step.                         *)

(* What UploadDelivery sees of the platform.                               *)
Kept == \A j \in Jobs : sessions'[j].state = "COMMITTED" <=> sessions[j].state = "COMMITTED"

LEMMA LateBounds == \A s : LateBound(s) \in 0..2
BY DEF LateBound

(* A late job in hand is late by what its step allows.                     *)
LEMMA HandIsLate ==
  ASSUME Inv, current # NoJob, current \in cancelled
  PROVE  late[current] \in Nat /\ late[current] <= LateBound(step)
BY HandHolds DEF Inv, UploadTypeOK, LateCalls

LEMMA FailedWorks ==
  ASSUME Inv, current # NoJob, NEW kind, Failed(kind), Quiet,
         UNCHANGED <<rows, platform, faults>>
  PROVE  Worked /\ Kept
<1>1. step' = "settle" /\ Handled /\ SameFacts(batch'[current], Copy)
  BY FailedHandles
<1>2. Stored /\ Heard /\ faults' \in 0..MaxFaults
  BY <1>1, SilenceIsHeard DEF Stored, Inv, UploadTypeOK
<1>3. current \in cancelled => late'[current] <= 2
  BY HandIsLate, LateBounds DEF platform
<1>4. step' \in InHand /\ step' \notin Reads /\ LateBound(step') = 2
  BY <1>1 DEF InHand, Steps, Reads, LateBound
<1> QED
  BY <1>1, <1>2, <1>3, <1>4 DEF Worked, Kept, platform

LEMMA RefusalWorks ==
  ASSUME Inv, current # NoJob, Refusal, Quiet, UNCHANGED <<rows, platform, faults>>
  PROVE  Worked /\ Kept
BY FailedWorks DEF Refusal

LEMMA CallRefusedWorks ==
  ASSUME Inv, current # NoJob, CallRefused, Quiet
  PROVE  Worked /\ Kept
BY FailedWorks DEF CallRefused

(* A call that fails, whether or not the platform acted on it.             *)
LEMMA CallFailsWorks ==
  ASSUME Inv, current # NoJob, NEW s \in Sessions, CallFails(s), Quiet,
         s = Session \/ LateBound(step) <= 1
  PROVE  /\ Worked
         /\ Kept \/ (sessions' = [sessions EXCEPT ![current] = s])
         /\ (s.state = "COMMITTED" <=> Session.state = "COMMITTED") => Kept
<1>1. faults' \in 0..MaxFaults /\ rows' = rows
  BY BoundsAssumption DEF Inv, UploadTypeOK, CallFails
<1>2. PICK kind \in {"down", "conflict", "refused"} :
        Failed(kind) /\ (Effect(s) \/ UNCHANGED <<platform>>)
  BY DEF CallFails
<1>3. step' = "settle" /\ Handled /\ SameFacts(batch'[current], Copy)
  BY <1>2, FailedHandles
<1>4. Stored /\ step' \in InHand /\ step' \notin Reads /\ LateBound(step') = 2
  BY <1>1, <1>3 DEF Stored, InHand, Steps, Reads, LateBound
<1>5. /\ Heard /\ (current \in cancelled => late'[current] <= 2)
      /\ Kept \/ (sessions' = [sessions EXCEPT ![current] = s])
      /\ (s.state = "COMMITTED" <=> Session.state = "COMMITTED") => Kept
  <2>1. CASE Effect(s)
    <3>1. /\ Heard /\ sessions'[current] = s /\ late'[current] <= late[current] + 1
          /\ sessions' = [sessions EXCEPT ![current] = s]
      BY <2>1, EffectIsHeard DEF Effect
    <3>2. s = Session => late'[current] = late[current]
      BY <2>1 DEF Effect
    <3>3. late'[current] \in Nat
      BY <3>1, HandHolds DEF Heard, Inv
    <3>4. current \in cancelled => late'[current] <= 2
      BY <3>1, <3>2, <3>3, HandIsLate, LateBounds
    <3> QED
      BY <3>1, <3>4 DEF Kept, Heard, Session
  <2>2. CASE UNCHANGED <<platform>>
    BY <2>2, SilenceIsHeard, HandIsLate, LateBounds DEF Kept, platform
  <2> QED
    BY <1>2, <2>1, <2>2
<1> QED
  BY <1>1, <1>3, <1>4, <1>5 DEF Worked

(* A call that is answered, and its answer saved.                          *)
LEMMA AnswerWorks ==
  ASSUME Inv, current # NoJob, NEW s \in Sessions, Effect(s), NEW row \in Rows,
         NEW next \in InHand, SaveAndGo(row, next), Quiet, UNCHANGED faults,
         Alike(row, Copy), Honest(row), step \in Reads,
         LateBound(step) + 1 <= LateBound(next)
  PROVE  /\ Worked /\ sessions' = [sessions EXCEPT ![current] = s]
         /\ (s.state = "COMMITTED" <=> Session.state = "COMMITTED") => Kept
<1>1. step' = next /\ Handled /\ Stored
  BY SaveHandles
<1>2. /\ Heard /\ sessions'[current] = s /\ late'[current] <= late[current] + 1
      /\ sessions' = [sessions EXCEPT ![current] = s]
  BY EffectIsHeard DEF Effect
<1>3. late'[current] \in Nat
  BY <1>2, HandHolds DEF Heard, Inv
<1>4. current \in cancelled => late'[current] <= LateBound(next)
  BY <1>2, <1>3, HandIsLate, LateBounds
<1>5. faults' \in 0..MaxFaults
  BY DEF Inv, UploadTypeOK
<1>6. (s.state = "COMMITTED" <=> Session.state = "COMMITTED") => Kept
  BY <1>2 DEF Kept, Heard, Session
<1> QED
  BY <1>1, <1>2, <1>4, <1>5, <1>6 DEF Worked

(* A step without a call.                                                  *)
LEMMA GotoWorks ==
  ASSUME Inv, current # NoJob, NEW s \in InHand, Goto(s), Quiet,
         UNCHANGED <<rows, platform, faults>>, current \notin cancelled,
         step \in Reads \/ Copy.art \notin tombstones
  PROVE  Worked /\ Kept
<1>1. step' = s /\ Handled /\ SameFacts(batch'[current], Copy)
  BY GotoHandles
<1>2. Stored /\ Heard /\ faults' \in 0..MaxFaults
  BY <1>1, SilenceIsHeard DEF Stored, Inv, UploadTypeOK
<1> QED
  BY <1>1, <1>2 DEF Worked, Kept, platform

LEMMA StartWorks == ASSUME Inv, Start PROVE current # NoJob /\ Worked /\ Kept
<1>1. current # NoJob /\ step = "start"
  BY DEF Inv, UploadTypeOK, Start
<1>2. Quiet /\ UNCHANGED <<rows, platform, faults>>
  BY DEF Start, Quiet, counters
<1>3. (\E kind : Failed(kind)) \/ (/\ ~Interrupted /\ Copy.art \notin tombstones
                                   /\ Goto("session"))
  <2>1. CASE Interrupted
    BY <2>1 DEF Start, Refusal
  <2>2. CASE ~Interrupted /\ Copy.art \in deleting
    BY <2>2 DEF Start
  <2>3. CASE ~Interrupted /\ Copy.art \in tombstones \ deleting
    BY <2>3 DEF Start
  <2>4. CASE ~Interrupted /\ Copy.art \notin deleting \cup tombstones
    BY <2>4 DEF Start
  <2> QED
    BY <2>1, <2>2, <2>3, <2>4
<1>4. CASE \E kind : Failed(kind)
  BY <1>1, <1>2, <1>4, FailedWorks
<1>5. CASE ~Interrupted /\ Copy.art \notin tombstones /\ Goto("session")
  BY <1>1, <1>2, <1>5, GotoWorks DEF Interrupted, InHand, Steps
<1> QED
  BY <1>1, <1>3, <1>4, <1>5

LEMMA CheckWorks ==
  ASSUME Inv, NEW from \in Reads, NEW to \in Reads, Check(from, to)
  PROVE  current # NoJob /\ Worked /\ Kept
<1>1. current # NoJob /\ step \in Reads
  BY DEF Inv, UploadTypeOK, Check, Reads
<1>2. Quiet /\ UNCHANGED <<rows, platform, faults>>
  BY DEF Check, Quiet, counters
<1>3. CASE Interrupted
  BY <1>1, <1>2, <1>3, RefusalWorks DEF Check
<1>4. CASE ~Interrupted
  BY <1>1, <1>2, <1>4, GotoWorks DEF Check, Interrupted, InHand, Steps, Reads
<1> QED
  BY <1>1, <1>3, <1>4

LEMMA QuietCalls == Calling => Quiet
BY DEF Calling, Quiet

(* The session in hand, and what the calls make of it.                     *)
LEMMA CalledSessions ==
  ASSUME Inv, current # NoJob
  PROVE  /\ Session \in Sessions
         /\ Opened \in Sessions /\ Asked \in Sessions
         /\ \A part \in {"missing", "put", "complete"} : [Session EXCEPT !.part = part] \in Sessions
         /\ \A st \in SessionStates : [Session EXCEPT !.state = st] \in Sessions
         /\ Opened.state = "COMMITTED" <=> Session.state = "COMMITTED"
         /\ Asked.state = Session.state
         /\ \A part \in {"missing", "put", "complete"} :
              [Session EXCEPT !.part = part].state = Session.state
<1>1. Session \in Sessions
  BY HandHolds DEF Inv
<1>2. /\ \A part \in {"missing", "put", "complete"} : [Session EXCEPT !.part = part] \in Sessions
      /\ \A st \in SessionStates : [Session EXCEPT !.state = st] \in Sessions
      /\ \A out \in Outcomes : [Session EXCEPT !.outcome = out] \in Sessions
  BY <1>1 DEF Sessions
<1>3. /\ Opened \in Sessions /\ (Opened.state = "COMMITTED" <=> Session.state = "COMMITTED")
  BY <1>1, <1>2 DEF Opened, Sessions, SessionStates
<1>4. Asked \in Sessions /\ Asked.state = Session.state
  BY <1>1, <1>2 DEF Asked, Sessions, Outcomes
<1>5. \A part \in {"missing", "put", "complete"} :
        [Session EXCEPT !.part = part].state = Session.state
  BY <1>1 DEF Sessions
<1> QED
  BY <1>1, <1>2, <1>3, <1>4, <1>5

LEMMA OpenSessionWorks == ASSUME Inv, OpenSession PROVE current # NoJob /\ Worked /\ Kept
<1>1. current # NoJob /\ step = "session" /\ Quiet /\ step \in Reads /\ LateBound(step) = 0
  BY QuietCalls DEF Inv, UploadTypeOK, OpenSession, Reads, LateBound
<1>2. Opened \in Sessions /\ (Opened.state = "COMMITTED" <=> Session.state = "COMMITTED")
  BY <1>1, CalledSessions
<1>3. CASE CallFails(Opened)
  BY <1>1, <1>2, <1>3, CallFailsWorks
<1>4. ASSUME NEW next \in {"resume", "processing", "verify", "settle"},
             Effect(Opened), UNCHANGED faults, SaveAndGo(FactsRow(Opened), next)
      PROVE  Worked /\ Kept
  <2>1. next \in InHand /\ LateBound(next) >= 1
    BY DEF InHand, Steps, LateBound
  <2>2. LateBound(step) + 1 <= LateBound(next)
    BY <1>1, <2>1, LateBounds
  <2>3. FactsRow(Opened) \in Rows /\ Alike(FactsRow(Opened), Copy) /\ Honest(FactsRow(Opened))
    BY <1>1, <1>2, FactsAreHonest
  <2> QED
    BY <1>1, <1>2, <1>4, <2>1, <2>2, <2>3, AnswerWorks
<1>5. CallFails(Opened) \/ \E next \in {"resume", "processing", "verify", "settle"} :
        Effect(Opened) /\ UNCHANGED faults /\ SaveAndGo(FactsRow(Opened), next)
  <2> DEFINE next == CASE Opened.state = "PAUSED" /\ Copy.resume -> "resume"
                       [] Opened.state = "COMMITTED" -> "processing"
                       [] Opened.state = "UPLOADING" -> "verify"
                       [] OTHER -> "settle"
  <2>1. next \in {"resume", "processing", "verify", "settle"}
    <3>1. CASE Opened.state = "PAUSED" /\ Copy.resume
      BY <3>1
    <3>2. CASE Opened.state = "COMMITTED"
      BY <3>2
    <3>3. CASE Opened.state = "UPLOADING"
      BY <3>3
    <3>4. CASE /\ ~(Opened.state = "PAUSED" /\ Copy.resume)
               /\ Opened.state # "COMMITTED" /\ Opened.state # "UPLOADING"
      BY <3>4
    <3> QED
      BY <3>1, <3>2, <3>3, <3>4
  <2>2. CallFails(Opened) \/ (Effect(Opened) /\ UNCHANGED faults /\ SaveAndGo(FactsRow(Opened), next))
    BY DEF OpenSession
  <2> HIDE DEF next
  <2> QED
    BY <2>1, <2>2
<1> QED
  BY <1>1, <1>3, <1>4, <1>5

LEMMA ResumeWorks == ASSUME Inv, Resume PROVE current # NoJob /\ Worked /\ Kept
<1> DEFINE s == [Session EXCEPT !.state = "UPLOADING"]
           row == FactsRow(s)
<1>1. current # NoJob /\ Quiet /\ step \in Reads /\ LateBound(step) = 1 /\ LateBound("verify") = 2
  BY QuietCalls DEF Inv, UploadTypeOK, Resume, Reads, LateBound
<1>2. /\ s \in Sessions /\ Session \in Sessions /\ s.state = "UPLOADING"
      /\ Taken("PAUSED", s) \in Sessions
      /\ (Taken("PAUSED", s).state = "COMMITTED" <=> Session.state = "COMMITTED")
  BY <1>1, CalledSessions DEF Sessions, SessionStates, Taken
<1>3. row \in Rows /\ Alike(row, Copy) /\ Honest(row)
  BY <1>1, <1>2, FactsAreHonest
<1>4. \/ CallFails(Taken("PAUSED", s))
      \/ Session.state # "PAUSED" /\ CallRefused
      \/ Session.state = "PAUSED" /\ Effect(s) /\ UNCHANGED faults /\ SaveAndGo(row, "verify")
  BY DEF Resume
<1>5. "verify" \in InHand
  BY DEF InHand, Steps
<1> HIDE DEF s, row
<1>6. CASE CallFails(Taken("PAUSED", s))
  BY <1>1, <1>2, <1>6, CallFailsWorks
<1>7. CASE CallRefused
  BY <1>1, <1>7, CallRefusedWorks
<1>8. CASE Session.state = "PAUSED" /\ Effect(s) /\ UNCHANGED faults /\ SaveAndGo(row, "verify")
  BY <1>1, <1>2, <1>3, <1>5, <1>8, AnswerWorks
<1> QED
  BY <1>1, <1>4, <1>6, <1>7, <1>8

LEMMA GrantWorks == ASSUME Inv, Grant PROVE current # NoJob /\ Worked /\ Kept
<1>1. current # NoJob /\ Quiet /\ step \in Reads
  BY QuietCalls DEF Inv, UploadTypeOK, Grant, Reads
<1>2. Session \in Sessions
  BY <1>1, CalledSessions
<1>3. CASE Refusal /\ UNCHANGED <<rows, platform, faults>>
  BY <1>1, <1>3, RefusalWorks
<1>4. CASE CallFails(Session)
  BY <1>1, <1>2, <1>4, CallFailsWorks
<1>5. CASE CallRefused
  BY <1>1, <1>5, CallRefusedWorks
<1>6. ASSUME NEW next \in {"put", "complete", "recheck"}, ~Interrupted, Goto(next),
             UNCHANGED <<rows, platform, faults>>
      PROVE  Worked /\ Kept
  BY <1>1, <1>6, GotoWorks DEF Interrupted, InHand, Steps
<1>7. CASE /\ ~Interrupted /\ Session.state = "UPLOADING"
           /\ Goto(CASE Session.part = "missing" -> "put"
                     [] Session.part = "put" -> "complete"
                     [] Session.part = "complete" -> "recheck")
           /\ UNCHANGED <<rows, platform, faults>>
  <2> DEFINE next == CASE Session.part = "missing" -> "put"
                       [] Session.part = "put" -> "complete"
                       [] Session.part = "complete" -> "recheck"
  <2>1. Session.part \in {"missing", "put", "complete"}
    BY <1>2 DEF Sessions
  <2>2. next \in {"put", "complete", "recheck"}
    BY <2>1
  <2>3. ~Interrupted /\ Goto(next) /\ UNCHANGED <<rows, platform, faults>>
    BY <1>7
  <2> HIDE DEF next
  <2> QED
    BY <1>1, <1>6, <2>2, <2>3
<1> QED
  BY <1>1, <1>3, <1>4, <1>5, <1>7 DEF Grant

LEMMA PutWorks == ASSUME Inv, Put PROVE current # NoJob /\ Worked /\ Kept
<1> DEFINE s == [Session EXCEPT !.part = "put"]
<1>1. current # NoJob /\ Quiet /\ step = "put"
  BY QuietCalls DEF Inv, UploadTypeOK, Put, Transfer
<1>2. s \in Sessions /\ Session \in Sessions /\ s.state = Session.state
  BY <1>1, CalledSessions
<1>3. \/ CallFails(Taken("UPLOADING", s))
      \/ CallRefused
      \/ Effect(s) /\ UNCHANGED faults /\ Goto("complete") /\ UNCHANGED rows
  BY DEF Put, Transfer
<1>4. step \in Reads /\ LateBound(step) = 0 /\ LateBound("complete") = 1 /\ "complete" \in InHand
  BY <1>1 DEF Reads, LateBound, InHand, Steps
<1> HIDE DEF s
<1>5. CASE CallFails(Taken("UPLOADING", s))
  BY <1>1, <1>2, <1>4, <1>5, CallFailsWorks DEF Taken
<1>6. CASE CallRefused
  BY <1>1, <1>6, CallRefusedWorks
<1>7. CASE Effect(s) /\ UNCHANGED faults /\ Goto("complete") /\ UNCHANGED rows
  <2>1. step' = "complete" /\ Handled /\ Stored
    BY <1>1, <1>7, GotoHandles DEF Stored
  <2>2. Heard /\ sessions'[current] = s /\ late'[current] <= late[current] + 1
    BY <1>1, <1>2, <1>7, EffectIsHeard
  <2>3. late'[current] \in Nat
    BY <1>1, <2>2, HandHolds DEF Heard, Inv
  <2>4. current \in cancelled => late'[current] <= 1
    BY <1>1, <1>4, <2>2, <2>3, HandIsLate
  <2>5. Kept
    BY <1>2, <2>2 DEF Kept, Heard, Session
  <2>6. faults' \in 0..MaxFaults
    BY <1>7 DEF Inv, UploadTypeOK
  <2> QED
    BY <1>1, <1>4, <2>1, <2>2, <2>4, <2>5, <2>6 DEF Worked
<1> QED
  BY <1>1, <1>3, <1>5, <1>6, <1>7

LEMMA CompleteWorks == ASSUME Inv, Complete PROVE current # NoJob /\ Worked /\ Kept
<1> DEFINE s == [Session EXCEPT !.part = "complete"]
<1>1. current # NoJob /\ Quiet /\ step = "complete"
  BY QuietCalls DEF Inv, UploadTypeOK, Complete, Transfer
<1>2. s \in Sessions /\ Session \in Sessions /\ s.state = Session.state
  BY <1>1, CalledSessions
<1>3. \/ CallFails(Taken("UPLOADING", s))
      \/ CallRefused
      \/ Effect(s) /\ UNCHANGED faults /\ SaveAndGo(FactsRow(s), "recheck")
  BY DEF Complete, Transfer
<1>4. step \in Reads /\ LateBound(step) = 1 /\ LateBound("recheck") = 2 /\ "recheck" \in InHand
  BY <1>1 DEF Reads, LateBound, InHand, Steps
<1> HIDE DEF s
<1>5. CASE CallFails(Taken("UPLOADING", s))
  BY <1>1, <1>2, <1>4, <1>5, CallFailsWorks DEF Taken
<1>6. CASE CallRefused
  BY <1>1, <1>6, CallRefusedWorks
<1>7. CASE Effect(s) /\ UNCHANGED faults /\ SaveAndGo(FactsRow(s), "recheck")
  <2>1. FactsRow(s) \in Rows /\ Alike(FactsRow(s), Copy) /\ Honest(FactsRow(s))
    BY <1>1, <1>2, FactsAreHonest
  <2> QED
    BY <1>1, <1>2, <1>4, <1>7, <2>1, AnswerWorks
<1> QED
  BY <1>1, <1>3, <1>5, <1>6, <1>7

(* The only step that commits a session, and only the one in hand.         *)
LEMMA CommitWorks ==
  ASSUME Inv, Commit
  PROVE  /\ current # NoJob /\ Worked
         /\ \/ Kept
            \/ /\ Session.state = "UPLOADING"
               /\ sessions' = [sessions EXCEPT ![current].state = "COMMITTED"]
<1> DEFINE s == [Session EXCEPT !.state = "COMMITTED"]
<1>1. current # NoJob /\ Quiet /\ step = "commit"
  BY QuietCalls DEF Inv, UploadTypeOK, Commit
<1>2. s \in Sessions /\ Session \in Sessions
  BY <1>1, CalledSessions DEF SessionStates
<1>3. \/ CallFails(Taken("UPLOADING", s))
      \/ CallRefused
      \/ /\ Session.state = "UPLOADING" /\ Effect(s) /\ UNCHANGED faults
         /\ SaveAndGo(FactsRow(s), "processing")
  BY DEF Commit
<1>4. step \in Reads /\ LateBound(step) = 0 /\ LateBound("processing") = 1 /\ "processing" \in InHand
  BY <1>1 DEF Reads, LateBound, InHand, Steps
<1>5. sessions' = [sessions EXCEPT ![current] = s]
      => sessions' = [sessions EXCEPT ![current].state = "COMMITTED"]
  BY DEF Session
<1> HIDE DEF s
<1>6. CASE CallFails(Taken("UPLOADING", s))
  <2>1. CASE Session.state = "UPLOADING"
    BY <1>1, <1>2, <1>4, <1>5, <1>6, <2>1, CallFailsWorks DEF Taken
  <2>2. CASE Session.state # "UPLOADING"
    BY <1>1, <1>2, <1>4, <1>6, <2>2, CallFailsWorks DEF Taken
  <2> QED
    BY <2>1, <2>2
<1>7. CASE CallRefused
  BY <1>1, <1>7, CallRefusedWorks
<1>8. CASE /\ Session.state = "UPLOADING" /\ Effect(s) /\ UNCHANGED faults
           /\ SaveAndGo(FactsRow(s), "processing")
  <2>1. FactsRow(s) \in Rows /\ Alike(FactsRow(s), Copy) /\ Honest(FactsRow(s))
    BY <1>1, <1>2, FactsAreHonest
  <2>2. Worked /\ sessions' = [sessions EXCEPT ![current] = s]
    BY <1>1, <1>2, <1>4, <1>8, <2>1, AnswerWorks
  <2> QED
    BY <1>1, <1>5, <1>8, <2>2
<1> QED
  BY <1>3, <1>6, <1>7, <1>8

(* processing saves the receipt with the outcome it reports.               *)
LEMMA ProcessingWorks == ASSUME Inv, Processing PROVE current # NoJob /\ Worked /\ Kept
<1> DEFINE row == [Copy EXCEPT !.outcome = Asked.outcome, !.state = StateFor(Asked),
                               !.terminal = Final(Asked), !.asked = FALSE,
                               !.receipt = Asked.outcome]
<1>1. current # NoJob /\ Quiet /\ step = "processing"
  BY QuietCalls DEF Inv, UploadTypeOK, Processing
<1>2. Asked \in Sessions /\ Asked.state = Session.state /\ Copy \in Rows
  BY <1>1, CalledSessions, HandHolds DEF Inv
<1>3. row \in Rows /\ Alike(row, Copy) /\ Honest(row)
  <2>1. StateFor(Asked) \in States /\ Asked.outcome \in Outcomes /\ Final(Asked) \in BOOLEAN
    BY <1>2 DEF Sessions, SessionStates, Outcomes, StateFor, States, Final
  <2>2. row \in Rows
    BY <1>2, <2>1 DEF Rows
  <2>3. /\ row.art = Copy.art /\ row.binding = Copy.binding
        /\ row.receipt = Asked.outcome /\ row.outcome = Asked.outcome
    BY <1>2 DEF Rows
  <2> QED
    BY <2>2, <2>3 DEF Alike, Honest
<1>4. \/ Processed /\ UNCHANGED <<rows, platform, faults>>
      \/ CallFails(Asked)
      \/ Effect(Asked) /\ UNCHANGED faults /\ SaveAndGo(row, "settle")
  BY DEF Processing
<1>5. step \in Reads /\ LateBound(step) = 1 /\ LateBound("settle") = 2 /\ "settle" \in InHand
      /\ "settle" \notin Reads
  BY <1>1 DEF Reads, LateBound, InHand, Steps
<1> HIDE DEF row
<1>6. CASE Processed /\ UNCHANGED <<rows, platform, faults>>
  <2> DEFINE done == [Copy EXCEPT !.attempts = 0]
  <2>1. done \in Rows /\ Alike(done, Copy) /\ SameFacts(done, Copy) /\ Honest(done)
    <3>1. Honest(Copy)
      BY <1>1, HandHolds DEF Inv, Receipts, Copy
    <3> QED
      BY <1>2, <3>1 DEF Rows, Alike, SameFacts, Honest
  <2>2. Hold(done) /\ backoff' \in BOOLEAN /\ step' = "settle"
    BY <1>6 DEF Processed
  <2> HIDE DEF done
  <2>3. Handled /\ batch'[current] = done
    BY <1>1, <2>1, <2>2, HoldHandles
  <2>4. Stored /\ Heard /\ faults' \in 0..MaxFaults
    BY <1>6, <2>1, <2>3, SilenceIsHeard DEF Stored, Inv, UploadTypeOK
  <2>5. current \in cancelled => late'[current] <= 2
    BY <1>1, <1>6, HandIsLate, LateBounds DEF platform
  <2> QED
    BY <1>1, <1>5, <1>6, <2>2, <2>3, <2>4, <2>5 DEF Worked, Kept, platform
<1>7. CASE CallFails(Asked)
  BY <1>1, <1>2, <1>5, <1>7, CallFailsWorks
<1>8. CASE Effect(Asked) /\ UNCHANGED faults /\ SaveAndGo(row, "settle")
  BY <1>1, <1>2, <1>3, <1>5, <1>8, AnswerWorks
<1> QED
  BY <1>1, <1>4, <1>6, <1>7, <1>8

---------------------------------------------------------------------------
(* The other steps.                                                        *)

(* UploadDelivery sees nothing of the step.                                *)
SameRows == Queued' = Queued /\ \A j \in Queued : Alike(rows'[j], rows[j])
Unseen == SameRows /\ Kept

LEMMA WorkedIsUnseen == ASSUME Inv, current # NoJob, Worked PROVE SameRows
<1>1. UploadTypeOK /\ Queued' = Queued /\ Queued \subseteq Jobs
  BY HandKeepsTypes DEF Inv, Worked, Queued
<1>2. \A j \in Jobs \ {current} : rows'[j] = rows[j]
  BY StoredRows DEF Worked
<1>3. Alike(rows'[current], rows[current])
  BY StoredRows DEF Worked
<1> QED
  BY <1>1, <1>2, <1>3 DEF SameRows, Alike

(* The promise does not look at what the queue keeps.                      *)
LEMMA SameRowsUnseen == UNCHANGED <<rows, sessions>> => Unseen
BY DEF Unseen, SameRows, Kept, Queued, Alike

(* The worker goes to a step without a job, or picks one.                  *)
LEMMA TickKeepsInv ==
  ASSUME Inv, UNCHANGED <<rows, cancelled, stopping, files, platform, faults, retries>>,
         backoff' \in BOOLEAN, stops' \in 0..MaxStops,
         edit' \in {edit, NoEdit}, step' # "idle" => edit' = NoEdit,
         DOMAIN batch' \subseteq Queued, \A j \in DOMAIN batch' : batch'[j] = rows[j],
         \/ current' = NoJob /\ step' \in {"idle", "next"}
         \/ current' \in DOMAIN batch' /\ step' = "start",
         step' = "idle" => batch' = NoBatch
  PROVE  Inv' /\ Unseen
<1>0. /\ UploadTypeOK /\ Identity /\ OneJob /\ Unheard /\ Receipts /\ LateCalls
      /\ ReadersHaveFiles /\ Queued' = Queued /\ DOMAIN batch' \subseteq Jobs
  BY DEF Inv, Queued
<1>1. \A j \in DOMAIN batch' : batch'[j] \in Rows
  BY <1>0, QueuedRows
<1>2. step' \in Steps /\ current' \in DOMAIN batch' \cup {NoJob}
      /\ (current' = NoJob <=> step' \in {"idle", "next"})
  BY <1>0, NamesAssumption DEF Steps
<1>3. UploadTypeOK'
  BY <1>0, <1>1, <1>2 DEF UploadTypeOK, files, platform
<1>4. Identity' /\ OneJob' /\ Exclusive' /\ CopyIsCurrent' /\ Receipts'
  <2>1. Identity' /\ CopyIsCurrent'
    BY <1>0 DEF Identity, Alike, CopyIsCurrent, Copy
  <2>2. OneJob' /\ Exclusive'
    BY <1>0 DEF OneJob, Exclusive
  <2>3. Receipts'
    BY <1>0 DEF Receipts, Honest, files
  <2> QED
    BY <2>1, <2>2, <2>3
<1>5. Unheard' /\ Unseen
  BY <1>0, SameRowsUnseen DEF Unheard, platform
<1>6. LateCalls'
  BY <1>0 DEF LateCalls, LateBound, platform
<1>7. ReadersHaveFiles'
  BY <1>0 DEF ReadersHaveFiles, Reading, files
<1> QED
  BY <1>3, <1>4, <1>5, <1>6, <1>7 DEF Inv

LEMMA BeginTickStep == ASSUME Inv, BeginTick PROVE Inv' /\ Unseen
<1>1. UploadTypeOK /\ current = NoJob /\ edit = NoEdit
  BY DEF Inv, UploadTypeOK, BeginTick, RetryLock
<1>2. Due \subseteq Queued /\ DOMAIN batch' = Due /\ \A j \in Due : batch'[j] = rows[j]
  BY DEF BeginTick, Due
<1>3. /\ UNCHANGED <<rows, cancelled, stopping, files, platform, faults, retries>>
      /\ backoff' \in BOOLEAN /\ stops' \in 0..MaxStops
  BY <1>1 DEF BeginTick, queue, counters, UploadTypeOK
<1>4. step' = "next" /\ current' = NoJob /\ edit' = edit
  BY <1>1 DEF BeginTick
<1> QED
  BY <1>1, <1>2, <1>3, <1>4, TickKeepsInv

LEMMA NextJobStep == ASSUME Inv, NEW j \in Jobs, NextJob(j) PROVE Inv' /\ Unseen
<1>1. /\ UploadTypeOK /\ current = NoJob /\ edit = NoEdit /\ step = "next"
      /\ DOMAIN batch \subseteq Queued /\ NoJob \notin DOMAIN batch
      /\ \A k \in DOMAIN batch : batch[k] = rows[k]
  BY NamesAssumption DEF Inv, UploadTypeOK, NextJob, Exclusive, CopyIsCurrent, Queued
<1>2. DOMAIN batch' \subseteq DOMAIN batch /\ \A k \in DOMAIN batch' : batch'[k] = batch[k]
  BY DEF NextJob, Without
<1>3. /\ UNCHANGED <<rows, cancelled, stopping, files, platform, faults, retries>>
      /\ backoff' \in BOOLEAN /\ stops' \in 0..MaxStops /\ edit' = edit
  BY <1>1 DEF NextJob, queue, counters, UploadTypeOK
<1>4. \/ current' = NoJob /\ step' = "next"
      \/ current' \in DOMAIN batch' /\ step' = "start"
  BY <1>1 DEF NextJob
<1> QED
  BY <1>1, <1>2, <1>3, <1>4, TickKeepsInv

LEMMA EndTickStep == ASSUME Inv, EndTick PROVE Inv' /\ Unseen
<1>1. UploadTypeOK /\ current = NoJob /\ edit = NoEdit
  BY DEF Inv, UploadTypeOK, EndTick, Exclusive
<1>2. /\ UNCHANGED <<rows, cancelled, stopping, files, platform, faults, retries>>
      /\ backoff' \in BOOLEAN /\ stops' \in 0..MaxStops /\ edit' = edit
      /\ batch' = NoBatch /\ step' = "idle" /\ current' = NoJob
  BY <1>1 DEF EndTick, queue, counters, UploadTypeOK
<1>3. DOMAIN batch' = {}
  BY <1>2 DEF NoBatch
<1> QED
  BY <1>1, <1>2, <1>3, TickKeepsInv

LEMMA KillWorkerStep == ASSUME Inv, KillWorker PROVE Inv' /\ Unseen
<1>1. UploadTypeOK
  BY DEF Inv
<1>2. /\ UNCHANGED <<rows, cancelled, stopping, files, platform, faults, retries>>
      /\ backoff' \in BOOLEAN /\ stops' \in 0..MaxStops /\ edit' = edit
      /\ batch' = NoBatch /\ step' = "idle" /\ current' = NoJob
  BY <1>1 DEF KillWorker, queue, counters, UploadTypeOK
<1>3. DOMAIN batch' = {}
  BY <1>2 DEF NoBatch
<1> QED
  BY <1>2, <1>3, TickKeepsInv

(* A crash takes the readers, the leases and the calls with it.            *)
LEMMA CrashStep == ASSUME Inv, Crash PROVE Inv' /\ Unseen
<1>0. /\ UploadTypeOK /\ Identity /\ OneJob /\ Unheard /\ Receipts /\ LateCalls
      /\ Queued' = Queued
  BY DEF Inv, Crash, queue, Queued
<1>1. /\ UNCHANGED <<rows, cancelled, backoff, tombstones, descriptor, sessions, late, faults, retries>>
      /\ batch' = NoBatch /\ step' = "idle" /\ current' = NoJob /\ edit' = NoEdit
      /\ callers' = [c \in Callers |-> Idle] /\ deleting' = {} /\ stopping' = FALSE
      /\ DOMAIN batch' = {}
  BY DEF Crash, queue, platform, NoBatch
<1>2. stops' \in 0..MaxStops /\ callers' \in [Callers -> Requests \cup {Idle}]
  BY <1>0, <1>1, BoundsAssumption DEF Crash, UploadTypeOK
<1>3. UploadTypeOK'
  BY <1>0, <1>1, <1>2 DEF UploadTypeOK, Steps
<1>4. Identity' /\ Exclusive' /\ CopyIsCurrent'
  BY <1>1 DEF Identity, Exclusive, CopyIsCurrent
<1>5. OneJob' /\ Unheard' /\ Unseen
  BY <1>0, <1>1, SameRowsUnseen DEF OneJob, Unheard
<1>6. Receipts'
  BY <1>0, <1>1 DEF Receipts, Honest
<1>7. LateCalls'
  BY <1>0, <1>1 DEF LateCalls, LateBound
<1>8. ReadersHaveFiles'
  BY <1>1 DEF ReadersHaveFiles, Reading, Idle
<1> QED
  BY <1>3, <1>4, <1>5, <1>6, <1>7, <1>8 DEF Inv

(* The end of the loop's body.                                             *)
LEMMA SettleStep == ASSUME Inv, Settle PROVE Inv' /\ Unseen
<1>0. /\ UploadTypeOK /\ Identity /\ OneJob /\ Unheard /\ Exclusive /\ CopyIsCurrent
      /\ Receipts /\ LateCalls /\ ReadersHaveFiles
  BY DEF Inv
<1>1. /\ current # NoJob /\ current \in DOMAIN batch /\ current \in Queued
      /\ current \in Jobs /\ Copy \in Rows /\ edit = NoEdit
  BY <1>0, HandHolds DEF Settle, UploadTypeOK, Exclusive
<1>2. /\ UNCHANGED <<cancelled, backoff, edit, stopping, files, platform, counters>>
      /\ current' = NoJob /\ step' = "next" /\ batch' = Without(current)
  BY DEF Settle
<1>3. PICK row \in Rows : /\ rows' = [rows EXCEPT ![current] = row]
                          /\ Alike(row, Copy) /\ Honest(row)
  <2> DEFINE over == [Copy EXCEPT !.state = "cancelled", !.terminal = TRUE]
  <2>1. over \in Rows /\ Alike(over, Copy) /\ over.state = "cancelled"
    BY <1>1 DEF Rows, States, Alike
  <2>2. Honest(over) /\ Honest(Copy) /\ Alike(Copy, Copy)
    BY <1>0, <1>1, <2>1 DEF Honest, Receipts, Copy, Alike
  <2>3. rows' = [rows EXCEPT ![current] = over] \/ rows' = [rows EXCEPT ![current] = Copy]
    BY DEF Settle
  <2> QED
    BY <1>1, <2>1, <2>2, <2>3
<1>4. /\ rows' \in [Jobs -> Rows \cup {NoRow}] /\ rows'[current] = row
      /\ \A k \in Jobs \ {current} : rows'[k] = rows[k]
      /\ Queued' = Queued
  <2>1. /\ rows' \in [Jobs -> Rows \cup {NoRow}] /\ rows'[current] = row
        /\ \A k \in Jobs \ {current} : rows'[k] = rows[k]
        /\ Queued' = Queued \cup {current}
    BY <1>0, <1>1, <1>3, WrittenRow
  <2> QED
    BY <1>1, <2>1
<1>5. /\ DOMAIN batch' = DOMAIN batch \ {current}
      /\ \A k \in DOMAIN batch' : batch'[k] = batch[k] /\ batch'[k] = rows'[k]
  BY <1>0, <1>2, <1>4 DEF Without, CopyIsCurrent, UploadTypeOK, Queued
<1>6. UploadTypeOK'
  <2>1. DOMAIN batch' \in SUBSET Queued' /\ \A k \in DOMAIN batch' : batch'[k] \in Rows
    BY <1>0, <1>4, <1>5 DEF UploadTypeOK
  <2>2. /\ step' \in Steps /\ current' \in DOMAIN batch' \cup {NoJob}
        /\ (current' = NoJob <=> step' \in {"idle", "next"})
        /\ (step' = "idle" => batch' = NoBatch)
    BY <1>2 DEF Steps
  <2>3. edit' = NoEdit \/ (edit'.job \in Queued' /\ edit'.row \in Rows)
    BY <1>1, <1>2
  <2> QED
    BY <1>0, <1>2, <1>4, <2>1, <2>2, <2>3 DEF UploadTypeOK, files, platform, counters
<1>7. Alike(row, rows[current])
  BY <1>0, <1>1, <1>3 DEF Identity, Alike, Copy
<1>8. Identity' /\ Exclusive' /\ CopyIsCurrent'
  BY <1>1, <1>2, <1>5 DEF Identity, Alike, Exclusive, CopyIsCurrent
<1>9. OneJob' /\ SameRows
  BY <1>0, <1>4, <1>7 DEF OneJob, Alike, SameRows, Queued
<1>10. Unheard' /\ Kept
  BY <1>0, <1>2, <1>4 DEF Unheard, Kept, platform
<1>11. Receipts'
  BY <1>0, <1>1, <1>2, <1>3, <1>4, <1>5 DEF Receipts, Honest, files, Queued
<1>12. LateCalls'
  BY <1>0, <1>2 DEF LateCalls, LateBound, platform
<1>13. ReadersHaveFiles'
  BY <1>0, <1>2 DEF ReadersHaveFiles, Reading, files
<1> QED
  BY <1>6, <1>8, <1>9, <1>10, <1>11, <1>12, <1>13 DEF Inv, Unseen

(* Steps around the files: of the threads that enqueue and that delete.    *)
LEMMA FilesKeepInv ==
  ASSUME Inv, UNCHANGED <<queue, processes, descriptor, platform, faults, stops>>,
         callers' \in [Callers -> Requests \cup {Idle}], retries' \in 0..MaxRetries,
         deleting' \in SUBSET Artifacts, tombstones' \in SUBSET Artifacts,
         \A a \in tombstones' : ~Reading(a)'
  PROVE  Inv' /\ Unseen
<1>0. /\ UploadTypeOK /\ Identity /\ OneJob /\ Unheard /\ Exclusive /\ CopyIsCurrent
      /\ Receipts /\ LateCalls
  BY DEF Inv
<1>1. /\ UNCHANGED <<rows, cancelled, backoff, batch, current, step, edit, stopping, descriptor,
                     sessions, late, faults, stops>>
      /\ Queued' = Queued
  BY DEF queue, processes, worker, platform, Queued
<1>2. UploadTypeOK'
  BY <1>0, <1>1 DEF UploadTypeOK
<1>3. Identity' /\ OneJob' /\ Exclusive' /\ CopyIsCurrent'
  BY <1>0, <1>1 DEF Identity, Alike, OneJob, Exclusive, CopyIsCurrent, Copy
<1>4. Unheard' /\ Receipts' /\ LateCalls'
  BY <1>0, <1>1 DEF Unheard, Receipts, Honest, LateCalls
<1>5. ReadersHaveFiles' /\ Unseen
  BY <1>1, SameRowsUnseen DEF ReadersHaveFiles
<1> QED
  BY <1>2, <1>3, <1>4, <1>5 DEF Inv

(* A caller that is not reading reads nothing; the others did before.      *)
LEMMA CallerMoves ==
  ASSUME Inv, NEW c \in Callers, NEW r \in Requests \cup {Idle},
         callers' = [callers EXCEPT ![c] = r], UNCHANGED <<worker, tombstones>>,
         r.at = "reading" => r.art \notin tombstones
  PROVE  /\ callers' \in [Callers -> Requests \cup {Idle}]
         /\ \A a \in tombstones' : ~Reading(a)'
<1>1. callers \in [Callers -> Requests \cup {Idle}]
  BY DEF Inv, UploadTypeOK
<1>2. \A a \in tombstones : ~Reading(a)
  BY DEF Inv, ReadersHaveFiles
<1>3. /\ \A k \in Callers \ {c} : callers'[k] = callers[k]
      /\ callers'[c] = r
  BY <1>1
<1> QED
  BY <1>1, <1>2, <1>3 DEF Reading, Copy, worker

LEMMA ChooseBindingStep ==
  ASSUME Inv, NEW c \in Callers, NEW a \in Artifacts, NEW b \in Bindings, ChooseBinding(c, a, b)
  PROVE  Inv' /\ Unseen
<1>1. /\ callers' = [callers EXCEPT ![c] = [at |-> "chosen", art |-> a, binding |-> b]]
      /\ UNCHANGED <<queue, processes, deleting, tombstones, descriptor, platform, faults, stops>>
  BY DEF ChooseBinding
<1>2. retries' \in 0..MaxRetries
  <2>1. Command \/ retries' = retries
    BY DEF ChooseBinding
  <2> QED
    BY <2>1, BoundsAssumption DEF Inv, UploadTypeOK, Command
<1>3. [at |-> "chosen", art |-> a, binding |-> b] \in Requests
  BY DEF Requests
<1>4. /\ callers' \in [Callers -> Requests \cup {Idle}]
      /\ \A x \in tombstones' : ~Reading(x)'
  BY <1>1, <1>3, CallerMoves DEF processes
<1>5. deleting' \in SUBSET Artifacts /\ tombstones' \in SUBSET Artifacts
  BY <1>1 DEF Inv, UploadTypeOK
<1> QED
  BY <1>1, <1>2, <1>4, <1>5, FilesKeepInv

LEMMA LeaseForEnqueueStep ==
  ASSUME Inv, NEW c \in Callers, LeaseForEnqueue(c)
  PROVE  Inv' /\ Unseen
<1>1. UNCHANGED <<queue, processes, deleting, tombstones, descriptor, platform, counters>>
  BY DEF LeaseForEnqueue
<1>2. PICK r \in Requests \cup {Idle} : /\ callers' = [callers EXCEPT ![c] = r]
                                        /\ r.at = "reading" => r.art \notin tombstones
  <2>1. callers \in [Callers -> Requests \cup {Idle}] /\ callers[c].at = "chosen"
    BY DEF Inv, UploadTypeOK, LeaseForEnqueue
  <2>2. callers[c] \in Requests
    BY <2>1 DEF Idle
  <2>3. CASE callers[c].art \in deleting \cup tombstones
    <3>1. callers' = [callers EXCEPT ![c] = Idle] /\ Idle.at # "reading"
      BY <2>3 DEF LeaseForEnqueue, Idle
    <3> QED
      BY <3>1
  <2>4. CASE callers[c].art \notin deleting \cup tombstones
    <3>1. callers' = [callers EXCEPT ![c] = [callers[c] EXCEPT !.at = "reading"]]
      BY <2>1, <2>4 DEF LeaseForEnqueue
    <3>2. [callers[c] EXCEPT !.at = "reading"] \in Requests
      BY <2>2 DEF Requests
    <3>3. [callers[c] EXCEPT !.at = "reading"].art = callers[c].art
      BY <2>2 DEF Requests
    <3> QED
      BY <2>4, <3>1, <3>2, <3>3
  <2> QED
    BY <2>3, <2>4
<1>3. /\ callers' \in [Callers -> Requests \cup {Idle}]
      /\ \A x \in tombstones' : ~Reading(x)'
  <2>1. UNCHANGED <<worker, tombstones>>
    BY <1>1 DEF processes
  <2> QED
    BY <1>2, <2>1, CallerMoves
<1>4. /\ deleting' \in SUBSET Artifacts /\ tombstones' \in SUBSET Artifacts
      /\ retries' \in 0..MaxRetries
  BY <1>1 DEF Inv, UploadTypeOK, counters
<1> QED
  BY <1>1, <1>3, <1>4, FilesKeepInv DEF counters

LEMMA RepeatEnqueueStep ==
  ASSUME Inv, NEW c \in Callers, RepeatEnqueue(c)
  PROVE  Inv' /\ Unseen
<1>1. /\ UNCHANGED <<queue, processes, deleting, tombstones, descriptor, platform, counters>>
      /\ callers' = [callers EXCEPT ![c] = Idle] /\ Idle.at # "reading"
  BY DEF RepeatEnqueue, Idle
<1>2. /\ callers' \in [Callers -> Requests \cup {Idle}]
      /\ \A x \in tombstones' : ~Reading(x)'
  BY <1>1, CallerMoves DEF processes
<1>3. /\ deleting' \in SUBSET Artifacts /\ tombstones' \in SUBSET Artifacts
      /\ retries' \in 0..MaxRetries
  BY <1>1 DEF Inv, UploadTypeOK, counters
<1> QED
  BY <1>1, <1>2, <1>3, FilesKeepInv DEF counters

(* The exclusive lease waits for the readers.                              *)
LEMMA BeginDeleteStep ==
  ASSUME Inv, NEW a \in Artifacts, BeginDelete(a)
  PROVE  Inv' /\ Unseen
<1>1. /\ UNCHANGED <<queue, processes, callers, descriptor, platform, faults, stops>>
      /\ deleting' = deleting \cup {a} /\ tombstones' = tombstones \cup {a} /\ ~Reading(a)
  BY DEF BeginDelete, DeleteLease
<1>2. /\ deleting' \in SUBSET Artifacts /\ tombstones' \in SUBSET Artifacts
      /\ callers' \in [Callers -> Requests \cup {Idle}] /\ retries' \in 0..MaxRetries
  BY <1>1, BoundsAssumption DEF Inv, UploadTypeOK, BeginDelete, Command
<1>3. \A x \in tombstones' : ~Reading(x)'
  <2>1. \A x : Reading(x)' => Reading(x)
    BY <1>1 DEF Reading, Copy, processes, worker
  <2> QED
    BY <1>1, <2>1 DEF Inv, ReadersHaveFiles
<1> QED
  BY <1>1, <1>2, <1>3, FilesKeepInv

LEMMA EndDeleteStep ==
  ASSUME Inv, NEW a \in Artifacts, EndDelete(a)
  PROVE  Inv' /\ Unseen
<1>1. /\ UNCHANGED <<queue, processes, callers, tombstones, descriptor, platform, counters>>
      /\ deleting' = deleting \ {a}
  BY DEF EndDelete
<1>2. /\ deleting' \in SUBSET Artifacts /\ tombstones' \in SUBSET Artifacts
      /\ callers' \in [Callers -> Requests \cup {Idle}] /\ retries' \in 0..MaxRetries
  BY <1>1 DEF Inv, UploadTypeOK, counters
<1>3. \A x \in tombstones' : ~Reading(x)'
  <2>1. \A x : Reading(x)' => Reading(x)
    BY <1>1 DEF Reading, Copy, processes, worker
  <2> QED
    BY <1>1, <2>1 DEF Inv, ReadersHaveFiles
<1> QED
  BY <1>1, <1>2, <1>3, FilesKeepInv DEF counters

(* An artifact that has a job gets no second one.                          *)
LEMMA CommitEnqueueStep ==
  ASSUME Inv, NEW c \in Callers, NEW j \in Jobs, CommitEnqueue(c, j)
  PROVE  /\ Inv' /\ UNCHANGED <<sessions>>
         /\ \/ Unseen
            \/ /\ JobsOf(callers[c].art) = {} /\ j \notin Queued
               /\ callers[c].art \in Artifacts /\ callers[c].binding \in Bindings
               /\ rows' = [rows EXCEPT ![j] = NewRow(callers[c].art, callers[c].binding)]
<1> DEFINE a == callers[c].art
           row == NewRow(a, callers[c].binding)
<1>0. /\ UploadTypeOK /\ Identity /\ OneJob /\ Unheard /\ Exclusive /\ CopyIsCurrent
      /\ Receipts /\ LateCalls /\ ReadersHaveFiles
  BY DEF Inv
<1>1. /\ UNCHANGED <<cancelled, backoff, batch, current, step, edit, stopping, deleting, tombstones,
                     descriptor, sessions, late, faults, retries, stops>>
      /\ callers' = [callers EXCEPT ![c] = Idle] /\ j \notin Queued
  BY DEF CommitEnqueue, processes, worker, platform, counters
<1>2. /\ callers' \in [Callers -> Requests \cup {Idle}]
      /\ \A x \in tombstones' : ~Reading(x)'
  <2>1. Idle.at # "reading" /\ UNCHANGED <<worker, tombstones>>
    BY <1>1 DEF Idle, worker
  <2> QED
    BY <1>1, <2>1, CallerMoves
<1>3. callers[c] \in Requests
  <2>1. callers[c] \in Requests \cup {Idle} /\ callers[c].at = "reading"
    BY <1>0 DEF UploadTypeOK, CommitEnqueue
  <2> QED
    BY <2>1 DEF Idle
<1>4. a \in Artifacts /\ callers[c].binding \in Bindings
  BY <1>3 DEF Requests
<1>5. row \in Rows /\ row.art = a /\ row.terminal = FALSE
  BY <1>4 DEF NewRow, Rows, States, SessionStates, Outcomes
<1>6. rows' = rows \/ (JobsOf(a) = {} /\ rows' = [rows EXCEPT ![j] = row])
  BY DEF CommitEnqueue, Insert
<1> HIDE DEF a, row
<1>7. CASE rows' = rows
  <2>1. UNCHANGED <<queue, processes, descriptor, platform, faults, stops>>
    BY <1>1, <1>7 DEF queue, processes, worker, platform
  <2>2. /\ retries' \in 0..MaxRetries /\ deleting' \in SUBSET Artifacts
        /\ tombstones' \in SUBSET Artifacts
    BY <1>0, <1>1 DEF UploadTypeOK
  <2> QED
    BY <1>1, <1>2, <2>1, <2>2, FilesKeepInv
<1>8. CASE JobsOf(a) = {} /\ rows' = [rows EXCEPT ![j] = row]
  <2>1. /\ rows' \in [Jobs -> Rows \cup {NoRow}] /\ rows'[j] = row
        /\ \A k \in Jobs \ {j} : rows'[k] = rows[k]
        /\ Queued' = Queued \cup {j}
    BY <1>0, <1>5, <1>8, WrittenRow
  <2>2. \A k \in Queued : k \in Jobs /\ rows'[k] = rows[k] /\ rows[k].art # a
    BY <1>1, <1>8, <2>1 DEF JobsOf, Queued
  <2>3. UploadTypeOK'
    <3>1. /\ cancelled' \in SUBSET Queued' /\ DOMAIN batch' \in SUBSET Queued'
          /\ \A k \in DOMAIN batch' : batch'[k] \in Rows
      BY <1>0, <1>1, <2>1 DEF UploadTypeOK
    <3>2. edit' = NoEdit \/ (edit'.job \in Queued' /\ edit'.row \in Rows)
      BY <1>0, <1>1, <2>1 DEF UploadTypeOK
    <3>3. /\ current' \in DOMAIN batch' \cup {NoJob} /\ step' \in Steps
          /\ (current' = NoJob <=> step' \in {"idle", "next"})
          /\ (step' = "idle" => batch' = NoBatch)
      BY <1>0, <1>1 DEF UploadTypeOK
    <3> QED
      BY <1>0, <1>1, <1>2, <2>1, <3>1, <3>2, <3>3 DEF UploadTypeOK
  <2>4. Identity' /\ Exclusive' /\ CopyIsCurrent'
    <3>1. DOMAIN batch \subseteq Queued /\ (current # NoJob => current \in Queued)
          /\ (edit # NoEdit => edit.job \in Queued)
      BY <1>0 DEF UploadTypeOK
    <3> QED
      BY <1>0, <1>1, <2>2, <3>1 DEF Identity, Alike, Exclusive, CopyIsCurrent, Copy
  <2>5. OneJob'
    BY <1>0, <1>5, <2>1, <2>2 DEF OneJob
  <2>6. Unheard' /\ LateCalls'
    BY <1>0, <1>1, <2>1 DEF Unheard, LateCalls
  <2>7. Receipts'
    BY <1>0, <1>1, <1>5, <2>1, <2>2 DEF Receipts, Honest
  <2>8. ReadersHaveFiles'
    BY <1>2 DEF ReadersHaveFiles
  <2> QED
    BY <1>1, <1>4, <1>8, <2>3, <2>4, <2>5, <2>6, <2>7, <2>8 DEF Inv, a, row
<1> QED
  BY <1>6, <1>7, <1>8

LEMMA CommandCounts ==
  ASSUME UploadTypeOK, Command \/ UNCHANGED retries
  PROVE  retries' \in 0..MaxRetries
BY BoundsAssumption DEF UploadTypeOK, Command

(* From here the calls that come late are counted.                         *)
LEMMA CancelStep == ASSUME Inv, NEW j \in Jobs, Cancel(j) PROVE Inv' /\ Unseen
<1>0. /\ UploadTypeOK /\ Identity /\ OneJob /\ Unheard /\ Exclusive /\ CopyIsCurrent
      /\ Receipts /\ LateCalls /\ ReadersHaveFiles
  BY DEF Inv
<1>1. /\ UNCHANGED <<rows, backoff, batch, current, step, edit, stopping, callers, deleting,
                     tombstones, descriptor, sessions, faults, stops>>
      /\ Queued' = Queued
  BY DEF Cancel, processes, worker, files, Queued
<1>2. cancelled' = cancelled \cup {j} /\ late' = [late EXCEPT ![j] = 0] /\ j \in Queued
  BY DEF Cancel
<1>3. retries' \in 0..MaxRetries
  BY <1>0, CommandCounts DEF Cancel
<1>4. late' \in [Jobs -> Nat] /\ late'[j] = 0 /\ \A k \in Jobs \ {j} : late'[k] = late[k]
  BY <1>0, <1>2 DEF UploadTypeOK
<1>5. UploadTypeOK'
  BY <1>0, <1>1, <1>2, <1>3, <1>4 DEF UploadTypeOK
<1>6. Identity' /\ OneJob' /\ Exclusive' /\ CopyIsCurrent'
  BY <1>0, <1>1 DEF Identity, Alike, OneJob, Exclusive, CopyIsCurrent, Copy
<1>7. Unheard' /\ Receipts' /\ ReadersHaveFiles' /\ Unseen
  BY <1>0, <1>1, SameRowsUnseen DEF Unheard, Receipts, Honest, ReadersHaveFiles, Reading, Copy
<1>8. LateCalls'
  <2>1. cancelled \subseteq Jobs
    BY <1>0 DEF UploadTypeOK, Queued
  <2> QED
    BY <1>0, <1>1, <1>2, <1>4, <2>1 DEF LateCalls, LateBound
<1> QED
  BY <1>5, <1>6, <1>7, <1>8 DEF Inv

(* The retry works on a copy, while no tick does.                          *)
LEMMA BeginRetryStep ==
  ASSUME Inv, NEW j \in Jobs, NEW resume \in BOOLEAN, NEW again \in BOOLEAN,
         BeginRetry(j, resume, again)
  PROVE  Inv' /\ Unseen
<1>0. /\ UploadTypeOK /\ Identity /\ OneJob /\ Unheard /\ Exclusive /\ CopyIsCurrent
      /\ Receipts /\ LateCalls /\ ReadersHaveFiles
  BY DEF Inv
<1>1. /\ UNCHANGED <<rows, backoff, batch, current, step, stopping, callers, deleting,
                     tombstones, descriptor, sessions, late, faults, stops>>
      /\ Queued' = Queued /\ step = "idle" /\ j \in Queued
  BY DEF BeginRetry, RetryLock, worker, files, platform, Queued
<1> DEFINE row == RetryRow(j, resume, again)
<1>2. edit' = [job |-> j, row |-> row] /\ cancelled' = cancelled \ {j}
  BY DEF BeginRetry
<1>3. retries' \in 0..MaxRetries
  BY <1>0, CommandCounts DEF BeginRetry
<1>4. rows[j] \in Rows
  BY <1>0, <1>1, QueuedRows
<1>5. row \in Rows /\ Alike(row, rows[j]) /\ row.terminal = FALSE
  <2> DEFINE asked == rows[j].asked \/ again
             anew == [rows[j] EXCEPT !.state = "queued", !.terminal = FALSE, !.attempts = 0]
  <2>1. asked \in BOOLEAN
    OBVIOUS
  <2>2. /\ row.art = anew.art /\ row.binding = anew.binding /\ row.terminal = FALSE
        /\ anew.art = rows[j].art /\ anew.binding = rows[j].binding
    BY <1>4 DEF RetryRow, Rows
  <2>3. anew \in Rows
    <3> DEFINE open == [rows[j] EXCEPT !.state = "queued", !.terminal = FALSE]
    <3>1. open \in Rows
      BY <1>4 DEF Rows, States
    <3>2. anew = [open EXCEPT !.attempts = 0]
      BY <1>4 DEF Rows
    <3> HIDE DEF open, anew
    <3> QED
      BY <3>1, <3>2 DEF Rows
  <2>4. row = [anew EXCEPT !.resume = resume, !.asked = asked]
    BY <1>4 DEF RetryRow, Rows
  <2> HIDE DEF row, anew, asked
  <2>5. row \in Rows
    BY <2>1, <2>3, <2>4 DEF Rows
  <2> QED
    BY <2>2, <2>5 DEF Alike
<1> HIDE DEF row
<1>6. edit'.job = j /\ edit'.row = row
  BY <1>2
<1>7. UploadTypeOK'
  BY <1>0, <1>1, <1>2, <1>3, <1>5, <1>6 DEF UploadTypeOK
<1>8. Identity' /\ OneJob' /\ Exclusive' /\ CopyIsCurrent'
  BY <1>0, <1>1, <1>5, <1>6 DEF Identity, Alike, OneJob, Exclusive, CopyIsCurrent, Copy
<1>9. Unheard' /\ Receipts' /\ LateCalls'
  BY <1>0, <1>1, <1>2, <1>5, <1>6 DEF Unheard, Receipts, Honest, LateCalls
<1>10. ReadersHaveFiles' /\ Unseen
  BY <1>0, <1>1, SameRowsUnseen DEF ReadersHaveFiles, Reading, Copy
<1> QED
  BY <1>7, <1>8, <1>9, <1>10 DEF Inv

LEMMA EndRetryStep == ASSUME Inv, EndRetry PROVE Inv' /\ Unseen
<1>0. /\ UploadTypeOK /\ Identity /\ OneJob /\ Unheard /\ Exclusive /\ CopyIsCurrent
      /\ Receipts /\ LateCalls /\ ReadersHaveFiles
  BY DEF Inv
<1>1. /\ UNCHANGED <<cancelled, batch, current, step, stopping, callers, deleting,
                     tombstones, descriptor, sessions, late, faults, retries, stops>>
      /\ edit' = NoEdit /\ backoff' = FALSE /\ edit # NoEdit
      /\ rows' = [rows EXCEPT ![edit.job] = edit.row]
  BY DEF EndRetry, worker, files, platform, counters
<1>2. /\ step = "idle" /\ batch = NoBatch /\ current = NoJob /\ DOMAIN batch = {}
      /\ edit.job \in Queued /\ edit.job \in Jobs /\ edit.row \in Rows
  BY <1>0, <1>1 DEF Exclusive, UploadTypeOK, NoBatch, Queued
<1>3. /\ rows' \in [Jobs -> Rows \cup {NoRow}] /\ rows'[edit.job] = edit.row
      /\ \A k \in Jobs \ {edit.job} : rows'[k] = rows[k]
      /\ Queued' = Queued
  <2>1. /\ rows' \in [Jobs -> Rows \cup {NoRow}] /\ rows'[edit.job] = edit.row
        /\ \A k \in Jobs \ {edit.job} : rows'[k] = rows[k]
        /\ Queued' = Queued \cup {edit.job}
    BY <1>0, <1>1, <1>2, WrittenRow
  <2> QED
    BY <1>2, <2>1
<1>4. Alike(edit.row, rows[edit.job]) /\ ~edit.row.terminal
  BY <1>0, <1>1 DEF Identity, Receipts
<1>5. UploadTypeOK'
  BY <1>0, <1>1, <1>3 DEF UploadTypeOK
<1>6. Identity' /\ Exclusive' /\ CopyIsCurrent'
  BY <1>1, <1>2 DEF Identity, Exclusive, CopyIsCurrent
<1>7. OneJob' /\ SameRows
  BY <1>0, <1>3, <1>4 DEF OneJob, Alike, SameRows, Queued
<1>8. Unheard' /\ Kept /\ LateCalls'
  BY <1>0, <1>1, <1>3 DEF Unheard, Kept, LateCalls
<1>9. Receipts'
  BY <1>0, <1>1, <1>2, <1>3, <1>4 DEF Receipts, Honest, Queued
<1>10. ReadersHaveFiles'
  BY <1>0, <1>1, <1>2 DEF ReadersHaveFiles, Reading
<1> QED
  BY <1>5, <1>6, <1>7, <1>8, <1>9, <1>10 DEF Inv, Unseen

(* Steps that neither the queue's content nor a tick takes part in.        *)
LEMMA ServiceKeepsInv ==
  ASSUME Inv, UNCHANGED <<rows, cancelled, worker, edit, files, platform, faults, retries>>,
         stopping' \in BOOLEAN, backoff' \in BOOLEAN, stops' \in 0..MaxStops
  PROVE  Inv' /\ Unseen
<1>0. /\ UploadTypeOK /\ Identity /\ OneJob /\ Unheard /\ Exclusive /\ CopyIsCurrent
      /\ Receipts /\ LateCalls /\ ReadersHaveFiles
  BY DEF Inv
<1>1. /\ UNCHANGED <<rows, cancelled, batch, current, step, edit, callers, deleting,
                     tombstones, descriptor, sessions, late, faults, retries>>
      /\ Queued' = Queued
  BY DEF worker, files, platform, Queued
<1>2. UploadTypeOK'
  BY <1>0, <1>1 DEF UploadTypeOK
<1>3. Identity' /\ OneJob' /\ Exclusive' /\ CopyIsCurrent'
  BY <1>0, <1>1 DEF Identity, Alike, OneJob, Exclusive, CopyIsCurrent, Copy
<1>4. Unheard' /\ Receipts' /\ LateCalls'
  BY <1>0, <1>1 DEF Unheard, Receipts, Honest, LateCalls
<1>5. ReadersHaveFiles' /\ Unseen
  BY <1>0, <1>1, SameRowsUnseen DEF ReadersHaveFiles, Reading, Copy
<1> QED
  BY <1>2, <1>3, <1>4, <1>5 DEF Inv

LEMMA StopServiceStep == ASSUME Inv, StopService PROVE Inv' /\ Unseen
<1>1. stops' \in 0..MaxStops
  BY BoundsAssumption DEF Inv, UploadTypeOK, StopService
<1>2. backoff' \in BOOLEAN /\ stopping' \in BOOLEAN
  BY DEF Inv, UploadTypeOK, StopService, queue
<1> QED
  BY <1>1, <1>2, ServiceKeepsInv DEF StopService, queue

LEMMA StartServiceStep == ASSUME Inv, StartService PROVE Inv' /\ Unseen
<1>1. backoff' \in BOOLEAN /\ stopping' \in BOOLEAN /\ stops' \in 0..MaxStops
  BY DEF Inv, UploadTypeOK, StartService, queue, counters
<1> QED
  BY <1>1, ServiceKeepsInv DEF StartService, queue, counters

LEMMA BackoffEndsStep == ASSUME Inv, BackoffEnds PROVE Inv' /\ Unseen
<1>1. backoff' \in BOOLEAN /\ stopping' \in BOOLEAN /\ stops' \in 0..MaxStops
  BY DEF Inv, UploadTypeOK, BackoffEnds, processes, counters
<1> QED
  BY <1>1, ServiceKeepsInv DEF BackoffEnds, processes, counters

(* The platform changes a session it has, and commits none by itself.      *)
LEMMA PlatformStep ==
  ASSUME Inv, NEW j \in Jobs, Suspend(j) \/ Digest(j)
  PROVE  Inv' /\ Unseen
<1>0. /\ UploadTypeOK /\ Identity /\ OneJob /\ Unheard /\ Exclusive /\ CopyIsCurrent
      /\ Receipts /\ LateCalls /\ ReadersHaveFiles
  BY DEF Inv
<1>1. /\ UNCHANGED <<rows, cancelled, backoff, batch, current, step, edit, stopping, callers,
                     deleting, tombstones, descriptor, late, faults, retries, stops>>
      /\ Queued' = Queued
  BY DEF Suspend, Digest, queue, processes, worker, files, counters, Queued
<1>2. sessions \in [Jobs -> Sessions] /\ sessions[j] \in Sessions /\ sessions[j].state # "NONE"
  BY <1>0 DEF UploadTypeOK, Suspend, Digest
<1>3. PICK s \in Sessions : /\ sessions' = [sessions EXCEPT ![j] = s]
                            /\ (s.state = "COMMITTED" <=> sessions[j].state = "COMMITTED")
  <2>1. ASSUME NEW to \in {"PAUSED", "CANCELLED"}, sessions[j].state \in {"UPLOADING", "PAUSED"},
               sessions' = [sessions EXCEPT ![j].state = to]
        PROVE  \E s \in Sessions : /\ sessions' = [sessions EXCEPT ![j] = s]
                                   /\ (s.state = "COMMITTED" <=> sessions[j].state = "COMMITTED")
    <3>1. /\ [sessions[j] EXCEPT !.state = to] \in Sessions
          /\ [sessions[j] EXCEPT !.state = to].state = to
      BY <1>2 DEF Sessions, SessionStates
    <3>2. sessions' = [sessions EXCEPT ![j] = [sessions[j] EXCEPT !.state = to]]
      BY <2>1
    <3> QED
      BY <2>1, <3>1, <3>2
  <2>2. ASSUME NEW out \in Outcomes, sessions' = [sessions EXCEPT ![j].outcome = out]
        PROVE  \E s \in Sessions : /\ sessions' = [sessions EXCEPT ![j] = s]
                                   /\ (s.state = "COMMITTED" <=> sessions[j].state = "COMMITTED")
    <3>1. /\ [sessions[j] EXCEPT !.outcome = out] \in Sessions
          /\ [sessions[j] EXCEPT !.outcome = out].state = sessions[j].state
      BY <1>2 DEF Sessions
    <3>2. sessions' = [sessions EXCEPT ![j] = [sessions[j] EXCEPT !.outcome = out]]
      BY <2>2
    <3> QED
      BY <3>1, <3>2
  <2> QED
    BY <2>1, <2>2 DEF Suspend, Digest, Outcomes
<1>4. /\ sessions' \in [Jobs -> Sessions] /\ sessions'[j] = s
      /\ \A k \in Jobs \ {j} : sessions'[k] = sessions[k]
  BY <1>2, <1>3
<1>5. UploadTypeOK'
  BY <1>0, <1>1, <1>4 DEF UploadTypeOK
<1>6. Identity' /\ OneJob' /\ Exclusive' /\ CopyIsCurrent'
  BY <1>0, <1>1 DEF Identity, Alike, OneJob, Exclusive, CopyIsCurrent, Copy
<1>7. Unheard' /\ Unseen
  BY <1>0, <1>1, <1>2, <1>3, <1>4 DEF Unheard, Unseen, SameRows, Kept, Alike
<1>8. Receipts' /\ LateCalls' /\ ReadersHaveFiles'
  BY <1>0, <1>1 DEF Receipts, Honest, LateCalls, ReadersHaveFiles, Reading, Copy
<1> QED
  BY <1>5, <1>6, <1>7, <1>8 DEF Inv

---------------------------------------------------------------------------
(* All steps.                                                              *)

Committing ==
  /\ current # NoJob /\ current \in Jobs /\ Session.state = "UPLOADING"
  /\ sessions' = [sessions EXCEPT ![current].state = "COMMITTED"] /\ SameRows

Binding ==
  \E a \in Artifacts, b \in Bindings, j \in Jobs \ Queued :
    JobsOf(a) = {} /\ rows' = [rows EXCEPT ![j] = NewRow(a, b)] /\ UNCHANGED sessions

LEMMA HandStep ==
  ASSUME Inv, current # NoJob, Worked
  PROVE  Inv' /\ SameRows
BY WorkedKeepsInv, WorkedIsUnseen

LEMMA WorkingStep ==
  ASSUME Inv, Working
  PROVE  Inv' /\ (Unseen \/ Committing)
<1>1. CASE BeginTick \/ (\E j \in Jobs : NextJob(j)) \/ EndTick \/ Settle
  BY <1>1, BeginTickStep, NextJobStep, EndTickStep, SettleStep
<1>2. CASE \/ Start \/ OpenSession \/ Resume \/ VerifyAssets \/ Grant \/ Put \/ Complete
           \/ VerifyAgain \/ Processing
  <2>1. VerifyAssets \/ VerifyAgain => current # NoJob /\ Worked /\ Kept
    BY CheckWorks DEF VerifyAssets, VerifyAgain, Reads
  <2>2. current # NoJob /\ Worked /\ Kept
    BY <1>2, <2>1, StartWorks, OpenSessionWorks, ResumeWorks, GrantWorks, PutWorks,
       CompleteWorks, ProcessingWorks
  <2> QED
    BY <2>2, HandStep DEF Unseen
<1>3. CASE Commit
  <2>1. /\ current # NoJob /\ Worked
        /\ \/ Kept
           \/ /\ Session.state = "UPLOADING"
              /\ sessions' = [sessions EXCEPT ![current].state = "COMMITTED"]
    BY <1>3, CommitWorks
  <2>2. current \in Jobs
    BY <2>1, HandHolds DEF Inv
  <2> QED
    BY <2>1, <2>2, HandStep DEF Unseen, Committing
<1> QED
  BY <1>1, <1>2, <1>3 DEF Working

LEMMA EnqueueingStep ==
  ASSUME Inv, Enqueueing
  PROVE  Inv' /\ (Unseen \/ Binding)
<1>1. PICK c \in Callers :
        \/ \E a \in Artifacts, b \in Bindings : ChooseBinding(c, a, b)
        \/ LeaseForEnqueue(c) \/ RepeatEnqueue(c)
        \/ \E j \in Jobs : CommitEnqueue(c, j)
  BY DEF Enqueueing
<1>2. CASE \/ \E a \in Artifacts, b \in Bindings : ChooseBinding(c, a, b)
           \/ LeaseForEnqueue(c) \/ RepeatEnqueue(c)
  BY <1>2, ChooseBindingStep, LeaseForEnqueueStep, RepeatEnqueueStep
<1>3. CASE \E j \in Jobs : CommitEnqueue(c, j)
  <2>1. PICK j \in Jobs : CommitEnqueue(c, j)
    BY <1>3
  <2> QED
    BY <2>1, CommitEnqueueStep DEF Binding
<1> QED
  BY <1>1, <1>2, <1>3

LEMMA OperatingStep ==
  ASSUME Inv, Operating
  PROVE  Inv' /\ Unseen
<1>1. CASE \E j \in Jobs : Cancel(j) \/ \E resume, again \in BOOLEAN : BeginRetry(j, resume, again)
  BY <1>1, CancelStep, BeginRetryStep
<1>2. CASE EndRetry \/ StopService \/ StartService \/ KillWorker \/ Crash
  BY <1>2, EndRetryStep, StopServiceStep, StartServiceStep, KillWorkerStep, CrashStep
<1>3. CASE \E a \in Artifacts : BeginDelete(a) \/ EndDelete(a)
  BY <1>3, BeginDeleteStep, EndDeleteStep
<1> QED
  BY <1>1, <1>2, <1>3 DEF Operating

LEMMA InvStep ==
  ASSUME Inv, [Next]_vars
  PROVE  Inv' /\ (Unseen \/ Committing \/ Binding)
<1>1. CASE UNCHANGED vars
  <2>1. /\ UNCHANGED <<rows, cancelled, worker, edit, files, platform, faults, retries>>
        /\ stopping' \in BOOLEAN /\ backoff' \in BOOLEAN /\ stops' \in 0..MaxStops
    BY <1>1 DEF vars, queue, processes, counters, Inv, UploadTypeOK
  <2> QED
    BY <2>1, ServiceKeepsInv
<1>2. CASE Working \/ Enqueueing \/ Operating \/ BackoffEnds
  BY <1>2, WorkingStep, EnqueueingStep, OperatingStep, BackoffEndsStep
<1>3. CASE \E j \in Jobs : Suspend(j) \/ Digest(j)
  BY <1>3, PlatformStep
<1> QED
  BY <1>1, <1>2, <1>3 DEF Next

---------------------------------------------------------------------------
(* What holds of every behaviour of the queue.                             *)

(* The invariant holds throughout.                                         *)
THEOREM UploadInvariant == Spec => []Inv
<1>1. Init => Inv
  BY InvInit
<1>2. Inv /\ [Next]_vars => Inv'
  BY InvStep
<1> QED
  BY <1>1, <1>2, PTL DEF Spec

(* The variables keep their types, and a tick without a job is between two *)
(* jobs (Worker.tick, Queue.retry).                                        *)
THEOREM UploadTypeCorrect == Spec => []UploadTypeOK
<1>1. Inv => UploadTypeOK
  BY DEF Inv
<1> QED
  BY <1>1, UploadInvariant, PTL

(* A save of the worker overwrites nothing that was written since the tick *)
(* read the queue (Queue.jobs, Queue.save, Queue.retry).                   *)
THEOREM SavesOverwriteNothing == Spec => []CopyIsCurrent
<1>1. Inv => CopyIsCurrent
  BY DEF Inv
<1> QED
  BY <1>1, UploadInvariant, PTL

(* Nobody reads what is being deleted or is gone (ArtifactLocks).          *)
THEOREM DeletedIsNotRead == Spec => []ReadersHaveFiles
<1>1. Inv => ReadersHaveFiles
  BY DEF Inv
<1> QED
  BY <1>1, UploadInvariant, PTL

(* A cancel is obeyed after two more calls at most (check_cancelled).      *)
THEOREM CancelIsObeyed == Spec => []CancelStopsTransfer
<1>1. Inv => CancelStopsTransfer
  BY DEF Inv, LateCalls, CancelStopsTransfer
<1> QED
  BY <1>1, UploadInvariant, PTL

(* A LeRobot job that is over has the receipt of its processing (facts).   *)
THEOREM ReceiptsAreKept == Spec => []ReceiptNotStranded
<1>1. Inv => ReceiptNotStranded
  BY DEF Inv, Receipts, Honest, ReceiptNotStranded
<1> QED
  BY <1>1, UploadInvariant, PTL

---------------------------------------------------------------------------
(* The queue and the platform implement UploadDelivery.                    *)

BoundMap == [a \in Artifacts |-> BoundTo(a)]
DeliveredMap == [a \in Artifacts |-> DeliveredTo(a)]

(* The artifact's one job says what it is bound to, and whether it is sent.*)
LEMMA JobDecides ==
  ASSUME OneJob, NEW a, NEW j \in JobsOf(a)
  PROVE  /\ JobsOf(a) = {j} /\ BoundTo(a) = rows[j].binding
         /\ DeliveredTo(a) = IF sessions[j].state = "COMMITTED" THEN {rows[j].binding} ELSE {}
<1>1. JobsOf(a) = {j}
  BY DEF OneJob, JobsOf
<1>2. (CHOOSE k \in JobsOf(a) : TRUE) = j
  BY <1>1
<1> QED
  BY <1>1, <1>2 DEF BoundTo, DeliveredTo

LEMMA NoJobDecides ==
  ASSUME NEW a, JobsOf(a) = {}
  PROVE  BoundTo(a) = NoBinding /\ DeliveredTo(a) = {}
BY DEF BoundTo, DeliveredTo

LEMMA InitIsPromised == Init => Promise!DeliveryInit
<1> SUFFICES ASSUME Init PROVE Promise!DeliveryInit
  OBVIOUS
<1>1. \A a : JobsOf(a) = {}
  BY DEF Init, JobsOf, Queued
<1>2. \A a \in Artifacts : BoundTo(a) = NoBinding /\ DeliveredTo(a) = {}
  BY <1>1, NoJobDecides
<1> QED
  BY <1>2 DEF Promise!DeliveryInit

LEMMA PrimedJobDecides ==
  ASSUME OneJob', NEW a, NEW j, j \in JobsOf(a)'
  PROVE  /\ JobsOf(a)' = {j} /\ BoundTo(a)' = rows'[j].binding
         /\ DeliveredTo(a)' = IF sessions'[j].state = "COMMITTED" THEN {rows'[j].binding} ELSE {}
<1>1. JobsOf(a)' = {j}
  BY DEF OneJob, JobsOf
<1>2. (CHOOSE k \in JobsOf(a)' : TRUE) = j
  BY <1>1
<1> QED
  BY <1>1, <1>2 DEF BoundTo, DeliveredTo

LEMMA PrimedNoJobDecides ==
  ASSUME NEW a, JobsOf(a)' = {}
  PROVE  BoundTo(a)' = NoBinding /\ DeliveredTo(a)' = {}
BY DEF BoundTo, DeliveredTo

(* Jobs that stay what they are about, with the same sessions committed,   *)
(* leave an artifact as it was.                                            *)
LEMMA SameRowsSameJobs == ASSUME SameRows, NEW a PROVE JobsOf(a)' = JobsOf(a)
BY DEF SameRows, JobsOf, Alike

LEMMA ArtifactStays ==
  ASSUME OneJob, OneJob', SameRows, NEW a,
         \A j \in JobsOf(a) : sessions'[j].state = "COMMITTED" <=> sessions[j].state = "COMMITTED"
  PROVE  BoundTo(a)' = BoundTo(a) /\ DeliveredTo(a)' = DeliveredTo(a)
<1>1. JobsOf(a)' = JobsOf(a)
  BY SameRowsSameJobs
<1>2. CASE JobsOf(a) = {}
  BY <1>1, <1>2, NoJobDecides, PrimedNoJobDecides
<1>3. ASSUME NEW j \in JobsOf(a)
      PROVE  BoundTo(a)' = BoundTo(a) /\ DeliveredTo(a)' = DeliveredTo(a)
  <2>1. rows'[j].binding = rows[j].binding
    BY <1>3 DEF SameRows, Alike, JobsOf
  <2>2. /\ BoundTo(a) = rows[j].binding
        /\ DeliveredTo(a) = IF sessions[j].state = "COMMITTED" THEN {rows[j].binding} ELSE {}
    BY <1>3, JobDecides
  <2>3. /\ BoundTo(a)' = rows'[j].binding
        /\ DeliveredTo(a)' = IF sessions'[j].state = "COMMITTED" THEN {rows'[j].binding} ELSE {}
    BY <1>1, <1>3, PrimedJobDecides
  <2> QED
    BY <1>3, <2>1, <2>2, <2>3
<1> QED
  BY <1>2, <1>3

LEMMA UnseenIsStutter ==
  ASSUME Inv, Inv', Unseen
  PROVE  BoundMap' = BoundMap /\ DeliveredMap' = DeliveredMap
<1>1. \A a \in Artifacts : BoundTo(a)' = BoundTo(a) /\ DeliveredTo(a)' = DeliveredTo(a)
  BY ArtifactStays DEF Inv, Unseen, Kept, JobsOf, Queued
<1> QED
  BY <1>1 DEF BoundMap, DeliveredMap

(* A commit delivers the artifact of the job in hand.                      *)
LEMMA CommittingDelivers ==
  ASSUME Inv, Inv', Committing
  PROVE  \E a \in Artifacts :
           /\ BoundMap[a] # NoBinding /\ DeliveredMap[a] = {}
           /\ DeliveredMap' = [DeliveredMap EXCEPT ![a] = {BoundMap[a]}]
           /\ BoundMap' = BoundMap
<1>1. /\ OneJob /\ OneJob' /\ SameRows /\ current \in Queued /\ current \in Jobs
      /\ rows[current].binding \in Bindings /\ rows[current].art \in Artifacts
      /\ sessions \in [Jobs -> Sessions] /\ sessions[current].state = "UPLOADING"
  BY HandHolds, QueuedRows DEF Inv, Committing, UploadTypeOK, Session
<1> PICK a \in Artifacts : a = rows[current].art
  BY <1>1
<1>2. /\ sessions'[current].state = "COMMITTED"
      /\ \A k \in Jobs \ {current} : sessions'[k] = sessions[k]
  BY <1>1 DEF Committing, Sessions
<1>3. current \in JobsOf(a) /\ JobsOf(a)' = JobsOf(a)
  <2>1. current \in JobsOf(a)
    BY <1>1 DEF JobsOf
  <2> QED
    BY <1>1, <2>1, SameRowsSameJobs
<1>4. BoundTo(a) = rows[current].binding /\ DeliveredTo(a) = {}
  BY <1>1, <1>3, JobDecides
<1>5. rows'[current].binding = rows[current].binding
  BY <1>1 DEF SameRows, Alike
<1>6. BoundTo(a)' = BoundTo(a) /\ DeliveredTo(a)' = {BoundTo(a)}
  <2>1. /\ BoundTo(a)' = rows'[current].binding
        /\ DeliveredTo(a)' = IF sessions'[current].state = "COMMITTED"
                             THEN {rows'[current].binding} ELSE {}
    BY <1>1, <1>3, PrimedJobDecides
  <2> QED
    BY <1>2, <1>4, <1>5, <2>1
<1>7. ASSUME NEW x \in Artifacts, x # a
      PROVE  BoundTo(x)' = BoundTo(x) /\ DeliveredTo(x)' = DeliveredTo(x)
  <2>1. \A j \in JobsOf(x) : j \in Jobs \ {current}
    BY <1>7 DEF JobsOf, Queued
  <2> QED
    BY <1>1, <1>2, <2>1, ArtifactStays
<1>8. BoundTo(a) # NoBinding
  BY <1>1, <1>4, NamesAssumption
<1>9. BoundMap[a] = BoundTo(a) /\ DeliveredMap[a] = {}
  BY <1>1, <1>4 DEF BoundMap, DeliveredMap
<1>10. BoundMap' = BoundMap
  <2>1. \A x \in Artifacts : BoundTo(x)' = BoundTo(x)
    BY <1>6, <1>7
  <2> QED
    BY <2>1 DEF BoundMap
<1>11. DeliveredMap' = [DeliveredMap EXCEPT ![a] = {BoundTo(a)}]
  <2>1. \A x \in Artifacts : DeliveredTo(x)' = IF x = a THEN {BoundTo(a)} ELSE DeliveredTo(x)
    BY <1>6, <1>7
  <2> QED
    BY <2>1 DEF DeliveredMap
<1> QED
  BY <1>1, <1>8, <1>9, <1>10, <1>11

(* A row is inserted for an artifact that has none; its session is new.    *)
LEMMA BindingFreezes ==
  ASSUME Inv, Inv', Binding
  PROVE  \E a \in Artifacts :
           /\ BoundMap[a] = NoBinding
           /\ \E b \in Bindings : BoundMap' = [BoundMap EXCEPT ![a] = b]
           /\ DeliveredMap' = DeliveredMap
<1>1. PICK a \in Artifacts, b \in Bindings, j \in Jobs \ Queued :
        JobsOf(a) = {} /\ rows' = [rows EXCEPT ![j] = NewRow(a, b)] /\ UNCHANGED sessions
  BY DEF Binding
<1>2. UploadTypeOK /\ OneJob /\ OneJob' /\ sessions[j].state = "NONE"
  BY <1>1 DEF Inv, Unheard
<1>3. NewRow(a, b) \in Rows /\ NewRow(a, b).art = a /\ NewRow(a, b).binding = b
  BY <1>1 DEF NewRow, Rows, States, SessionStates, Outcomes
<1>4. /\ rows'[j] = NewRow(a, b) /\ \A k \in Jobs \ {j} : rows'[k] = rows[k]
      /\ Queued' = Queued \cup {j}
  BY <1>1, <1>2, <1>3, WrittenRow
<1>5. BoundTo(a) = NoBinding /\ DeliveredTo(a) = {}
  BY <1>1, NoJobDecides
<1>6. BoundTo(a)' = b /\ DeliveredTo(a)' = {}
  <2>1. j \in JobsOf(a)'
    BY <1>3, <1>4 DEF JobsOf
  <2>2. /\ BoundTo(a)' = rows'[j].binding
        /\ DeliveredTo(a)' = IF sessions'[j].state = "COMMITTED" THEN {rows'[j].binding} ELSE {}
    BY <1>2, <2>1, PrimedJobDecides
  <2> QED
    BY <1>1, <1>2, <1>3, <1>4, <2>2
<1>7. ASSUME NEW x \in Artifacts, x # a
      PROVE  BoundTo(x)' = BoundTo(x) /\ DeliveredTo(x)' = DeliveredTo(x)
  <2>1. JobsOf(x)' = JobsOf(x)
    BY <1>1, <1>3, <1>4, <1>7 DEF JobsOf, Queued
  <2>2. CASE JobsOf(x) = {}
    BY <2>1, <2>2, NoJobDecides, PrimedNoJobDecides
  <2>3. ASSUME NEW k \in JobsOf(x)
        PROVE  BoundTo(x)' = BoundTo(x) /\ DeliveredTo(x)' = DeliveredTo(x)
    <3>1. rows'[k] = rows[k] /\ sessions'[k] = sessions[k]
      BY <1>1, <1>4, <2>3 DEF JobsOf, Queued
    <3>2. /\ BoundTo(x) = rows[k].binding
          /\ DeliveredTo(x) = IF sessions[k].state = "COMMITTED" THEN {rows[k].binding} ELSE {}
      BY <1>2, <2>3, JobDecides
    <3>3. /\ BoundTo(x)' = rows'[k].binding
          /\ DeliveredTo(x)' = IF sessions'[k].state = "COMMITTED" THEN {rows'[k].binding} ELSE {}
      BY <1>2, <2>1, <2>3, PrimedJobDecides
    <3> QED
      BY <3>1, <3>2, <3>3
  <2> QED
    BY <2>2, <2>3
<1>8. /\ BoundMap[a] = NoBinding /\ DeliveredMap' = DeliveredMap
      /\ BoundMap' = [BoundMap EXCEPT ![a] = b]
  BY <1>5, <1>6, <1>7 DEF BoundMap, DeliveredMap
<1> QED
  BY <1>8

(* A recording is bound to one task, once and for good, and becomes at     *)
(* most one raw source there, whatever is retried, cancelled, repeated or  *)
(* interrupted: the queue and the platform implement UploadDelivery.       *)
THEOREM UploadKeepsPromise == Spec => KeepsPromise
<1>1. Init => Promise!DeliveryInit
  BY InitIsPromised
<1>2. ASSUME Inv, Inv', [Next]_vars
      PROVE  [Promise!DeliveryNext]_(Promise!delivery)
  <2>1. Unseen \/ Committing \/ Binding
    BY <1>2, InvStep
  <2>2. CASE Unseen
    BY <1>2, <2>2, UnseenIsStutter DEF Promise!delivery, BoundMap, DeliveredMap
  <2>3. CASE Committing
    <3>1. PICK a \in Artifacts :
            /\ BoundMap[a] # NoBinding /\ DeliveredMap[a] = {}
            /\ DeliveredMap' = [DeliveredMap EXCEPT ![a] = {BoundMap[a]}]
            /\ BoundMap' = BoundMap
      BY <1>2, <2>3, CommittingDelivers
    <3>2. Promise!Deliver(a)
      BY <3>1 DEF Promise!Deliver, BoundMap, DeliveredMap
    <3> QED
      BY <3>2 DEF Promise!DeliveryNext
  <2>4. CASE Binding
    <3>1. PICK a \in Artifacts :
            /\ BoundMap[a] = NoBinding
            /\ \E b \in Bindings : BoundMap' = [BoundMap EXCEPT ![a] = b]
            /\ DeliveredMap' = DeliveredMap
      BY <1>2, <2>4, BindingFreezes
    <3>2. Promise!Freeze(a)
      BY <3>1 DEF Promise!Freeze, BoundMap, DeliveredMap
    <3> QED
      BY <3>2 DEF Promise!DeliveryNext
  <2> QED
    BY <2>1, <2>2, <2>3, <2>4
<1> QED
  BY <1>1, <1>2, UploadInvariant, PTL DEF Spec, KeepsPromise, Promise!DeliverySpec
============================================================================
