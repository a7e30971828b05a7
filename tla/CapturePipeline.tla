-------------------------- MODULE CapturePipeline --------------------------
(***************************************************************************)
(* The path of a recorded message, over three processes: the subscriber    *)
(* (RosRecordingExecutor, ros_recording_executor.py) and the server put it *)
(* into the ingress queue, the writer (topic_recorder.py) takes it out and *)
(* writes it into the file of the capture; start and stop of the recorder  *)
(* run in the threads of the HTTP requests and of the VR buttons.          *)
(*                                                                         *)
(* A message is represented by the capture it was accepted for.  A queue   *)
(* between processes is two queues: what a process has put stays in its    *)
(* feeder thread until that has flushed it into the pipe.                  *)
(***************************************************************************)
EXTENDS Integers, Sequences, FiniteSets, SequencesExt

CONSTANTS
  Callers,      (* threads that start and stop captures                     *)
  StartsOver,   (* TRUE: the caller starts without asking for the status    *)
                (* (HTTP without a platform); FALSE: VR, TaskRecorder.start *)
  MayFail,      (* a running writer may fail                                *)
  Budget,       (* of the queue, in messages                                *)
  MaxCaptures,  (* bound: captures begun                                    *)
  MaxEvents     (* bound: messages offered                                  *)

ASSUME CallersAssumption == IsFiniteSet(Callers)
ASSUME FlagsAssumption == StartsOver \in BOOLEAN /\ MayFail \in BOOLEAN
ASSUME BoundsAssumption == {Budget, MaxCaptures, MaxEvents} \subseteq Nat

VARIABLES
  call,         (* per caller: the step of its start or stop                *)
  path,         (* the capture whose file the recorder holds, 0: none       *)
  process,      (* _process: the capture whose writer it is, 0: none        *)
  job,          (* per capture: the state of its artifact                   *)
  accepting, finish, opened,            (* events between the processes     *)
  accepted, messages, bytes,            (* counters between the processes   *)
  feeder, pipe, (* what is put and not flushed; what is flushed             *)
  offered,      (* messages offered to the running captures                  *)
  taken,        (* per capture: messages accepted                           *)
  writer,       (* per capture: its writer process                          *)
  file,         (* per capture: messages in its file, its own and others'   *)
  sub,          (* the subscriber's loop                                    *)
  inputs, seen, lease,   (* subscribed for a capture; capture_seen; before  *)
                         (* prepared_until                                  *)
  reset, ready           (* the events by which a caller prepares it        *)

recorder == <<call, path, process, job>>
ingress == <<accepting, accepted, messages, bytes, feeder, pipe, offered, taken>>
writing == <<finish, opened, writer, file>>
subscriber == <<sub, inputs, seen, lease, reset, ready>>
vars == <<recorder, ingress, writing, subscriber>>

Captures == 1..MaxCaptures
Producers == {"ros", "server"}
Idle == [at |-> "idle", op |-> "none", of |-> 0]
Live == {"opening", "writing"}

(* status: what the recorder tells of itself.                              *)
Recording == accepting /\ process # 0 /\ writer[process] \in Live

Init ==
  /\ call = [c \in Callers |-> Idle] /\ path = 0 /\ process = 0
  /\ job = [k \in Captures |-> "none"]
  /\ accepting = FALSE /\ finish = FALSE /\ opened = FALSE
  /\ accepted = 0 /\ messages = 0 /\ bytes = 0
  /\ feeder = [p \in Producers |-> <<>>] /\ pipe = <<>>
  /\ offered = 0 /\ taken = [k \in Captures |-> 0]
  /\ writer = [k \in Captures |-> "none"] /\ file = [k \in Captures |-> [own |-> 0, other |-> 0]]
  /\ sub = "look" /\ inputs = FALSE /\ seen = FALSE /\ lease = FALSE
  /\ reset = FALSE /\ ready = FALSE

---------------------------------------------------------------------------
(* The callers.                                                            *)

Go(c, at) == call' = [call EXCEPT ![c].at = at]
Return(c) == call' = [call EXCEPT ![c] = Idle]

(* prepare_recording: the subscriber is asked, and awaited for 5 s.        *)
Prepare == reset' = TRUE /\ ready' = FALSE /\ UNCHANGED <<sub, inputs, seen, lease>>

(* The check of the topics before a recording, at any time.                *)
Precheck == Prepare /\ sub # "gone" /\ UNCHANGED <<recorder, ingress, writing>>

(* start_recording, _handle_vr_record_start; no request follows a shutdown.*)
StartCalled(c) ==
  /\ call[c] = Idle /\ path < MaxCaptures /\ sub \notin {"leaving", "gone"}
  /\ StartsOver \/ ~Recording
  /\ call' = [call EXCEPT ![c] = [at |-> "inputs", op |-> "start", of |-> 0]]
  /\ Prepare
  /\ UNCHANGED <<path, process, job, ingress, writing>>

(* TRUE: subscribed; FALSE: the TimeoutError.                              *)
InputsReady(c) ==
  /\ call[c].at = "inputs"
  /\ \/ ready /\ Go(c, "halt")
     \/ Return(c)
  /\ UNCHANGED <<path, process, job, ingress, writing, subscriber>>

StopCalled(c) ==
  /\ call[c] = Idle /\ sub \notin {"leaving", "gone"}
  /\ call' = [call EXCEPT ![c] = [at |-> "halt", op |-> "stop", of |-> 0]]
  /\ UNCHANGED <<path, process, job, ingress, writing, subscriber>>

(* The head of stop; start calls it first.                                 *)
Halt(c) ==
  /\ call[c].at = "halt"
  /\ IF process = 0
       THEN /\ IF call[c].op = "start" THEN Go(c, "open") ELSE Return(c)
            /\ UNCHANGED <<accepting, finish>>
       ELSE /\ call' = [call EXCEPT ![c].at = "join", ![c].of = process]
            /\ accepting' = FALSE /\ finish' = TRUE
  /\ UNCHANGED <<path, process, job, accepted, messages, bytes, feeder, pipe, offered, taken,
                 opened, writer, file, subscriber>>

(* process.join, and what is known of the writer's end.                    *)
Join(c) ==
  /\ call[c].at = "join" /\ writer[call[c].of] \notin Live
  /\ process' = 0
  /\ job' = IF job[path] # "capturing" THEN job
            ELSE [job EXCEPT ![path] = IF writer[call[c].of] = "ended" THEN "closed" ELSE "failed"]
  /\ IF call[c].op = "start" THEN Go(c, "open") ELSE Return(c)
  /\ UNCHANGED <<path, ingress, writing, subscriber>>

(* The file's name is taken, and its artifact begun, outside the lock.     *)
Open(c) ==
  /\ call[c].at = "open"
  /\ IF path = MaxCaptures
       THEN Return(c) /\ UNCHANGED <<path, job>>
       ELSE /\ path' = path + 1 /\ job' = [job EXCEPT ![path + 1] = "capturing"]
            /\ Go(c, "spawn")
  /\ UNCHANGED <<process, ingress, writing, subscriber>>

Locked == \E c \in Callers : call[c].at \in {"wait", "accept"}

(* What has reached the pipe is thrown away, the counters are set back,    *)
(* and the writer is started.                                              *)
Spawn(c) ==
  /\ call[c].at = "spawn" /\ ~Locked
  /\ pipe' = <<>> /\ accepted' = 0 /\ messages' = 0 /\ bytes' = 0
  /\ opened' = FALSE /\ finish' = FALSE
  /\ process' = path /\ writer' = [writer EXCEPT ![path] = "opening"]
  /\ Go(c, "wait")
  /\ UNCHANGED <<path, job, accepting, feeder, offered, taken, file, subscriber>>

(* The writer is awaited for 5 s, and must be alive then.                  *)
Wait(c) ==
  /\ call[c].at = "wait"
  /\ \/ /\ opened /\ process # 0 /\ writer[process] = "writing"
        /\ Go(c, "accept") /\ UNCHANGED <<process, writer>>
     \/ /\ opened /\ (process # 0 => writer[process] # "writing")
        /\ process' = 0 /\ Return(c) /\ UNCHANGED writer
     \/ /\ ~opened /\ process # 0
        /\ writer' = [writer EXCEPT ![process] = "dead"]
        /\ process' = 0 /\ Return(c)
  /\ UNCHANGED <<path, job, ingress, finish, opened, file, subscriber>>

Accept(c) ==
  /\ call[c].at = "accept"
  /\ accepting' = TRUE /\ Return(c)
  /\ UNCHANGED <<path, process, job, accepted, messages, bytes, feeder, pipe, offered, taken,
                 writing, subscriber>>

(* The runtime's stop: the subscriber is stopped first, then the recorder. *)
ShutDown(c) ==
  /\ \A d \in Callers : call[d] = Idle
  /\ sub \notin {"leaving", "gone"}
  /\ call' = [call EXCEPT ![c] = [at |-> "leave", op |-> "stop", of |-> 0]]
  /\ sub' = "leaving"
  /\ UNCHANGED <<path, process, job, ingress, writing, inputs, seen, lease, reset, ready>>

(* It is waited for, unless the recorder has an error to tell.             *)
Left(c) ==
  /\ call[c].at = "leave"
  /\ \/ sub = "gone" /\ Go(c, "halt")
     \/ /\ sub # "gone" /\ path # 0 /\ writer[path] = "dead"
        /\ Return(c)
  /\ UNCHANGED <<path, process, job, ingress, writing, subscriber>>

---------------------------------------------------------------------------
(* The ingress queue.                                                      *)

Receiving(p) == p = "ros" => inputs /\ sub = "look"

(* Faulty variant of Enqueue: a message that is dropped is counted.        *)
EnqueueCounting(p) ==
  IF bytes \in 0..(Budget - 1)
  THEN /\ feeder' = [feeder EXCEPT ![p] = Append(@, path)]
       /\ bytes' = bytes + 1 /\ accepted' = accepted + 1
       /\ taken' = [taken EXCEPT ![path] = @ + 1]
  ELSE accepted' = accepted + 1 /\ UNCHANGED <<feeder, bytes, taken>>

(* enqueue_record under its lock.  The counter is unsigned: below zero it  *)
(* is larger than any budget.                                              *)
Enqueue(p) ==
  IF bytes \in 0..(Budget - 1)
  THEN /\ feeder' = [feeder EXCEPT ![p] = Append(@, path)]
       /\ bytes' = bytes + 1 /\ accepted' = accepted + 1
       /\ taken' = [taken EXCEPT ![path] = @ + 1]
  ELSE UNCHANGED <<feeder, bytes, accepted, taken>>

(* The callback of a subscription, TopicRecorder.record.                   *)
Record(p) ==
  /\ accepting /\ Receiving(p) /\ offered < MaxEvents
  /\ offered' = offered + 1
  /\ Enqueue(p)
  /\ UNCHANGED <<recorder, accepting, messages, pipe, writing, subscriber>>

Flush(p) ==
  /\ feeder[p] # <<>>
  /\ pipe' = Append(pipe, Head(feeder[p])) /\ feeder' = [feeder EXCEPT ![p] = Tail(@)]
  /\ UNCHANGED <<recorder, accepting, accepted, messages, bytes, offered, taken, writing, subscriber>>

---------------------------------------------------------------------------
(* The writer of capture k.                                                *)

(* The header is written before the recording counts as active.            *)
WriterOpens(k) ==
  /\ writer[k] = "opening" /\ opened' = TRUE
  /\ \E end \in {"writing", "dead"} : writer' = [writer EXCEPT ![k] = end]
  /\ UNCHANGED <<recorder, ingress, finish, file, subscriber>>

Writes(k) ==
  /\ writer[k] = "writing" /\ pipe # <<>> /\ pipe' = Tail(pipe)
  /\ file' = IF Head(pipe) = k THEN [file EXCEPT ![k].own = @ + 1]
             ELSE [file EXCEPT ![k].other = @ + 1]
  /\ messages' = messages + 1 /\ bytes' = bytes - 1
  /\ UNCHANGED <<recorder, accepting, accepted, feeder, offered, taken, finish, opened, writer, subscriber>>

(* Faulty variant of Done: the writer ends when it finds the queue empty.  *)
DoneWhenEmpty == finish /\ pipe = <<>>

Done == finish /\ messages >= accepted

WriterEnds(k) ==
  /\ writer[k] = "writing" /\ Done
  /\ writer' = [writer EXCEPT ![k] = "ended"]
  /\ UNCHANGED <<recorder, ingress, finish, opened, file, subscriber>>

(* A failing disk; the message being written may be lost.                  *)
WriterFails(k) ==
  /\ MayFail /\ writer[k] = "writing"
  /\ writer' = [writer EXCEPT ![k] = "dead"]
  /\ pipe' \in {pipe} \cup {Tail(q) : q \in {pipe} \ {<<>>}}
  /\ UNCHANGED <<recorder, accepting, accepted, messages, bytes, feeder, offered, taken,
                 finish, opened, file, subscriber>>

---------------------------------------------------------------------------
(* The loop of the subscriber's process.                                   *)

(* Faulty variant of Activate: an earlier capture is remembered.           *)
ActivateAgain ==
  /\ sub = "look" /\ reset
  /\ reset' = FALSE /\ ready' = TRUE
  /\ inputs' = TRUE /\ lease' = TRUE
  /\ UNCHANGED <<sub, seen, recorder, ingress, writing>>

Activate ==
  /\ sub = "look" /\ reset
  /\ reset' = FALSE /\ ready' = TRUE
  /\ inputs' = TRUE /\ lease' = TRUE /\ seen' = accepting
  /\ UNCHANGED <<sub, recorder, ingress, writing>>

(* _should_release_subscriptions: after a capture, or after an abandoned   *)
(* preparation.                                                            *)
Look ==
  /\ sub = "look" /\ ~reset
  /\ seen' = (seen \/ accepting)
  /\ sub' = IF ~accepting /\ inputs /\ (seen \/ ~lease) THEN "release" ELSE "look"
  /\ UNCHANGED <<recorder, ingress, writing, inputs, lease, reset, ready>>

Release ==
  /\ sub = "release" /\ sub' = "look"
  /\ inputs' = FALSE /\ seen' = FALSE /\ ready' = FALSE
  /\ UNCHANGED <<recorder, ingress, writing, lease, reset>>

(* prepared_until: 30 s, longer than a start takes.                        *)
LeaseEnds ==
  /\ lease /\ \A c \in Callers : call[c].op # "start"
  /\ lease' = FALSE
  /\ UNCHANGED <<recorder, ingress, writing, sub, inputs, seen, reset, ready>>

(* A process ends when its feeder is empty.                                *)
SubscriberLeaves ==
  /\ sub = "leaving" /\ feeder["ros"] = <<>> /\ sub' = "gone"
  /\ UNCHANGED <<recorder, ingress, writing, inputs, seen, lease, reset, ready>>

---------------------------------------------------------------------------
Next ==
  \/ Precheck \/ Activate \/ Look \/ Release \/ LeaseEnds \/ SubscriberLeaves
  \/ \E c \in Callers :
       \/ StartCalled(c) \/ InputsReady(c) \/ StopCalled(c) \/ Halt(c) \/ Join(c) \/ Open(c)
       \/ Spawn(c) \/ Wait(c) \/ Accept(c) \/ ShutDown(c) \/ Left(c)
  \/ \E p \in Producers : Record(p) \/ Flush(p)
  \/ \E k \in Captures : WriterOpens(k) \/ Writes(k) \/ WriterEnds(k) \/ WriterFails(k)

Spec == Init /\ [][Next]_vars

(* The feeder threads and the writer run.                                  *)
FairSpec ==
  /\ Spec
  /\ \A p \in Producers : WF_vars(Flush(p))
  /\ \A k \in Captures : WF_vars(WriterOpens(k) \/ Writes(k) \/ WriterEnds(k))
  /\ \A c \in Callers : WF_vars(Join(c))

---------------------------------------------------------------------------
(* Properties.                                                             *)

(* Before the first writer that failed; what a failure leaves behind is    *)
(* the subject of OwnMessages.                                             *)
Clean(k) == \A i \in 1..(k - 1) : job[i] # "failed"

(* A file that is handed on as closed holds every message that was         *)
(* accepted while it was recorded, and no other: not one that still was in *)
(* a feeder when the recording was stopped, and none of an earlier one.    *)
ClosedIsComplete ==
  \A k \in Captures :
    job[k] = "closed" /\ Clean(k) => file[k] = [own |-> taken[k], other |-> 0]

(* A capture that is being recorded has its inputs: the subscriber does    *)
(* not release, for the end of an earlier capture or of an abandoned       *)
(* preparation, what this one was started with.                            *)
CaptureHasInputs == accepting /\ Clean(path) /\ sub \in {"look", "release"} => inputs

(* A closed file holds no message that was accepted for another one: start *)
(* drains the queue before it (topic_recorder.py:616).                     *)
OwnMessages == \A k \in Captures : job[k] = "closed" => file[k].other = 0

(* A stop returns: the writer reaches the count of what was accepted,      *)
(* whatever was dropped, and however slowly the feeders flush.             *)
StopReturns == \A c \in Callers : call[c].at = "join" ~> call[c].at # "join"
============================================================================
