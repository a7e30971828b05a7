----------------------- MODULE CapturePipeline_proofs -----------------------
(***************************************************************************)
(* Proofs about CapturePipeline for any budget of the queue and any number *)
(* of messages and captures, with one caller: a closed file is complete,   *)
(* and a capture that is recorded keeps its inputs.                        *)
(***************************************************************************)
EXTENDS CapturePipeline, TLAPS

(* The caller, when there is one.                                          *)
OneCaller == \E c : Callers = {c}
Caller == CHOOSE c \in Callers : TRUE
At == call[Caller].at

Steps == {"idle", "inputs", "halt", "join", "open", "spawn", "wait", "accept", "leave"}
Calls == [at: Steps, op: {"none", "start", "stop"}, of: 0..MaxCaptures]
Counts == [own: Nat, other: Nat]

RecorderTypes ==
  /\ call \in [Callers -> Calls] /\ path \in 0..MaxCaptures /\ process \in {0, path}
  /\ job \in [Captures -> {"none", "capturing", "closed", "failed"}]
IngressTypes ==
  /\ accepting \in BOOLEAN /\ accepted \in Nat /\ messages \in Nat /\ bytes \in Int
  /\ feeder \in [Producers -> Seq(Captures)] /\ pipe \in Seq(Captures)
  /\ offered \in Nat /\ taken \in [Captures -> Nat]
WritingTypes ==
  /\ finish \in BOOLEAN /\ opened \in BOOLEAN
  /\ writer \in [Captures -> Live \cup {"none", "dead", "ended"}] /\ file \in [Captures -> Counts]
SubscriberTypes ==
  /\ sub \in {"look", "release", "leaving", "gone"}
  /\ {inputs, seen, lease, reset, ready} \subseteq BOOLEAN

(* The variables keep their types.                                         *)
PipelineTypeOK == RecorderTypes /\ IngressTypes /\ WritingTypes /\ SubscriberTypes

(* Where the caller is tells who may write and what is accepted.           *)
CallerPlace ==
  /\ At \in {"idle", "inputs", "halt", "leave"} => (accepting <=> process # 0)
  /\ At = "join" => ~accepting /\ process # 0 /\ call[Caller].of = process
  /\ At \in {"open", "spawn"} => ~accepting /\ process = 0
  /\ At = "spawn" => path # 0 /\ writer[path] = "none" /\ job[path] = "capturing"
  /\ At \in {"wait", "accept"} => ~accepting /\ process # 0 /\ ~finish
  /\ At = "accept" => writer[path] # "opening"

(* Only the writer of the file that is recorded runs.                      *)
OneWriter ==
  /\ \A k \in Captures : writer[k] \in Live => k = process
  /\ process # 0 =>
       /\ job[process] = "capturing" /\ writer[process] # "none"
       /\ opened => writer[process] # "opening"
  /\ accepting => process # 0 /\ ~finish /\ writer[process] # "opening"
  /\ \A k \in Captures :
       /\ k > path => writer[k] = "none" /\ job[k] = "none"
       /\ job[k] = "closed" => writer[k] = "ended"
       /\ writer[k] = "none" => taken[k] = 0 /\ file[k] = [own |-> 0, other |-> 0]
  /\ path # 0 /\ writer[path] = "ended" => finish /\ messages >= accepted

Drained == pipe = <<>> /\ \A p \in Producers : feeder[p] = <<>>
(* No writer has failed yet.                                               *)
CleanSoFar == Clean(path) /\ (path # 0 => job[path] # "failed")

(* Before a capture begins nothing is under way.                           *)
DrainedBefore ==
  /\ CleanSoFar /\ process = 0 => Drained
  /\ Clean(path) /\ At \in {"wait", "accept"} => Drained

(* Messages in the feeder thread of a producer.                           *)
Under(p) == Len(feeder[p])
(* What was accepted is in the file or under way to it, and nothing else.  *)
Conserved ==
  path # 0 /\ Clean(path) /\ writer[path] \in Live \cup {"ended"} =>
    /\ pipe \in Seq({path}) /\ \A p \in Producers : feeder[p] \in Seq({path})
    /\ accepted = taken[path] /\ file[path] = [own |-> messages, other |-> 0]
    /\ accepted = messages + Len(pipe) + Under("ros") + Under("server")

FilesInv ==
  PipelineTypeOK /\ CallerPlace /\ OneWriter /\ DrainedBefore /\ Conserved /\ ClosedIsComplete

(* A caller that asks for the status starts when nothing is recorded, or   *)
(* when the writer has failed.                                             *)
StartPlace ==
  /\ At = "idle" => call[Caller].op = "none"
  /\ At \in {"inputs", "open", "spawn", "wait", "accept"} => call[Caller].op = "start"
  /\ At = "leave" => call[Caller].op = "stop"
  /\ call[Caller].op = "start" => sub \in {"look", "release"}
  /\ call[Caller].op = "start" /\ At \in {"inputs", "halt", "join"} /\ process # 0
     => writer[process] = "dead"

(* The start that will accept messages has its inputs, and they are not    *)
(* released before.                                                        *)
Starting ==
  /\ call[Caller].op = "start"
  /\ \/ CleanSoFar /\ process = 0 /\ (At = "inputs" => ready)
     \/ Clean(path) /\ At \in {"spawn", "wait", "accept"}
StartHasInputs == Starting => inputs /\ lease /\ ~seen /\ sub = "look"

(* The subscriber does not release while messages are accepted.            *)
NoRelease == accepting /\ Clean(path) => sub # "release" /\ (sub = "look" => inputs)

InputsInv == FilesInv /\ StartPlace /\ StartHasInputs /\ NoRelease

---------------------------------------------------------------------------
(* Sequences and records of the model.                                     *)

LEMMA SeqMoves ==
  ASSUME NEW S, NEW q \in Seq(S)
  PROVE  /\ Len(q) \in Nat
         /\ Len(q) = 0 <=> q = <<>>
         /\ \A e \in S : Append(q, e) \in Seq(S) /\ Len(Append(q, e)) = Len(q) + 1
         /\ q # <<>> => Head(q) \in S /\ Tail(q) \in Seq(S) /\ Len(Tail(q)) = Len(q) - 1
<1>1. Len(q) \in Nat /\ (Len(q) = 0 <=> q = <<>>)
  OBVIOUS
<1>2. \A e \in S : Append(q, e) \in Seq(S) /\ Len(Append(q, e)) = Len(q) + 1
  OBVIOUS
<1>3. q # <<>> => Head(q) \in S /\ Tail(q) \in Seq(S) /\ Len(Tail(q)) = Len(q) - 1
  OBVIOUS
<1> QED
  BY <1>1, <1>2, <1>3

LEMMA CallerIs ==
  ASSUME OneCaller
  PROVE  Caller \in Callers /\ \A c \in Callers : c = Caller
BY DEF OneCaller, Caller

(* A caller goes on to another step, or returns.                           *)
LEMMA CallMoves ==
  ASSUME OneCaller, PipelineTypeOK, NEW c \in Callers
  PROVE  /\ At \in Steps /\ call[Caller] \in Calls /\ c = Caller
         /\ \A st \in Steps : Go(c, st) =>
              /\ call' \in [Callers -> Calls] /\ At' = st
              /\ call'[Caller].op = call[Caller].op /\ call'[Caller].of = call[Caller].of
         /\ Return(c) => /\ call' \in [Callers -> Calls] /\ At' = "idle"
                         /\ call'[Caller] = Idle /\ call'[Caller].op = "none"
<1>1. c = Caller /\ call \in [Callers -> Calls] /\ Caller \in Callers
  BY CallerIs DEF PipelineTypeOK, RecorderTypes
<1>2. 0 \in 0..MaxCaptures
  BY BoundsAssumption
<1>3. Idle \in Calls /\ Idle.at = "idle" /\ Idle.op = "none"
  BY <1>2 DEF Idle, Calls, Steps
<1>4. At \in Steps /\ call[Caller] \in Calls
  BY <1>1 DEF At, Calls
<1>5. ASSUME NEW st \in Steps, Go(c, st)
      PROVE  /\ call' \in [Callers -> Calls] /\ At' = st
             /\ call'[Caller].op = call[Caller].op /\ call'[Caller].of = call[Caller].of
  <2>1. [call[c] EXCEPT !.at = st] \in Calls
    BY <1>1, <1>4 DEF Calls
  <2>2. call' = [call EXCEPT ![c] = [call[c] EXCEPT !.at = st]]
    BY <1>5 DEF Go
  <2>3. call'[Caller] = [call[Caller] EXCEPT !.at = st]
    BY <1>1, <2>2
  <2> QED
    BY <1>1, <1>4, <2>1, <2>2, <2>3 DEF At, Calls
<1>6. Return(c) => /\ call' \in [Callers -> Calls] /\ At' = "idle"
                   /\ call'[Caller] = Idle /\ call'[Caller].op = "none"
  BY <1>1, <1>3 DEF Return, At
<1> QED
  BY <1>1, <1>4, <1>5, <1>6

LEMMA TypeFields ==
  ASSUME PipelineTypeOK
  PROVE  /\ path \in 0..MaxCaptures /\ path \in Nat /\ process \in {0, path} /\ MaxCaptures \in Nat
         /\ path # 0 => path \in Captures
         /\ accepted \in Nat /\ messages \in Nat /\ bytes \in Int /\ offered \in Nat
         /\ \A k \in Captures : taken[k] \in Nat /\ k \in Nat /\ k # 0
<1>1. /\ path \in 0..MaxCaptures /\ process \in {0, path} /\ MaxCaptures \in Nat
      /\ accepted \in Nat /\ messages \in Nat /\ bytes \in Int /\ offered \in Nat
      /\ taken \in [Captures -> Nat]
  BY BoundsAssumption DEF PipelineTypeOK, RecorderTypes, IngressTypes
<1>2. path \in Nat /\ (path # 0 => path \in Captures)
  BY <1>1 DEF Captures
<1>3. \A k \in Captures : taken[k] \in Nat /\ k \in Nat /\ k # 0
  BY <1>1 DEF Captures
<1> QED
  BY <1>1, <1>2, <1>3

LEMMA FilesInit == ASSUME OneCaller, Init PROVE FilesInv
<1>1. At = "idle" /\ call[Caller] = Idle
  BY CallerIs DEF Init, At, Idle
<1>2. RecorderTypes
  <2>1. 0 \in 0..MaxCaptures
    BY BoundsAssumption
  <2> QED
    BY <2>1 DEF Init, RecorderTypes, Calls, Idle, Steps
<1>3. IngressTypes
  <2>1. <<>> \in Seq(Captures) /\ 0 \in Nat /\ 0 \in Int
    OBVIOUS
  <2>2. feeder \in [Producers -> Seq(Captures)] /\ taken \in [Captures -> Nat]
    BY <2>1 DEF Init
  <2> QED
    BY <2>1, <2>2 DEF Init, IngressTypes
<1>4. WritingTypes /\ SubscriberTypes
  BY DEF Init, WritingTypes, SubscriberTypes, Counts
<1>5. CallerPlace
  BY <1>1 DEF Init, CallerPlace
<1>6. OneWriter
  BY DEF Init, OneWriter, Live
<1>7. DrainedBefore /\ Conserved
  BY <1>1 DEF Init, DrainedBefore, Conserved, Drained
<1>8. ClosedIsComplete
  BY DEF Init, ClosedIsComplete
<1> QED
  BY <1>2, <1>3, <1>4, <1>5, <1>6, <1>7, <1>8 DEF FilesInv, PipelineTypeOK

---------------------------------------------------------------------------
(* Every action keeps the invariant of the files.                          *)

(* The steps that only call, return or concern the subscriber.             *)
LEMMA NothingRecorded ==
  ASSUME FilesInv, UNCHANGED <<path, process, job, ingress, writing>>,
         call' \in [Callers -> Calls], SubscriberTypes', CallerPlace',
         At' \in {"wait", "accept"} => At' = At
  PROVE  FilesInv'
<1>0. UNCHANGED <<path, process, job, accepting, accepted, messages, bytes, feeder, pipe, offered,
                  taken, finish, opened, writer, file>>
  BY DEF ingress, writing
<1>1. PipelineTypeOK'
  BY <1>0 DEF FilesInv, PipelineTypeOK, RecorderTypes, IngressTypes, WritingTypes
<1>2. OneWriter'
  BY <1>0 DEF FilesInv, OneWriter
<1>3. DrainedBefore' /\ Conserved'
  BY <1>0 DEF FilesInv, DrainedBefore, Conserved, Drained, Clean, CleanSoFar, Under
<1>4. ClosedIsComplete'
  BY <1>0 DEF FilesInv, ClosedIsComplete, Clean
<1> QED
  BY <1>1, <1>2, <1>3, <1>4 DEF FilesInv

LEMMA SubscriberSteps ==
  ASSUME FilesInv, Precheck \/ Activate \/ Look \/ Release \/ LeaseEnds \/ SubscriberLeaves
  PROVE  FilesInv'
<1>1. UNCHANGED <<recorder, ingress, writing>>
  BY DEF Precheck, Activate, Look, Release, LeaseEnds, SubscriberLeaves
<1>2. SubscriberTypes'
  BY <1>1 DEF FilesInv, PipelineTypeOK, IngressTypes, SubscriberTypes, ingress, Precheck, Prepare, Activate, Look,
         Release, LeaseEnds, SubscriberLeaves
<1>3. CallerPlace' /\ call' \in [Callers -> Calls] /\ At' = At
  BY <1>1 DEF FilesInv, PipelineTypeOK, RecorderTypes, CallerPlace, At, recorder, ingress, writing
<1> QED
  BY <1>1, <1>2, <1>3, NothingRecorded DEF recorder

LEMMA CallSteps ==
  ASSUME OneCaller, FilesInv, NEW c \in Callers,
         StartCalled(c) \/ InputsReady(c) \/ StopCalled(c) \/ ShutDown(c) \/ Left(c)
  PROVE  FilesInv'
<1>0. UNCHANGED <<path, process, job, ingress, writing>> /\ CallerPlace /\ PipelineTypeOK
  BY DEF StartCalled, InputsReady, StopCalled, ShutDown, Left, FilesInv
<1>1. /\ call' \in [Callers -> Calls] /\ At' \in {"idle", "inputs", "halt", "leave"}
      /\ At \in {"idle", "inputs", "halt", "leave"}
  <2>1. 0 \in 0..MaxCaptures
    BY BoundsAssumption
  <2>2. call \in [Callers -> Calls] /\ c = Caller
    BY <1>0, CallMoves DEF PipelineTypeOK, RecorderTypes
  <2>3. CASE StartCalled(c) \/ StopCalled(c) \/ ShutDown(c)
    <3>1. PICK st \in {"inputs", "halt", "leave"}, op \in {"start", "stop"} :
            call' = [call EXCEPT ![c] = [at |-> st, op |-> op, of |-> 0]]
      BY <2>3 DEF StartCalled, StopCalled, ShutDown
    <3>2. [at |-> st, op |-> op, of |-> 0] \in Calls
      BY <2>1 DEF Calls, Steps
    <3>3. call[c] = Idle
      BY <2>3 DEF StartCalled, StopCalled, ShutDown
    <3> QED
      BY <2>2, <3>1, <3>2, <3>3 DEF At, Idle
  <2>4. CASE InputsReady(c) \/ Left(c)
    <3>1. "halt" \in Steps /\ (Go(c, "halt") \/ Return(c)) /\ call[c].at \in {"inputs", "leave"}
      BY <2>4 DEF InputsReady, Left, Steps
    <3> QED
      BY <1>0, <2>2, <3>1, CallMoves DEF At
  <2> QED
    BY <2>3, <2>4
<1>2. SubscriberTypes'
  BY <1>0 DEF PipelineTypeOK, SubscriberTypes, StartCalled, Prepare, InputsReady, StopCalled, ShutDown, Left,
              subscriber
<1>3. CallerPlace'
  BY <1>0, <1>1 DEF CallerPlace, ingress
<1> QED
  BY <1>0, <1>1, <1>2, <1>3, NothingRecorded

(* The writer is told to end; without one, the caller goes on.             *)
LEMMA HaltStep ==
  ASSUME OneCaller, FilesInv, NEW c \in Callers, Halt(c)
  PROVE  FilesInv'
<1>0. /\ PipelineTypeOK /\ CallerPlace /\ OneWriter /\ DrainedBefore /\ Conserved /\ ClosedIsComplete
  BY DEF FilesInv
<1>1. /\ UNCHANGED <<path, process, job, accepted, messages, bytes, feeder, pipe, offered, taken,
                     opened, writer, file, subscriber>>
      /\ At = "halt"
  BY <1>0, CallMoves DEF Halt, At
<1>2. CASE process = 0
  <2>1. call' \in [Callers -> Calls] /\ At' \in {"idle", "open"}
    <3>1. "open" \in Steps
      BY DEF Steps
    <3> QED
      BY <1>0, <1>2, <3>1, CallMoves DEF Halt
  <2>2. UNCHANGED <<ingress, writing>> /\ UNCHANGED <<accepting, sub, inputs, seen, lease, reset, ready>>
    BY <1>1, <1>2 DEF Halt, ingress, writing, subscriber
  <2>3. CallerPlace' /\ SubscriberTypes'
    BY <1>0, <1>1, <1>2, <2>1, <2>2 DEF CallerPlace, PipelineTypeOK, SubscriberTypes
  <2> QED
    BY <1>1, <2>1, <2>2, <2>3, NothingRecorded
<1>3. CASE process # 0
  <2>1. /\ call' = [call EXCEPT ![c].at = "join", ![c].of = process]
        /\ accepting' = FALSE /\ finish' = TRUE
    BY <1>3 DEF Halt
  <2>2. call' \in [Callers -> Calls] /\ At' = "join" /\ call'[Caller].of = process
    <3>1. c = Caller /\ call \in [Callers -> Calls] /\ call[c] \in Calls
      BY <1>0, CallMoves DEF PipelineTypeOK, RecorderTypes
    <3>2. process \in 0..MaxCaptures
      BY <1>0, TypeFields
    <3>3. [call[c] EXCEPT !.at = "join", !.of = process] \in Calls
      BY <3>1, <3>2 DEF Calls, Steps
    <3>4. call' = [call EXCEPT ![c] = [call[c] EXCEPT !.at = "join", !.of = process]]
      BY <2>1, <3>1
    <3> QED
      BY <3>1, <3>3, <3>4 DEF At, Calls
  <2>3. PipelineTypeOK'
    BY <1>0, <1>1, <2>1, <2>2
       DEF PipelineTypeOK, RecorderTypes, IngressTypes, WritingTypes, SubscriberTypes, subscriber
  <2>4. CallerPlace'
    BY <1>1, <1>3, <2>1, <2>2 DEF CallerPlace
  <2>5. OneWriter'
    BY <1>0, <1>1, <2>1 DEF OneWriter
  <2>6. DrainedBefore' /\ Conserved'
    BY <1>0, <1>1, <1>3, <2>2 DEF DrainedBefore, Conserved, Drained, Clean, CleanSoFar, Under
  <2>7. ClosedIsComplete'
    BY <1>0, <1>1 DEF ClosedIsComplete, Clean
  <2> QED
    BY <2>3, <2>4, <2>5, <2>6, <2>7 DEF FilesInv
<1> QED
  BY <1>2, <1>3

(* The queue is empty when the writer of a whole file has ended.           *)
LEMMA EndedIsWhole ==
  ASSUME FilesInv, path # 0, Clean(path), writer[path] = "ended"
  PROVE  Drained /\ file[path] = [own |-> taken[path], other |-> 0]
<1>0. PipelineTypeOK /\ OneWriter /\ Conserved
  BY DEF FilesInv
<1>1. /\ pipe \in Seq({path}) /\ \A p \in Producers : feeder[p] \in Seq({path})
      /\ accepted = taken[path] /\ file[path] = [own |-> messages, other |-> 0]
      /\ accepted = messages + Len(pipe) + Under("ros") + Under("server")
  BY <1>0 DEF Conserved
<1>2. messages >= accepted /\ messages \in Nat /\ accepted \in Nat
  BY <1>0, TypeFields DEF OneWriter
<1>3. Len(pipe) \in Nat /\ Under("ros") \in Nat /\ Under("server") \in Nat
  BY <1>1, SeqMoves DEF Producers, Under
<1>4. /\ Len(pipe) = 0 /\ Under("ros") = 0 /\ Under("server") = 0
      /\ messages = accepted
  BY <1>1, <1>2, <1>3
<1>5. Drained
  BY <1>1, <1>4, SeqMoves DEF Drained, Producers, Under
<1> QED
  BY <1>1, <1>4, <1>5

(* The file is handed on as closed, or as failed.                          *)
LEMMA JoinStep ==
  ASSUME OneCaller, FilesInv, NEW c \in Callers, Join(c)
  PROVE  FilesInv'
<1>0. /\ PipelineTypeOK /\ CallerPlace /\ OneWriter /\ DrainedBefore /\ Conserved /\ ClosedIsComplete
  BY DEF FilesInv
<1>1. /\ UNCHANGED <<path, accepting, accepted, messages, bytes, feeder, pipe, offered, taken,
                     finish, opened, writer, file, subscriber>>
      /\ At = "join" /\ c = Caller /\ process' = 0
  BY <1>0, CallMoves DEF Join, At, ingress, writing
<1>2. /\ process = path /\ path # 0 /\ path \in Captures /\ job[path] = "capturing" /\ ~accepting
      /\ writer[path] \in {"dead", "ended"} /\ job \in [Captures -> {"none", "capturing", "closed", "failed"}]
  <2>1. process = path /\ path # 0 /\ path \in Captures /\ call[c].of = path /\ ~accepting
    BY <1>0, <1>1, TypeFields DEF CallerPlace
  <2>2. job[path] = "capturing" /\ writer[path] # "none" /\ writer[path] \notin Live
    BY <1>0, <2>1 DEF OneWriter, Join
  <2> QED
    BY <1>0, <2>1, <2>2 DEF PipelineTypeOK, WritingTypes, RecorderTypes
<1>3. /\ job' = [job EXCEPT ![path] = IF writer[path] = "ended" THEN "closed" ELSE "failed"]
  BY <1>0, <1>1, <1>2 DEF Join, CallerPlace
<1>4. call' \in [Callers -> Calls] /\ At' \in {"idle", "open"}
  <2>1. "open" \in Steps
    BY DEF Steps
  <2> QED
    BY <1>0, <2>1, CallMoves DEF Join
<1>5. PipelineTypeOK'
  BY <1>0, <1>1, <1>2, <1>3, <1>4
     DEF PipelineTypeOK, RecorderTypes, IngressTypes, WritingTypes, SubscriberTypes, subscriber
<1>6. CallerPlace'
  BY <1>1, <1>2, <1>4 DEF CallerPlace
<1>7. /\ job'[path] \in {"closed", "failed"} /\ (job'[path] = "closed" => writer[path] = "ended")
      /\ \A k \in Captures : k # path => job'[k] = job[k]
  BY <1>2, <1>3
<1>8. OneWriter'
  <2>1. \A k \in Captures : writer'[k] \notin Live
    BY <1>0, <1>1, <1>2 DEF OneWriter, Live
  <2>2. \A k \in Captures :
          /\ k > path => writer[k] = "none" /\ job'[k] = "none"
          /\ job'[k] = "closed" => writer[k] = "ended"
    BY <1>0, <1>2, <1>7, TypeFields DEF OneWriter
  <2> QED
    BY <1>0, <1>1, <1>2, <2>1, <2>2 DEF OneWriter
<1>9. \A k \in Captures : k <= path => (Clean(k)' <=> Clean(k))
  <2> TAKE k \in Captures
  <2>1. ASSUME k <= path, NEW i \in 1..(k - 1) PROVE i \in Captures /\ i # path
    BY <1>2, <2>1, TypeFields, <1>0 DEF Captures
  <2> QED
    BY <1>7, <2>1 DEF Clean
<1>10. DrainedBefore'
  <2>1. CleanSoFar' => Drained
    BY <1>0, <1>1, <1>2, <1>7, <1>9, EndedIsWhole, TypeFields DEF CleanSoFar
  <2> QED
    BY <1>1, <1>4, <2>1 DEF DrainedBefore, Drained
<1>11. Conserved'
  <2>1. Clean(path)' <=> Clean(path)
    BY <1>1, <1>2, <1>9, TypeFields, <1>0
  <2> QED
    BY <1>0, <1>1, <2>1 DEF Conserved, Under
<1>12. ClosedIsComplete'
  <2> SUFFICES ASSUME NEW k \in Captures, job'[k] = "closed", Clean(k)'
               PROVE  file[k] = [own |-> taken[k], other |-> 0]
    BY <1>1 DEF ClosedIsComplete
  <2>1. k <= path
    BY <1>0, <1>2, <1>7, TypeFields DEF OneWriter
  <2>2. Clean(k)
    BY <1>9, <2>1
  <2>3. CASE k = path
    BY <1>2, <1>7, <2>2, <2>3, EndedIsWhole
  <2>4. CASE k # path
    BY <1>0, <1>7, <2>2, <2>4 DEF ClosedIsComplete
  <2> QED
    BY <2>3, <2>4
<1> QED
  BY <1>5, <1>6, <1>8, <1>10, <1>11, <1>12 DEF FilesInv

(* The next file; nothing is under way to it.                              *)
LEMMA OpenStep ==
  ASSUME OneCaller, FilesInv, NEW c \in Callers, Open(c)
  PROVE  FilesInv'
<1>0. /\ PipelineTypeOK /\ CallerPlace /\ OneWriter /\ DrainedBefore /\ Conserved /\ ClosedIsComplete
  BY DEF FilesInv
<1>1. /\ UNCHANGED <<process, accepting, accepted, messages, bytes, feeder, pipe, offered, taken,
                     finish, opened, writer, file, subscriber>>
      /\ At = "open" /\ ~accepting /\ process = 0
  BY <1>0, CallMoves DEF Open, At, ingress, writing, CallerPlace
<1>2. CASE path = MaxCaptures
  <2>1. Return(c) /\ UNCHANGED <<path, process, job, ingress, writing>>
    BY <1>2 DEF Open
  <2>2. call' \in [Callers -> Calls] /\ At' = "idle"
    BY <1>0, <2>1, CallMoves
  <2>3. CallerPlace' /\ SubscriberTypes'
    BY <1>0, <1>1, <2>2 DEF CallerPlace, PipelineTypeOK, SubscriberTypes, subscriber
  <2> QED
    BY <2>1, <2>2, <2>3, NothingRecorded
<1>3. CASE path # MaxCaptures
  <2>1. path' = path + 1 /\ job' = [job EXCEPT ![path + 1] = "capturing"] /\ Go(c, "spawn")
    BY <1>3 DEF Open
  <2>2. /\ path \in Nat /\ path + 1 \in Captures /\ path + 1 \in 0..MaxCaptures /\ path + 1 # 0
        /\ path + 1 > path
    BY <1>0, <1>3, TypeFields DEF Captures
  <2>3. call' \in [Callers -> Calls] /\ At' = "spawn"
    <3>1. "spawn" \in Steps
      BY DEF Steps
    <3> QED
      BY <1>0, <2>1, <3>1, CallMoves
  <2>4. /\ writer[path + 1] = "none" /\ job'[path + 1] = "capturing"
        /\ \A k \in Captures : k # path + 1 => job'[k] = job[k]
    BY <1>0, <2>1, <2>2 DEF OneWriter, PipelineTypeOK, RecorderTypes
  <2>5. PipelineTypeOK'
    BY <1>0, <1>1, <2>1, <2>2, <2>3
       DEF PipelineTypeOK, RecorderTypes, IngressTypes, WritingTypes, SubscriberTypes, subscriber
  <2>6. CallerPlace'
    BY <1>1, <2>1, <2>2, <2>3, <2>4 DEF CallerPlace
  <2>7. OneWriter'
    <3>1. \A k \in Captures :
            /\ k > path + 1 => writer[k] = "none" /\ job'[k] = "none"
            /\ job'[k] = "closed" => writer[k] = "ended"
      BY <1>0, <2>2, <2>4, TypeFields DEF OneWriter
    <3> QED
      BY <1>0, <1>1, <2>1, <2>4, <3>1 DEF OneWriter
  <2>8. \A k \in Captures : k <= path + 1 => (Clean(k)' <=> Clean(k))
    <3> TAKE k \in Captures
    <3>1. ASSUME k <= path + 1, NEW i \in 1..(k - 1) PROVE i \in Captures /\ i # path + 1
      BY <1>0, <2>2, <3>1, TypeFields DEF Captures
    <3> QED
      BY <2>4, <3>1 DEF Clean
  <2>9. Clean(path + 1) => CleanSoFar
    <3> SUFFICES ASSUME Clean(path + 1) PROVE CleanSoFar
      OBVIOUS
    <3>1. \A i \in 1..(path - 1) : i \in 1..((path + 1) - 1)
      BY <2>2
    <3>2. path # 0 => path \in 1..((path + 1) - 1)
      BY <2>2
    <3> QED
      BY <3>1, <3>2 DEF Clean, CleanSoFar
  <2>10. DrainedBefore'
    <3>1. Clean(path)' => Drained
      BY <1>0, <1>1, <2>1, <2>2, <2>8, <2>9 DEF DrainedBefore
    <3> QED
      BY <1>1, <2>3, <3>1 DEF DrainedBefore, Drained, CleanSoFar
  <2>11. Conserved'
    BY <1>1, <2>1, <2>4 DEF Conserved, Live
  <2>12. ClosedIsComplete'
    <3> SUFFICES ASSUME NEW k \in Captures, job'[k] = "closed", Clean(k)'
                 PROVE  file[k] = [own |-> taken[k], other |-> 0]
      BY <1>1 DEF ClosedIsComplete
    <3>1. k # path + 1 /\ job[k] = "closed"
      BY <2>4
    <3>2. k <= path
      BY <1>0, <3>1, TypeFields DEF OneWriter
    <3> QED
      BY <1>0, <2>2, <2>8, <3>1, <3>2, TypeFields DEF ClosedIsComplete
  <2> QED
    BY <2>5, <2>6, <2>7, <2>10, <2>11, <2>12 DEF FilesInv
<1> QED
  BY <1>2, <1>3

(* The writer is started with an empty queue and counters at zero.         *)
LEMMA SpawnStep ==
  ASSUME OneCaller, FilesInv, NEW c \in Callers, Spawn(c)
  PROVE  FilesInv'
<1>0. /\ PipelineTypeOK /\ CallerPlace /\ OneWriter /\ DrainedBefore /\ Conserved /\ ClosedIsComplete
  BY DEF FilesInv
<1>1. /\ UNCHANGED <<path, job, accepting, feeder, offered, taken, file, subscriber>>
      /\ At = "spawn" /\ ~accepting /\ process = 0 /\ path # 0 /\ writer[path] = "none"
      /\ job[path] = "capturing" /\ path \in Captures
      /\ pipe' = <<>> /\ accepted' = 0 /\ messages' = 0 /\ bytes' = 0
      /\ opened' = FALSE /\ finish' = FALSE /\ process' = path
      /\ writer' = [writer EXCEPT ![path] = "opening"]
  BY <1>0, CallMoves, TypeFields DEF Spawn, At, CallerPlace
<1>2. call' \in [Callers -> Calls] /\ At' = "wait"
  <2>1. "wait" \in Steps
    BY DEF Steps
  <2> QED
    BY <1>0, <2>1, CallMoves DEF Spawn
<1>3. /\ writer'[path] = "opening" /\ \A k \in Captures : k # path => writer'[k] = writer[k]
      /\ writer' \in [Captures -> Live \cup {"none", "dead", "ended"}]
  BY <1>0, <1>1 DEF PipelineTypeOK, WritingTypes, Live
<1>4. PipelineTypeOK'
  <2>1. IngressTypes'
    <3>1. <<>> \in Seq(Captures)
      OBVIOUS
    <3> QED
      BY <1>0, <1>1, <3>1 DEF PipelineTypeOK, IngressTypes
  <2> QED
    BY <1>0, <1>1, <1>2, <1>3, <2>1
       DEF PipelineTypeOK, RecorderTypes, WritingTypes, SubscriberTypes, subscriber
<1>5. CallerPlace'
  BY <1>1, <1>2 DEF CallerPlace
<1>6. OneWriter'
  <2>1. \A k \in Captures : writer'[k] \in Live => k = process'
    BY <1>0, <1>1, <1>3, TypeFields DEF OneWriter
  <2>2. \A k \in Captures :
          /\ k > path => writer'[k] = "none" /\ job[k] = "none"
          /\ job[k] = "closed" => writer'[k] = "ended"
          /\ writer'[k] = "none" => taken[k] = 0 /\ file[k] = [own |-> 0, other |-> 0]
    BY <1>0, <1>1, <1>3, TypeFields DEF OneWriter
  <2> QED
    BY <1>1, <1>3, <2>1, <2>2 DEF OneWriter
<1>7. Clean(path) => Drained
  BY <1>0, <1>1 DEF DrainedBefore, CleanSoFar
<1>8. DrainedBefore'
  BY <1>1, <1>2, <1>7 DEF DrainedBefore, Drained, Clean
<1>9. Conserved'
  <2> SUFFICES ASSUME Clean(path)
               PROVE  /\ pipe' \in Seq({path}) /\ \A p \in Producers : feeder[p] \in Seq({path})
                      /\ accepted' = taken[path] /\ file[path] = [own |-> messages', other |-> 0]
                      /\ accepted' = messages' + Len(pipe') + Under("ros") + Under("server")
    BY <1>1 DEF Conserved, Clean, Under
  <2>1. <<>> \in Seq({path}) /\ Len(<<>>) = 0
    OBVIOUS
  <2>2. pipe' = <<>> /\ \A p \in Producers : feeder[p] = <<>>
    BY <1>1, <1>7 DEF Drained
  <2>3. taken[path] = 0 /\ file[path] = [own |-> 0, other |-> 0]
    BY <1>0, <1>1 DEF OneWriter
  <2>4. pipe' = <<>> /\ feeder["ros"] = <<>> /\ feeder["server"] = <<>>
    BY <2>2 DEF Producers
  <2>5. accepted' = messages' + Len(pipe') + Under("ros") + Under("server")
    <3>1. Under("ros") = 0 /\ Under("server") = 0
      BY <2>1, <2>4 DEF Under
    <3> QED
      BY <1>1, <2>1, <2>4, <3>1
  <2> QED
    BY <1>1, <2>1, <2>2, <2>3, <2>5
<1>10. ClosedIsComplete'
  BY <1>0, <1>1 DEF ClosedIsComplete, Clean
<1> QED
  BY <1>4, <1>5, <1>6, <1>8, <1>9, <1>10 DEF FilesInv

(* The writer has opened its file, or the capture is given up.             *)
LEMMA WaitStep ==
  ASSUME OneCaller, FilesInv, NEW c \in Callers, Wait(c)
  PROVE  FilesInv'
<1>0. /\ PipelineTypeOK /\ CallerPlace /\ OneWriter /\ DrainedBefore /\ Conserved /\ ClosedIsComplete
  BY DEF FilesInv
<1>1. /\ UNCHANGED <<path, job, accepting, accepted, messages, bytes, feeder, pipe, offered, taken,
                     finish, opened, file, subscriber>>
      /\ At = "wait" /\ ~accepting /\ process = path /\ path # 0 /\ ~finish
      /\ path \in Captures
  BY <1>0, CallMoves, TypeFields DEF Wait, At, CallerPlace, ingress
<1>2. job[path] = "capturing" /\ (Clean(path) => Drained)
  BY <1>0, <1>1 DEF OneWriter, DrainedBefore
<1>3. CASE opened /\ writer[path] = "writing" /\ Go(c, "accept") /\ UNCHANGED <<process, writer>>
  <2>1. call' \in [Callers -> Calls] /\ At' = "accept"
    <3>1. "accept" \in Steps
      BY DEF Steps
    <3> QED
      BY <1>0, <1>3, <3>1, CallMoves
  <2>2. PipelineTypeOK'
    BY <1>0, <1>1, <1>3, <2>1
       DEF PipelineTypeOK, RecorderTypes, IngressTypes, WritingTypes, SubscriberTypes, subscriber
  <2>3. CallerPlace'
    BY <1>1, <1>3, <2>1 DEF CallerPlace
  <2>4. OneWriter' /\ Conserved' /\ ClosedIsComplete'
    BY <1>0, <1>1, <1>3 DEF OneWriter, Conserved, ClosedIsComplete, Clean, Under
  <2>5. DrainedBefore'
    BY <1>1, <1>2, <1>3 DEF DrainedBefore, Drained, CleanSoFar, Clean
  <2> QED
    BY <2>2, <2>3, <2>4, <2>5 DEF FilesInv
<1>4. CASE /\ process' = 0 /\ Return(c)
           /\ \/ opened /\ writer[path] # "writing" /\ writer' = writer
              \/ ~opened /\ writer' = [writer EXCEPT ![path] = "dead"]
  <2>1. call' \in [Callers -> Calls] /\ At' = "idle"
    BY <1>0, <1>4, CallMoves
  <2>2. /\ writer' \in [Captures -> Live \cup {"none", "dead", "ended"}]
        /\ writer'[path] \notin Live /\ writer'[path] # "none"
        /\ writer'[path] \in {writer[path], "dead"}
        /\ \A k \in Captures : k # path => writer'[k] = writer[k]
    <3>1. /\ writer \in [Captures -> Live \cup {"none", "dead", "ended"}]
          /\ writer[path] # "none" /\ (opened => writer[path] # "opening")
      BY <1>0, <1>1 DEF PipelineTypeOK, WritingTypes, OneWriter
    <3>2. CASE opened /\ writer[path] # "writing" /\ writer' = writer
      BY <3>1, <3>2 DEF Live
    <3>3. CASE ~opened /\ writer' = [writer EXCEPT ![path] = "dead"]
      BY <1>1, <3>1, <3>3 DEF Live
    <3> QED
      BY <1>4, <3>2, <3>3
  <2>3. PipelineTypeOK'
    BY <1>0, <1>1, <1>4, <2>1, <2>2
       DEF PipelineTypeOK, RecorderTypes, IngressTypes, WritingTypes, SubscriberTypes, subscriber
  <2>4. CallerPlace'
    BY <1>1, <1>4, <2>1 DEF CallerPlace
  <2>5. OneWriter'
    <3>1. \A k \in Captures : writer'[k] \notin Live
      BY <1>0, <1>1, <2>2 DEF OneWriter
    <3>2. \A k \in Captures :
            /\ k > path => writer'[k] = "none" /\ job[k] = "none"
            /\ job[k] = "closed" => writer'[k] = "ended"
            /\ writer'[k] = "none" => taken[k] = 0 /\ file[k] = [own |-> 0, other |-> 0]
      BY <1>0, <1>1, <1>2, <2>2, TypeFields DEF OneWriter
    <3>3. writer'[path] = "ended" => finish /\ messages >= accepted
      BY <1>0, <1>1, <2>2 DEF OneWriter
    <3> QED
      BY <1>1, <1>4, <3>1, <3>2, <3>3 DEF OneWriter
  <2>6. DrainedBefore'
    BY <1>1, <1>2, <2>1 DEF DrainedBefore, Drained, CleanSoFar, Clean
  <2>7. Conserved'
    <3>1. writer'[path] = "ended" => writer[path] = "ended"
      BY <2>2
    <3> QED
      BY <1>0, <1>1, <2>2, <3>1 DEF Conserved, Clean, Under
  <2>8. ClosedIsComplete'
    BY <1>0, <1>1 DEF ClosedIsComplete, Clean
  <2> QED
    BY <2>3, <2>4, <2>5, <2>6, <2>7, <2>8 DEF FilesInv
<1> QED
  BY <1>1, <1>3, <1>4 DEF Wait

LEMMA AcceptStep ==
  ASSUME OneCaller, FilesInv, NEW c \in Callers, Accept(c)
  PROVE  FilesInv'
<1>0. /\ PipelineTypeOK /\ CallerPlace /\ OneWriter /\ DrainedBefore /\ Conserved /\ ClosedIsComplete
  BY DEF FilesInv
<1>1. /\ UNCHANGED <<path, process, job, accepted, messages, bytes, feeder, pipe, offered, taken,
                     finish, opened, writer, file, subscriber>>
      /\ At = "accept" /\ process = path /\ path # 0 /\ ~finish /\ accepting' = TRUE
      /\ writer[path] # "opening"
  BY <1>0, CallMoves, TypeFields DEF Accept, At, CallerPlace, writing
<1>2. call' \in [Callers -> Calls] /\ At' = "idle"
  BY <1>0, CallMoves DEF Accept
<1>3. PipelineTypeOK'
  BY <1>0, <1>1, <1>2
     DEF PipelineTypeOK, RecorderTypes, IngressTypes, WritingTypes, SubscriberTypes, subscriber
<1>4. CallerPlace'
  BY <1>1, <1>2 DEF CallerPlace
<1>5. OneWriter'
  BY <1>0, <1>1 DEF OneWriter
<1>6. DrainedBefore'
  BY <1>1, <1>2 DEF DrainedBefore
<1>7. Conserved' /\ ClosedIsComplete'
  BY <1>0, <1>1 DEF Conserved, ClosedIsComplete, Clean, Under
<1> QED
  BY <1>3, <1>4, <1>5, <1>6, <1>7 DEF FilesInv

---------------------------------------------------------------------------
(* The messages.                                                           *)

(* What the actions of the queue and of the writer leave alone.            *)
LEMMA SameCall ==
  ASSUME OneCaller, FilesInv, UNCHANGED <<recorder, accepting, offered, finish, subscriber>>
         \/ UNCHANGED <<recorder, accepting, finish, subscriber>>
  PROVE  /\ At' = At /\ call' = call /\ path' = path /\ process' = process /\ job' = job
         /\ RecorderTypes' /\ SubscriberTypes'
         /\ \A k : Clean(k)' <=> Clean(k)
<1>1. UNCHANGED <<call, path, process, job, sub, inputs, seen, lease, reset, ready>>
  BY DEF recorder, subscriber
<1> QED
  BY <1>1 DEF At, Clean, FilesInv, PipelineTypeOK, RecorderTypes, SubscriberTypes

LEMMA RecordStep ==
  ASSUME OneCaller, FilesInv, NEW p \in Producers, Record(p)
  PROVE  FilesInv'
<1>0. /\ PipelineTypeOK /\ CallerPlace /\ OneWriter /\ DrainedBefore /\ Conserved /\ ClosedIsComplete
  BY DEF FilesInv
<1>1. /\ UNCHANGED <<recorder, accepting, messages, pipe, finish, opened, writer, file, subscriber>>
      /\ accepting /\ offered' = offered + 1
  BY DEF Record, writing
<1>2. /\ At' = At /\ call' = call /\ path' = path /\ process' = process /\ job' = job
      /\ RecorderTypes' /\ SubscriberTypes' /\ \A k : Clean(k)' <=> Clean(k)
  BY <1>1, SameCall
<1>3. /\ process = path /\ path # 0 /\ path \in Captures /\ At \notin {"wait", "accept"}
      /\ job[path] = "capturing" /\ writer[path] \notin {"none", "ended"} /\ offered + 1 \in Nat
  <2>1. process = path /\ path # 0 /\ path \in Captures /\ At \notin {"wait", "accept"} /\ ~finish
    BY <1>0, <1>1, TypeFields DEF OneWriter, CallerPlace
  <2>2. offered + 1 \in Nat
    BY <1>0, TypeFields
  <2> QED
    BY <1>0, <2>1, <2>2 DEF OneWriter
<1>4. CallerPlace'
  BY <1>0, <1>1, <1>2 DEF CallerPlace
<1>5. DrainedBefore'
  BY <1>2, <1>3 DEF DrainedBefore
<1>6. CASE UNCHANGED <<feeder, bytes, accepted, taken>>
  <2>1. IngressTypes' /\ WritingTypes'
    BY <1>0, <1>1, <1>3, <1>6 DEF PipelineTypeOK, IngressTypes, WritingTypes
  <2>2. OneWriter' /\ Conserved' /\ ClosedIsComplete'
    BY <1>0, <1>1, <1>2, <1>6 DEF OneWriter, Conserved, ClosedIsComplete, Under
  <2> QED
    BY <1>2, <1>4, <1>5, <2>1, <2>2 DEF FilesInv, PipelineTypeOK
<1>7. CASE /\ feeder' = [feeder EXCEPT ![p] = Append(@, path)]
           /\ bytes' = bytes + 1 /\ accepted' = accepted + 1
           /\ taken' = [taken EXCEPT ![path] = @ + 1]
  <2>1. accepted + 1 \in Nat /\ bytes + 1 \in Int /\ taken[path] + 1 \in Nat
    BY <1>0, <1>3, TypeFields
  <2>2. /\ feeder \in [Producers -> Seq(Captures)] /\ taken \in [Captures -> Nat]
        /\ taken'[path] = taken[path] + 1
        /\ \A k \in Captures : k # path => taken'[k] = taken[k]
        /\ feeder'[p] = Append(feeder[p], path)
        /\ \A q \in Producers : q # p => feeder'[q] = feeder[q]
    BY <1>0, <1>3, <1>7 DEF PipelineTypeOK, IngressTypes
  <2>3. IngressTypes' /\ WritingTypes'
    <3>1. Append(feeder[p], path) \in Seq(Captures)
      BY <1>3, <2>2, SeqMoves
    <3>2. feeder' \in [Producers -> Seq(Captures)] /\ taken' \in [Captures -> Nat]
      BY <1>7, <2>1, <2>2, <3>1
    <3> QED
      BY <1>0, <1>1, <1>3, <1>7, <2>1, <3>2 DEF PipelineTypeOK, IngressTypes, WritingTypes
  <2>4. OneWriter'
    BY <1>0, <1>1, <1>2, <1>3, <2>2 DEF OneWriter
  <2>5. Conserved'
    <3> SUFFICES ASSUME Clean(path), writer[path] \in Live
                 PROVE  /\ pipe \in Seq({path}) /\ \A q \in Producers : feeder'[q] \in Seq({path})
                        /\ accepted' = taken'[path] /\ file[path] = [own |-> messages, other |-> 0]
                        /\ accepted' = messages + Len(pipe) + Under("ros")' + Under("server")'
      BY <1>1, <1>2, <1>3 DEF Conserved
    <3>1. /\ pipe \in Seq({path}) /\ \A q \in Producers : feeder[q] \in Seq({path})
          /\ accepted = taken[path] /\ file[path] = [own |-> messages, other |-> 0]
          /\ accepted = messages + Len(pipe) + Under("ros") + Under("server")
      BY <1>0, <1>3 DEF Conserved
    <3>2. /\ Append(feeder[p], path) \in Seq({path})
          /\ Len(Append(feeder[p], path)) = Len(feeder[p]) + 1
      BY <3>1, SeqMoves
    <3>3. \A q \in Producers : feeder'[q] \in Seq({path})
      BY <2>2, <3>1, <3>2
    <3>4. Under("ros")' + Under("server")' = Under("ros") + Under("server") + 1
      <4>1. Under("ros") \in Nat /\ Under("server") \in Nat
        BY <3>1, SeqMoves DEF Producers, Under
      <4>2. \/ p = "ros" /\ "server" \in Producers /\ "server" # p
            \/ p = "server" /\ "ros" \in Producers /\ "ros" # p
        BY DEF Producers
      <4>3. \/ /\ Under("ros")' = Under("ros") + 1
               /\ Under("server")' = Under("server")
            \/ /\ Under("ros")' = Under("ros")
               /\ Under("server")' = Under("server") + 1
        BY <2>2, <3>2, <4>2 DEF Under
      <4>4. Under("ros")' \in Nat /\ Under("server")' \in Nat
        BY <3>3, SeqMoves DEF Producers, Under
      <4> QED
        BY <4>1, <4>3, <4>4
    <3>5. /\ Len(pipe) \in Nat /\ messages \in Nat /\ accepted \in Nat
          /\ Under("ros") \in Nat /\ Under("server") \in Nat
          /\ Under("ros")' \in Nat /\ Under("server")' \in Nat
      <4>1. "ros" \in Producers /\ "server" \in Producers
        BY DEF Producers
      <4> QED
        BY <1>0, <3>1, <3>3, <4>1, SeqMoves, TypeFields DEF Under
    <3>6. accepted + 1 = messages + Len(pipe) + Under("ros")' + Under("server")'
      BY <3>1, <3>4, <3>5
    <3> QED
      BY <1>7, <2>2, <3>1, <3>3, <3>6
  <2>6. ClosedIsComplete'
    BY <1>0, <1>1, <1>2, <1>3, <2>2 DEF ClosedIsComplete
  <2> QED
    BY <1>2, <1>4, <1>5, <2>3, <2>4, <2>5, <2>6 DEF FilesInv, PipelineTypeOK
<1> QED
  BY <1>6, <1>7 DEF Record, Enqueue

LEMMA FlushStep ==
  ASSUME OneCaller, FilesInv, NEW p \in Producers, Flush(p)
  PROVE  FilesInv'
<1>0. /\ PipelineTypeOK /\ CallerPlace /\ OneWriter /\ DrainedBefore /\ Conserved /\ ClosedIsComplete
  BY DEF FilesInv
<1>1. /\ UNCHANGED <<recorder, accepting, accepted, messages, bytes, offered, taken, finish, opened,
                     writer, file, subscriber>>
      /\ feeder[p] # <<>> /\ pipe' = Append(pipe, Head(feeder[p]))
      /\ feeder' = [feeder EXCEPT ![p] = Tail(@)]
  BY DEF Flush, writing
<1>2. /\ At' = At /\ call' = call /\ path' = path /\ process' = process /\ job' = job
      /\ RecorderTypes' /\ SubscriberTypes' /\ \A k : Clean(k)' <=> Clean(k)
  BY <1>1, SameCall
<1>3. /\ feeder \in [Producers -> Seq(Captures)] /\ pipe \in Seq(Captures)
      /\ feeder'[p] = Tail(feeder[p])
      /\ \A q \in Producers : q # p => feeder'[q] = feeder[q]
  BY <1>0, <1>1 DEF PipelineTypeOK, IngressTypes
<1>4. IngressTypes' /\ WritingTypes'
  <2>1. Tail(feeder[p]) \in Seq(Captures) /\ Append(pipe, Head(feeder[p])) \in Seq(Captures)
    BY <1>1, <1>3, SeqMoves
  <2>2. feeder' \in [Producers -> Seq(Captures)]
    BY <1>1, <1>3, <2>1
  <2> QED
    BY <1>0, <1>1, <2>1, <2>2 DEF PipelineTypeOK, IngressTypes, WritingTypes
<1>5. CallerPlace' /\ OneWriter' /\ ClosedIsComplete'
  BY <1>0, <1>1, <1>2 DEF CallerPlace, OneWriter, ClosedIsComplete
<1>6. ~Drained
  BY <1>1 DEF Drained
<1>7. DrainedBefore'
  BY <1>0, <1>2, <1>6 DEF DrainedBefore, CleanSoFar
<1>8. Conserved'
  <2> SUFFICES ASSUME path # 0, Clean(path), writer[path] \in Live \cup {"ended"}
               PROVE  /\ pipe' \in Seq({path}) /\ \A q \in Producers : feeder'[q] \in Seq({path})
                      /\ accepted = taken[path] /\ file[path] = [own |-> messages, other |-> 0]
                      /\ accepted = messages + Len(pipe') + Under("ros")' + Under("server")'
    BY <1>1, <1>2 DEF Conserved
  <2>1. /\ pipe \in Seq({path}) /\ \A q \in Producers : feeder[q] \in Seq({path})
        /\ accepted = taken[path] /\ file[path] = [own |-> messages, other |-> 0]
        /\ accepted = messages + Len(pipe) + Under("ros") + Under("server")
    BY <1>0 DEF Conserved
  <2>2. /\ Head(feeder[p]) \in {path} /\ Tail(feeder[p]) \in Seq({path})
        /\ Len(Tail(feeder[p])) = Len(feeder[p]) - 1
    BY <1>1, <2>1, SeqMoves
  <2>3. pipe' \in Seq({path}) /\ Len(pipe') = Len(pipe) + 1
    BY <1>1, <2>1, <2>2, SeqMoves
  <2>4. \A q \in Producers : feeder'[q] \in Seq({path})
    BY <1>3, <2>1, <2>2
  <2>5. /\ Len(pipe) \in Nat /\ messages \in Nat /\ accepted \in Nat
        /\ Under("ros") \in Nat /\ Under("server") \in Nat
        /\ Under("ros")' \in Nat /\ Under("server")' \in Nat
    <3>1. "ros" \in Producers /\ "server" \in Producers
      BY DEF Producers
    <3> QED
      BY <1>0, <2>1, <2>4, <3>1, SeqMoves, TypeFields DEF Under
  <2>6. Under("ros")' + Under("server")' = Under("ros") + Under("server") - 1
    <3>1. \/ p = "ros" /\ "server" \in Producers /\ "server" # p
          \/ p = "server" /\ "ros" \in Producers /\ "ros" # p
      BY DEF Producers
    <3>2. \/ /\ Under("ros")' = Under("ros") - 1
             /\ Under("server")' = Under("server")
          \/ /\ Under("ros")' = Under("ros")
             /\ Under("server")' = Under("server") - 1
      BY <1>3, <2>2, <3>1 DEF Under
    <3> QED
      BY <2>5, <3>2
  <2>7. Len(pipe') \in Nat
    BY <2>3, <2>5
  <2>8. accepted = messages + Len(pipe') + Under("ros")' + Under("server")'
    BY <2>1, <2>3, <2>5, <2>6, <2>7
  <2> QED
    BY <2>1, <2>3, <2>4, <2>8
<1> QED
  BY <1>2, <1>4, <1>5, <1>7, <1>8 DEF FilesInv, PipelineTypeOK

---------------------------------------------------------------------------
(* The writers.                                                            *)

LEMMA WriterOpensStep ==
  ASSUME OneCaller, FilesInv, NEW k \in Captures, WriterOpens(k)
  PROVE  FilesInv'
<1>0. /\ PipelineTypeOK /\ CallerPlace /\ OneWriter /\ DrainedBefore /\ Conserved /\ ClosedIsComplete
  BY DEF FilesInv
<1>1. /\ UNCHANGED <<recorder, accepting, accepted, messages, bytes, feeder, pipe, offered, taken,
                     finish, file, subscriber>>
      /\ writer[k] = "opening" /\ opened' = TRUE
  BY DEF WriterOpens, ingress
<1>2. PICK end \in {"writing", "dead"} : writer' = [writer EXCEPT ![k] = end]
  BY DEF WriterOpens
<1>3. /\ At' = At /\ call' = call /\ path' = path /\ process' = process /\ job' = job
      /\ RecorderTypes' /\ SubscriberTypes' /\ \A n : Clean(n)' <=> Clean(n)
  BY <1>1, SameCall
<1>4. k = process /\ process = path /\ path # 0 /\ job[path] = "capturing"
  BY <1>0, <1>1, TypeFields DEF OneWriter, Live
<1>5. /\ writer'[path] = end /\ \A n \in Captures : n # path => writer'[n] = writer[n]
      /\ writer' \in [Captures -> Live \cup {"none", "dead", "ended"}]
  BY <1>0, <1>2, <1>4 DEF PipelineTypeOK, WritingTypes, Live
<1>6. IngressTypes' /\ WritingTypes'
  BY <1>0, <1>1, <1>5 DEF PipelineTypeOK, IngressTypes, WritingTypes
<1>7. CallerPlace'
  BY <1>0, <1>1, <1>3, <1>4, <1>5 DEF CallerPlace
<1>8. OneWriter'
  <2>1. \A n \in Captures :
          /\ writer'[n] \in Live => n = process
          /\ n > path => writer'[n] = "none" /\ job[n] = "none"
          /\ job[n] = "closed" => writer'[n] = "ended"
          /\ writer'[n] = "none" => taken[n] = 0 /\ file[n] = [own |-> 0, other |-> 0]
    BY <1>0, <1>4, <1>5, TypeFields DEF OneWriter
  <2> QED
    BY <1>0, <1>1, <1>3, <1>4, <1>5, <2>1 DEF OneWriter
<1>9. DrainedBefore'
  BY <1>0, <1>1, <1>3 DEF DrainedBefore, Drained, CleanSoFar
<1>10. Conserved'
  BY <1>0, <1>1, <1>3, <1>4, <1>5 DEF Conserved, Live, Under
<1>11. ClosedIsComplete'
  BY <1>0, <1>1, <1>3 DEF ClosedIsComplete
<1> QED
  BY <1>3, <1>6, <1>7, <1>8, <1>9, <1>10, <1>11 DEF FilesInv, PipelineTypeOK

(* A message goes from the pipe into the file of the running writer.       *)
LEMMA WritesStep ==
  ASSUME OneCaller, FilesInv, NEW k \in Captures, Writes(k)
  PROVE  FilesInv'
<1>0. /\ PipelineTypeOK /\ CallerPlace /\ OneWriter /\ DrainedBefore /\ Conserved /\ ClosedIsComplete
  BY DEF FilesInv
<1>1. /\ UNCHANGED <<recorder, accepting, accepted, feeder, offered, taken, finish, opened, writer,
                     subscriber>>
      /\ writer[k] = "writing" /\ pipe # <<>> /\ pipe' = Tail(pipe)
      /\ messages' = messages + 1 /\ bytes' = bytes - 1
  BY DEF Writes
<1>2. /\ At' = At /\ call' = call /\ path' = path /\ process' = process /\ job' = job
      /\ RecorderTypes' /\ SubscriberTypes' /\ \A n : Clean(n)' <=> Clean(n)
  BY <1>1, SameCall
<1>3. k = process /\ process = path /\ path # 0 /\ job[path] = "capturing"
  BY <1>0, <1>1, TypeFields DEF OneWriter, Live
<1>4. /\ pipe \in Seq(Captures) /\ file \in [Captures -> Counts]
      /\ messages + 1 \in Nat /\ bytes - 1 \in Int /\ messages \in Nat
  <2>1. messages + 1 \in Nat /\ bytes - 1 \in Int /\ messages \in Nat
    BY <1>0, TypeFields
  <2> QED
    BY <1>0, <2>1 DEF PipelineTypeOK, IngressTypes, WritingTypes
<1>5. /\ file' \in [Captures -> Counts] /\ \A n \in Captures : n # k => file'[n] = file[n]
      /\ Head(pipe) = k => file'[k] = [file[k] EXCEPT !.own = @ + 1]
  <2>1. file[k] \in Counts /\ file[k].own + 1 \in Nat /\ file[k].other + 1 \in Nat
    BY <1>4 DEF Counts
  <2>2. /\ [file[k] EXCEPT !.own = @ + 1] \in Counts /\ [file[k] EXCEPT !.other = @ + 1] \in Counts
    BY <2>1 DEF Counts
  <2>3. \/ Head(pipe) = k /\ file' = [file EXCEPT ![k] = [file[k] EXCEPT !.own = @ + 1]]
        \/ Head(pipe) # k /\ file' = [file EXCEPT ![k] = [file[k] EXCEPT !.other = @ + 1]]
    BY <1>4 DEF Writes
  <2> QED
    BY <1>4, <2>2, <2>3
<1>6. IngressTypes' /\ WritingTypes'
  <2>1. Tail(pipe) \in Seq(Captures)
    BY <1>1, <1>4, SeqMoves
  <2> QED
    BY <1>0, <1>1, <1>4, <1>5, <2>1 DEF PipelineTypeOK, IngressTypes, WritingTypes
<1>7. CallerPlace'
  BY <1>0, <1>1, <1>2 DEF CallerPlace
<1>8. OneWriter'
  BY <1>0, <1>1, <1>2, <1>3, <1>5 DEF OneWriter
<1>9. ~Drained
  BY <1>1 DEF Drained
<1>10. DrainedBefore'
  BY <1>0, <1>2, <1>3, <1>9 DEF DrainedBefore
<1>11. Conserved'
  <2> SUFFICES ASSUME Clean(path)
               PROVE  /\ pipe' \in Seq({path}) /\ \A q \in Producers : feeder[q] \in Seq({path})
                      /\ accepted = taken[path] /\ file'[path] = [own |-> messages', other |-> 0]
                      /\ accepted = messages' + Len(pipe') + Under("ros") + Under("server")
    BY <1>1, <1>2 DEF Conserved, Under
  <2>1. /\ pipe \in Seq({path}) /\ \A q \in Producers : feeder[q] \in Seq({path})
        /\ accepted = taken[path] /\ file[path] = [own |-> messages, other |-> 0]
        /\ accepted = messages + Len(pipe) + Under("ros") + Under("server")
    BY <1>0, <1>1, <1>3 DEF Conserved, Live
  <2>2. Head(pipe) = k /\ pipe' \in Seq({path}) /\ Len(pipe') = Len(pipe) - 1
    BY <1>1, <1>3, <2>1, SeqMoves
  <2>3. file'[path] = [own |-> messages + 1, other |-> 0]
    BY <1>3, <1>5, <2>1, <2>2
  <2>4. /\ Len(pipe) \in Nat /\ Len(pipe') \in Nat /\ accepted \in Nat
        /\ Under("ros") \in Nat /\ Under("server") \in Nat
    <3>1. "ros" \in Producers /\ "server" \in Producers
      BY DEF Producers
    <3> QED
      BY <1>0, <2>1, <2>2, <3>1, SeqMoves, TypeFields DEF Under
  <2>5. accepted = (messages + 1) + Len(pipe') + Under("ros") + Under("server")
    BY <1>4, <2>1, <2>2, <2>4
  <2> QED
    BY <1>1, <2>1, <2>2, <2>3, <2>5
<1>12. ClosedIsComplete'
  BY <1>0, <1>1, <1>2, <1>3, <1>5 DEF ClosedIsComplete
<1> QED
  BY <1>2, <1>6, <1>7, <1>8, <1>10, <1>11, <1>12 DEF FilesInv, PipelineTypeOK

(* A writer ends when the recording was stopped and all was written.       *)
LEMMA WriterEndsStep ==
  ASSUME OneCaller, FilesInv, NEW k \in Captures, WriterEnds(k)
  PROVE  FilesInv'
<1>0. /\ PipelineTypeOK /\ CallerPlace /\ OneWriter /\ DrainedBefore /\ Conserved /\ ClosedIsComplete
  BY DEF FilesInv
<1>1. /\ UNCHANGED <<recorder, accepting, accepted, messages, bytes, feeder, pipe, offered, taken,
                     finish, opened, file, subscriber>>
      /\ writer[k] = "writing" /\ finish /\ messages >= accepted
      /\ writer' = [writer EXCEPT ![k] = "ended"]
  BY DEF WriterEnds, ingress, Done
<1>2. /\ At' = At /\ call' = call /\ path' = path /\ process' = process /\ job' = job
      /\ RecorderTypes' /\ SubscriberTypes' /\ \A n : Clean(n)' <=> Clean(n)
  BY <1>1, SameCall
<1>3. k = process /\ process = path /\ path # 0 /\ job[path] = "capturing"
  BY <1>0, <1>1, TypeFields DEF OneWriter, Live
<1>4. /\ writer'[path] = "ended" /\ \A n \in Captures : n # path => writer'[n] = writer[n]
      /\ writer' \in [Captures -> Live \cup {"none", "dead", "ended"}]
  BY <1>0, <1>1, <1>3 DEF PipelineTypeOK, WritingTypes
<1>5. IngressTypes' /\ WritingTypes'
  BY <1>0, <1>1, <1>4 DEF PipelineTypeOK, IngressTypes, WritingTypes
<1>6. CallerPlace'
  BY <1>0, <1>1, <1>2, <1>3 DEF CallerPlace
<1>7. OneWriter'
  <2>1. \A n \in Captures :
          /\ writer'[n] \in Live => n = process
          /\ n > path => writer'[n] = "none" /\ job[n] = "none"
          /\ job[n] = "closed" => writer'[n] = "ended"
          /\ writer'[n] = "none" => taken[n] = 0 /\ file[n] = [own |-> 0, other |-> 0]
    BY <1>0, <1>3, <1>4, TypeFields DEF OneWriter, Live
  <2> QED
    BY <1>0, <1>1, <1>2, <1>3, <1>4, <2>1 DEF OneWriter
<1>8. DrainedBefore'
  BY <1>0, <1>1, <1>2 DEF DrainedBefore, Drained, CleanSoFar
<1>9. Conserved'
  BY <1>0, <1>1, <1>2, <1>3, <1>4 DEF Conserved, Live, Under
<1>10. ClosedIsComplete'
  BY <1>0, <1>1, <1>2 DEF ClosedIsComplete
<1> QED
  BY <1>2, <1>5, <1>6, <1>7, <1>8, <1>9, <1>10 DEF FilesInv, PipelineTypeOK

(* A writer that fails never closes its file.                              *)
LEMMA WriterFailsStep ==
  ASSUME OneCaller, FilesInv, NEW k \in Captures, WriterFails(k)
  PROVE  FilesInv'
<1>0. /\ PipelineTypeOK /\ CallerPlace /\ OneWriter /\ DrainedBefore /\ Conserved /\ ClosedIsComplete
  BY DEF FilesInv
<1>1. /\ UNCHANGED <<recorder, accepting, accepted, messages, bytes, feeder, offered, taken,
                     finish, opened, file, subscriber>>
      /\ writer[k] = "writing" /\ writer' = [writer EXCEPT ![k] = "dead"]
      /\ pipe' = pipe \/ (pipe # <<>> /\ pipe' = Tail(pipe))
  BY DEF WriterFails
<1>2. /\ At' = At /\ call' = call /\ path' = path /\ process' = process /\ job' = job
      /\ RecorderTypes' /\ SubscriberTypes' /\ \A n : Clean(n)' <=> Clean(n)
  BY <1>1, SameCall
<1>3. k = process /\ process = path /\ path # 0 /\ job[path] = "capturing"
  BY <1>0, <1>1, TypeFields DEF OneWriter, Live
<1>4. /\ writer'[path] = "dead" /\ \A n \in Captures : n # path => writer'[n] = writer[n]
      /\ writer' \in [Captures -> Live \cup {"none", "dead", "ended"}]
  BY <1>0, <1>1, <1>3 DEF PipelineTypeOK, WritingTypes
<1>5. IngressTypes' /\ WritingTypes'
  <2>1. pipe' \in Seq(Captures)
    BY <1>0, <1>1, SeqMoves DEF PipelineTypeOK, IngressTypes
  <2> QED
    BY <1>0, <1>1, <1>4, <2>1 DEF PipelineTypeOK, IngressTypes, WritingTypes
<1>6. CallerPlace'
  BY <1>0, <1>1, <1>2, <1>3, <1>4 DEF CallerPlace
<1>7. OneWriter'
  <2>1. \A n \in Captures :
          /\ writer'[n] \in Live => n = process
          /\ n > path => writer'[n] = "none" /\ job[n] = "none"
          /\ job[n] = "closed" => writer'[n] = "ended"
          /\ writer'[n] = "none" => taken[n] = 0 /\ file[n] = [own |-> 0, other |-> 0]
    BY <1>0, <1>3, <1>4, TypeFields DEF OneWriter, Live
  <2> QED
    BY <1>0, <1>1, <1>2, <1>3, <1>4, <2>1 DEF OneWriter
<1>8. DrainedBefore'
  BY <1>0, <1>1, <1>2, <1>3 DEF DrainedBefore, Drained, CleanSoFar
<1>9. Conserved'
  BY <1>1, <1>2, <1>4 DEF Conserved, Live
<1>10. ClosedIsComplete'
  BY <1>0, <1>1, <1>2 DEF ClosedIsComplete
<1> QED
  BY <1>2, <1>5, <1>6, <1>7, <1>8, <1>9, <1>10 DEF FilesInv, PipelineTypeOK

LEMMA FilesStep == OneCaller /\ FilesInv /\ [Next]_vars => FilesInv'
<1> SUFFICES ASSUME OneCaller, FilesInv, [Next]_vars PROVE FilesInv'
  OBVIOUS
<1>1. CASE Precheck \/ Activate \/ Look \/ Release \/ LeaseEnds \/ SubscriberLeaves
  BY <1>1, SubscriberSteps
<1>2. ASSUME NEW c \in Callers,
             \/ StartCalled(c) \/ InputsReady(c) \/ StopCalled(c) \/ Halt(c) \/ Join(c) \/ Open(c)
             \/ Spawn(c) \/ Wait(c) \/ Accept(c) \/ ShutDown(c) \/ Left(c)
      PROVE FilesInv'
  BY <1>2, CallSteps, HaltStep, JoinStep, OpenStep, SpawnStep, WaitStep, AcceptStep
<1>3. ASSUME NEW p \in Producers, Record(p) \/ Flush(p) PROVE FilesInv'
  BY <1>3, RecordStep, FlushStep
<1>4. ASSUME NEW k \in Captures, WriterOpens(k) \/ Writes(k) \/ WriterEnds(k) \/ WriterFails(k)
      PROVE FilesInv'
  BY <1>4, WriterOpensStep, WritesStep, WriterEndsStep, WriterFailsStep
<1>5. CASE UNCHANGED vars
  <2>1. UNCHANGED <<recorder, ingress, writing, subscriber>>
    BY <1>5 DEF vars
  <2>2. /\ UNCHANGED <<path, process, job>> /\ call' \in [Callers -> Calls] /\ At' = At
        /\ SubscriberTypes' /\ CallerPlace'
    BY <2>1 DEF recorder, ingress, writing, subscriber, FilesInv, PipelineTypeOK, RecorderTypes,
                SubscriberTypes, CallerPlace, At
  <2> QED
    BY <2>1, <2>2, NothingRecorded
<1> QED
  BY <1>1, <1>2, <1>3, <1>4, <1>5 DEF Next

(* The inductive invariant of the files, for one caller.                   *)
THEOREM FilesInvariant == ASSUME OneCaller PROVE Spec => []FilesInv
<1>1. Init => FilesInv
  BY FilesInit
<1>2. FilesInv /\ [Next]_vars => FilesInv'
  BY FilesStep
<1> QED
  BY <1>1, <1>2, PTL DEF Spec

(* A file that is closed before any writer failed holds every message that *)
(* was accepted for it and no other, for any number of messages.           *)
THEOREM ClosedFilesAreComplete == ASSUME OneCaller PROVE Spec => []ClosedIsComplete
<1>1. FilesInv => ClosedIsComplete
  BY DEF FilesInv
<1> QED
  BY <1>1, FilesInvariant, PTL

---------------------------------------------------------------------------
(* The inputs of a capture.                                                *)

(* Where the variables of the callers and of the files stay as they are.   *)
LEMMA SameStart ==
  ASSUME UNCHANGED <<call, path, process, job>>
  PROVE  /\ At' = At /\ call'[Caller] = call[Caller] /\ CleanSoFar' = CleanSoFar
         /\ Clean(path)' = Clean(path)
BY DEF At, CleanSoFar, Clean

LEMMA SubscriberKeepsInputs ==
  ASSUME OneCaller, InputsInv, Precheck \/ Activate \/ Look \/ Release \/ LeaseEnds \/ SubscriberLeaves
  PROVE  StartPlace' /\ StartHasInputs' /\ NoRelease'
<1>0. StartPlace /\ StartHasInputs /\ NoRelease /\ CallerPlace /\ OneWriter
  BY DEF InputsInv, FilesInv
<1>1. UNCHANGED <<call, path, process, job, accepting, writer>>
  BY DEF Precheck, Activate, Look, Release, LeaseEnds, SubscriberLeaves, recorder, ingress, writing
<1>2. /\ At' = At /\ call'[Caller] = call[Caller] /\ CleanSoFar' = CleanSoFar
      /\ Clean(path)' = Clean(path)
  BY <1>1, SameStart
<1>3. Starting => ~accepting /\ call[Caller].op = "start"
  BY <1>0 DEF Starting, CallerPlace, OneWriter
<1>4. CASE Precheck
  <2>1. UNCHANGED <<sub, inputs, seen, lease>> /\ ready' = FALSE
    BY <1>4 DEF Precheck, Prepare
  <2>2. Starting' => Starting
    BY <1>1, <1>2, <2>1 DEF Starting
  <2> QED
    BY <1>0, <1>1, <1>2, <2>1, <2>2 DEF StartPlace, StartHasInputs, NoRelease
<1>5. CASE Activate
  <2>1. /\ sub = "look" /\ sub' = "look" /\ inputs' = TRUE /\ lease' = TRUE /\ seen' = accepting
    BY <1>5 DEF Activate
  <2>2. Starting' => ~accepting
    BY <1>0, <1>1, <1>2 DEF Starting, CallerPlace, OneWriter
  <2> QED
    BY <1>0, <1>1, <1>2, <2>1, <2>2 DEF StartPlace, StartHasInputs, NoRelease
<1>6. CASE Look
  <2>1. /\ sub = "look" /\ UNCHANGED <<inputs, lease, ready>> /\ sub' \in {"look", "release"}
        /\ seen' = (seen \/ accepting)
        /\ sub' = "release" => ~accepting /\ (seen \/ ~lease)
    BY <1>6 DEF Look
  <2>2. Starting' => Starting
    BY <1>1, <1>2, <2>1 DEF Starting
  <2> QED
    BY <1>0, <1>1, <1>2, <1>3, <2>1, <2>2 DEF StartPlace, StartHasInputs, NoRelease
<1>7. CASE Release
  <2>1. sub = "release" /\ sub' = "look" /\ ready' = FALSE
    BY <1>7 DEF Release
  <2>2. Starting' => Starting
    BY <1>1, <1>2, <2>1 DEF Starting
  <2>3. ~Starting
    BY <1>0, <2>1 DEF StartHasInputs
  <2> QED
    BY <1>0, <1>1, <1>2, <2>1, <2>2, <2>3 DEF StartPlace, StartHasInputs, NoRelease
<1>8. CASE LeaseEnds
  <2>1. call[Caller].op # "start" /\ UNCHANGED <<sub, inputs>>
    BY <1>8, CallerIs DEF LeaseEnds
  <2> QED
    BY <1>0, <1>1, <1>2, <2>1 DEF StartPlace, StartHasInputs, Starting, NoRelease
<1>9. CASE SubscriberLeaves
  <2>1. sub = "leaving" /\ sub' = "gone"
    BY <1>9 DEF SubscriberLeaves
  <2>2. call[Caller].op # "start"
    BY <1>0, <2>1 DEF StartPlace
  <2> QED
    BY <1>0, <1>1, <1>2, <2>1, <2>2 DEF StartPlace, StartHasInputs, Starting, NoRelease
<1> QED
  BY <1>4, <1>5, <1>6, <1>7, <1>8, <1>9

(* A start is called when nothing is recorded, and waits for its inputs.   *)
LEMMA StartCalledHasInputs ==
  ASSUME OneCaller, ~StartsOver, InputsInv, NEW c \in Callers, StartCalled(c)
  PROVE  StartPlace' /\ StartHasInputs' /\ NoRelease'
<1>0. /\ StartPlace /\ StartHasInputs /\ NoRelease /\ CallerPlace /\ OneWriter /\ PipelineTypeOK
      /\ c = Caller
  BY CallerIs DEF InputsInv, FilesInv
<1>1. /\ UNCHANGED <<path, process, job, accepting, writer, sub, inputs>>
      /\ ready' = FALSE /\ sub \notin {"leaving", "gone"} /\ call[Caller] = Idle
  BY <1>0 DEF StartCalled, Prepare, ingress, writing
<1>2. At = "idle" /\ At' = "inputs" /\ call'[Caller].op = "start"
  BY <1>0, <1>1 DEF StartCalled, At, Idle, PipelineTypeOK, RecorderTypes
<1>3. sub \in {"look", "release"}
  BY <1>0, <1>1 DEF PipelineTypeOK, SubscriberTypes
<1>4. process # 0 => writer[process] = "dead"
  <2> SUFFICES ASSUME process # 0 PROVE writer[process] = "dead"
    OBVIOUS
  <2>1. accepting /\ process = path /\ path \in Captures /\ ~Recording
    BY <1>0, <1>2, TypeFields DEF CallerPlace, StartCalled
  <2>2. writer[process] \notin Live /\ writer[process] \notin {"none", "ended"}
    BY <1>0, <2>1 DEF Recording, OneWriter
  <2>3. writer[process] \in Live \cup {"none", "dead", "ended"}
    BY <1>0, <2>1 DEF PipelineTypeOK, WritingTypes
  <2> QED
    BY <2>2, <2>3
<1>5. StartPlace'
  BY <1>1, <1>2, <1>3, <1>4 DEF StartPlace
<1>6. StartHasInputs'
  BY <1>1, <1>2 DEF StartHasInputs, Starting
<1>7. NoRelease'
  BY <1>0, <1>1 DEF NoRelease, Clean
<1> QED
  BY <1>5, <1>6, <1>7

LEMMA CallsKeepInputs ==
  ASSUME OneCaller, InputsInv, NEW c \in Callers,
         InputsReady(c) \/ StopCalled(c) \/ ShutDown(c) \/ Left(c)
  PROVE  StartPlace' /\ StartHasInputs' /\ NoRelease'
<1>0. /\ StartPlace /\ StartHasInputs /\ NoRelease /\ CallerPlace /\ OneWriter /\ PipelineTypeOK
      /\ c = Caller
  BY CallerIs DEF InputsInv, FilesInv
<1>1. UNCHANGED <<path, process, job, accepting, writer, inputs, seen, lease, reset, ready>>
  BY DEF InputsReady, StopCalled, ShutDown, Left, ingress, writing, subscriber
<1>2. CleanSoFar' = CleanSoFar /\ Clean(path)' = Clean(path)
  BY <1>1 DEF CleanSoFar, Clean
<1>3. "halt" \in Steps
  BY DEF Steps
<1>4. CASE InputsReady(c) /\ ready /\ Go(c, "halt")
  <2>1. /\ At = "inputs" /\ At' = "halt" /\ call'[Caller].op = call[Caller].op /\ sub' = sub
    BY <1>0, <1>3, <1>4, CallMoves DEF InputsReady, At, subscriber
  <2>2. StartPlace'
    BY <1>0, <1>1, <2>1 DEF StartPlace
  <2>3. Starting' => Starting
    BY <1>1, <1>2, <1>4, <2>1 DEF Starting
  <2> QED
    BY <1>0, <1>1, <1>2, <2>1, <2>2, <2>3 DEF StartHasInputs, NoRelease
<1>5. CASE \/ (InputsReady(c) \/ Left(c)) /\ Return(c)
           \/ StopCalled(c) \/ ShutDown(c) \/ (Left(c) /\ Go(c, "halt"))
  <2>1. /\ At' \in {"idle", "halt", "leave"} /\ (At' = "idle" => call'[Caller].op = "none")
        /\ call'[Caller].op # "start" /\ (At' = "leave" => call'[Caller].op = "stop")
    <3>1. CASE (InputsReady(c) \/ Left(c)) /\ Return(c)
      BY <1>0, <3>1, CallMoves
    <3>2. CASE StopCalled(c) \/ ShutDown(c)
      BY <1>0, <3>2 DEF StopCalled, ShutDown, At, PipelineTypeOK, RecorderTypes
    <3>3. CASE Left(c) /\ Go(c, "halt")
      <4>1. call[Caller].op = "stop"
        BY <1>0, <3>3 DEF Left, StartPlace, At
      <4> QED
        BY <1>0, <1>3, <3>3, <4>1, CallMoves
    <3> QED
      BY <1>5, <3>1, <3>2, <3>3
  <2>2. StartPlace' /\ StartHasInputs'
    BY <2>1 DEF StartPlace, StartHasInputs, Starting
  <2>3. sub' \in {sub, "leaving"}
    BY DEF InputsReady, StopCalled, ShutDown, Left, subscriber
  <2> QED
    BY <1>0, <1>1, <1>2, <2>2, <2>3 DEF NoRelease
<1> QED
  BY <1>4, <1>5 DEF InputsReady, Left

LEMMA HaltKeepsInputs ==
  ASSUME OneCaller, InputsInv, NEW c \in Callers, Halt(c)
  PROVE  StartPlace' /\ StartHasInputs' /\ NoRelease'
<1>0. /\ StartPlace /\ StartHasInputs /\ NoRelease /\ CallerPlace /\ OneWriter /\ PipelineTypeOK
      /\ c = Caller
  BY CallerIs DEF InputsInv, FilesInv
<1>1. /\ UNCHANGED <<path, process, job, writer, sub, inputs, seen, lease, reset, ready>>
      /\ At = "halt" /\ (accepting' => accepting)
  BY <1>0 DEF Halt, At, subscriber
<1>2. CleanSoFar' = CleanSoFar /\ Clean(path)' = Clean(path)
  BY <1>1 DEF CleanSoFar, Clean
<1>3. NoRelease'
  BY <1>0, <1>1, <1>2 DEF NoRelease
<1>4. CASE process = 0
  <2>1. "open" \in Steps
    BY DEF Steps
  <2>2. \/ At' = "idle" /\ call'[Caller].op = "none"
        \/ At' = "open" /\ call[Caller].op = "start" /\ call'[Caller].op = "start"
    BY <1>0, <1>4, <2>1, CallMoves DEF Halt
  <2>3. StartPlace'
    BY <1>0, <1>1, <1>4, <2>2 DEF StartPlace
  <2>4. Starting' => Starting
    BY <1>1, <1>2, <1>4, <2>2 DEF Starting
  <2> QED
    BY <1>0, <1>1, <1>3, <2>3, <2>4 DEF StartHasInputs
<1>5. CASE process # 0
  <2>1. At' = "join" /\ call'[Caller].op = call[Caller].op
    <3>1. call' = [call EXCEPT ![c].at = "join", ![c].of = process]
      BY <1>5 DEF Halt
    <3> QED
      BY <1>0, <3>1, CallerIs DEF At, PipelineTypeOK, RecorderTypes, Calls
  <2>2. StartPlace'
    BY <1>0, <1>1, <2>1 DEF StartPlace
  <2>3. ~Starting'
    BY <1>1, <1>5, <2>1 DEF Starting
  <2> QED
    BY <1>3, <2>2, <2>3 DEF StartHasInputs
<1> QED
  BY <1>4, <1>5

(* A start that joins a writer joins one that failed.                      *)
LEMMA JoinKeepsInputs ==
  ASSUME OneCaller, InputsInv, NEW c \in Callers, Join(c)
  PROVE  StartPlace' /\ StartHasInputs' /\ NoRelease'
<1>0. /\ StartPlace /\ StartHasInputs /\ NoRelease /\ CallerPlace /\ OneWriter /\ PipelineTypeOK
      /\ c = Caller
  BY CallerIs DEF InputsInv, FilesInv
<1>1. /\ UNCHANGED <<path, accepting, writer, sub, inputs, seen, lease, reset, ready>>
      /\ At = "join" /\ process' = 0 /\ ~accepting
      /\ process = path /\ path # 0 /\ path \in Captures /\ call[c].of = path
  BY <1>0, TypeFields DEF Join, At, ingress, writing, subscriber, CallerPlace
<1>2. "open" \in Steps
  BY DEF Steps
<1>3. \/ At' = "idle" /\ call'[Caller].op = "none"
      \/ At' = "open" /\ call[Caller].op = "start" /\ call'[Caller].op = "start"
  BY <1>0, <1>2, CallMoves DEF Join
<1>4. NoRelease'
  BY <1>1 DEF NoRelease
<1>5. StartPlace'
  BY <1>0, <1>1, <1>3 DEF StartPlace
<1>6. ~Starting'
  <2> SUFFICES ASSUME At' = "open", call[Caller].op = "start" PROVE ~CleanSoFar'
    BY <1>3 DEF Starting
  <2>1. writer[path] = "dead"
    BY <1>0, <1>1 DEF StartPlace
  <2>2. job[path] = "capturing" /\ job \in [Captures -> {"none", "capturing", "closed", "failed"}]
    BY <1>0, <1>1 DEF OneWriter, PipelineTypeOK, RecorderTypes
  <2>3. job' = [job EXCEPT ![path] = "failed"]
    BY <1>1, <2>1, <2>2 DEF Join
  <2>4. job'[path] = "failed"
    BY <1>1, <2>2, <2>3
  <2> QED
    BY <1>1, <2>4 DEF CleanSoFar
<1> QED
  BY <1>4, <1>5, <1>6 DEF StartHasInputs

LEMMA OpenKeepsInputs ==
  ASSUME OneCaller, InputsInv, NEW c \in Callers, Open(c)
  PROVE  StartPlace' /\ StartHasInputs' /\ NoRelease'
<1>0. /\ StartPlace /\ StartHasInputs /\ NoRelease /\ CallerPlace /\ OneWriter /\ PipelineTypeOK
      /\ c = Caller
  BY CallerIs DEF InputsInv, FilesInv
<1>1. /\ UNCHANGED <<process, accepting, writer, sub, inputs, seen, lease, reset, ready>>
      /\ At = "open" /\ ~accepting /\ process = 0
  BY <1>0 DEF Open, At, ingress, writing, subscriber, CallerPlace
<1>2. NoRelease'
  BY <1>1 DEF NoRelease
<1>3. CASE path = MaxCaptures
  <2>1. At' = "idle" /\ call'[Caller].op = "none"
    BY <1>0, <1>3, CallMoves DEF Open
  <2> QED
    BY <1>2, <2>1 DEF StartPlace, StartHasInputs, Starting
<1>4. CASE path # MaxCaptures
  <2>1. "spawn" \in Steps
    BY DEF Steps
  <2>2. At' = "spawn" /\ call'[Caller].op = call[Caller].op
    BY <1>0, <1>4, <2>1, CallMoves DEF Open
  <2>3. /\ path \in Nat /\ path' = path + 1
        /\ \A k \in Captures : k # path + 1 => job'[k] = job[k]
    BY <1>0, <1>4, TypeFields DEF Open, PipelineTypeOK, RecorderTypes
  <2>4. Clean(path)' => CleanSoFar
    <3> SUFFICES ASSUME Clean(path)' PROVE CleanSoFar
      OBVIOUS
    <3>1. \A i \in 1..path : job'[i] # "failed"
      <4>1. \A i \in 1..((path + 1) - 1) : job'[i] # "failed"
        BY <2>3 DEF Clean
      <4> QED
        BY <2>3, <4>1
    <3>2. \A i \in 1..path : i \in Captures /\ i # path + 1
      BY <1>0, <2>3, TypeFields DEF Captures
    <3>3. \A i \in 1..path : job[i] # "failed"
      BY <2>3, <3>1, <3>2
    <3>4. \A i \in 1..(path - 1) : i \in 1..path
      BY <2>3
    <3>5. path # 0 => path \in 1..path
      BY <2>3
    <3> QED
      BY <3>3, <3>4, <3>5 DEF Clean, CleanSoFar
  <2>5. Starting' => Starting
    BY <1>1, <2>2, <2>4 DEF Starting, CleanSoFar
  <2>6. StartPlace'
    BY <1>0, <1>1, <2>2 DEF StartPlace
  <2> QED
    BY <1>0, <1>1, <1>2, <2>5, <2>6 DEF StartHasInputs
<1> QED
  BY <1>3, <1>4

(* The writer is started, awaited, and messages are accepted.              *)
LEMMA BeginKeepsInputs ==
  ASSUME OneCaller, InputsInv, NEW c \in Callers, Spawn(c) \/ Wait(c) \/ Accept(c)
  PROVE  StartPlace' /\ StartHasInputs' /\ NoRelease'
<1>0. /\ StartPlace /\ StartHasInputs /\ NoRelease /\ CallerPlace /\ OneWriter /\ PipelineTypeOK
      /\ c = Caller
  BY CallerIs DEF InputsInv, FilesInv
<1>1. /\ UNCHANGED <<path, job, sub, inputs, seen, lease, reset, ready>>
      /\ At \in {"spawn", "wait", "accept"} /\ ~accepting /\ call[Caller].op = "start"
  BY <1>0 DEF Spawn, Wait, Accept, At, subscriber, CallerPlace, StartPlace
<1>2. Clean(path)' = Clean(path) /\ (CleanSoFar' => Clean(path))
  BY <1>1 DEF CleanSoFar, Clean
<1>3. Clean(path) => Starting
  BY <1>1 DEF Starting
<1>4. "wait" \in Steps /\ "accept" \in Steps
  BY DEF Steps
<1>5. \/ At' = "idle" /\ call'[Caller].op = "none"
      \/ At' \in {"wait", "accept"} /\ call'[Caller].op = "start"
  <2>1. Return(c) \/ Go(c, "wait") \/ Go(c, "accept")
    BY DEF Spawn, Wait, Accept
  <2> QED
    BY <1>0, <1>1, <1>4, <2>1, CallMoves
<1>6. StartPlace'
  BY <1>0, <1>1, <1>5 DEF StartPlace
<1>7. StartHasInputs'
  BY <1>0, <1>1, <1>2, <1>3 DEF StartHasInputs, Starting
<1>8. NoRelease'
  BY <1>0, <1>1, <1>2, <1>3 DEF StartHasInputs, NoRelease
<1> QED
  BY <1>6, <1>7, <1>8

(* A writer that failed stays so, and messages change nothing here.        *)
LEMMA MessagesKeepInputs ==
  ASSUME OneCaller, InputsInv,
         \/ \E p \in Producers : Record(p) \/ Flush(p)
         \/ \E k \in Captures : WriterOpens(k) \/ Writes(k) \/ WriterEnds(k) \/ WriterFails(k)
         \/ UNCHANGED vars
  PROVE  StartPlace' /\ StartHasInputs' /\ NoRelease'
<1>0. StartPlace /\ StartHasInputs /\ NoRelease /\ PipelineTypeOK
  BY DEF InputsInv, FilesInv
<1>1. UNCHANGED <<call, path, process, job, accepting, sub, inputs, seen, lease, reset, ready>>
  BY DEF Record, Flush, WriterOpens, Writes, WriterEnds, WriterFails, vars, recorder, ingress, subscriber
<1>2. /\ At' = At /\ call'[Caller] = call[Caller] /\ CleanSoFar' = CleanSoFar
      /\ Clean(path)' = Clean(path)
  BY <1>1, SameStart
<1>3. \A n \in Captures : writer[n] = "dead" => writer'[n] = "dead"
  <2>1. CASE writer' = writer
    BY <2>1
  <2>2. ASSUME NEW k \in Captures, WriterOpens(k) \/ WriterEnds(k) \/ WriterFails(k)
        PROVE  \A n \in Captures : writer[n] = "dead" => writer'[n] = "dead"
    <3>1. /\ writer[k] \in {"opening", "writing"}
          /\ \E end \in {"writing", "dead", "ended"} : writer' = [writer EXCEPT ![k] = end]
      BY <2>2 DEF WriterOpens, WriterEnds, WriterFails
    <3> QED
      BY <1>0, <3>1 DEF PipelineTypeOK, WritingTypes
  <2> QED
    BY <2>1, <2>2 DEF Record, Flush, Writes, vars, writing
<1>4. process # 0 => process \in Captures
  BY <1>0, TypeFields
<1>5. StartPlace'
  BY <1>0, <1>1, <1>2, <1>3, <1>4 DEF StartPlace
<1>6. StartHasInputs' /\ NoRelease'
  BY <1>0, <1>1, <1>2 DEF StartHasInputs, Starting, NoRelease
<1> QED
  BY <1>5, <1>6

LEMMA InputsStep == OneCaller /\ ~StartsOver /\ InputsInv /\ [Next]_vars => InputsInv'
<1> SUFFICES ASSUME OneCaller, ~StartsOver, InputsInv, [Next]_vars PROVE InputsInv'
  OBVIOUS
<1>0. FilesInv'
  BY FilesStep DEF InputsInv
<1>1. CASE Precheck \/ Activate \/ Look \/ Release \/ LeaseEnds \/ SubscriberLeaves
  BY <1>0, <1>1, SubscriberKeepsInputs DEF InputsInv
<1>2. ASSUME NEW c \in Callers,
             \/ StartCalled(c) \/ InputsReady(c) \/ StopCalled(c) \/ Halt(c) \/ Join(c) \/ Open(c)
             \/ Spawn(c) \/ Wait(c) \/ Accept(c) \/ ShutDown(c) \/ Left(c)
      PROVE InputsInv'
  BY <1>0, <1>2, StartCalledHasInputs, CallsKeepInputs, HaltKeepsInputs, JoinKeepsInputs, OpenKeepsInputs,
     BeginKeepsInputs DEF InputsInv
<1>3. CASE \/ \E p \in Producers : Record(p) \/ Flush(p)
           \/ \E k \in Captures : WriterOpens(k) \/ Writes(k) \/ WriterEnds(k) \/ WriterFails(k)
           \/ UNCHANGED vars
  BY <1>0, <1>3, MessagesKeepInputs DEF InputsInv
<1> QED
  BY <1>1, <1>2, <1>3 DEF Next

(* A caller that asks for the status before it starts has, until the first *)
(* writer fails, the inputs of every capture that is recorded.             *)
THEOREM InputsAreKept == ASSUME OneCaller, ~StartsOver PROVE Spec => []CaptureHasInputs
<1>1. Init => InputsInv
  <2> SUFFICES ASSUME Init PROVE InputsInv
    OBVIOUS
  <2>1. At = "idle" /\ call[Caller].op = "none"
    BY CallerIs DEF Init, At, Idle
  <2> QED
    BY <2>1, FilesInit DEF Init, InputsInv, StartPlace, StartHasInputs, Starting, NoRelease
<1>2. InputsInv /\ [Next]_vars => InputsInv'
  BY InputsStep
<1>3. InputsInv => CaptureHasInputs
  BY DEF InputsInv, NoRelease, CaptureHasInputs
<1> QED
  BY <1>1, <1>2, <1>3, PTL DEF Spec
=============================================================================
