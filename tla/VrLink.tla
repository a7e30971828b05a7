------------------------------- MODULE VrLink -------------------------------
(* The link from the headset outside of a session, with the headset as the     *)
(* control source: the receive thread and the processor thread of VrGateway    *)
(* (vr_gateway.py), the sequence arithmetic of protocol.py, and what           *)
(* MiddlewareRuntime (app.py) makes of a press of A and of a lost link.  UDP   *)
(* loses, delays, reorders and repeats datagrams: a lost one stays in flight.  *)
(*                                                                             *)
(* A sample is kept as the state of the A button, its tracking and its stamp;  *)
(* poses, the other buttons, the web telemetry and the counters of the status  *)
(* are left out.  Of the clock the model keeps what the thread compares: is    *)
(* the last packet, the last new sample, the lease too old.  A lease that ran  *)
(* out is none, whether or not the loop has cleared it.                        *)
EXTENDS Integers, Sequences

CONSTANTS
  Senders,      \* addresses (host and port) that samples come from
  Host(_),      \* the host of an address
  NoSender,
  W,            \* sequence numbers are modulo W: 2^32 in the code
  First,        \* the sequence number a headset starts from
  QueueSize,    \* processing_queue_size, two at least
  MaxSamples,   \* bound: samples sent, by all the headsets
  MaxFlaws      \* bound: samples without tracking, with an old stamp, or repeated

ASSUME NoSenderAssumption == NoSender \notin Senders
ASSUME WindowAssumption == W \in Nat /\ W > 2 * MaxSamples
ASSUME NumbersAssumption == {First, MaxSamples, MaxFlaws} \subseteq Nat
ASSUME QueueAssumption == QueueSize \in Nat \ {0}

VARIABLES
  headset,   \* per sender: samples sent, is A held, the stamp of the last sample,
             \* its presses so far (history)
  air,       \* samples in flight
  rx,        \* the variables of the receive thread, and of its status
  queue,     \* _pose_queue
  proc,      \* the sample the processor took, or NoSample
  lastA,     \* _last_a_held
  output,    \* RosBridge._command_output_enabled
  past,      \* history: what the properties below remember
  sent,      \* bound: samples so far
  flaws      \* bound: flawed and repeated samples so far

linkVars == <<headset, air, rx, queue, proc, lastA, output, past, sent, flaws>>

NoSample == [from |-> NoSender]

-----------------------------------------------------------------------------
(* protocol.py *)

Sequence(n) == (First + n) % W
(* Faulty variant of Newer: nothing is compared. *)
NewerAlways(sequence, previous) == TRUE
(* is_sequence_newer; -1: there is no previous one *)
Newer(sequence, previous) ==
  LET difference == (sequence - previous) % W
  IN  previous = -1 \/ (0 < difference /\ difference < W \div 2)

-----------------------------------------------------------------------------
(* The headset and the network: another program, as the gateway knows it *)

(* history: a change of headset ends what is remembered of presses and order *)
NothingTaken == [from |-> NoSender, n |-> 0, nth |-> 0]
Remember(p) == IF p.switched
               THEN [p EXCEPT !.resumes = 0, !.order = NothingTaken, !.back = FALSE]
               ELSE p

(* frozen: tracking repeats the stamp of the last sample *)
Send(s, held, head, frozen) ==
  LET h == headset[s]
      press == held /\ ~h.held
      flawed == frozen \/ ~head
      sample == [from |-> s, n |-> h.sent + 1, press |-> press, held |-> held,
                 stamp |-> IF frozen THEN h.stamp ELSE h.sent + 1, head |-> head,
                 nth |-> h.presses + (IF press THEN 1 ELSE 0)]
  IN  /\ sent < MaxSamples /\ sent' = sent + 1
      /\ flawed => flaws < MaxFlaws
      /\ flaws' = flaws + (IF flawed THEN 1 ELSE 0)
      /\ headset' = [headset EXCEPT ![s] = [sent |-> h.sent + 1, held |-> held,
                                            stamp |-> sample.stamp, presses |-> sample.nth]]
      /\ air' = air \cup {sample}
      /\ UNCHANGED <<past, rx, queue, proc, lastA, output>>

-----------------------------------------------------------------------------
(* The receive thread: VrGateway._run *)

Leased == rx.peer # NoSender
Foreign(s) == Leased /\ Host(s) # Host(rx.peer)
Lease(s) == [rx EXCEPT !.peer = IF Leased THEN @ ELSE s]

(* _enqueue_pose drops the oldest sample of a full queue *)
Enqueue(sample) ==
  queue' = Append(IF Len(queue) = QueueSize THEN Tail(queue) ELSE queue, sample)

(* The variables for an accepted sample.  A sample that repeats the last stamp *)
(* shows that the network is alive and nothing more.                           *)
(* Faulty variant of Accepted: the time-out stays noted.                       *)
AcceptedStillLate(r, sample) ==
  [r EXCEPT !.lastSender = sample.from, !.last = Sequence(sample.n),
            !.stamp = sample.stamp, !.ever = TRUE, !.old = FALSE,
            !.sampleOld = @ /\ r.stamp = sample.stamp, !.headBad = ~sample.head,
            !.reports = ~sample.head /\ ~r.headBad]
Accepted(r, sample) ==
  LET advanced == r.stamp # sample.stamp
  IN  [r EXCEPT !.lastSender = sample.from, !.last = Sequence(sample.n),
                !.stamp = sample.stamp, !.ever = TRUE, !.old = FALSE,
                !.sampleOld = @ /\ ~advanced, !.timeout = @ /\ ~advanced,
                !.headBad = ~sample.head,
                !.reports = ~sample.head /\ ~r.headBad]

Receive(sample, again) ==
  LET l == Lease(sample.from)
      r == IF l.lastSender = sample.from THEN l ELSE [l EXCEPT !.last = -1, !.stamp = -1]
      new == Newer(Sequence(sample.n), r.last)
  IN  /\ ~rx.reports
      /\ again => flaws < MaxFlaws
      /\ flaws' = flaws + (IF again THEN 1 ELSE 0)
      /\ air' = IF again THEN air ELSE air \ {sample}
      /\ rx' = CASE Foreign(sample.from) -> rx
                 [] ~Foreign(sample.from) /\ new -> Accepted(r, sample)
                 [] OTHER -> [r EXCEPT !.lastSender = sample.from]
      /\ IF new /\ ~Foreign(sample.from) THEN Enqueue(sample) ELSE UNCHANGED queue
      /\ past' = Remember([past EXCEPT
                   !.stopped = @ /\ rx'.sampleOld,
                   !.switched = @ \/ rx.lastSender \notin {NoSender, rx'.lastSender}])
      /\ UNCHANGED <<sent, headset, proc, lastA, output>>

(* a datagram of the right host that does not decode: it renews the lease *)
ReceiveInvalid(s) ==
  /\ ~rx.reports /\ ~Foreign(s)
  /\ rx' = Lease(s)
  /\ UNCHANGED <<sent, headset, air, queue, proc, lastA, output, flaws, past>>

ReceiveRelease(s) ==
  /\ ~rx.reports
  /\ Leased /\ ~Foreign(s)
  /\ rx' = [rx EXCEPT !.peer = NoSender]
  /\ UNCHANGED <<sent, headset, air, queue, proc, lastA, output, flaws, past>>

(* the end of an iteration: the two time-outs *)
Overdue == rx.ever /\ rx.sampleOld /\ ~rx.timeout
Watch ==
  /\ ~rx.reports /\ Overdue
  /\ rx' = [rx EXCEPT !.timeout = TRUE, !.reports = TRUE]
  /\ UNCHANGED <<sent, headset, air, queue, proc, lastA, output, flaws, past>>

(* on_timeout, in the same thread: _on_vr_timeout, _on_safety_event *)
Report ==
  /\ rx.reports /\ rx' = [rx EXCEPT !.reports = FALSE]
  /\ output' = FALSE
  /\ past' = [past EXCEPT !.stopped = rx.sampleOld]
  /\ UNCHANGED <<sent, headset, air, queue, proc, lastA, flaws>>

(* Time.  A lease outlives both time-outs; a sample is older than its packet.  *)
Grows(r) ==
  \/ ~rx.sampleOld /\ r = [rx EXCEPT !.sampleOld = TRUE]
  \/ rx.sampleOld /\ ~rx.old /\ r = [rx EXCEPT !.old = TRUE]
  \/ rx.old /\ Leased /\ r = [rx EXCEPT !.peer = NoSender]
TimePasses ==
  /\ Grows(rx')
  /\ UNCHANGED <<sent, headset, air, queue, proc, lastA, output, flaws, past>>

-----------------------------------------------------------------------------
(* The processor thread: VrGateway._process_poses, MiddlewareRuntime._on_pose *)

Late(sample) == past.order.from = sample.from /\ past.order.n >= sample.n
Take ==
  /\ proc = NoSample /\ queue # <<>>
  /\ proc' = Head(queue) /\ queue' = Tail(queue)
  /\ past' = Remember([past EXCEPT !.order = [from |-> Head(queue).from, n |-> Head(queue).n,
                                             nth |-> Head(queue).nth],
                                   !.back = @ \/ Late(Head(queue))])
  /\ UNCHANGED <<sent, headset, air, rx, lastA, output, flaws>>

(* Faulty variant of Pressed: the level of the button, as an older version did. *)
PressedLevel(sample) == sample.held
(* the edge of the headset, or one the middleware sees where that packet is lost *)
Pressed(sample) == sample.press \/ (sample.held /\ ~lastA)

Handle ==
  /\ proc # NoSample /\ proc' = NoSample
  /\ lastA' = proc.held
  /\ IF Pressed(proc)
     THEN output' = TRUE /\ past' = Remember([past EXCEPT !.resumes = @ + 1])
     ELSE UNCHANGED <<output, past>>
  /\ UNCHANGED <<sent, headset, air, rx, queue, flaws>>

-----------------------------------------------------------------------------
LinkInit ==
  /\ headset = [s \in Senders |-> [sent |-> 0, held |-> FALSE, stamp |-> 0, presses |-> 0]]
  /\ air = {} /\ queue = <<>> /\ proc = NoSample /\ lastA = FALSE
  /\ rx = [peer |-> NoSender, last |-> -1, lastSender |-> NoSender,
           stamp |-> -1, ever |-> FALSE, old |-> FALSE, sampleOld |-> FALSE,
           timeout |-> FALSE, headBad |-> FALSE, reports |-> FALSE]
  /\ output = FALSE                     \* stop_on_startup
  /\ sent = 0 /\ flaws = 0
  /\ past = [resumes |-> 0, switched |-> FALSE, order |-> NothingTaken,
             back |-> FALSE, stopped |-> FALSE]

LinkNext ==
  \/ \E s \in Senders, held, head, frozen \in BOOLEAN : Send(s, held, head, frozen)
  \/ \E sample \in air, again \in BOOLEAN : Receive(sample, again)
  \/ \E s \in Senders : ReceiveInvalid(s) \/ ReceiveRelease(s)
  \/ Watch \/ Report \/ TimePasses
  \/ Take \/ Handle

LinkSpec == LinkInit /\ [][LinkNext]_linkVars

(* The threads run. *)
LinkFairSpec ==
  /\ LinkSpec
  /\ WF_linkVars(Watch) /\ WF_linkVars(Report) /\ WF_linkVars(Take) /\ WF_linkVars(Handle)

-----------------------------------------------------------------------------
(* A physical press of A resumes the output at most once, however its samples  *)
(* are lost, late, repeated or dropped from the queue, as long as one headset   *)
(* has the link.                                                               *)
OneResumePerPress ==
  past.switched \/ \A s \in Senders : rx.lastSender = s => past.resumes <= headset[s].presses

(* The control sees the samples of a headset in the order it took them, across *)
(* reordering, repetition, a full queue and the wrap of the sequence number;   *)
(* a change of headset forgets the number of the one before.                   *)
SamplesInOrder == past.switched \/ ~past.back

(* When no new sample comes for the time-out, the robot is stopped, each time. *)
SampleLossStops == (rx.ever /\ rx.sampleOld) ~> (~rx.sampleOld \/ past.stopped)

(* "queued button/Grip samples must not become fresh again"                    *)
(* (vr_gateway.py:260): nor does a press that was queued before the time-out    *)
(* leave the robot driven while no sample comes.                               *)
LostLinkStaysStopped == (rx.ever /\ rx.sampleOld) ~> (~rx.sampleOld \/ ~output)
=============================================================================
