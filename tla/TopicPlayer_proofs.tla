------------------------- MODULE TopicPlayer_proofs -------------------------
(***************************************************************************)
(* Proofs about TopicPlayer and VrLink, two components of threads that     *)
(* share a queue.  The player never has an interlock whose thread it has   *)
(* forgotten: every operation that drops the thread, or tells it to stop,  *)
(* gives the interlock back in the same locked section.  The link hands    *)
(* samples on in order, and presses at most once.                          *)
(***************************************************************************)
EXTENDS TopicPlayer, VrLink, TLAPS

(* Whoever armed the interlock is the thread the player knows, and has not *)
(* been told to stop.                                                      *)
ArmedByThread == armed => thread \in AliveThreads /\ ~stopEvent /\ replays > 0

(* A queued command of the present epoch is of the replay that runs; a     *)
(* replay that ended has left none.                                        *)
Dated ==
  \A c \in commands : c.epoch = outputEpoch => replayActive /\ c.replay = replays

Inv == PlayerTypeOK /\ ArmedByThread /\ Dated

LEMMA InvInit == Init => Inv
<1> SUFFICES ASSUME Init PROVE Inv
  OBVIOUS
<1>1. PlayerTypeOK
  BY DEF Init, PlayerTypeOK, Alive, Playing
<1>2. ArmedByThread /\ Dated
  BY DEF Init, ArmedByThread, Dated
<1> QED
  BY <1>1, <1>2 DEF Inv

(* Where a thread goes decides which threads are alive.                    *)
LEMMA GoAlive ==
  ASSUME PlayerTypeOK, NEW t \in Threads, NEW place \in Alive \cup {"none", "dead"}, Go(t, place)
  PROVE  /\ pc' \in [Threads -> Alive \cup {"none", "dead"}]
         /\ AliveThreads' = IF place \in Alive THEN AliveThreads \cup {t} ELSE AliveThreads \ {t}
BY DEF Go, AliveThreads, PlayerTypeOK

(* Giving the interlock back revokes the epoch of every queued command.    *)
LEMMA Released ==
  ASSUME Inv, NEW reset \in BOOLEAN, ReleaseInterlock(reset), UNCHANGED <<commands, replays>>
  PROVE  /\ armed' = FALSE /\ replayActive' = FALSE /\ outputOpen' \in BOOLEAN
         /\ outputEpoch' \in Nat /\ outputEpoch' >= outputEpoch
         /\ commands' \in SUBSET [epoch: 0..outputEpoch', replay: 1..replays']
         /\ Dated'
<1>1. PlayerTypeOK /\ Dated
  BY DEF Inv
<1>2. CASE armed
  <2>1. armed' = FALSE /\ EndReplay(reset)
    BY <1>2 DEF ReleaseInterlock
  <2>2. outputEpoch' = outputEpoch + 1 /\ replayActive' = FALSE /\ outputOpen' \in BOOLEAN
    BY <2>1, <1>1 DEF EndReplay, PlayerTypeOK
  <2>3. \A c \in commands : c.epoch \in 0..outputEpoch /\ c.replay \in 1..replays
    BY <1>1 DEF PlayerTypeOK
  <2>4. Dated'
    BY <2>2, <2>3, <1>1 DEF Dated, PlayerTypeOK
  <2>5. 0..outputEpoch \subseteq 0..(outputEpoch + 1)
    BY <1>1 DEF PlayerTypeOK
  <2> QED
    BY <2>1, <2>2, <2>4, <2>5, <1>1 DEF PlayerTypeOK
<1>3. CASE ~armed
  BY <1>1, <1>3 DEF ReleaseInterlock, PlayerTypeOK, Dated, bridge
<1> QED
  BY <1>1, <1>2, <1>3 DEF PlayerTypeOK

(* A change of the output revokes them as well.                            *)
LEMMA Revoked ==
  ASSUME Inv, outputEpoch' = outputEpoch + 1, outputOpen' \in BOOLEAN,
         UNCHANGED <<pc, player, replayActive, commands, replays>>, acknowledging' \in BOOLEAN
  PROVE  Inv'
<1>1. PlayerTypeOK /\ ArmedByThread /\ Dated
  BY DEF Inv
<1>2. \A c \in commands : c.epoch \in 0..outputEpoch /\ c.replay \in 1..replays
  BY <1>1 DEF PlayerTypeOK
<1>3. 0..outputEpoch \subseteq 0..(outputEpoch + 1)
  BY <1>1 DEF PlayerTypeOK
<1>4. PlayerTypeOK'
  BY <1>1, <1>3 DEF PlayerTypeOK, player, events
<1>5. ArmedByThread'
  BY <1>1 DEF ArmedByThread, AliveThreads, player, events
<1>6. Dated'
  BY <1>1, <1>2 DEF Dated, PlayerTypeOK
<1> QED
  BY <1>4, <1>5, <1>6 DEF Inv

LEMMA PlayerStep == Inv /\ [Next]_vars => Inv'
<1> SUFFICES ASSUME Inv, [Next]_vars PROVE Inv'
  OBVIOUS
<1>0. PlayerTypeOK /\ ArmedByThread /\ Dated
  BY DEF Inv
<1> USE ThreadsAssumption
<1>1. ASSUME NEW t \in Threads, Play(t) PROVE Inv'
  <2>1. ~armed /\ ~replayActive
    BY <1>0, <1>1 DEF Play, MayPlay, ArmedByThread, PlayerTypeOK
  <2>2. AliveThreads' = AliveThreads \cup {t} /\ pc' \in [Threads -> Alive \cup {"none", "dead"}]
    BY <1>0, <1>1, GoAlive DEF Play, Alive, Playing
  <2>3. \A c \in commands : c.epoch # outputEpoch
    BY <1>0, <2>1 DEF Dated
  <2>4. 1..replays \subseteq 1..(replays + 1)
    BY <1>0 DEF PlayerTypeOK
  <2>5. commands' \in SUBSET [epoch: 0..outputEpoch', replay: 1..replays']
    BY <1>0, <1>1, <2>4 DEF Play, PlayerTypeOK
  <2>6. PlayerTypeOK'
    <3>1. /\ thread' = t /\ stopEvent' = FALSE /\ pauseEvent' = TRUE /\ playState' = "playing"
          /\ armed' = TRUE /\ replayActive' = TRUE /\ replays' = replays + 1
          /\ UNCHANGED <<requiresReset, outputOpen, outputEpoch, acknowledging>>
      BY <1>1 DEF Play
    <3>2. requiresReset' \in BOOLEAN /\ acknowledging' \in BOOLEAN /\ outputOpen' \in BOOLEAN
      BY <1>0, <3>1 DEF PlayerTypeOK
    <3>3. outputEpoch' \in Nat /\ replays' \in Nat
      BY <1>0, <3>1 DEF PlayerTypeOK
    <3> QED
      BY <2>2, <2>5, <3>1, <3>2, <3>3 DEF PlayerTypeOK
  <2>7. ArmedByThread'
    BY <1>0, <1>1, <2>2 DEF Play, PlayerTypeOK, ArmedByThread
  <2> QED
    BY <1>1, <2>3, <2>6, <2>7 DEF Play, Inv, Dated
<1>2. ASSUME PlayRefused PROVE Inv'
  <2>1. ~armed
    BY <1>0, <1>2 DEF PlayRefused, MayPlay, ArmedByThread
  <2> QED
    BY <1>0, <1>2, <2>1 DEF PlayRefused, Inv, ArmedByThread, Dated, PlayerTypeOK, bridge
<1>3. ASSUME PauseOrResume PROVE Inv'
  BY <1>0, <1>3 DEF PauseOrResume, Inv, ArmedByThread, Dated, PlayerTypeOK, bridge, AliveThreads
<1>4. ASSUME Stop PROVE Inv'
  <2> DEFINE needsReset == playState \in {"playing", "paused"} \/ requiresReset
  <2>1. ReleaseInterlock(needsReset) /\ UNCHANGED <<pc, commands, acknowledging, replays>>
    BY <1>4 DEF Stop
  <2>2. needsReset \in BOOLEAN
    BY <1>0 DEF PlayerTypeOK
  <2> HIDE DEF needsReset
  <2>3. /\ armed' = FALSE /\ replayActive' = FALSE /\ outputOpen' \in BOOLEAN
        /\ outputEpoch' \in Nat /\ Dated'
        /\ commands' \in SUBSET [epoch: 0..outputEpoch', replay: 1..replays']
    BY <2>1, <2>2, Released
  <2>4. /\ stopEvent' = TRUE /\ pauseEvent' = TRUE /\ thread' \in {thread, NoThread}
        /\ playState' \in {"stopped", "idle"} /\ requiresReset' \in BOOLEAN
    BY <1>4, <2>2 DEF Stop, needsReset
  <2>5. PlayerTypeOK'
    BY <1>0, <2>1, <2>3, <2>4 DEF PlayerTypeOK
  <2> QED
    BY <2>3, <2>5 DEF Inv, ArmedByThread
<1>5. ASSUME AcknowledgeReset PROVE Inv'
  BY <1>0, <1>5 DEF AcknowledgeReset, Inv, ArmedByThread, Dated, PlayerTypeOK, bridge, events,
                    AliveThreads
<1>6. ASSUME ResumeOutput \/ OutputChanges PROVE Inv'
  <2>1. acknowledging' \in BOOLEAN /\ outputOpen' \in BOOLEAN
    BY <1>0, <1>6 DEF ResumeOutput, OutputChanges, PlayerTypeOK
  <2> QED
    BY <1>6, <2>1, Revoked DEF ResumeOutput, OutputChanges
<1>7. ASSUME Drain PROVE Inv'
  BY <1>0, <1>7 DEF Drain, Inv, ArmedByThread, Dated, PlayerTypeOK, player, events, bridge,
                    AliveThreads
<1>8. ASSUME NEW t \in Threads, LookAtStop(t) \/ Fail(t) PROVE Inv'
  <2>1. \E place \in Alive : Go(t, place)
    BY <1>8 DEF LookAtStop, Fail, Alive, Playing
  <2>2. AliveThreads' = AliveThreads \cup {t} /\ pc' \in [Threads -> Alive \cup {"none", "dead"}]
    BY <1>0, <2>1, GoAlive
  <2>3. UNCHANGED <<player, bridge, commands, acknowledging, replays>>
    BY <1>8 DEF LookAtStop, Fail
  <2> QED
    BY <1>0, <2>2, <2>3 DEF Inv, ArmedByThread, Dated, PlayerTypeOK, player, events, bridge
<1>9. ASSUME NEW t \in Threads, PublishRaw(t) PROVE Inv'
  <2>1. AliveThreads' = AliveThreads \cup {t} /\ pc' \in [Threads -> Alive \cup {"none", "dead"}]
    BY <1>0, <1>9, GoAlive DEF PublishRaw, Alive, Playing
  <2>2. UNCHANGED <<player, bridge, acknowledging, replays>>
    BY <1>9 DEF PublishRaw
  <2>3. ArmedByThread'
    BY <1>0, <2>1, <2>2 DEF ArmedByThread, player, events
  <2>4. CASE UNCHANGED commands
    BY <1>0, <2>1, <2>2, <2>3, <2>4 DEF Inv, Dated, PlayerTypeOK, player, events, bridge
  <2>5. CASE /\ ReplayAllowed(outputEpoch)
             /\ commands' = commands \cup {[epoch |-> outputEpoch, replay |-> replays]}
    <3>1. replayActive
      BY <2>5 DEF ReplayAllowed
    <3>2. Dated'
      BY <1>0, <2>2, <2>5, <3>1 DEF Dated, bridge
    <3>3. replays \in 1..replays /\ outputEpoch \in 0..outputEpoch
      BY <1>0, <3>1 DEF PlayerTypeOK, ArmedByThread
    <3> QED
      BY <1>0, <2>1, <2>2, <2>3, <2>5, <3>2, <3>3 DEF Inv, PlayerTypeOK, player, events, bridge
  <2> QED
    BY <1>9, <2>4, <2>5 DEF PublishRaw
<1>10. ASSUME NEW t \in Threads, Complete(t) \/ ConcludeError(t) PROVE Inv'
  <2>1. pc' \in [Threads -> Alive \cup {"none", "dead"}]
    BY <1>0, <1>10, GoAlive DEF Complete, ConcludeError
  <2>2. UNCHANGED <<thread, events, commands, acknowledging, replays>>
    BY <1>10 DEF Complete, ConcludeError
  <2>3. CASE UNCHANGED <<playState, requiresReset, armed, bridge>> /\ stopEvent
    BY <1>0, <2>1, <2>2, <2>3 DEF Inv, ArmedByThread, Dated, PlayerTypeOK, events, bridge
  <2>4. CASE playState' \in {"completed", "error"} /\ requiresReset' /\ ReleaseInterlock(TRUE)
    <3>1. /\ armed' = FALSE /\ replayActive' = FALSE /\ outputOpen' \in BOOLEAN
          /\ outputEpoch' \in Nat /\ Dated'
          /\ commands' \in SUBSET [epoch: 0..outputEpoch', replay: 1..replays']
      BY <2>2, <2>4, Released
    <3> QED
      BY <1>0, <1>10, <2>1, <2>2, <2>4, <3>1
         DEF Inv, ArmedByThread, PlayerTypeOK, events, Complete, ConcludeError
  <2> QED
    BY <1>10, <2>3, <2>4 DEF Complete, ConcludeError
<1>11. CASE UNCHANGED vars
  BY <1>0, <1>11 DEF vars, player, events, bridge, Inv, ArmedByThread, Dated, PlayerTypeOK,
                     AliveThreads
<1> QED
  BY <1>1, <1>2, <1>3, <1>4, <1>5, <1>6, <1>7, <1>8, <1>9, <1>10, <1>11 DEF Next, Playback

LEMMA Invariance == Spec => []Inv
BY InvInit, PlayerStep, PTL DEF Spec

(* The fields keep their types, and the player knows whether it holds the  *)
(* interlock of the bridge.                                                *)
THEOREM PlayerTypeCorrect == Spec => []PlayerTypeOK
<1>1. Inv => PlayerTypeOK
  BY DEF Inv
<1> QED
  BY <1>1, Invariance, PTL

(* Live commands are kept out for a replay only while a playback thread    *)
(* runs that gives the interlock back (play, stop, _run).                  *)
THEOREM InterlockIsHeld == Spec => []InterlockHasPlayback
<1>1. Inv => InterlockHasPlayback
  BY DEF Inv, PlayerTypeOK, ArmedByThread, InterlockHasPlayback
<1> QED
  BY <1>1, Invariance, PTL

(* A command that waits in the bridge's queue is drained in the replay it  *)
(* was issued in or not at all (publish_raw, _drain_commands).             *)
THEOREM CommandsAreDated == Spec => []CommandsOfThisReplay
<1>1. Inv => CommandsOfThisReplay
  BY DEF Inv, Dated, CommandsOfThisReplay, ReplayAllowed
<1> QED
  BY <1>1, Invariance, PTL

-----------------------------------------------------------------------------
(* VrLink.                                                                 *)

Samples ==
  [from: Senders, n: 1..MaxSamples, press: BOOLEAN, held: BOOLEAN, stamp: Nat, head: BOOLEAN,
   nth: Nat]
Headsets == [sent: Nat, held: BOOLEAN, stamp: Nat, presses: Nat]
Receivers ==
  [peer: Senders \cup {NoSender}, last: {-1} \cup 0..(W - 1), lastSender: Senders \cup {NoSender},
   stamp: Int, ever: BOOLEAN, old: BOOLEAN, sampleOld: BOOLEAN, timeout: BOOLEAN,
   headBad: BOOLEAN, reports: BOOLEAN]
Orders == [from: Senders \cup {NoSender}, n: Nat, nth: Nat]
Pasts == [resumes: Nat, switched: BOOLEAN, order: Orders, back: BOOLEAN, stopped: BOOLEAN]

(* The variables keep their types, and no headset exceeds the bound.       *)
LinkTypeOK ==
  /\ headset \in [Senders -> Headsets]
  /\ air \in SUBSET Samples /\ queue \in Seq(Samples) /\ proc \in Samples \cup {NoSample}
  /\ rx \in Receivers /\ past \in Pasts
  /\ lastA \in BOOLEAN /\ output \in BOOLEAN
  /\ sent \in 0..MaxSamples /\ flaws \in Nat
  /\ \A s \in Senders : headset[s].sent <= sent

(* A sample shows a press to whom it follows one with the button as before.*)
Edge(x, before) == IF x.press = TRUE \/ (x.held = TRUE /\ before = FALSE) THEN 1 ELSE 0
Rise(now, before) == IF now = TRUE /\ before = FALSE THEN 1 ELSE 0
Follows(x, y) == x.from = y.from /\ x.n < y.n => x.nth + Edge(y, x.held) <= y.nth
Precedes(x, h) == x.n <= h.sent /\ x.nth + Rise(h.held, x.held) <= h.presses

InHand == air \cup {queue[i] : i \in DOMAIN queue} \cup ({proc} \ {NoSample})

(* Between any two samples of a headset lie as many presses as the later   *)
(* one can show to whoever saw only the earlier.                           *)
Counted ==
  /\ \A x \in InHand, y \in InHand : Follows(x, y)
  /\ \A x \in InHand : Edge(x, FALSE) <= x.nth /\ Precedes(x, headset[x.from])
  /\ \A s \in Senders : Rise(headset[s].held, FALSE) <= headset[s].presses

(* What waits is of the headset that has the link, in its order, and newer *)
(* than what was taken.                                                    *)
Ordered ==
  past.switched = FALSE =>
    /\ rx.lastSender = NoSender => past.order = NothingTaken
    /\ rx.lastSender # NoSender =>
         \E n \in 1..MaxSamples :
           /\ rx.last = Sequence(n) /\ past.order.n <= n
           /\ \A i \in DOMAIN queue : queue[i].n <= n
    /\ \A i \in DOMAIN queue : queue[i].from = rx.lastSender /\ queue[i].n > past.order.n
    /\ \A i \in DOMAIN queue, j \in DOMAIN queue : i < j => queue[i].n < queue[j].n
    /\ (past.order.from = NoSender \/ past.order.from = rx.lastSender) /\ past.back = FALSE
    /\ proc # NoSample =>
         proc.from = rx.lastSender /\ proc.n = past.order.n /\ proc.nth = past.order.nth

(* The output was resumed no more often than the last sample that was      *)
(* taken can account for, and what comes later accounts for what it shows. *)
Linked(s) == rx.lastSender = NoSender \/ rx.lastSender = s
Accounted ==
  past.switched = FALSE =>
    /\ proc # NoSample => past.resumes + Edge(proc, lastA) <= proc.nth
    /\ proc = NoSample =>
         /\ past.resumes <= past.order.nth
         /\ \A x \in InHand : Linked(x.from) /\ x.n > past.order.n =>
              past.order.nth + Edge(x, lastA) <= x.nth
         /\ \A s \in Senders : Linked(s) =>
              /\ past.order.n <= headset[s].sent
              /\ past.order.nth + Rise(headset[s].held, lastA) <= headset[s].presses

LinkInv == LinkTypeOK /\ Counted /\ Ordered /\ Accounted

LEMMA SequenceIsNumber == \A n \in Nat : Sequence(n) \in 0..(W - 1)
<1> SUFFICES ASSUME NEW n \in Nat PROVE (First + n) % W \in 0..(W - 1)
  BY DEF Sequence
<1> QED
  BY WindowAssumption, NumbersAssumption

(* As long as less than half of the numbers are in use, the comparison of  *)
(* is_sequence_newer is that of the unwrapped numbers.                     *)
LEMMA NewerIsLater ==
  ASSUME NEW n \in 0..MaxSamples, NEW m \in 0..MaxSamples, Newer(Sequence(n), Sequence(m))
  PROVE  n > m
<1>1. W \in Nat \ {0} /\ First \in Nat /\ MaxSamples \in Nat /\ W > 2 * MaxSamples
  BY WindowAssumption, NumbersAssumption
<1> DEFINE x == Sequence(n)
           y == Sequence(m)
           p == (First + n) \div W
           q == (First + m) \div W
           k == q - p
<1>2. x \in 0..(W - 1) /\ y \in 0..(W - 1)
  BY SequenceIsNumber, <1>1
<1>3. First + n = W * p + x /\ First + m = W * q + y /\ p \in Int /\ q \in Int
  BY <1>1 DEF Sequence
<1>4. 0 < (x - y) % W /\ (x - y) % W < W \div 2
  BY <1>1, <1>2 DEF Newer
<1> HIDE DEF x, y, p, q
<1> SUFFICES ASSUME n <= m PROVE FALSE
  BY <1>1
<1>5. x - y = W * k + (n - m)
  <2>1. W * q - W * p = W * k
    BY <1>1, <1>3
  <2>2. W * q \in Int /\ W * p \in Int /\ W * k \in Int
    BY <1>1, <1>3
  <2> HIDE DEF k
  <2> QED
    BY <1>1, <1>2, <1>3, <2>1, <2>2
<1>6. k \in Int
  BY <1>3
<1> HIDE DEF k
<1>7. CASE n = m
  <2>1. (W * k + 0) % W = 0
    BY <1>1, <1>6
  <2>2. x - y = W * k + 0
    BY <1>5, <1>7, <1>1, <1>2
  <2> QED
    BY <2>1, <2>2, <1>4
<1>8. CASE n < m
  <2> DEFINE r == W - (m - n)
             l == k - 1
  <2>1. r \in Nat /\ r < W /\ r > W \div 2
    BY <1>1, <1>8
  <2>2. x - y = W * l + r
    <3>1. W * l = W * k - W /\ W * k \in Int
      BY <1>1, <1>6
    <3> HIDE DEF l
    <3> QED
      BY <3>1, <1>1, <1>5
  <2>3. l \in Int
    BY <1>6
  <2> HIDE DEF l, r
  <2>4. (W * l + r) % W = r
    BY <2>1, <2>3, <1>1
  <2> QED
    BY <2>1, <2>2, <2>4, <1>1, <1>4
<1> QED
  BY <1>1, <1>7, <1>8

LEMMA LinkInitially == LinkInit => LinkInv
<1> SUFFICES ASSUME LinkInit PROVE LinkInv
  OBVIOUS
<1>1. LinkTypeOK
  <2>1. /\ headset \in [Senders -> Headsets] /\ \A s \in Senders : headset[s].sent <= sent
        /\ sent \in 0..MaxSamples /\ flaws \in Nat
    BY NumbersAssumption DEF LinkInit, Headsets
  <2>2. rx \in Receivers
    BY NumbersAssumption DEF LinkInit, Receivers
  <2>3. past \in Pasts
    BY DEF LinkInit, Pasts, Orders, NothingTaken
  <2>4. queue \in Seq(Samples) /\ air \in SUBSET Samples /\ proc \in Samples \cup {NoSample}
    BY DEF LinkInit
  <2>5. lastA \in BOOLEAN /\ output \in BOOLEAN
    BY DEF LinkInit
  <2> QED
    BY <2>1, <2>2, <2>3, <2>4, <2>5 DEF LinkTypeOK
<1>2. InHand = {}
  BY DEF LinkInit, InHand
<1>3. Counted
  BY <1>2 DEF LinkInit, Counted, Rise
<1>4. Ordered
  BY DEF LinkInit, Ordered, NothingTaken
<1>5. Accounted
  BY <1>2 DEF LinkInit, Accounted, NothingTaken, Rise
<1> QED
  BY <1>1, <1>3, <1>4, <1>5 DEF LinkInv

(* Nobody sends: what is in hand does not grow, and stays counted.         *)
LEMMA CountedKeeps ==
  ASSUME Counted, UNCHANGED headset, InHand' \subseteq InHand
  PROVE  Counted'
<1>1. \A x, y : Follows(x, y)' = Follows(x, y)
  BY DEF Follows
<1>2. \A x \in InHand : Edge(x, FALSE)' = Edge(x, FALSE)
  BY DEF Edge
<1>3. \A x \in InHand : Precedes(x, headset[x.from])' = Precedes(x, headset[x.from])
  BY DEF Precedes
<1> QED
  BY <1>1, <1>2, <1>3 DEF Counted, Rise, Edge, Precedes, Follows

(* The lease, the time-outs and their reports touch nothing of it, nor does*)
(* a sample that is refused.                                               *)
LEMMA LinkQuiet ==
  ASSUME LinkInv, UNCHANGED <<headset, queue, proc, lastA, sent>>, flaws' \in Nat,
         air' \subseteq air,
         rx' \in Receivers, rx'.last = rx.last, rx'.lastSender = rx.lastSender,
         output' \in BOOLEAN,
         past' \in Pasts, past'.resumes = past.resumes, past'.switched = past.switched,
         past'.order = past.order, past'.back = past.back
  PROVE  LinkInv'
<1>1. LinkTypeOK'
  BY DEF LinkInv, LinkTypeOK
<1>2. InHand' \subseteq InHand
  BY DEF InHand
<1>3. Counted'
  BY <1>2, CountedKeeps DEF LinkInv
<1>4. Ordered'
  BY DEF LinkInv, Ordered
<1>5. Accounted'
  BY <1>2 DEF LinkInv, Accounted, Linked, Edge, Rise
<1> QED
  BY <1>1, <1>3, <1>4, <1>5 DEF LinkInv

LEMMA LinkQuietSteps ==
  ASSUME LinkInv,
         \/ \E s \in Senders : ReceiveInvalid(s) \/ ReceiveRelease(s)
         \/ Watch \/ Report \/ TimePasses
  PROVE  LinkInv'
<1>1. rx \in Receivers /\ past \in Pasts /\ flaws \in Nat /\ output \in BOOLEAN
  BY DEF LinkInv, LinkTypeOK
<1>2. ASSUME NEW s \in Senders, ReceiveInvalid(s) \/ ReceiveRelease(s) PROVE LinkInv'
  <2>1. rx' \in Receivers /\ rx'.last = rx.last /\ rx'.lastSender = rx.lastSender
    BY <1>1, <1>2 DEF ReceiveInvalid, ReceiveRelease, Lease, Receivers
  <2> QED
    BY <1>1, <1>2, <2>1, LinkQuiet DEF ReceiveInvalid, ReceiveRelease
<1>3. CASE Watch
  <2>1. rx' \in Receivers /\ rx'.last = rx.last /\ rx'.lastSender = rx.lastSender
    BY <1>1, <1>3 DEF Watch, Receivers
  <2> QED
    BY <1>1, <1>3, <2>1, LinkQuiet DEF Watch
<1>4. CASE Report
  <2>1. rx' \in Receivers /\ rx'.last = rx.last /\ rx'.lastSender = rx.lastSender
    BY <1>1, <1>4 DEF Report, Receivers
  <2>2. /\ past' \in Pasts /\ past'.resumes = past.resumes /\ past'.switched = past.switched
        /\ past'.order = past.order /\ past'.back = past.back
    BY <1>1, <1>4 DEF Report, Pasts, Receivers
  <2> QED
    BY <1>1, <1>4, <2>1, <2>2, LinkQuiet DEF Report
<1>5. CASE TimePasses
  <2>1. rx' \in Receivers /\ rx'.last = rx.last /\ rx'.lastSender = rx.lastSender
    BY <1>1, <1>5 DEF TimePasses, Grows, Receivers
  <2> QED
    BY <1>1, <1>5, <2>1, LinkQuiet DEF TimePasses
<1> QED
  BY <1>2, <1>3, <1>4, <1>5

LEMMA InHandTypes ==
  ASSUME LinkTypeOK
  PROVE  /\ InHand \subseteq Samples /\ air \subseteq InHand
         /\ \A i \in DOMAIN queue : queue[i] \in InHand
         /\ proc # NoSample => proc \in InHand
BY DEF LinkTypeOK, InHand

(* A new sample of a headset: it counts what the button did since.         *)
LEMMA SendKeeps ==
  ASSUME LinkInv, NEW s \in Senders, NEW held \in BOOLEAN, NEW head \in BOOLEAN,
         NEW frozen \in BOOLEAN, Send(s, held, head, frozen)
  PROVE  LinkInv'
<1> DEFINE h == headset[s]
           press == held /\ ~h.held
           rise == IF press THEN 1 ELSE 0
           stamp == IF frozen THEN h.stamp ELSE h.sent + 1
           sample == [from |-> s, n |-> h.sent + 1, press |-> press, held |-> held,
                      stamp |-> stamp, head |-> head, nth |-> h.presses + rise]
           after == [sent |-> h.sent + 1, held |-> held, stamp |-> stamp,
                     presses |-> h.presses + rise]
<1>1. LinkTypeOK /\ Counted /\ Ordered /\ Accounted
  BY DEF LinkInv
<1>2. /\ h \in Headsets /\ h.sent \in Nat /\ h.presses \in Nat /\ h.stamp \in Nat
      /\ h.held \in BOOLEAN /\ h.sent <= sent /\ sent \in Nat
  BY <1>1 DEF LinkTypeOK, Headsets
<1>3. /\ sent < MaxSamples /\ sent' = sent + 1
      /\ headset' = [headset EXCEPT ![s] = after] /\ air' = air \cup {sample}
      /\ UNCHANGED <<past, rx, queue, proc, lastA, output>>
  BY DEF Send
<1>4. flaws' \in Nat
  <2> DEFINE more == IF frozen \/ ~head THEN 1 ELSE 0
  <2>1. flaws' = flaws + more
    BY DEF Send
  <2> QED
    BY <1>1, <2>1 DEF LinkTypeOK
<1>5. press \in BOOLEAN /\ rise \in Nat /\ stamp \in Nat /\ h.sent + 1 \in 1..MaxSamples
  BY <1>2, <1>3, NumbersAssumption
<1>6. rise = Rise(held, h.held) /\ (press = TRUE <=> (held = TRUE /\ h.held = FALSE))
  BY <1>2 DEF Rise
<1> HIDE DEF press, rise, stamp
<1>7. sample \in Samples /\ after \in Headsets
  BY <1>2, <1>5 DEF Samples, Headsets
<1>8. /\ sample.from = s /\ sample.n = h.sent + 1 /\ sample.press = press /\ sample.held = held
      /\ sample.nth = h.presses + rise
      /\ after.sent = h.sent + 1 /\ after.held = held /\ after.presses = h.presses + rise
  OBVIOUS
<1> HIDE DEF sample, after
<1>9. /\ headset' \in [Senders -> Headsets] /\ headset'[s] = after
      /\ \A t \in Senders : t # s => headset'[t] = headset[t]
  BY <1>1, <1>3, <1>7 DEF LinkTypeOK
<1> HIDE DEF h
<1>10. LinkTypeOK'
  <2>1. \A t \in Senders : headset'[t].sent <= sent'
    <3>1. \A t \in Senders : headset[t].sent \in Nat /\ headset[t].sent <= sent
      BY <1>1 DEF LinkTypeOK, Headsets
    <3>2. headset'[s].sent <= sent'
      BY <1>2, <1>3, <1>8, <1>9
    <3> QED
      BY <1>2, <1>3, <1>9, <3>1, <3>2
  <2>2. sent' \in 0..MaxSamples
    BY <1>2, <1>3, NumbersAssumption
  <2>3. air' \in SUBSET Samples
    BY <1>1, <1>3, <1>7 DEF LinkTypeOK
  <2> QED
    BY <1>1, <1>3, <1>4, <1>9, <2>1, <2>2, <2>3 DEF LinkTypeOK
<1>11. InHand' = InHand \cup {sample}
  BY <1>3 DEF InHand
<1>12. InHand \subseteq Samples
  BY <1>1, InHandTypes
<1>13. Counted'
  <2>1. \A x \in InHand : x.from = s => Precedes(x, h)
    BY <1>1 DEF Counted, h
  <2>2. \A x \in InHand : Follows(x, sample)
    BY <1>2, <1>5, <1>6, <1>8, <1>12, <2>1 DEF Follows, Precedes, Edge, Rise, Samples
  <2>3. \A x \in InHand : Follows(sample, x)
    BY <1>2, <1>8, <1>12, <2>1 DEF Follows, Precedes, Samples
  <2>4. Follows(sample, sample)
    BY <1>2, <1>8 DEF Follows
  <2>5. \A x \in InHand : Precedes(x, headset'[x.from])
    <3> SUFFICES ASSUME NEW x \in InHand PROVE Precedes(x, headset'[x.from])
      OBVIOUS
    <3>1. x \in Samples /\ Precedes(x, headset[x.from])
      BY <1>1, <1>12 DEF Counted
    <3>2. CASE x.from # s
      BY <3>1, <3>2, <1>9 DEF Samples
    <3>3. CASE x.from = s
      BY <3>1, <3>3, <2>1, <1>2, <1>5, <1>6, <1>8, <1>9 DEF Precedes, Rise, Samples
    <3> QED
      BY <3>2, <3>3
  <2>6. Precedes(sample, headset'[sample.from])
    BY <1>2, <1>5, <1>8, <1>9 DEF Precedes, Rise
  <2>7. Rise(h.held, FALSE) <= h.presses
    BY <1>1 DEF Counted, h
  <2>8. Edge(sample, FALSE) <= sample.nth
    BY <1>2, <1>5, <1>6, <1>8, <2>7 DEF Edge, Rise
  <2>9. \A t \in Senders : Rise(headset'[t].held, FALSE) <= headset'[t].presses
    BY <1>1, <1>2, <1>5, <1>6, <1>8, <1>9, <2>7 DEF Counted, Rise
  <2>10. /\ \A x \in InHand', y \in InHand' : Follows(x, y)
         /\ \A x \in InHand' : Edge(x, FALSE) <= x.nth /\ Precedes(x, headset'[x.from])
    BY <1>1, <1>11, <2>2, <2>3, <2>4, <2>5, <2>6, <2>8 DEF Counted
  <2> QED
    BY <2>9, <2>10 DEF Counted, Follows, Edge, Precedes, Rise
<1>14. Ordered'
  BY <1>1, <1>3 DEF Ordered
<1>15. Accounted'
  <2> SUFFICES ASSUME past.switched = FALSE, proc = NoSample
               PROVE  /\ \A x \in InHand' : Linked(x.from) /\ x.n > past.order.n =>
                           past.order.nth + Edge(x, lastA) <= x.nth
                      /\ \A t \in Senders : Linked(t) =>
                           /\ past.order.n <= headset'[t].sent
                           /\ past.order.nth + Rise(headset'[t].held, lastA) <= headset'[t].presses
    BY <1>1, <1>3 DEF Accounted, Linked, Edge, Rise
  <2>1. Linked(s) => /\ past.order.n <= h.sent
                     /\ past.order.nth + Rise(h.held, lastA) <= h.presses
    BY <1>1 DEF Accounted, h
  <2>2. past.order.n \in Nat /\ past.order.nth \in Nat /\ lastA \in BOOLEAN
    BY <1>1 DEF LinkTypeOK, Pasts, Orders
  <2>3. Linked(s) => past.order.nth + Edge(sample, lastA) <= sample.nth
    BY <2>1, <2>2, <1>2, <1>5, <1>6, <1>8 DEF Edge, Rise
  <2>4. Linked(s) => /\ past.order.n <= after.sent
                     /\ past.order.nth + Rise(after.held, lastA) <= after.presses
    BY <2>1, <2>2, <1>2, <1>5, <1>6, <1>8 DEF Rise
  <2>5. \A x \in InHand : Linked(x.from) /\ x.n > past.order.n =>
                           past.order.nth + Edge(x, lastA) <= x.nth
    BY <1>1 DEF Accounted
  <2>6. \A t \in Senders : Linked(t) /\ t # s =>
                           /\ past.order.n <= headset'[t].sent
                           /\ past.order.nth + Rise(headset'[t].held, lastA) <= headset'[t].presses
    BY <1>1, <1>9 DEF Accounted
  <2> QED
    BY <1>8, <1>9, <1>11, <2>3, <2>4, <2>5, <2>6
<1> QED
  BY <1>10, <1>13, <1>14, <1>15 DEF LinkInv

(* A switch of headset forgets the history, so that nothing is claimed.    *)
LEMMA Switched ==
  ASSUME LinkTypeOK', Counted', past'.switched = TRUE
  PROVE  LinkInv'
BY DEF LinkInv, Ordered, Accounted

(* The control takes the oldest sample of the queue.                       *)
LEMMA TakeKeeps ==
  ASSUME LinkInv, Take
  PROVE  LinkInv'
<1> DEFINE x == queue[1]
           order == [from |-> x.from, n |-> x.n, nth |-> x.nth]
           back == past.back \/ Late(x)
           noted == [past EXCEPT !.order = order, !.back = back]
<1>1. LinkTypeOK /\ Counted /\ Ordered /\ Accounted
  BY DEF LinkInv
<1>2. /\ proc = NoSample /\ queue # <<>> /\ proc' = Head(queue) /\ queue' = Tail(queue)
      /\ UNCHANGED <<sent, headset, air, rx, lastA, output, flaws>>
  BY DEF Take
<1>3. queue \in Seq(Samples) /\ Len(queue) \in Nat \ {0} /\ Head(queue) = x /\ x \in Samples
  BY <1>1, <1>2 DEF LinkTypeOK
<1>4. /\ queue' \in Seq(Samples) /\ Len(queue') = Len(queue) - 1
      /\ \A i \in DOMAIN queue' : i + 1 \in DOMAIN queue /\ queue'[i] = queue[i + 1]
  BY <1>2, <1>3
<1>5. past' = Remember(noted)
  BY <1>3 DEF Take
<1>6. order \in Orders /\ back \in BOOLEAN
  BY <1>1, <1>3 DEF Orders, Samples, Late, LinkTypeOK, Pasts
<1>7. order.from = x.from /\ order.n = x.n /\ order.nth = x.nth
  OBVIOUS
<1>8. back = TRUE <=> past.back = TRUE \/ (past.order.from = x.from /\ past.order.n >= x.n)
  BY <1>1 DEF Late, LinkTypeOK, Pasts
<1> HIDE DEF order, back
<1>9. noted \in Pasts /\ noted.order = order /\ noted.back = back
      /\ noted.switched = past.switched /\ noted.resumes = past.resumes
  BY <1>1, <1>6 DEF LinkTypeOK, Pasts
<1> HIDE DEF noted
<1>10. past' \in Pasts
  BY <1>5, <1>9 DEF Remember, Pasts, NothingTaken, Orders
<1>11. LinkTypeOK'
  BY <1>1, <1>2, <1>3, <1>4, <1>10 DEF LinkTypeOK
<1>12. x \in InHand /\ InHand' \subseteq InHand
  BY <1>2, <1>3, <1>4 DEF InHand
<1>13. Counted'
  BY <1>1, <1>2, <1>12, CountedKeeps
<1>14. CASE past.switched = TRUE
  BY <1>5, <1>9, <1>11, <1>13, <1>14, Switched DEF Remember, Pasts
<1>15. CASE past.switched = FALSE
  <2>1. past' = noted
    BY <1>5, <1>9, <1>15 DEF Remember
  <2>2. /\ past.order.n \in Nat /\ past.order.nth \in Nat /\ past.resumes \in Nat
        /\ lastA \in BOOLEAN /\ past.back \in BOOLEAN
    BY <1>1 DEF LinkTypeOK, Pasts, Orders
  <2>3. 1 \in DOMAIN queue
    BY <1>3
  <2>4. x.from = rx.lastSender /\ x.n > past.order.n /\ past.back = FALSE
    BY <1>1, <1>15, <2>3 DEF Ordered
  <2>5. x.from \in Senders /\ x.from # NoSender /\ x.n \in Nat /\ x.nth \in Nat
    BY <1>3, NoSenderAssumption DEF Samples
  <2>6. x # NoSample
    BY <2>5 DEF NoSample
  <2>7. back = FALSE
    BY <1>6, <1>8, <2>2, <2>4, <2>5
  <2>8. Ordered'
    <3>1. PICK n \in 1..MaxSamples :
            /\ rx.last = Sequence(n) /\ past.order.n <= n
            /\ \A i \in DOMAIN queue : queue[i].n <= n
      BY <1>1, <1>15, <2>4, <2>5 DEF Ordered
    <3>2. /\ rx'.last = Sequence(n) /\ past'.order.n <= n
          /\ \A i \in DOMAIN queue' : queue'[i].n <= n
      BY <3>1, <1>2, <1>4, <1>7, <1>9, <2>1, <2>3
    <3>3. \A i \in DOMAIN queue' : queue'[i].from = rx'.lastSender /\ queue'[i].n > past'.order.n
      <4> SUFFICES ASSUME NEW i \in DOMAIN queue'
                   PROVE  queue'[i].from = rx'.lastSender /\ queue'[i].n > past'.order.n
        OBVIOUS
      <4>1. i + 1 \in DOMAIN queue /\ queue'[i] = queue[i + 1] /\ 1 < i + 1
        BY <1>4
      <4>2. queue[i + 1].from = rx.lastSender /\ queue[1].n < queue[i + 1].n
        BY <4>1, <1>1, <1>15, <2>3 DEF Ordered
      <4> QED
        BY <4>1, <4>2, <1>2, <1>3, <1>4, <1>7, <1>9, <2>1 DEF Samples
    <3>4. \A i \in DOMAIN queue', j \in DOMAIN queue' : i < j => queue'[i].n < queue'[j].n
      <4> SUFFICES ASSUME NEW i \in DOMAIN queue', NEW j \in DOMAIN queue', i < j
                   PROVE  queue'[i].n < queue'[j].n
        OBVIOUS
      <4>1. i + 1 \in DOMAIN queue /\ j + 1 \in DOMAIN queue /\ i + 1 < j + 1
        BY <1>4
      <4> QED
        BY <4>1, <1>1, <1>4, <1>15 DEF Ordered
    <3>5. proc'.from = rx'.lastSender /\ proc'.n = past'.order.n /\ proc'.nth = past'.order.nth
      BY <1>2, <1>3, <1>7, <1>9, <2>1, <2>4
    <3>6. past'.order.from = rx'.lastSender /\ past'.back = FALSE /\ rx'.lastSender # NoSender
      BY <1>2, <1>7, <1>9, <2>1, <2>4, <2>5, <2>7
    <3> QED
      BY <3>2, <3>3, <3>4, <3>5, <3>6 DEF Ordered
  <2>9. Accounted'
    <3>1. past.resumes <= past.order.nth
      BY <1>1, <1>2, <1>15 DEF Accounted
    <3>2. past.order.nth + Edge(x, lastA) <= x.nth
      BY <1>1, <1>2, <1>12, <1>15, <2>4 DEF Accounted, Linked
    <3>3. past.resumes + Edge(x, lastA) <= x.nth
      BY <3>1, <3>2, <2>2, <2>5 DEF Edge
    <3> QED
      BY <3>3, <1>2, <1>3, <1>9, <2>1, <2>6 DEF Accounted, Edge
  <2> QED
    BY <1>11, <1>13, <2>8, <2>9 DEF LinkInv
<1> QED
  BY <1>1, <1>14, <1>15 DEF LinkTypeOK, Pasts

(* The control acts on the sample it took: a press resumes the output.     *)
LEMMA HandleKeeps ==
  ASSUME LinkInv, Handle
  PROVE  LinkInv'
<1> DEFINE resumes == past.resumes + Edge(proc, lastA)
<1>1. LinkTypeOK /\ Counted /\ Ordered /\ Accounted
  BY DEF LinkInv
<1>2. /\ proc # NoSample /\ proc' = NoSample /\ lastA' = proc.held
      /\ UNCHANGED <<sent, headset, air, rx, queue, flaws>>
  BY DEF Handle
<1>3. proc \in Samples /\ proc.held \in BOOLEAN /\ proc.press \in BOOLEAN /\ lastA \in BOOLEAN
  BY <1>1, <1>2 DEF LinkTypeOK, Samples
<1>4. past.resumes \in Nat /\ past.switched \in BOOLEAN /\ past \in Pasts
  BY <1>1 DEF LinkTypeOK, Pasts
<1>5. resumes \in Nat
  BY <1>4 DEF Edge
<1>6. Pressed(proc) <=> Edge(proc, lastA) = 1
  BY <1>3 DEF Pressed, Edge
<1>7. /\ past' \in Pasts /\ output' \in BOOLEAN /\ past'.switched = past.switched
      /\ past.switched = FALSE =>
           past'.resumes = resumes /\ past'.order = past.order /\ past'.back = past.back
  <2>1. CASE Pressed(proc)
    <3> DEFINE noted == [past EXCEPT !.resumes = past.resumes + 1]
    <3>1. past' = Remember(noted) /\ output' = TRUE
      BY <2>1 DEF Handle
    <3>2. /\ noted \in Pasts /\ noted.switched = past.switched /\ noted.resumes = past.resumes + 1
          /\ noted.order = past.order /\ noted.back = past.back
      BY <1>4 DEF Pasts
    <3> HIDE DEF noted
    <3>3. past' \in Pasts /\ past'.switched = past.switched
      BY <3>1, <3>2 DEF Remember, Pasts, NothingTaken, Orders
    <3>4. past.switched = FALSE => past' = noted
      BY <3>1, <3>2 DEF Remember
    <3> QED
      BY <3>1, <3>2, <3>3, <3>4, <2>1, <1>6
  <2>2. CASE ~Pressed(proc)
    <3>1. past' = past /\ output' = output
      BY <2>2 DEF Handle
    <3>2. Edge(proc, lastA) = 0
      BY <2>2, <1>6 DEF Edge
    <3> QED
      BY <3>1, <3>2, <1>1, <1>4 DEF LinkTypeOK
  <2> QED
    BY <2>1, <2>2
<1>8. LinkTypeOK'
  BY <1>1, <1>2, <1>3, <1>7 DEF LinkTypeOK
<1>9. proc \in InHand /\ InHand' \subseteq InHand
  BY <1>2 DEF InHand
<1>10. Counted'
  BY <1>1, <1>2, <1>9, CountedKeeps
<1>11. CASE past.switched = TRUE
  BY <1>7, <1>8, <1>10, <1>11, Switched
<1>12. CASE past.switched = FALSE
  <2>1. /\ past'.resumes = resumes /\ past'.order = past.order /\ past'.back = past.back
        /\ past'.switched = FALSE
    BY <1>7, <1>12
  <2>2. Ordered'
    BY <1>1, <1>2, <1>12, <2>1 DEF Ordered
  <2>3. resumes <= proc.nth
    BY <1>1, <1>2, <1>12 DEF Accounted
  <2>4. proc.from = rx.lastSender /\ proc.n = past.order.n /\ proc.nth = past.order.nth
    BY <1>1, <1>2, <1>12 DEF Ordered
  <2>5. proc.from \in Senders /\ proc.from # NoSender
    BY <1>3, NoSenderAssumption DEF Samples
  <2>6. \A x \in InHand' : Linked(x.from)' /\ x.n > past'.order.n =>
                             past'.order.nth + Edge(x, lastA') <= x.nth
    BY <1>1, <1>2, <1>9, <2>1, <2>4, <2>5 DEF Counted, Follows, Linked
  <2>7. \A s \in Senders : Linked(s)' =>
          /\ past'.order.n <= headset'[s].sent
          /\ past'.order.nth + Rise(headset'[s].held, lastA') <= headset'[s].presses
    BY <1>1, <1>2, <1>9, <2>1, <2>4, <2>5 DEF Counted, Precedes, Linked
  <2>8. Accounted'
    BY <1>2, <2>1, <2>3, <2>4, <2>6, <2>7 DEF Accounted, Edge, Rise
  <2> QED
    BY <1>8, <1>10, <2>2, <2>8 DEF LinkInv
<1> QED
  BY <1>4, <1>11, <1>12

(* A sample reaches the receiver: refused, or accepted and queued.         *)
LEMMA ReceiveKeeps ==
  ASSUME LinkInv, NEW x \in air, NEW again \in BOOLEAN, Receive(x, again)
  PROVE  LinkInv'
<1> DEFINE l == Lease(x.from)
           r == IF l.lastSender = x.from THEN l ELSE [l EXCEPT !.last = -1, !.stamp = -1]
           new == Newer(Sequence(x.n), r.last)
           accepted == Accepted(r, x)
           seen == [r EXCEPT !.lastSender = x.from]
           stopped == past.stopped /\ rx'.sampleOld
           switched == past.switched \/ rx.lastSender \notin {NoSender, rx'.lastSender}
           noted == [past EXCEPT !.stopped = stopped, !.switched = switched]
<1>1. LinkTypeOK /\ Counted /\ Ordered /\ Accounted
  BY DEF LinkInv
<1>2. x \in Samples /\ x \in InHand /\ InHand \subseteq Samples
  BY <1>1, InHandTypes DEF LinkTypeOK
<1>3. /\ x.from \in Senders /\ x.from # NoSender /\ x.n \in 1..MaxSamples /\ x.n \in Nat
      /\ x.stamp \in Nat /\ x.head \in BOOLEAN /\ x.nth \in Nat
  BY <1>2, NoSenderAssumption, NumbersAssumption DEF Samples
<1>4. rx \in Receivers /\ past \in Pasts /\ queue \in Seq(Samples)
  BY <1>1 DEF LinkTypeOK
<1>5. /\ air' \subseteq air /\ flaws' \in Nat
      /\ UNCHANGED <<sent, headset, proc, lastA, output>>
      /\ rx' = CASE Foreign(x.from) -> rx
                 [] ~Foreign(x.from) /\ new -> accepted
                 [] OTHER -> seen
      /\ past' = Remember(noted)
  <2> DEFINE more == IF again THEN 1 ELSE 0
  <2>1. flaws' = flaws + more /\ more \in Nat
    BY DEF Receive
  <2> HIDE DEF more
  <2>2. flaws' \in Nat
    BY <1>1, <2>1 DEF LinkTypeOK
  <2> QED
    BY <2>2 DEF Receive
<1>6. IF new /\ ~Foreign(x.from) THEN Enqueue(x) ELSE queue' = queue
  BY DEF Receive
<1>7. l \in Receivers /\ l.last = rx.last /\ l.lastSender = rx.lastSender
  BY <1>3, <1>4 DEF Lease, Receivers
<1> HIDE DEF l
<1>8. /\ r \in Receivers
      /\ rx.lastSender = x.from => r.last = rx.last /\ r.lastSender = rx.lastSender
      /\ rx.lastSender # x.from => new
  <2>1. CASE l.lastSender = x.from
    BY <1>7, <2>1
  <2>2. CASE l.lastSender # x.from
    <3>1. r = [l EXCEPT !.last = -1, !.stamp = -1]
      BY <2>2
    <3>2. -1 \in {-1} \cup 0..(W - 1) /\ -1 \in Int
      OBVIOUS
    <3> HIDE DEF r
    <3>3. r \in Receivers
      BY <1>7, <3>1, <3>2 DEF Receivers
    <3>4. r.last = -1
      BY <1>7, <3>1 DEF Receivers
    <3> QED
      BY <1>7, <2>2, <3>3, <3>4 DEF Newer
  <2> QED
    BY <2>1, <2>2
<1> HIDE DEF r
<1>9. accepted \in Receivers /\ accepted.last = Sequence(x.n) /\ accepted.lastSender = x.from
  <2> DEFINE advanced == r.stamp # x.stamp
             reports == ~x.head /\ ~r.headBad
             sampleOld == r.sampleOld /\ ~advanced
             late == r.timeout /\ ~advanced
             bad == ~x.head
             last == Sequence(x.n)
  <2>1. advanced \in BOOLEAN /\ reports \in BOOLEAN /\ sampleOld \in BOOLEAN /\ late \in BOOLEAN
        /\ bad \in BOOLEAN
    OBVIOUS
  <2>2. last \in 0..(W - 1)
    BY <1>3, SequenceIsNumber
  <2>3. accepted = [r EXCEPT !.lastSender = x.from, !.last = last, !.stamp = x.stamp,
                             !.ever = TRUE, !.old = FALSE, !.sampleOld = sampleOld,
                             !.timeout = late, !.headBad = bad, !.reports = reports]
    BY DEF Accepted
  <2> HIDE DEF advanced, reports, sampleOld, late, bad, last, accepted
  <2>4. accepted \in Receivers /\ accepted.last = last /\ accepted.lastSender = x.from
    <3>1. accepted = [peer |-> r.peer, last |-> last, lastSender |-> x.from, stamp |-> x.stamp,
                      ever |-> TRUE, old |-> FALSE, sampleOld |-> sampleOld, timeout |-> late,
                      headBad |-> bad, reports |-> reports]
      BY <1>8, <2>3 DEF Receivers
    <3>2. r.peer \in Senders \cup {NoSender} /\ x.stamp \in Int
      BY <1>3, <1>8 DEF Receivers
    <3> QED
      BY <1>3, <2>1, <2>2, <3>1, <3>2 DEF Receivers
  <2> QED
    BY <2>4 DEF last
<1>10. seen \in Receivers /\ seen.last = r.last /\ seen.lastSender = x.from
  BY <1>3, <1>8 DEF Receivers
<1> HIDE DEF accepted, seen, new
<1>11. rx' \in Receivers
  BY <1>4, <1>5, <1>9, <1>10
<1>12. stopped \in BOOLEAN /\ switched \in BOOLEAN
  BY <1>4, <1>11 DEF Pasts, Receivers
<1>13. switched = TRUE <=> \/ past.switched = TRUE
                           \/ rx.lastSender # NoSender /\ rx.lastSender # rx'.lastSender
  BY <1>4 DEF Pasts
<1> HIDE DEF stopped, switched
<1>14. /\ noted \in Pasts /\ noted.switched = switched /\ noted.resumes = past.resumes
       /\ noted.order = past.order /\ noted.back = past.back
  BY <1>4, <1>12 DEF Pasts
<1> HIDE DEF noted
<1>15. /\ past' \in Pasts /\ past'.switched = switched
       /\ switched = FALSE => /\ past'.resumes = past.resumes /\ past'.order = past.order
                              /\ past'.back = past.back
  BY <1>5, <1>14 DEF Remember, Pasts, NothingTaken, Orders
<1>16. queue' \in Seq(Samples)
  BY <1>2, <1>4, <1>6 DEF Enqueue
<1>17. LinkTypeOK'
  BY <1>1, <1>5, <1>11, <1>15, <1>16 DEF LinkTypeOK
<1>18. \A i \in DOMAIN queue' : queue'[i] = x \/ \E j \in DOMAIN queue : queue'[i] = queue[j]
  BY <1>4, <1>6 DEF Enqueue
<1>19. InHand' \subseteq InHand
  BY <1>2, <1>5, <1>18 DEF InHand
<1>20. Counted'
  BY <1>1, <1>5, <1>19, CountedKeeps
<1>21. CASE switched = TRUE
  BY <1>15, <1>17, <1>20, <1>21, Switched
<1>22. CASE switched = FALSE /\ (Foreign(x.from) \/ ~new)
  <2>1. past.switched = FALSE
    BY <1>4, <1>13, <1>22 DEF Pasts
  <2>2. rx'.last = rx.last /\ rx'.lastSender = rx.lastSender
    BY <1>5, <1>8, <1>10, <1>22
  <2>3. queue' = queue
    BY <1>6, <1>22
  <2>4. output' \in BOOLEAN
    BY <1>1, <1>5 DEF LinkTypeOK
  <2>5. /\ past'.resumes = past.resumes /\ past'.switched = past.switched
        /\ past'.order = past.order /\ past'.back = past.back
    BY <1>15, <1>22, <2>1
  <2> QED
    BY <1>5, <1>11, <1>15, <2>2, <2>3, <2>4, <2>5, LinkQuiet
<1>23. CASE switched = FALSE /\ ~Foreign(x.from) /\ new
  <2>1. past.switched = FALSE /\ (rx.lastSender = NoSender \/ rx.lastSender = x.from)
    BY <1>4, <1>5, <1>9, <1>13, <1>23 DEF Pasts
  <2>2. rx'.last = Sequence(x.n) /\ rx'.lastSender = x.from
    BY <1>5, <1>9, <1>23
  <2>3. /\ past'.resumes = past.resumes /\ past'.order = past.order /\ past'.back = past.back
        /\ past'.switched = FALSE
    BY <1>15, <1>23
  <2>4. past.order \in Orders /\ past.order.n \in Nat /\ past.back \in BOOLEAN
    BY <1>4 DEF Pasts, Orders
  <2>5. \A i \in DOMAIN queue : queue[i] \in Samples /\ queue[i].n \in Nat /\ queue[i].from # NoSender
    <3>1. \A y \in Samples : y.n \in Nat /\ y.from # NoSender
      BY NoSenderAssumption, NumbersAssumption DEF Samples
    <3>2. \A i \in DOMAIN queue : queue[i] \in Samples
      BY <1>4
    <3> QED
      BY <3>1, <3>2
  <2>6. past.order.n < x.n /\ \A i \in DOMAIN queue : queue[i].n < x.n
    <3>1. CASE rx.lastSender = NoSender
      <4>1. past.order = NothingTaken /\ DOMAIN queue = {}
        BY <1>1, <2>1, <2>5, <3>1 DEF Ordered
      <4> QED
        BY <1>3, <4>1 DEF NothingTaken
    <3>2. CASE rx.lastSender = x.from
      <4>1. PICK n \in 1..MaxSamples :
              /\ rx.last = Sequence(n) /\ past.order.n <= n
              /\ \A i \in DOMAIN queue : queue[i].n <= n
        BY <1>1, <1>3, <2>1, <3>2 DEF Ordered
      <4>2. Newer(Sequence(x.n), Sequence(n))
        BY <1>8, <1>23, <3>2, <4>1 DEF new
      <4>3. x.n > n
        BY <1>3, <4>2, NewerIsLater, NumbersAssumption
      <4> QED
        BY <1>3, <2>4, <2>5, <4>1, <4>3
    <3> QED
      BY <2>1, <3>1, <3>2
  <2>7. Enqueue(x)
    BY <1>6, <1>23
  <2> DEFINE kept == IF Len(queue) = QueueSize THEN Tail(queue) ELSE queue
  <2>8. queue' = Append(kept, x)
    BY <2>7 DEF Enqueue
  <2>9. /\ kept \in Seq(Samples)
        /\ \E k \in {0, 1} : \A i \in DOMAIN kept : i + k \in DOMAIN queue /\ kept[i] = queue[i + k]
    <3>1. CASE Len(queue) = QueueSize
      <4>1. Len(queue) \in Nat \ {0}
        BY <3>1, QueueAssumption
      <4>2. /\ Tail(queue) \in Seq(Samples)
            /\ \A i \in DOMAIN Tail(queue) : i + 1 \in DOMAIN queue /\ Tail(queue)[i] = queue[i + 1]
        BY <1>4, <4>1
      <4> QED
        BY <3>1, <4>2
    <3>2. CASE Len(queue) # QueueSize
      <4>1. \A i \in DOMAIN queue : i + 0 \in DOMAIN queue /\ queue[i] = queue[i + 0]
        BY <1>4
      <4> QED
        BY <3>2, <4>1, <1>4
    <3> QED
      BY <3>1, <3>2
  <2> HIDE DEF kept
  <2>10. PICK k \in {0, 1} :
           \A i \in DOMAIN kept : i + k \in DOMAIN queue /\ kept[i] = queue[i + k]
    BY <2>9
  <2>11. /\ DOMAIN queue' = DOMAIN kept \cup {Len(kept) + 1} /\ Len(kept) \in Nat
         /\ DOMAIN kept = 1..Len(kept)
         /\ queue'[Len(kept) + 1] = x /\ \A i \in DOMAIN kept : queue'[i] = kept[i]
    BY <1>2, <2>8, <2>9
  <2>12. \A i \in DOMAIN kept : kept[i].n < x.n /\ kept[i].n > past.order.n
                                /\ kept[i].from = rx.lastSender /\ kept[i] \in Samples
    BY <1>1, <2>1, <2>5, <2>6, <2>10 DEF Ordered
  <2>13. \A i \in DOMAIN kept : kept[i].from = x.from
    BY <2>1, <2>5, <2>10, <2>12
  <2>14. \A i \in DOMAIN kept, j \in DOMAIN kept : i < j => kept[i].n < kept[j].n
    <3> SUFFICES ASSUME NEW i \in DOMAIN kept, NEW j \in DOMAIN kept, i < j
                 PROVE  kept[i].n < kept[j].n
      OBVIOUS
    <3>1. i + k \in DOMAIN queue /\ j + k \in DOMAIN queue /\ i + k < j + k
      BY <2>10, <2>11
    <3> QED
      BY <1>1, <2>1, <2>10, <3>1 DEF Ordered
  <2>15. proc # NoSample => proc.from = x.from
    <3>1. proc # NoSample => proc.from \in Senders
      BY <1>1 DEF LinkTypeOK, Samples
    <3> QED
      BY <1>1, <2>1, <3>1, NoSenderAssumption DEF Ordered
  <2>16. Ordered'
    <3>1. /\ rx'.last = Sequence(x.n) /\ past'.order.n <= x.n
          /\ \A i \in DOMAIN queue' : queue'[i].n <= x.n
      BY <1>3, <2>2, <2>3, <2>4, <2>6, <2>11, <2>12, NumbersAssumption DEF Samples
    <3>2. \A i \in DOMAIN queue' : queue'[i].from = rx'.lastSender /\ queue'[i].n > past'.order.n
      BY <2>2, <2>3, <2>6, <2>11, <2>12, <2>13
    <3>3. \A i \in DOMAIN queue', j \in DOMAIN queue' : i < j => queue'[i].n < queue'[j].n
      BY <2>11, <2>12, <2>14
    <3>4. past'.order.from = NoSender \/ past'.order.from = rx'.lastSender
      BY <1>1, <2>1, <2>2, <2>3 DEF Ordered
    <3>5. past'.back = FALSE
      BY <1>1, <2>1, <2>3 DEF Ordered
    <3>6. proc' # NoSample =>
            proc'.from = rx'.lastSender /\ proc'.n = past'.order.n /\ proc'.nth = past'.order.nth
      BY <1>1, <1>5, <2>1, <2>2, <2>3, <2>15 DEF Ordered
    <3> QED
      BY <1>3, <2>2, <3>1, <3>2, <3>3, <3>4, <3>5, <3>6 DEF Ordered
  <2>17. Accounted'
    <3>1. \A s \in Senders : Linked(s)' => Linked(s)
      BY <2>1, <2>2 DEF Linked
    <3>2. \A y \in InHand' : y.from \in Senders
      BY <1>2, <1>19 DEF Samples
    <3> QED
      BY <1>1, <1>5, <1>19, <2>1, <2>3, <3>1, <3>2 DEF Accounted, Edge, Rise
  <2> QED
    BY <1>17, <1>20, <2>16, <2>17 DEF LinkInv
<1> QED
  BY <1>12, <1>21, <1>22, <1>23

LEMMA LinkInvStep == LinkInv /\ [LinkNext]_linkVars => LinkInv'
<1> SUFFICES ASSUME LinkInv, [LinkNext]_linkVars PROVE LinkInv'
  OBVIOUS
<1>1. ASSUME NEW s \in Senders, NEW held \in BOOLEAN, NEW head \in BOOLEAN,
             NEW frozen \in BOOLEAN, Send(s, held, head, frozen)
      PROVE  LinkInv'
  BY <1>1, SendKeeps
<1>2. ASSUME NEW sample \in air, NEW again \in BOOLEAN, Receive(sample, again) PROVE LinkInv'
  BY <1>2, ReceiveKeeps
<1>3. CASE Take
  BY <1>3, TakeKeeps
<1>4. CASE Handle
  BY <1>4, HandleKeeps
<1>5. CASE UNCHANGED linkVars
  BY <1>5, LinkQuiet DEF linkVars, LinkInv, LinkTypeOK
<1> QED
  BY <1>1, <1>2, <1>3, <1>4, <1>5, LinkQuietSteps DEF LinkNext

LEMMA LinkInvariant == LinkSpec => []LinkInv
BY LinkInitially, LinkInvStep, PTL DEF LinkSpec

(* The threads of the gateway, the queue and the datagrams keep their types. *)
THEOREM LinkTypeCorrect == LinkSpec => []LinkTypeOK
<1>1. LinkInv => LinkTypeOK
  BY DEF LinkInv
<1> QED
  BY <1>1, LinkInvariant, PTL

(* A physical press of A resumes the output once at most (_on_pose), for   *)
(* any loss, delay, repetition and any drop from the bounded queue.        *)
THEOREM PressResumesOnce == LinkSpec => []OneResumePerPress
<1>1. LinkInv => OneResumePerPress
  <2> SUFFICES ASSUME LinkInv, past.switched = FALSE, NEW s \in Senders, rx.lastSender = s
               PROVE  past.resumes <= headset[s].presses
    BY DEF OneResumePerPress, LinkInv, LinkTypeOK, Pasts
  <2>1. LinkTypeOK /\ Counted /\ Ordered /\ Accounted
    BY DEF LinkInv
  <2>2. past.resumes \in Nat /\ headset[s].presses \in Nat /\ past.order.nth \in Nat
    BY <2>1 DEF LinkTypeOK, Pasts, Orders, Headsets
  <2>3. CASE proc = NoSample
    <3>1. past.resumes <= past.order.nth
      BY <2>1, <2>3 DEF Accounted
    <3>2. past.order.nth + Rise(headset[s].held, lastA) <= headset[s].presses
      BY <2>1, <2>3 DEF Accounted, Linked
    <3> QED
      BY <2>2, <3>1, <3>2 DEF Rise
  <2>4. CASE proc # NoSample
    <3>1. proc \in InHand /\ proc.nth \in Nat
      BY <2>1, <2>4 DEF InHand, LinkTypeOK, Samples
    <3>2. past.resumes + Edge(proc, lastA) <= proc.nth /\ proc.from = s
      BY <2>1, <2>4 DEF Accounted, Ordered
    <3>3. proc.nth + Rise(headset[s].held, proc.held) <= headset[s].presses
      BY <2>1, <3>1, <3>2 DEF Counted, Precedes
    <3> QED
      BY <2>2, <3>1, <3>2, <3>3 DEF Rise, Edge
  <2> QED
    BY <2>3, <2>4
<1> QED
  BY <1>1, LinkInvariant, PTL

(* The control sees the samples of a headset in their order, across loss,  *)
(* repetition, a full queue and the wrap of the number                     *)
(* (is_sequence_newer, _enqueue_pose).                                     *)
THEOREM SamplesKeepOrder == LinkSpec => []SamplesInOrder
<1>1. LinkInv => SamplesInOrder
  BY DEF LinkInv, LinkTypeOK, Pasts, Ordered, SamplesInOrder
<1> QED
  BY <1>1, LinkInvariant, PTL
=============================================================================
