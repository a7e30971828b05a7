------------------------ MODULE InterventionApi_proofs ------------------------
(* Proofs about InterventionApi for any requests and bounds: an ordinary       *)
(* recording and a correction capture never run together, the human that a     *)
(* session admits is recorded by the capture of this session, and no request   *)
(* of the past stops it.                                                       *)
EXTENDS InterventionApi, TLAPS

Stages == {"none", "opening", "prepared", "ready", "broken"}
ControlStates == {"OFF", "HOLD", "AUTO", "RETURNING", "MANUAL", "FAULT"}
AnyOp == Operations \cup {"none"}

Controls == [session: Nat, epoch: Nat, state: ControlStates, dagger: BOOLEAN,
             preparing: BOOLEAN, answered: SUBSET Ids]
ControlTypes == control \in Controls
RecorderTypes ==
  recorder \in [ordinary: {"off", "starting", "on"}, capture: [session: Nat, stage: Stages]]
Requests == [op: Operations, session: Nat, epoch: Nat]
ReqTypes == req \in [Ids -> Requests \cup {NoRequest}]
HandlerTypes ==
  /\ api \in [pc: {"free", "applied", "prepare", "slots", "prepared", "stop"},
              id: Ids \cup {"none"}, session: Nat, old: BOOLEAN]
  /\ api.pc # "free" => api.id \in Ids
  /\ pending \in [op: AnyOp, id: Ids \cup {"none"}, session: Nat, epoch: Nat]
RuntimeTypes ==
  /\ config \in {"none", "waiting", "stopping", "closed"} /\ runs \in BOOLEAN /\ left \in BOOLEAN
  /\ sessions \in Nat /\ restarts \in Nat /\ faults \in Nat

(* The variables keep their types.                                             *)
ApiTypeOK == ControlTypes /\ RecorderTypes /\ ReqTypes /\ HandlerTypes /\ RuntimeTypes

(* This runtime is the one that serves.                                        *)
Calm == runs /\ config # "stopping"
(* A capture that can still become ready.                                      *)
Live == recorder.capture.stage \in {"opening", "prepared", "ready"}
Preparing == api.pc \in {"prepare", "slots"} /\ ~api.old
Closes == api.pc = "applied" /\ Pending(api.id) /\ req[api.id].op \in Closing

(* Sessions are counted over all runtimes.                                     *)
Counted ==
  /\ control.session <= sessions /\ pending.session <= sessions
  /\ Active => control.session >= 1
  /\ control.dagger => Active

(* What the last request that was applied says of the authority.               *)
LastRequest ==
  /\ pending.op \in Closing => ~control.dagger
  /\ pending.op \in Opening =>
       /\ pending.session >= 1
       /\ pending.session = control.session
          => pending.epoch <= control.epoch /\ (pending.epoch = control.epoch => Active)

(* The worker thread acts for the session that the handler saw.                *)
Handling ==
  /\ api.pc \in {"free", "applied"} => ~api.old
  /\ api.pc = "stop" => ~control.dagger
  /\ recorder.capture.stage = "opening" <=> (api.pc = "slots" /\ ~api.old)
  /\ Calm /\ (Preparing \/ (api.pc = "prepared" /\ ~api.old))
     => Active /\ api.session = control.session
  /\ Calm /\ Preparing /\ control.dagger => control.preparing
  /\ Calm /\ Preparing /\ api.pc = "prepare" => recorder.capture = NoCapture

(* A capture that can become ready is that of the session, and a session that  *)
(* is over is about to stop it.                                                *)
Owned ==
  Calm /\ Live =>
    /\ recorder.capture.session = control.session
    /\ Active \/ Closes \/ (api.pc = "stop" /\ ~api.old)

Alone == Captures => recorder.ordinary = "off"

ApiInv ==
  ApiTypeOK /\ Counted /\ LastRequest /\ Handling /\ Owned /\ Alone /\ CaptureIsOfSession

-----------------------------------------------------------------------------
LEMMA ApiInvInit == Init => ApiInv
<1> SUFFICES ASSUME Init PROVE ApiInv
  OBVIOUS
<1>1. ControlTypes /\ RecorderTypes /\ ReqTypes
  BY DEF Init, Fresh, NoCapture, NoRequest, Controls, Requests, ControlTypes, RecorderTypes, ReqTypes, ControlStates,
         Stages, AnyOp
<1>2. HandlerTypes /\ RuntimeTypes
  BY DEF Init, Idle, NoPending, HandlerTypes, RuntimeTypes, AnyOp
<1>3. Counted /\ LastRequest /\ Handling
  BY DEF Init, Fresh, Idle, NoPending, NoCapture, Counted, LastRequest, Handling, Active, Closing,
         Opening, Preparing
<1>4. Owned /\ Alone /\ CaptureIsOfSession
  BY DEF Init, Fresh, NoCapture, Owned, Alone, Live, Captures, CaptureIsOfSession, Active
<1> QED
  BY <1>1, <1>2, <1>3, <1>4 DEF ApiInv, ApiTypeOK

-----------------------------------------------------------------------------
(* What an operation makes of the authority.                                   *)

OutcomeTypes(after) ==
  /\ after.session \in Nat /\ after.epoch \in Nat /\ after.state \in ControlStates
  /\ after.dagger \in BOOLEAN /\ after.preparing \in BOOLEAN
  /\ after.answered = control.answered

(* A session is opened after the last one, and only when that is over.         *)
OutcomeSession(op, after) ==
  /\ \/ after.session = control.session /\ after.epoch >= control.epoch
     \/ control.state = "OFF" /\ after.session = sessions + 1
  /\ after.state = "OFF" => op = "disable" /\ after.session = control.session
  /\ after.state # "OFF" => after.session >= 1

(* An operation that admits the human without a preparation found him admitted.*)
OutcomeDagger(op, after) ==
  /\ op \in Opening => after.state # "OFF"
  /\ op \in Closing => after.dagger = FALSE
  /\ after.dagger = TRUE => after.state # "OFF"
  /\ after.dagger = TRUE /\ after.preparing = FALSE =>
       /\ control.dagger = TRUE /\ control.preparing = FALSE /\ control.state # "OFF"
       /\ after.session = control.session

Meant(op, after) == OutcomeTypes(after) /\ OutcomeSession(op, after) /\ OutcomeDagger(op, after)

LEMMA OutcomesMean ==
  ASSUME ApiTypeOK, Counted, NEW op \in Operations, NEW after \in Outcomes(op)
  PROVE  Meant(op, after)
<1>1. /\ control.session \in Nat /\ control.epoch \in Nat /\ control.state \in ControlStates
      /\ control.dagger \in BOOLEAN /\ control.preparing \in BOOLEAN /\ sessions \in Nat
  BY DEF ApiTypeOK, ControlTypes, Controls, RuntimeTypes
<1>2. /\ Active <=> control.state # "OFF"
      /\ control.state # "OFF" => control.session >= 1
      /\ control.dagger = TRUE => control.state # "OFF"
  BY DEF Active, Counted
<1>3. ControlTypes
  BY DEF ApiTypeOK
<1>4. CASE op = "enable"
  <2>1. control.state = "OFF" /\ after = Enabled(control, TRUE)
    BY <1>2, <1>4 DEF Outcomes
  <2>2. /\ after.session = sessions + 1 /\ after.epoch = control.epoch + 1
        /\ after.state = "HOLD" /\ after.dagger = TRUE /\ after.preparing = TRUE
        /\ after.answered = control.answered
    BY <1>3, <2>1 DEF Enabled, ControlTypes, Controls
  <2>3. OutcomeTypes(after)
    <3>1. after.session \in Nat /\ after.epoch \in Nat
      BY <1>1, <2>2
    <3> QED
      BY <1>1, <2>2, <3>1 DEF OutcomeTypes, ControlStates
  <2>4. OutcomeSession(op, after)
    <3>1. after.session >= 1
      BY <1>1, <2>2
    <3> QED
      BY <2>1, <2>2, <3>1 DEF OutcomeSession
  <2>5. OutcomeDagger(op, after)
    BY <1>4, <2>2 DEF OutcomeDagger, Closing
  <2> QED
    BY <2>3, <2>4, <2>5 DEF Meant
<1>5. CASE op = "disable"
  <2>1. after = Disabled(control)
    BY <1>5 DEF Outcomes
  <2>2. /\ after.session = control.session /\ after.epoch = control.epoch + 1
        /\ after.state = "OFF" /\ after.dagger = FALSE /\ after.preparing = FALSE
        /\ after.answered = control.answered
    BY <1>3, <2>1 DEF Disabled, ControlTypes, Controls
  <2>3. OutcomeTypes(after)
    <3>1. after.session \in Nat /\ after.epoch \in Nat
      BY <1>1, <2>2
    <3> QED
      BY <1>1, <2>2, <3>1 DEF OutcomeTypes, ControlStates
  <2>4. OutcomeSession(op, after)
    BY <1>1, <1>5, <2>2 DEF OutcomeSession
  <2>5. OutcomeDagger(op, after)
    BY <1>5, <2>2 DEF OutcomeDagger, Opening
  <2> QED
    BY <2>3, <2>4, <2>5 DEF Meant
<1>6. CASE op = "enable_dagger"
  <2>1. control.state \in {"AUTO", "HOLD"}
    BY <1>6 DEF Outcomes
  <2>2. CASE after = control /\ control.dagger = TRUE
    <3>1. OutcomeTypes(after)
      BY <1>1, <2>2 DEF OutcomeTypes
    <3>2. OutcomeSession(op, after)
      BY <1>1, <1>2, <2>1, <2>2 DEF OutcomeSession
    <3>3. OutcomeDagger(op, after)
      BY <1>6, <2>1, <2>2 DEF OutcomeDagger, Closing
    <3> QED
      BY <3>1, <3>2, <3>3 DEF Meant
  <2>3. CASE after = [control EXCEPT !.dagger = TRUE, !.preparing = TRUE]
    <3>1. /\ after.session = control.session /\ after.epoch = control.epoch
          /\ after.state = control.state /\ after.dagger = TRUE /\ after.preparing = TRUE
          /\ after.answered = control.answered
      BY <1>3, <2>3 DEF ControlTypes, Controls
    <3>2. OutcomeTypes(after)
      BY <1>1, <3>1 DEF OutcomeTypes
    <3>3. OutcomeSession(op, after)
      BY <1>1, <1>2, <2>1, <3>1 DEF OutcomeSession
    <3>4. OutcomeDagger(op, after)
      BY <1>6, <2>1, <3>1 DEF OutcomeDagger, Closing
    <3> QED
      BY <3>2, <3>3, <3>4 DEF Meant
  <2> QED
    BY <1>1, <1>6, <2>1, <2>2, <2>3 DEF Outcomes
<1>7. CASE op = "disable_dagger"
  <2>1. control.state # "OFF"
    BY <1>2, <1>7 DEF Outcomes
  <2>2. CASE after = control /\ control.dagger = FALSE
    <3>1. OutcomeTypes(after)
      BY <1>1, <2>2 DEF OutcomeTypes
    <3>2. OutcomeSession(op, after)
      BY <1>1, <1>2, <2>1, <2>2 DEF OutcomeSession
    <3>3. OutcomeDagger(op, after)
      BY <1>7, <2>1, <2>2 DEF OutcomeDagger, Opening
    <3> QED
      BY <3>1, <3>2, <3>3 DEF Meant
  <2>3. CASE control.dagger = TRUE
    <3> DEFINE off == [control EXCEPT !.dagger = FALSE, !.preparing = FALSE]
    <3>1. \/ after = off
          \/ \E st \in {"RETURNING", "HOLD"} : after = [off EXCEPT !.epoch = @ + 1, !.state = st]
      BY <1>2, <1>7, <2>1, <2>3 DEF Outcomes
    <3>2. /\ after.session = control.session /\ after.epoch \in {control.epoch, control.epoch + 1}
          /\ after.state \in {control.state, "RETURNING", "HOLD"} /\ after.dagger = FALSE
          /\ after.preparing = FALSE /\ after.answered = control.answered
      BY <1>3, <3>1 DEF ControlTypes, Controls
    <3>3. OutcomeTypes(after)
      <4>1. after.session \in Nat /\ after.epoch \in Nat
        BY <1>1, <3>2
      <4> QED
        BY <1>1, <3>2, <4>1 DEF OutcomeTypes, ControlStates
    <3>4. OutcomeSession(op, after)
      BY <1>1, <1>2, <2>1, <3>2 DEF OutcomeSession
    <3>5. OutcomeDagger(op, after)
      BY <1>7, <2>1, <3>2 DEF OutcomeDagger, Opening
    <3> QED
      BY <3>3, <3>4, <3>5 DEF Meant
  <2> QED
    BY <1>1, <1>2, <1>7, <2>1, <2>2, <2>3 DEF Outcomes
<1>8. CASE op = "start_model"
  <2>1. CASE control.state = "OFF"
    <3>1. after = [Enabled(control, FALSE) EXCEPT !.epoch = @ + 1, !.state = "RETURNING"]
      BY <1>2, <1>8, <2>1 DEF Outcomes
    <3>2. /\ after.session = sessions + 1 /\ after.epoch = control.epoch + 1 + 1
          /\ after.state = "RETURNING" /\ after.dagger = FALSE /\ after.preparing = FALSE
          /\ after.answered = control.answered
      BY <1>3, <3>1 DEF Enabled, ControlTypes, Controls
    <3>3. OutcomeTypes(after)
      <4>1. after.session \in Nat /\ after.epoch \in Nat
        BY <1>1, <3>2
      <4> QED
        BY <1>1, <3>2, <4>1 DEF OutcomeTypes, ControlStates
    <3>4. OutcomeSession(op, after)
      BY <1>1, <2>1, <3>2 DEF OutcomeSession
    <3>5. OutcomeDagger(op, after)
      BY <3>2 DEF OutcomeDagger
    <3> QED
      BY <3>3, <3>4, <3>5 DEF Meant
  <2>2. CASE control.state # "OFF"
    <3>1. /\ after = [control EXCEPT !.epoch = @ + 1, !.state = "RETURNING"]
          /\ control.preparing = FALSE
      BY <1>1, <1>2, <1>8, <2>2 DEF Outcomes
    <3>2. /\ after.session = control.session /\ after.epoch = control.epoch + 1
          /\ after.state = "RETURNING" /\ after.dagger = control.dagger
          /\ after.preparing = control.preparing /\ after.answered = control.answered
      BY <1>3, <3>1 DEF ControlTypes, Controls
    <3>3. OutcomeTypes(after)
      <4>1. after.session \in Nat /\ after.epoch \in Nat
        BY <1>1, <3>2
      <4> QED
        BY <1>1, <3>2, <4>1 DEF OutcomeTypes, ControlStates
    <3>4. OutcomeSession(op, after)
      BY <1>1, <1>2, <2>2, <3>2 DEF OutcomeSession
    <3>5. OutcomeDagger(op, after)
      BY <1>8, <2>2, <3>1, <3>2 DEF OutcomeDagger, Closing
    <3> QED
      BY <3>3, <3>4, <3>5 DEF Meant
  <2> QED
    BY <2>1, <2>2
<1> QED
  BY <1>4, <1>5, <1>6, <1>7, <1>8 DEF Operations

(* It is an authority again.                                                   *)
LEMMA OutcomesAreControls ==
  ASSUME ApiTypeOK, NEW op \in Operations, NEW after \in Outcomes(op)
  PROVE  after \in Controls
<1>1. control \in Controls /\ sessions + 1 \in Nat
  BY DEF ApiTypeOK, ControlTypes, RuntimeTypes
<1>2. control.epoch + 1 \in Nat
  BY <1>1 DEF Controls
<1>3. \A dagger \in BOOLEAN : Enabled(control, dagger) \in Controls
  BY <1>1, <1>2 DEF Enabled, Controls, ControlStates
<1>4. Disabled(control) \in Controls
  BY <1>1, <1>2 DEF Disabled, Controls, ControlStates
<1>5. \A c \in Controls, st \in ControlStates : [c EXCEPT !.epoch = @ + 1, !.state = st] \in Controls
  <2> TAKE c \in Controls, st \in ControlStates
  <2>1. c.epoch + 1 \in Nat
    BY DEF Controls
  <2> QED
    BY <2>1 DEF Controls
<1>6. \A dagger, preparing \in BOOLEAN :
        [control EXCEPT !.dagger = dagger, !.preparing = preparing] \in Controls
  BY <1>1 DEF Controls
<1>7. CASE op = "enable" \/ op = "disable"
  BY <1>3, <1>4, <1>7 DEF Outcomes
<1>8. CASE op = "enable_dagger"
  BY <1>1, <1>6, <1>8 DEF Outcomes
<1>9. CASE op = "disable_dagger"
  BY <1>1, <1>5, <1>6, <1>9 DEF Outcomes, ControlStates
<1>10. CASE op = "start_model"
  BY <1>1, <1>3, <1>5, <1>10 DEF Outcomes, ControlStates
<1> QED
  BY <1>7, <1>8, <1>9, <1>10 DEF Operations

-----------------------------------------------------------------------------
(* Every action keeps the invariant.                                           *)

Handlers == [pc: {"free", "applied", "prepare", "slots", "prepared", "stop"},
             id: Ids \cup {"none"}, session: Nat, old: BOOLEAN]
Recorders == [ordinary: {"off", "starting", "on"}, capture: [session: Nat, stage: Stages]]

(* The fields of the records, with their types.                                *)
LEMMA Fields ==
  ASSUME ApiTypeOK
  PROVE  /\ control.session \in Nat /\ control.epoch \in Nat /\ control.state \in ControlStates
         /\ control.dagger \in BOOLEAN /\ control.preparing \in BOOLEAN
         /\ control.answered \in SUBSET Ids
         /\ recorder.ordinary \in {"off", "starting", "on"}
         /\ recorder.capture.session \in Nat /\ recorder.capture.stage \in Stages
         /\ api.pc \in {"free", "applied", "prepare", "slots", "prepared", "stop"}
         /\ api.session \in Nat /\ api.old \in BOOLEAN
         /\ pending.op \in AnyOp /\ pending.session \in Nat /\ pending.epoch \in Nat
         /\ sessions \in Nat /\ faults \in Nat /\ restarts \in Nat
BY DEF ApiTypeOK, ControlTypes, Controls, RecorderTypes, HandlerTypes, RuntimeTypes

LEMMA NoCaptureFields ==
  /\ NoCapture.session = 0 /\ NoCapture.stage = "none"
  /\ NoCapture \in [session: Nat, stage: Stages]
BY DEF NoCapture, Stages

LEMMA IdleFields ==
  /\ Idle.pc = "free" /\ Idle.session = 0 /\ Idle.old = FALSE
  /\ Idle \in [pc: {"free", "applied", "prepare", "slots", "prepared", "stop"},
               id: Ids \cup {"none"}, session: Nat, old: BOOLEAN]
BY DEF Idle

LEMMA NoPendingFields ==
  /\ NoPending.op = "none" /\ NoPending.session = 0 /\ NoPending.epoch = 0
  /\ NoPending \in [op: AnyOp, id: Ids \cup {"none"}, session: Nat, epoch: Nat]
BY DEF NoPending, AnyOp

LEMMA FreshFields ==
  /\ Fresh.session = 0 /\ Fresh.epoch = 0 /\ Fresh.state = "OFF"
  /\ Fresh.dagger = FALSE /\ Fresh.preparing = FALSE
  /\ Fresh \in Controls
BY DEF Fresh, ControlStates, Controls

LEMMA AskStep ==
  ASSUME ApiInv, NEW id \in Ids, NEW op \in Operations, Ask(id, op)
  PROVE  ApiInv'
<1>0. /\ ApiTypeOK /\ Counted /\ LastRequest /\ Handling /\ Owned /\ Alone /\ CaptureIsOfSession
  BY DEF ApiInv
<1>1. /\ UNCHANGED <<control, recorder, api, pending, config, runs, left, sessions, restarts, faults>>
      /\ req[id] = NoRequest
      /\ req' = [req EXCEPT ![id] = [op |-> op, session |-> control.session, epoch |-> control.epoch]]
  BY DEF Ask, bounds
<1>2. ReqTypes'
  <2>1. [op |-> op, session |-> control.session, epoch |-> control.epoch]
        \in Requests
    BY <1>0, Fields DEF Requests
  <2> QED
    BY <1>0, <1>1, <2>1 DEF ApiTypeOK, ReqTypes
<1>3. ApiTypeOK' /\ Counted' /\ LastRequest' /\ Alone' /\ CaptureIsOfSession'
  BY <1>0, <1>1, <1>2
     DEF ApiTypeOK, ControlTypes, Controls, RecorderTypes, HandlerTypes, RuntimeTypes, Counted, LastRequest,
         Active, Alone, Captures, CaptureIsOfSession
<1>4. Handling'
  BY <1>0, <1>1 DEF Handling, Preparing, Calm, Active
<1>5. Closes => Closes'
  <2> SUFFICES ASSUME Closes PROVE Closes'
    OBVIOUS
  <2>1. req[api.id] # NoRequest
    BY DEF Closes, Closing, NoRequest
  <2>2. req'[api.id] = req[api.id]
    BY <1>0, <1>1, <1>2, <2>1 DEF ReqTypes, ApiTypeOK, HandlerTypes, Closes
  <2> QED
    BY <1>1, <2>2 DEF Closes, Pending
<1>6. Owned'
  BY <1>0, <1>1, <1>5 DEF Owned, Live, Calm, Active
<1> QED
  BY <1>3, <1>4, <1>6 DEF ApiInv

(* A request that was answered is handled again, without an effect.            *)
LEMMA RepeatStep ==
  ASSUME ApiInv, NEW id \in Ids, api.pc = "free",
         UNCHANGED <<control, pending, recorder, req, config, runs, left, bounds>>,
         api' = [Idle EXCEPT !.pc = "applied", !.id = id]
  PROVE  ApiInv'
<1>0. /\ ApiTypeOK /\ Counted /\ LastRequest /\ Handling /\ Owned /\ Alone /\ CaptureIsOfSession
  BY DEF ApiInv
<1>1. /\ api'.pc = "applied" /\ api'.id = id /\ api'.old = FALSE
      /\ api' \in [pc: {"free", "applied", "prepare", "slots", "prepared", "stop"},
                   id: Ids \cup {"none"}, session: Nat, old: BOOLEAN]
  BY DEF Idle
<1>2. ApiTypeOK'
  BY <1>0, <1>1 DEF ApiTypeOK, ControlTypes, Controls, RecorderTypes, ReqTypes, HandlerTypes, RuntimeTypes, bounds
<1>3. Counted' /\ LastRequest' /\ Alone' /\ CaptureIsOfSession'
  BY <1>0 DEF Counted, LastRequest, Active, Alone, Captures, CaptureIsOfSession, bounds
<1>4. Handling'
  BY <1>0, <1>1 DEF Handling, Preparing
<1>5. Owned'
  BY <1>0 DEF Owned, Live, Calm, Active, Closes
<1> QED
  BY <1>2, <1>3, <1>4, <1>5 DEF ApiInv

(* A request that is applied: a session that is over before it has no capture  *)
(* that could become ready.                                                    *)
LEMMA ApplyStep ==
  ASSUME ApiInv, NEW id \in Ids, api.pc = "free", req[id] # NoRequest,
         NEW after \in Outcomes(req[id].op),
         control' = [after EXCEPT !.answered = @ \cup {id}],
         sessions' = IF after.session > sessions THEN after.session ELSE sessions,
         pending' = [op |-> req[id].op, id |-> id, session |-> after.session, epoch |-> after.epoch],
         api' = [Idle EXCEPT !.pc = "applied", !.id = id],
         UNCHANGED <<recorder, req, config, runs, left, restarts, faults>>
  PROVE  ApiInv'
<1>0. /\ ApiTypeOK /\ Counted /\ LastRequest /\ Handling /\ Owned /\ Alone /\ CaptureIsOfSession
  BY DEF ApiInv
<1> DEFINE op == req[id].op
<1>1. req[id] \in Requests /\ op \in Operations
  BY <1>0 DEF ApiTypeOK, ReqTypes, Requests
<1>2. after \in Controls /\ OutcomeSession(op, after) /\ OutcomeDagger(op, after)
  BY <1>0, <1>1, OutcomesMean, OutcomesAreControls DEF Meant
<1> HIDE DEF op
<1>3. /\ control' \in Controls
      /\ control'.session = after.session /\ control'.epoch = after.epoch
      /\ control'.state = after.state /\ control'.dagger = after.dagger
      /\ control'.preparing = after.preparing
  BY <1>2 DEF Controls
<1>4. /\ after.session \in Nat /\ after.epoch \in Nat /\ after.dagger \in BOOLEAN
      /\ after.preparing \in BOOLEAN
  BY <1>2 DEF Controls
<1>5. /\ api'.pc = "applied" /\ api'.id = id /\ api'.old = FALSE
      /\ api' \in [pc: {"free", "applied", "prepare", "slots", "prepared", "stop"},
                   id: Ids \cup {"none"}, session: Nat, old: BOOLEAN]
  BY DEF Idle
<1>6. /\ pending'.op = op /\ pending'.session = after.session /\ pending'.epoch = after.epoch
      /\ pending' \in [op: AnyOp, id: Ids \cup {"none"}, session: Nat, epoch: Nat]
  BY <1>1, <1>4 DEF AnyOp, op
<1>7. sessions' \in Nat /\ sessions' >= sessions /\ sessions' >= after.session
  BY <1>0, <1>4, Fields
<1>8. ApiTypeOK'
  BY <1>0, <1>3, <1>5, <1>6, <1>7
     DEF ApiTypeOK, ControlTypes, RecorderTypes, ReqTypes, HandlerTypes, RuntimeTypes
<1>9. Counted'
  <2>1. control'.session <= sessions' /\ pending'.session <= sessions'
    BY <1>3, <1>4, <1>6, <1>7
  <2>2. control'.state # "OFF" => control'.session >= 1
    BY <1>2, <1>3 DEF OutcomeSession
  <2>3. control'.dagger = TRUE => control'.state # "OFF"
    BY <1>2, <1>3 DEF OutcomeDagger
  <2> QED
    BY <1>3, <1>4, <2>1, <2>2, <2>3 DEF Counted, Active
<1>10. LastRequest'
  <2>1. pending'.op \in Closing => control'.dagger = FALSE
    BY <1>2, <1>3, <1>6 DEF OutcomeDagger
  <2>2. pending'.op \in Opening => control'.state # "OFF" /\ pending'.session >= 1
    BY <1>2, <1>3, <1>6 DEF OutcomeDagger, OutcomeSession
  <2>3. pending'.epoch <= control'.epoch
    BY <1>3, <1>4, <1>6
  <2> QED
    BY <2>1, <2>2, <2>3 DEF LastRequest, Active
<1>11. recorder.capture.stage # "opening"
  BY <1>0 DEF Handling
<1>12. Handling'
  BY <1>5, <1>11 DEF Handling, Preparing
<1>13. Owned'
  <2> SUFFICES ASSUME Calm, Live
               PROVE  /\ recorder.capture.session = control'.session
                      /\ control'.state # "OFF" \/ Closes'
    BY DEF Owned, Calm, Live, Active
  <2>1. recorder.capture.session = control.session /\ control.state # "OFF"
    BY <1>0 DEF Owned, Closes, Active
  <2>2. control'.session = control.session
    BY <1>2, <1>3, <2>1 DEF OutcomeSession
  <2>3. control'.state = "OFF" => Closes'
    <3> SUFFICES ASSUME control'.state = "OFF" PROVE Closes'
      OBVIOUS
    <3>1. op = "disable"
      BY <1>2, <1>3 DEF OutcomeSession
    <3>2. req'[api'.id].op = op
      BY <1>5 DEF op
    <3>3. pending' = [op |-> op, id |-> id, session |-> control'.session, epoch |-> control'.epoch]
      BY <1>3 DEF op
    <3> QED
      BY <1>5, <3>1, <3>2, <3>3 DEF Closes, Pending, Closing
  <2> QED
    BY <2>1, <2>2, <2>3
<1>14. Alone'
  BY <1>0 DEF Alone, Captures
<1>15. CaptureIsOfSession'
  <2> SUFFICES ASSUME runs, config # "stopping", control'.dagger = TRUE, control'.preparing = FALSE
               PROVE  recorder.capture # NoCapture /\ recorder.capture.session = control'.session
    BY <1>3, <1>4 DEF CaptureIsOfSession
  <2>1. /\ control.dagger = TRUE /\ control.preparing = FALSE /\ control.state # "OFF"
        /\ control'.session = control.session
    BY <1>2, <1>3 DEF OutcomeDagger
  <2> QED
    BY <1>0, <2>1 DEF CaptureIsOfSession, Active
<1> QED
  BY <1>8, <1>9, <1>10, <1>12, <1>13, <1>14, <1>15 DEF ApiInv

LEMMA DeliverStep == ASSUME ApiInv, NEW id \in Ids, Deliver(id) PROVE ApiInv'
<1>1. CASE id \in control.answered
  BY <1>1, RepeatStep DEF Deliver, bounds
<1>2. CASE id \notin control.answered
  <2>1. PICK after \in Outcomes(req[id].op) :
          /\ control' = [after EXCEPT !.answered = @ \cup {id}]
          /\ sessions' = IF after.session > sessions THEN after.session ELSE sessions
          /\ pending' = [op |-> req[id].op, id |-> id, session |-> after.session,
                         epoch |-> after.epoch]
    BY <1>2 DEF Deliver
  <2> QED
    BY <2>1, ApplyStep DEF Deliver
<1> QED
  BY <1>1, <1>2

(* Actions that leave the authority and the requests alone.                    *)
LEMMA SameAuthority ==
  ASSUME ApiInv, UNCHANGED <<control, sessions>>, pending' \in {pending, NoPending}
  PROVE  Counted' /\ LastRequest'
<1>0. Counted /\ LastRequest /\ ApiTypeOK
  BY DEF ApiInv
<1>1. Counted'
  BY <1>0, NoPendingFields, Fields DEF Counted, Active
<1>2. LastRequest'
  BY <1>0, NoPendingFields DEF LastRequest, Active, Closing, Opening
<1> QED
  BY <1>1, <1>2

LEMMA SameTypes ==
  ASSUME ApiInv, control' \in Controls, recorder' \in [ordinary: {"off", "starting", "on"},
                                                      capture: [session: Nat, stage: Stages]],
         req' = req, pending' \in {pending, NoPending},
         api' \in [pc: {"free", "applied", "prepare", "slots", "prepared", "stop"},
                  id: Ids \cup {"none"}, session: Nat, old: BOOLEAN],
         api'.pc # "free" => api'.id = api.id /\ api.pc # "free",
         config' \in {"none", "waiting", "stopping", "closed"}, runs' \in BOOLEAN,
         left' \in BOOLEAN, sessions' \in Nat, restarts' \in Nat, faults' \in Nat
  PROVE  ApiTypeOK'
BY NoPendingFields
   DEF ApiInv, ApiTypeOK, ControlTypes, RecorderTypes, ReqTypes, HandlerTypes, RuntimeTypes

(* The disk is only touched for the last request, and if nothing followed it.  *)
LEMMA CompareStep == ASSUME ApiInv, Compare PROVE ApiInv'
<1>0. /\ ApiTypeOK /\ Counted /\ LastRequest /\ Handling /\ Owned /\ Alone /\ CaptureIsOfSession
  BY DEF ApiInv
<1> DEFINE op == req[api.id].op
           prepares == Pending(api.id) /\ op \in Opening /\ recorder.capture = NoCapture
           stops == Pending(api.id) /\ op \in Closing
<1>1. /\ UNCHANGED <<control, recorder, req, config, runs, left, sessions, restarts, faults>>
      /\ api.pc = "applied" /\ api.old = FALSE /\ recorder.capture.stage # "opening"
      /\ pending' \in {pending, NoPending}
  BY <1>0, Fields DEF Compare, bounds, Handling
<1>2. \/ prepares /\ api' = [api EXCEPT !.pc = "prepare", !.session = control.session]
      \/ stops /\ api' = [api EXCEPT !.pc = "stop"]
      \/ ~prepares /\ ~stops /\ api' = Idle
  BY DEF Compare
<1>3. Pending(api.id) => /\ pending.op = op /\ pending.session = control.session
                         /\ pending.epoch = control.epoch
  BY DEF Pending
<1>4. api \in [pc: {"free", "applied", "prepare", "slots", "prepared", "stop"},
              id: Ids \cup {"none"}, session: Nat, old: BOOLEAN]
  BY <1>0 DEF ApiTypeOK, HandlerTypes
<1>5. prepares => Active
  BY <1>0, <1>3 DEF LastRequest
<1>6. stops => control.dagger = FALSE
  BY <1>0, <1>3, Fields DEF LastRequest
<1>7. Counted' /\ LastRequest'
  BY <1>1, SameAuthority
<1>8. Alone' /\ CaptureIsOfSession'
  BY <1>0, <1>1 DEF Alone, Captures, CaptureIsOfSession, Active
<1>9. Closes => stops
  BY DEF Closes
<1> HIDE DEF op, prepares, stops
<1>10. CASE prepares /\ api' = [api EXCEPT !.pc = "prepare", !.session = control.session]
  <2>1. /\ api'.pc = "prepare" /\ api'.session = control.session /\ api'.old = FALSE
        /\ api'.id = api.id
        /\ api' \in [pc: {"free", "applied", "prepare", "slots", "prepared", "stop"},
                     id: Ids \cup {"none"}, session: Nat, old: BOOLEAN]
    BY <1>0, <1>1, <1>4, <1>10, Fields
  <2>2. ApiTypeOK'
    BY <1>0, <1>1, <2>1, SameTypes DEF ApiTypeOK, ControlTypes, RecorderTypes, RuntimeTypes
  <2>3. recorder.capture = NoCapture
    BY <1>10 DEF prepares
  <2>4. Calm /\ control.dagger => control.preparing
    BY <1>0, <1>5, <1>10, <2>3 DEF CaptureIsOfSession, Calm
  <2>5. Handling'
    BY <1>1, <1>5, <1>10, <2>1, <2>3, <2>4 DEF Handling, Preparing, Calm, Active
  <2>6. Owned'
    BY <1>1, <2>3, NoCaptureFields DEF Owned, Live
  <2> QED
    BY <1>7, <1>8, <2>2, <2>5, <2>6 DEF ApiInv
<1>11. CASE stops /\ api' = [api EXCEPT !.pc = "stop"]
  <2>1. /\ api'.pc = "stop" /\ api'.old = FALSE /\ api'.id = api.id
        /\ api' \in [pc: {"free", "applied", "prepare", "slots", "prepared", "stop"},
                     id: Ids \cup {"none"}, session: Nat, old: BOOLEAN]
    BY <1>1, <1>4, <1>11
  <2>2. ApiTypeOK'
    BY <1>0, <1>1, <2>1, SameTypes DEF ApiTypeOK, ControlTypes, RecorderTypes, RuntimeTypes
  <2>3. Handling'
    BY <1>1, <1>6, <1>11, <2>1 DEF Handling, Preparing
  <2>4. Owned'
    BY <1>0, <1>1, <2>1 DEF Owned, Live, Calm
  <2> QED
    BY <1>7, <1>8, <2>2, <2>3, <2>4 DEF ApiInv
<1>12. CASE ~prepares /\ ~stops /\ api' = Idle
  <2>1. ApiTypeOK'
    BY <1>0, <1>1, <1>12, SameTypes, IdleFields DEF ApiTypeOK, ControlTypes, RecorderTypes, RuntimeTypes
  <2>2. Handling'
    BY <1>1, <1>12, IdleFields DEF Handling, Preparing
  <2>3. Owned'
    BY <1>0, <1>1, <1>9, <1>12 DEF Owned, Live, Calm, Active
  <2> QED
    BY <1>7, <1>8, <2>1, <2>2, <2>3 DEF ApiInv
<1> QED
  BY <1>2, <1>10, <1>11, <1>12

(* The handler goes on, or ends.                                               *)
LEMMA HandlerMoves ==
  ASSUME ApiInv, NEW pc \in {"slots", "prepared"}, api' = [api EXCEPT !.pc = pc], api.pc # "free"
  PROVE  api' \in Handlers /\ api'.pc = pc /\ api'.old = api.old /\ api'.session = api.session
         /\ api'.id = api.id
<1>1. api \in Handlers
  BY DEF ApiInv, ApiTypeOK, HandlerTypes, Handlers
<1> QED
  BY <1>1 DEF Handlers

LEMMA RecorderMoves ==
  ASSUME ApiInv
  PROVE  /\ recorder \in Recorders
         /\ \A st \in Stages : LET after == [recorder EXCEPT !.capture.stage = st]
                              IN  /\ after \in Recorders /\ after.ordinary = recorder.ordinary
                                  /\ after.capture.stage = st
                                  /\ after.capture.session = recorder.capture.session
         /\ \A n \in Nat, st \in Stages :
              LET after == [recorder EXCEPT !.capture = [session |-> n, stage |-> st]]
              IN  /\ after \in Recorders /\ after.ordinary = recorder.ordinary
                  /\ after.capture.stage = st /\ after.capture.session = n
         /\ LET after == [recorder EXCEPT !.capture = NoCapture]
            IN  /\ after \in Recorders /\ after.ordinary = recorder.ordinary
                /\ after.capture = NoCapture
         /\ \A o \in {"off", "starting", "on"} :
              LET after == [recorder EXCEPT !.ordinary = o]
              IN  after \in Recorders /\ after.ordinary = o /\ after.capture = recorder.capture
<1>1. recorder \in Recorders
  BY DEF ApiInv, ApiTypeOK, RecorderTypes, Recorders
<1>2. \A st \in Stages : LET after == [recorder EXCEPT !.capture.stage = st]
                         IN  /\ after \in Recorders /\ after.ordinary = recorder.ordinary
                             /\ after.capture.stage = st
                             /\ after.capture.session = recorder.capture.session
  BY <1>1 DEF Recorders
<1>3. \A n \in Nat, st \in Stages :
        LET after == [recorder EXCEPT !.capture = [session |-> n, stage |-> st]]
        IN  /\ after \in Recorders /\ after.ordinary = recorder.ordinary
            /\ after.capture.stage = st /\ after.capture.session = n
  BY <1>1 DEF Recorders
<1>4. LET after == [recorder EXCEPT !.capture = NoCapture]
      IN  /\ after \in Recorders /\ after.ordinary = recorder.ordinary
          /\ after.capture = NoCapture
  BY <1>1, NoCaptureFields DEF Recorders
<1>5. \A o \in {"off", "starting", "on"} :
        LET after == [recorder EXCEPT !.ordinary = o]
        IN  after \in Recorders /\ after.ordinary = o /\ after.capture = recorder.capture
  BY <1>1 DEF Recorders
<1> QED
  BY <1>1, <1>2, <1>3, <1>4, <1>5

(* What the rest of the types needs.                                           *)
LEMMA WorkerTypes ==
  ASSUME ApiInv, control' \in Controls, recorder' \in Recorders, api' \in Handlers,
         api'.pc # "free" => api'.id = api.id /\ api.pc # "free",
         pending' \in {pending, NoPending}, left' \in BOOLEAN, faults' \in Nat,
         UNCHANGED <<req, config, runs, sessions, restarts>>
  PROVE  ApiTypeOK'
BY SameTypes DEF ApiInv, ApiTypeOK, RuntimeTypes, Recorders, Handlers

LEMMA FaultCounts == ASSUME ApiInv, Fault \/ UNCHANGED faults PROVE faults' \in Nat
BY Fields DEF ApiInv, Fault

LEMMA PrepareCorrectionsStep == ASSUME ApiInv, PrepareCorrections PROVE ApiInv'
<1>0. /\ ApiTypeOK /\ Counted /\ LastRequest /\ Handling /\ Owned /\ Alone /\ CaptureIsOfSession
  BY DEF ApiInv
<1>1. /\ UNCHANGED <<control, req, pending, config, runs, left, sessions, restarts, faults>>
      /\ api.pc = "prepare" /\ ~api.old /\ recorder.capture.stage # "opening"
  BY DEF PrepareCorrections, bounds, CorrectionLockFree
<1>2. control' \in Controls /\ left' \in BOOLEAN /\ faults' \in Nat
  BY <1>0, <1>1 DEF ApiTypeOK, ControlTypes, RuntimeTypes
<1>3. Counted' /\ LastRequest'
  BY <1>1, SameAuthority
<1>4. CASE api' = Idle /\ recorder' = recorder
  <2>1. ApiTypeOK'
    BY <1>1, <1>2, <1>4, WorkerTypes, IdleFields, RecorderMoves DEF Handlers
  <2>2. Handling'
    BY <1>1, <1>4, IdleFields DEF Handling, Preparing
  <2>3. Owned'
    BY <1>0, <1>1, <1>4 DEF Owned, Live, Calm, Active, Closes
  <2>4. Alone' /\ CaptureIsOfSession'
    BY <1>0, <1>1, <1>4 DEF Alone, Captures, CaptureIsOfSession, Active
  <2> QED
    BY <1>3, <2>1, <2>2, <2>3, <2>4 DEF ApiInv
<1>5. CASE /\ api' = [api EXCEPT !.pc = "slots"]
           /\ recorder' = [recorder EXCEPT !.capture = [session |-> api.session, stage |-> "opening"]]
  <2>1. /\ api' \in Handlers /\ api'.pc = "slots" /\ ~api'.old /\ api'.session = api.session
        /\ api'.id = api.id
    BY <1>1, <1>5, HandlerMoves
  <2>2. /\ recorder' \in Recorders /\ recorder'.ordinary = recorder.ordinary
        /\ recorder'.capture.stage = "opening" /\ recorder'.capture.session = api.session
    <3>1. api.session \in Nat /\ "opening" \in Stages
      BY <1>0, Fields DEF Stages
    <3> QED
      BY <1>5, <3>1, RecorderMoves
  <2>3. ApiTypeOK'
    BY <1>1, <1>2, <2>1, <2>2, WorkerTypes
  <2>4. Handling'
    BY <1>0, <1>1, <2>1, <2>2 DEF Handling, Preparing, Calm, Active
  <2>5. Owned'
    BY <1>0, <1>1, <2>2 DEF Handling, Owned, Preparing, Calm, Active
  <2>6. Alone' /\ CaptureIsOfSession'
    BY <1>0, <1>1, <2>2, NoCaptureFields
       DEF Alone, Captures, CaptureIsOfSession, Active, Handling, Preparing, Calm
  <2> QED
    BY <1>3, <2>3, <2>4, <2>5, <2>6 DEF ApiInv
<1> QED
  BY <1>4, <1>5 DEF PrepareCorrections

(* The slots are refused while an ordinary recording runs.                     *)
LEMMA PrepareSlotsStep == ASSUME ApiInv, PrepareSlots PROVE ApiInv'
<1>0. /\ ApiTypeOK /\ Counted /\ LastRequest /\ Handling /\ Owned /\ Alone /\ CaptureIsOfSession
  BY DEF ApiInv
<1>1. /\ UNCHANGED <<control, req, pending, config, runs, left, sessions, restarts>>
      /\ api.pc = "slots" /\ ~api.old /\ recorder.capture.stage = "opening"
      /\ recorder.ordinary # "starting"
  BY <1>0 DEF PrepareSlots, LockFree, Handling
<1>2. control' \in Controls /\ left' \in BOOLEAN /\ faults' \in Nat
  <2>1. Fault \/ UNCHANGED faults
    BY DEF PrepareSlots
  <2> QED
    BY <1>0, <1>1, <2>1, FaultCounts DEF ApiTypeOK, ControlTypes, RuntimeTypes
<1>3. Counted' /\ LastRequest'
  BY <1>1, SameAuthority
<1>4. CASE /\ ~SlotsRefused /\ recorder' = [recorder EXCEPT !.capture.stage = "prepared"]
           /\ api' = [api EXCEPT !.pc = "prepared"]
  <2>1. /\ api' \in Handlers /\ api'.pc = "prepared" /\ ~api'.old /\ api'.session = api.session
        /\ api'.id = api.id
    BY <1>1, <1>4, HandlerMoves
  <2>2. /\ recorder' \in Recorders /\ recorder'.ordinary = "off"
        /\ recorder'.capture.stage = "prepared"
        /\ recorder'.capture.session = recorder.capture.session
    <3>1. "prepared" \in Stages
      BY DEF Stages
    <3>2. recorder.ordinary = "off"
      BY <1>0, <1>1, <1>4, Fields DEF SlotsRefused
    <3> QED
      BY <1>4, <3>1, <3>2, RecorderMoves
  <2>3. ApiTypeOK'
    BY <1>1, <1>2, <2>1, <2>2, WorkerTypes
  <2>4. Handling'
    BY <1>0, <1>1, <2>1, <2>2 DEF Handling, Preparing, Calm, Active
  <2>5. Owned'
    BY <1>0, <1>1, <2>1, <2>2 DEF Owned, Live, Closes, Calm, Active
  <2>6. Alone' /\ CaptureIsOfSession'
    BY <1>0, <1>1, <2>2, NoCaptureFields DEF Alone, Captures, CaptureIsOfSession, Active
  <2> QED
    BY <1>3, <2>3, <2>4, <2>5, <2>6 DEF ApiInv
<1>5. CASE /\ api' = Idle
           /\ \/ recorder' = [recorder EXCEPT !.capture = NoCapture]
              \/ recorder' = [recorder EXCEPT !.capture = Failed(@)]
  <2>1. recorder' \in Recorders /\ recorder'.capture.stage \in {"none", "broken"}
    <3>1. CASE recorder' = [recorder EXCEPT !.capture = NoCapture]
      BY <3>1, RecorderMoves, NoCaptureFields
    <3>2. CASE recorder' = [recorder EXCEPT !.capture = Failed(@)]
      <4>1. recorder \in Recorders
        BY RecorderMoves
      <4> QED
        BY <3>2, <4>1 DEF Failed, Recorders, Stages
    <3> QED
      BY <1>5, <3>1, <3>2
  <2>2. ApiTypeOK'
    BY <1>1, <1>2, <1>5, <2>1, WorkerTypes, IdleFields DEF Handlers
  <2>3. Handling'
    BY <1>5, <2>1, IdleFields DEF Handling, Preparing
  <2>4. Owned' /\ Alone'
    BY <2>1 DEF Owned, Live, Alone, Captures
  <2>5. CaptureIsOfSession'
    BY <1>0, <1>1 DEF CaptureIsOfSession, Active, Handling, Preparing, Calm
  <2> QED
    BY <1>3, <2>2, <2>3, <2>4, <2>5 DEF ApiInv
<1> QED
  BY <1>4, <1>5 DEF PrepareSlots

(* The preparation of a session is over once its own capture is ready.         *)
LEMMA PreparedMeans ==
  ASSUME ApiInv, NEW n \in Nat, control' = Prepared(n)
  PROVE  /\ control' \in Controls
         /\ control'.session = control.session /\ control'.epoch = control.epoch
         /\ control'.state = control.state /\ control'.dagger = control.dagger
         /\ control'.preparing \in {control.preparing, FALSE}
<1>1. control \in Controls
  BY DEF ApiInv, ApiTypeOK, ControlTypes
<1> QED
  BY <1>1 DEF Prepared, Controls

LEMMA WatchdogStep == ASSUME ApiInv, Watchdog PROVE ApiInv'
<1>0. /\ ApiTypeOK /\ Counted /\ LastRequest /\ Handling /\ Owned /\ Alone /\ CaptureIsOfSession
  BY DEF ApiInv
<1>1. /\ UNCHANGED <<recorder, req, api, pending, config, runs, left, sessions, restarts, faults>>
      /\ recorder.capture.stage = "ready"
  BY DEF Watchdog, bounds
<1>2. /\ control' \in Controls
      /\ control'.session = control.session /\ control'.epoch = control.epoch
      /\ control'.state = control.state /\ control'.dagger = control.dagger
  <2>1. control' = Prepared(control.session) /\ control.session \in Nat
    BY <1>0, Fields DEF Watchdog
  <2> QED
    BY <2>1, PreparedMeans
<1>3. ApiTypeOK'
  BY <1>0, <1>1, <1>2 DEF ApiTypeOK, ControlTypes, RecorderTypes, ReqTypes, HandlerTypes, RuntimeTypes
<1>4. Counted' /\ LastRequest'
  BY <1>0, <1>1, <1>2 DEF Counted, LastRequest, Active
<1>5. Handling'
  <2>1. ~(Calm /\ Preparing)
    BY <1>0, <1>1, NoCaptureFields DEF Handling, Preparing
  <2> QED
    BY <1>0, <1>1, <1>2, <2>1 DEF Handling, Preparing, Calm, Active
<1>6. Owned'
  BY <1>0, <1>1, <1>2 DEF Owned, Live, Calm, Active, Closes, Pending
<1>7. Alone'
  BY <1>0, <1>1 DEF Alone, Captures
<1>8. CaptureIsOfSession'
  BY <1>0, <1>1, <1>2, NoCaptureFields DEF CaptureIsOfSession, Owned, Live, Calm
<1> QED
  BY <1>3, <1>4, <1>5, <1>6, <1>7, <1>8 DEF ApiInv

LEMMA FinishStep == ASSUME ApiInv, Finish PROVE ApiInv'
<1>0. /\ ApiTypeOK /\ Counted /\ LastRequest /\ Handling /\ Owned /\ Alone /\ CaptureIsOfSession
  BY DEF ApiInv
<1>1. /\ UNCHANGED <<recorder, req, config, runs, left, sessions, restarts, faults>>
      /\ api.pc = "prepared" /\ ~api.old /\ pending' = NoPending /\ api' = Idle
  BY DEF Finish, bounds
<1>2. \/ recorder.capture.stage = "ready" /\ control' = Prepared(api.session)
      \/ control' = control
  BY DEF Finish
<1>3. /\ control' \in Controls
      /\ control'.session = control.session /\ control'.epoch = control.epoch
      /\ control'.state = control.state /\ control'.dagger = control.dagger
  <2>1. api.session \in Nat /\ control \in Controls
    BY <1>0, Fields DEF ApiTypeOK, ControlTypes
  <2> QED
    BY <1>2, <2>1, PreparedMeans
<1>4. ApiTypeOK'
  BY <1>0, <1>1, <1>3, SameTypes, IdleFields DEF ApiTypeOK, RecorderTypes, RuntimeTypes
<1>5. Counted' /\ LastRequest'
  <2>1. Counted'
    BY <1>0, <1>1, <1>3, NoPendingFields, Fields DEF Counted, Active
  <2>2. LastRequest'
    BY <1>1, NoPendingFields DEF LastRequest, Closing, Opening
  <2> QED
    BY <2>1, <2>2
<1>6. Handling'
  BY <1>0, <1>1, IdleFields DEF Handling, Preparing
<1>7. Owned'
  BY <1>0, <1>1, <1>3 DEF Owned, Live, Calm, Active, Closes
<1>8. Alone'
  BY <1>0, <1>1 DEF Alone, Captures
<1>9. CaptureIsOfSession'
  BY <1>0, <1>1, <1>2, <1>3, NoCaptureFields DEF CaptureIsOfSession, Owned, Live, Calm, Active
<1> QED
  BY <1>4, <1>5, <1>6, <1>7, <1>8, <1>9 DEF ApiInv

(* A capture is stopped when the human is not admitted any more; one that      *)
(* cannot be stopped is never that of a session again.                         *)
LEMMA StopCorrectionsStep == ASSUME ApiInv, StopCorrections PROVE ApiInv'
<1>0. /\ ApiTypeOK /\ Counted /\ LastRequest /\ Handling /\ Owned /\ Alone /\ CaptureIsOfSession
  BY DEF ApiInv
<1>1. /\ UNCHANGED <<control, req, config, runs, left, sessions, restarts>>
      /\ api' = Idle /\ pending' \in {pending, NoPending} /\ control.dagger = FALSE
  BY <1>0, Fields DEF StopCorrections, Handling
<1>2. control' \in Controls /\ left' \in BOOLEAN /\ faults' \in Nat
  <2>1. Fault \/ UNCHANGED faults
    BY DEF StopCorrections
  <2> QED
    BY <1>0, <1>1, <2>1, FaultCounts DEF ApiTypeOK, ControlTypes, RuntimeTypes
<1>3. /\ recorder' \in Recorders /\ recorder'.capture.stage \in {"none", "broken"}
  <2>1. CASE recorder' = [recorder EXCEPT !.capture = NoCapture]
    BY <2>1, RecorderMoves, NoCaptureFields
  <2>2. CASE recorder' = [recorder EXCEPT !.capture = Failed(@)]
    <3>1. recorder \in Recorders
      BY RecorderMoves
    <3> QED
      BY <2>2, <3>1 DEF Failed, Recorders, Stages
  <2> QED
    BY <2>1, <2>2 DEF StopCorrections
<1>4. ApiTypeOK'
  BY <1>1, <1>2, <1>3, WorkerTypes, IdleFields DEF Handlers
<1>5. Counted' /\ LastRequest'
  BY <1>1, SameAuthority
<1>6. Handling'
  BY <1>1, <1>3, IdleFields DEF Handling, Preparing
<1>7. Owned' /\ Alone'
  BY <1>3 DEF Owned, Live, Alone, Captures
<1>8. CaptureIsOfSession'
  BY <1>1 DEF CaptureIsOfSession
<1> QED
  BY <1>4, <1>5, <1>6, <1>7, <1>8 DEF ApiInv

LEMMA FinishOldStep == ASSUME ApiInv, FinishOld PROVE ApiInv'
<1>0. /\ ApiTypeOK /\ Counted /\ LastRequest /\ Handling /\ Owned /\ Alone /\ CaptureIsOfSession
  BY DEF ApiInv
<1>1. /\ UNCHANGED <<control, recorder, req, config, runs, sessions, restarts, faults>>
      /\ api.pc # "applied" /\ api.old /\ pending' = NoPending /\ api' = Idle
      /\ left' = (left \/ api.pc = "prepare")
  BY DEF FinishOld, bounds
<1>2. /\ control' \in Controls /\ recorder' \in Recorders /\ left' \in BOOLEAN /\ faults' \in Nat
  BY <1>0, <1>1, RecorderMoves DEF ApiTypeOK, ControlTypes, RuntimeTypes
<1>3. ApiTypeOK'
  BY <1>1, <1>2, WorkerTypes, IdleFields DEF Handlers
<1>4. Counted' /\ LastRequest'
  BY <1>1, SameAuthority
<1>5. Handling'
  BY <1>0, <1>1, IdleFields DEF Handling, Preparing
<1>6. Owned'
  BY <1>0, <1>1 DEF Owned, Live, Calm, Active, Closes
<1>7. Alone' /\ CaptureIsOfSession'
  BY <1>0, <1>1 DEF Alone, Captures, CaptureIsOfSession, Active
<1> QED
  BY <1>3, <1>4, <1>5, <1>6, <1>7 DEF ApiInv

(* Nothing but the configuration changes, or nothing at all.                   *)
LEMMA SameRuntime ==
  ASSUME ApiInv, UNCHANGED <<control, recorder, req, api, pending, sessions>>,
         runs' /\ config' # "stopping" => runs /\ config # "stopping",
         config' \in {"none", "waiting", "stopping", "closed"}, runs' \in BOOLEAN,
         left' \in BOOLEAN, restarts' \in Nat, faults' \in Nat
  PROVE  ApiInv'
<1>0. /\ ApiTypeOK /\ Counted /\ LastRequest /\ Handling /\ Owned /\ Alone /\ CaptureIsOfSession
  BY DEF ApiInv
<1>1. ApiTypeOK'
  BY <1>0 DEF ApiTypeOK, ControlTypes, RecorderTypes, ReqTypes, HandlerTypes, RuntimeTypes
<1>2. Counted' /\ LastRequest'
  BY SameAuthority
<1>3. Handling'
  BY <1>0 DEF Handling, Preparing, Calm, Active
<1>4. Owned'
  BY <1>0 DEF Owned, Live, Calm, Active, Closes, Pending
<1>5. Alone' /\ CaptureIsOfSession'
  BY <1>0 DEF Alone, Captures, CaptureIsOfSession, Active
<1> QED
  BY <1>1, <1>2, <1>3, <1>4, <1>5 DEF ApiInv

(* Only the ordinary recording or the sources of the capture change.           *)
LEMMA RecorderSteps ==
  ASSUME ApiInv, SourcesChange \/ StartRecording \/ Recording \/ StopRecording
  PROVE  ApiInv'
<1>0. /\ ApiTypeOK /\ Counted /\ LastRequest /\ Handling /\ Owned /\ Alone /\ CaptureIsOfSession
  BY DEF ApiInv
<1>1. UNCHANGED <<control, req, api, pending, config, runs, left, sessions, restarts, faults>>
  BY DEF SourcesChange, StartRecording, Recording, StopRecording, bounds
<1>2. Counted' /\ LastRequest'
  BY <1>1, SameAuthority
<1>3. recorder' \in Recorders => ApiTypeOK'
  BY <1>0, <1>1 DEF ApiTypeOK, ControlTypes, RecorderTypes, ReqTypes, HandlerTypes, RuntimeTypes, Recorders
<1>4. CASE SourcesChange
  <2>1. /\ recorder' \in Recorders /\ recorder'.ordinary = recorder.ordinary
        /\ recorder'.capture.session = recorder.capture.session
        /\ recorder.capture.stage \in {"prepared", "ready"}
        /\ recorder'.capture.stage \in {"prepared", "ready"}
    <3>1. PICK st \in {"prepared", "ready"} : recorder' = [recorder EXCEPT !.capture.stage = st]
      BY <1>4 DEF SourcesChange
    <3>2. st \in Stages /\ recorder.capture.stage \in {"prepared", "ready"}
      BY <1>4 DEF Stages, SourcesChange
    <3> QED
      BY <3>1, <3>2, RecorderMoves
  <2>2. Handling'
    BY <1>0, <1>1, <2>1, NoCaptureFields DEF Handling, Preparing, Calm, Active
  <2>3. Owned'
    BY <1>0, <1>1, <2>1 DEF Owned, Live, Calm, Active, Closes, Pending
  <2>4. Alone' /\ CaptureIsOfSession'
    BY <1>0, <1>1, <2>1, NoCaptureFields DEF Alone, Captures, CaptureIsOfSession, Active
  <2> QED
    BY <1>2, <1>3, <2>1, <2>2, <2>3, <2>4 DEF ApiInv
<1>5. CASE StartRecording \/ Recording \/ StopRecording
  <2>1. \E o \in {"off", "starting", "on"} : recorder' = [recorder EXCEPT !.ordinary = o]
    BY <1>5 DEF StartRecording, Recording, StopRecording
  <2>2. recorder' \in Recorders /\ recorder'.capture = recorder.capture
    BY <2>1, RecorderMoves
  <2>3. Handling'
    BY <1>0, <1>1, <2>2 DEF Handling, Preparing, Calm, Active
  <2>4. Owned'
    BY <1>0, <1>1, <2>2 DEF Owned, Live, Calm, Active, Closes, Pending
  <2>5. Alone'
    <3>1. ~Captures
      BY <1>0, <1>5, NoCaptureFields DEF Alone, Captures, StartRecording, Recording, StopRecording
    <3> QED
      BY <2>2, <3>1 DEF Alone, Captures
  <2>6. CaptureIsOfSession'
    BY <1>0, <1>1, <2>2 DEF CaptureIsOfSession, Active
  <2> QED
    BY <1>2, <1>3, <2>2, <2>3, <2>4, <2>5, <2>6 DEF ApiInv
<1> QED
  BY <1>4, <1>5

(* What the authority does by itself opens and ends no session.                *)
LEMMA ElsewhereStep == ASSUME ApiInv, Elsewhere PROVE ApiInv'
<1>0. /\ ApiTypeOK /\ Counted /\ LastRequest /\ Handling /\ Owned /\ Alone /\ CaptureIsOfSession
  BY DEF ApiInv
<1>1. /\ UNCHANGED <<recorder, req, api, pending, config, runs, left, sessions, restarts, faults>>
      /\ control.state # "OFF"
  BY DEF Elsewhere, bounds, Active
<1>2. PICK st \in {"HOLD", "AUTO", "RETURNING", "MANUAL", "FAULT"} :
        control' = [control EXCEPT !.state = st, !.epoch = IF st = "AUTO" THEN @ ELSE @ + 1]
  BY DEF Elsewhere
<1>3. /\ control \in Controls /\ control.epoch \in Nat /\ control.epoch + 1 \in Nat
      /\ st \in ControlStates
  BY <1>0, Fields DEF ApiTypeOK, ControlTypes, ControlStates
<1>4. /\ control' \in Controls /\ control'.session = control.session
      /\ control'.state # "OFF" /\ control'.dagger = control.dagger
      /\ control'.preparing = control.preparing
      /\ control'.epoch \in {control.epoch, control.epoch + 1}
  BY <1>2, <1>3 DEF Controls
<1>5. ApiTypeOK'
  BY <1>0, <1>1, <1>4 DEF ApiTypeOK, ControlTypes, RecorderTypes, ReqTypes, HandlerTypes, RuntimeTypes
<1>6. Counted'
  BY <1>0, <1>1, <1>4 DEF Counted, Active
<1>7. LastRequest'
  <2>1. pending.epoch \in Nat /\ (pending.epoch <= control.epoch => pending.epoch <= control'.epoch)
    BY <1>0, <1>3, <1>4, Fields
  <2> QED
    BY <1>0, <1>1, <1>4, <2>1 DEF LastRequest, Active
<1>8. Handling'
  BY <1>0, <1>1, <1>4 DEF Handling, Preparing, Calm, Active
<1>9. Owned'
  BY <1>0, <1>1, <1>4 DEF Owned, Live, Calm, Active
<1>10. Alone' /\ CaptureIsOfSession'
  BY <1>0, <1>1, <1>4 DEF Alone, Captures, CaptureIsOfSession, Active
<1> QED
  BY <1>5, <1>6, <1>7, <1>8, <1>9, <1>10 DEF ApiInv

-----------------------------------------------------------------------------
(* The write of a configuration.                                               *)

LEMMA ConfigSteps ==
  ASSUME ApiInv, AskConfig \/ DropConfig \/ BridgeStopped \/ UNCHANGED vars
  PROVE  ApiInv'
<1>1. /\ UNCHANGED <<control, recorder, req, api, pending, left, sessions, faults>>
      /\ runs' \in {runs, FALSE} /\ restarts' \in {restarts, restarts + 1}
      /\ config' \in {config, "none", "waiting"} /\ (runs' => config' = config \/ config # "stopping")
  BY DEF AskConfig, DropConfig, BridgeStopped, vars, bounds
<1>2. /\ config' \in {"none", "waiting", "stopping", "closed"} /\ runs' \in BOOLEAN
      /\ left' \in BOOLEAN /\ restarts' \in Nat /\ faults' \in Nat
  <2>1. RuntimeTypes
    BY DEF ApiInv, ApiTypeOK
  <2>2. restarts \in Nat /\ restarts + 1 \in Nat
    BY <2>1 DEF RuntimeTypes
  <2> QED
    BY <1>1, <2>1, <2>2 DEF RuntimeTypes
<1>3. runs' /\ config' # "stopping" => runs /\ config # "stopping"
  BY <1>1, <1>2 DEF ApiInv, ApiTypeOK, RuntimeTypes
<1> QED
  BY <1>1, <1>2, <1>3, SameRuntime

(* The session ends with the runtime.                                          *)
LEMMA StopRuntimeStep == ASSUME ApiInv, StopRuntime PROVE ApiInv'
<1>0. /\ ApiTypeOK /\ Counted /\ LastRequest /\ Handling /\ Owned /\ Alone /\ CaptureIsOfSession
  BY DEF ApiInv
<1>1. /\ UNCHANGED <<recorder, req, api, pending, runs, left, sessions, restarts, faults>>
      /\ config' = "stopping" /\ control' = IF Active THEN Disabled(control) ELSE control
  BY DEF StopRuntime, bounds
<1>2. control \in Controls /\ control.epoch \in Nat /\ control.epoch + 1 \in Nat
  BY <1>0, Fields DEF ApiTypeOK, ControlTypes
<1>3. /\ control' \in Controls /\ control'.session = control.session
      /\ control'.state = "OFF" /\ control'.dagger = FALSE
      /\ control' = control \/ control'.epoch = control.epoch + 1
  <2>1. CASE Active
    BY <1>1, <1>2, <2>1 DEF Disabled, Controls, ControlStates
  <2>2. CASE ~Active
    BY <1>0, <1>1, <1>2, <2>2, Fields DEF Counted, Active
  <2> QED
    BY <2>1, <2>2
<1>4. ApiTypeOK'
  BY <1>0, <1>1, <1>3 DEF ApiTypeOK, ControlTypes, RecorderTypes, ReqTypes, HandlerTypes, RuntimeTypes
<1>5. Counted'
  BY <1>0, <1>1, <1>3 DEF Counted, Active
<1>6. LastRequest'
  <2>1. pending.epoch \in Nat
    BY <1>0, Fields
  <2>2. CASE control' = control
    BY <1>0, <1>1, <2>2 DEF LastRequest, Active
  <2>3. CASE control'.epoch = control.epoch + 1
    BY <1>0, <1>1, <1>2, <1>3, <2>1, <2>3 DEF LastRequest
  <2> QED
    BY <1>3, <2>2, <2>3
<1>7. Handling'
  BY <1>0, <1>1, <1>3 DEF Handling, Preparing, Calm
<1>8. Owned' /\ Alone' /\ CaptureIsOfSession'
  BY <1>0, <1>1 DEF Owned, Calm, Alone, Captures, CaptureIsOfSession
<1> QED
  BY <1>4, <1>5, <1>6, <1>7, <1>8 DEF ApiInv

LEMMA CloseRecorderStep == ASSUME ApiInv, CloseRecorder PROVE ApiInv'
<1>0. /\ ApiTypeOK /\ Counted /\ LastRequest /\ Handling /\ Owned /\ Alone /\ CaptureIsOfSession
  BY DEF ApiInv
<1>1. /\ UNCHANGED <<control, req, api, pending, runs, left, sessions, restarts, faults>>
      /\ ~runs /\ recorder.capture.stage # "opening"
  BY DEF CloseRecorder, bounds, CorrectionLockFree
<1>2. CASE config' = "none" /\ recorder' = recorder
  <2>1. left' \in BOOLEAN /\ runs' \in BOOLEAN /\ restarts' \in Nat /\ faults' \in Nat
    BY <1>0, <1>1 DEF ApiTypeOK, RuntimeTypes
  <2> QED
    BY <1>1, <1>2, <2>1, SameRuntime
<1>3. CASE config' = "closed" /\ recorder' = [ordinary |-> "off", capture |-> NoCapture]
  <2>1. /\ recorder' \in Recorders /\ recorder'.ordinary = "off" /\ recorder'.capture = NoCapture
    BY <1>3, NoCaptureFields DEF Recorders
  <2>2. ApiTypeOK'
    BY <1>0, <1>1, <1>3, <2>1
       DEF ApiTypeOK, ControlTypes, RecorderTypes, Recorders, ReqTypes, HandlerTypes, RuntimeTypes
  <2>3. Counted' /\ LastRequest'
    BY <1>1, SameAuthority
  <2>4. Handling'
    BY <1>0, <1>1, <2>1, NoCaptureFields DEF Handling, Preparing, Calm
  <2>5. Owned' /\ Alone' /\ CaptureIsOfSession'
    BY <1>1, <2>1, NoCaptureFields DEF Owned, Calm, Alone, CaptureIsOfSession
  <2> QED
    BY <2>2, <2>3, <2>4, <2>5 DEF ApiInv
<1> QED
  BY <1>2, <1>3 DEF CloseRecorder

(* The next runtime has no session; what a handler did is of the old one.      *)
LEMMA StartRuntimeStep == ASSUME ApiInv, StartRuntime PROVE ApiInv'
<1>0. /\ ApiTypeOK /\ Counted /\ LastRequest /\ Handling /\ Owned /\ Alone /\ CaptureIsOfSession
  BY DEF ApiInv
<1>1. /\ UNCHANGED <<req, pending, sessions, restarts, faults>>
      /\ config' = "none" /\ runs' = TRUE /\ control' = Fresh /\ api.pc # "applied"
      /\ api' = [api EXCEPT !.old = api.pc # "free"]
      /\ left' \in BOOLEAN
  BY DEF StartRuntime, bounds, LoopFree
<1>2. /\ recorder' \in Recorders /\ recorder'.ordinary = "off" /\ recorder'.capture = NoCapture
  BY NoCaptureFields DEF StartRuntime, Recorders
<1>3. api \in Handlers
  BY <1>0 DEF ApiTypeOK, HandlerTypes, Handlers
<1>4. /\ api' \in Handlers /\ api'.pc = api.pc /\ api'.id = api.id
      /\ api'.old <=> api.pc # "free"
  <2>1. (api.pc # "free") \in BOOLEAN
    OBVIOUS
  <2> QED
    BY <1>1, <1>3, <2>1 DEF Handlers
<1>5. ApiTypeOK'
  <2>1. sessions' \in Nat /\ restarts' \in Nat /\ faults' \in Nat
    BY <1>0, <1>1 DEF ApiTypeOK, RuntimeTypes
  <2> QED
    BY <1>1, <1>2, <1>4, <2>1, SameTypes, FreshFields DEF Recorders, Handlers
<1>6. Counted'
  BY <1>0, <1>1, FreshFields, Fields DEF Counted, Active
<1>7. LastRequest'
  <2>1. control'.session = 0 /\ control'.dagger = FALSE
    BY <1>1, FreshFields
  <2> QED
    BY <1>0, <1>1, <2>1, Fields DEF LastRequest
<1>8. Handling'
  BY <1>1, <1>2, <1>4, FreshFields, NoCaptureFields DEF Handling, Preparing
<1>9. Owned' /\ Alone' /\ CaptureIsOfSession'
  BY <1>1, <1>2, FreshFields, NoCaptureFields DEF Owned, Live, Alone, CaptureIsOfSession
<1> QED
  BY <1>5, <1>6, <1>7, <1>8, <1>9 DEF ApiInv

-----------------------------------------------------------------------------
LEMMA ApiInvStep == ApiInv /\ [Next]_vars => ApiInv'
<1> SUFFICES ASSUME ApiInv, [Next]_vars PROVE ApiInv'
  OBVIOUS
<1>1. CASE \E id \in Ids : Deliver(id) \/ \E op \in Operations : Ask(id, op)
  BY <1>1, DeliverStep, AskStep
<1>2. CASE Compare \/ Worker \/ Finish \/ FinishOld
  BY <1>2, CompareStep, PrepareCorrectionsStep, PrepareSlotsStep, StopCorrectionsStep, FinishStep,
     FinishOldStep DEF Worker
<1>3. CASE Elsewhere \/ Watchdog
  BY <1>3, ElsewhereStep, WatchdogStep
<1>4. CASE SourcesChange \/ StartRecording \/ Recording \/ StopRecording
  BY <1>4, RecorderSteps
<1>5. CASE AskConfig \/ DropConfig \/ BridgeStopped \/ UNCHANGED vars
  BY <1>5, ConfigSteps
<1>6. CASE StopRuntime \/ CloseRecorder \/ StartRuntime
  BY <1>6, StopRuntimeStep, CloseRecorderStep, StartRuntimeStep
<1> QED
  BY <1>1, <1>2, <1>3, <1>4, <1>5, <1>6 DEF Next

(* The inductive invariant holds of the code for any requests and bounds.      *)
THEOREM ApiInvariant == Spec => []ApiInv
<1>1. Init => ApiInv
  BY ApiInvInit
<1>2. ApiInv /\ [Next]_vars => ApiInv'
  BY ApiInvStep
<1> QED
  BY <1>1, <1>2, PTL DEF Spec

(* The variables of the handler, the authority and the recorder keep their     *)
(* types.                                                                      *)
THEOREM ApiTypeCorrect == Spec => []ApiTypeOK
<1>1. ApiInv => ApiTypeOK
  BY DEF ApiInv
<1> QED
  BY <1>1, ApiInvariant, PTL

(* An ordinary recording and a correction capture never run together, however  *)
(* their threads interleave.                                                   *)
THEOREM NeverBothRecord == Spec => []OneRecorder
<1>1. ApiInv => OneRecorder
  BY DEF ApiInv, Alone, OneRecorder
<1> QED
  BY <1>1, ApiInvariant, PTL

(* The human a session admits is recorded by the capture of this session.      *)
THEOREM TakeoversAreCaptured == Spec => []CaptureIsOfSession
<1>1. ApiInv => CaptureIsOfSession
  BY DEF ApiInv
<1> QED
  BY <1>1, ApiInvariant, PTL

-----------------------------------------------------------------------------
(* Who stops a capture: the handler of a closing request that is the last one, *)
(* or the end of the runtime.                                                  *)
LEMMA StopIsMeant ==
  ASSUME ApiInv, [Next]_vars, Captures, recorder'.capture = NoCapture,
         config \notin {"stopping", "closed"}
  PROVE  ~control.dagger
<1>0. Handling /\ recorder.capture.stage \in {"prepared", "ready"}
  BY DEF ApiInv, Captures
<1>1. recorder' # recorder
  BY <1>0, NoCaptureFields
<1>2. CASE StopCorrections
  BY <1>0, <1>2 DEF StopCorrections, Handling
<1>3. ~PrepareSlots
  BY <1>0 DEF PrepareSlots, Handling
<1>4. ~PrepareCorrections
  <2> SUFFICES ASSUME PrepareCorrections PROVE FALSE
    OBVIOUS
  <2>1. /\ recorder' = [recorder EXCEPT !.capture = [session |-> api.session, stage |-> "opening"]]
        /\ api.session \in Nat /\ "opening" \in Stages
    BY <1>1, Fields DEF ApiInv, PrepareCorrections, Stages
  <2>2. recorder'.capture.stage = "opening"
    BY <2>1, RecorderMoves
  <2> QED
    BY <2>2, NoCaptureFields
<1>5. ~(SourcesChange \/ StartRecording \/ Recording \/ StopRecording)
  <2>1. CASE SourcesChange
    <3>1. "prepared" \in Stages /\ "ready" \in Stages
      BY DEF Stages
    <3> QED
      BY <2>1, <3>1, RecorderMoves, NoCaptureFields DEF SourcesChange
  <2>2. CASE StartRecording \/ Recording \/ StopRecording
    <3>1. \E o \in {"off", "starting", "on"} : recorder' = [recorder EXCEPT !.ordinary = o]
      BY <2>2 DEF StartRecording, Recording, StopRecording
    <3> QED
      BY <1>0, <3>1, RecorderMoves, NoCaptureFields
  <2> QED
    BY <2>1, <2>2
<1>6. ~(CloseRecorder \/ StartRuntime)
  BY DEF CloseRecorder, StartRuntime
<1>7. CASE \/ \E id \in Ids : Deliver(id) \/ \E op \in Operations : Ask(id, op)
           \/ Compare \/ Finish \/ FinishOld \/ Elsewhere \/ Watchdog
           \/ AskConfig \/ DropConfig \/ StopRuntime \/ BridgeStopped \/ UNCHANGED vars
  BY <1>1, <1>7
     DEF Deliver, Ask, Compare, Finish, FinishOld, Elsewhere, Watchdog, AskConfig, DropConfig,
         StopRuntime, BridgeStopped, vars
<1> QED
  BY <1>2, <1>3, <1>4, <1>5, <1>6, <1>7 DEF Next, Worker

(* While the human may take over, no request stops the capture: a delayed or   *)
(* repeated disable does not reach a newer one.                                *)
THEOREM OldRequestsAreHarmless == Spec => OldRequestsStopNothing
<1>1. ApiInv /\ [Next]_vars
      => [Captures /\ recorder'.capture = NoCapture /\ config \notin {"stopping", "closed"}
          => ~control.dagger]_vars
  BY StopIsMeant
<1> QED
  BY <1>1, ApiInvariant, PTL DEF Spec, OldRequestsStopNothing
=============================================================================
