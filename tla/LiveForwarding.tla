--------------------------- MODULE LiveForwarding ---------------------------
(***************************************************************************)
(* forward_live_command of middleware/core/ros_bridge.py: the two-phase    *)
(* path of a live joint target on the command executor.  The authority is  *)
(* checked under the lock, the target is converted and collision-checked   *)
(* without it, and everything is checked again under the lock before the   *)
(* publication.  Any step of the gate may come in between.                 *)
(*                                                                         *)
(* One target is in flight at a time, for as long as the network and the   *)
(* preparation take.  Of its stamp, two facts matter: it is newer than     *)
(* source_cutoff (fresh), and newer than the cut-off of the present grant, *)
(* which the tick makes the source cut-off when it opens the output.       *)
(***************************************************************************)
EXTENDS OutputGate

VARIABLES
  target,            (* the target in flight                                 *)
  executorUp,        (* the command executor still spins                     *)
  manualOutputs      (* history: manual targets published in this epoch      *)

forwardVars == <<target, executorUp, manualOutputs>>
liveVars == <<allVars, forwardVars>>

NoTarget == [stage |-> "none"]

Targets ==
  [stage: {"received", "checked"}, source: Sources, token: Nat, minted: Nat,
   checked: Nat, fresh: BOOLEAN, granted: BOOLEAN]

LiveTypeOK ==
  /\ GateTypeOK
  /\ target = NoTarget \/ target \in Targets
  /\ executorUp \in BOOLEAN /\ manualOutputs \in Nat

LiveInit ==
  /\ GateInit
  /\ target = NoTarget /\ executorUp = TRUE /\ manualOutputs = 0

---------------------------------------------------------------------------
(* A producer stamps a target, with the current token or with none: the    *)
(* private topic carries a token, whose source is the stream.              *)
Mint(src, token) ==
  /\ target = NoTarget /\ executorUp
  /\ token # 0 => src = source
  /\ target' = [stage |-> "received", source |-> src, token |-> token, minted |-> outputEpoch,
                checked |-> 0, fresh |-> TRUE, granted |-> TRUE]
  /\ UNCHANGED <<allVars, executorUp, manualOutputs>>

(* Faulty variant of Stamped: a revocation leaves the cut-off where it was. *)
StampedByGrantOnly ==
  IF target = NoTarget THEN NoTarget
  ELSE [target EXCEPT !.granted = target.granted /\ (phase' = phase \/ phase' # "grant")]

(* What a step of the gate does to the stamps in flight: a revocation      *)
(* moves the cut-off to now, a grant notes its own, the opening restores   *)
(* the grant's.                                                            *)
Stamped ==
  IF target = NoTarget THEN NoTarget
  ELSE [target EXCEPT
         !.granted = target.granted /\ (phase' = phase \/ phase' # "grant"),
         !.fresh = IF outputEpoch' # outputEpoch THEN FALSE
                   ELSE IF active /\ ~outputEnabled /\ outputEnabled' THEN target.granted
                   ELSE target.fresh]

GateStep ==
  /\ GateNext
  /\ target' = Stamped
  /\ manualOutputs' = IF epoch' # epoch THEN 0 ELSE manualOutputs
  /\ UNCHANGED executorUp

(* ControlOwnership.allows: the whole token must be the current one.       *)
Allows(token) == token = epoch /\ (AllowsMotion \/ AllowsVr)

MayForward ==
  /\ Ready /\ outputEnabled /\ ~replay /\ commandSource = target.source
  /\ active => Allows(target.token)

(* First locked section; a target it refuses is dropped.                   *)
Check ==
  /\ target.stage = "received" /\ target.fresh /\ MayForward
  /\ target' = [target EXCEPT !.stage = "checked", !.checked = outputEpoch]
  /\ UNCHANGED <<allVars, executorUp, manualOutputs>>

(* Lost, refused by a check, or refused by prepare or commit.              *)
Drop ==
  /\ target # NoTarget /\ target' = NoTarget
  /\ UNCHANGED <<allVars, executorUp, manualOutputs>>

Publishable ==
  /\ target.stage = "checked" /\ target.checked = outputEpoch
  /\ MayForward

(* Second locked section: commit, publish and account for it.              *)
Publish ==
  /\ Publishable
  /\ target' = NoTarget
  /\ IF active /\ source = "vr"
       THEN Sent /\ manualOutputs' = manualOutputs + 1
       ELSE UNCHANGED <<vars, manualOutputs>>
  /\ UNCHANGED <<gateVars, executorUp>>

(* `sent` reads the clock again after the publication.  When the input     *)
(* expires in between it raises, which leaves the callback and ends the    *)
(* executor's spin.                                                        *)
PublishThenRaise ==
  /\ Publishable
  /\ active /\ source = "vr" /\ manualOutputs <= MaxCommands
  /\ target' = NoTarget /\ manualOutputs' = manualOutputs + 1
  /\ InputExpires
  /\ executorUp' = FALSE
  /\ UNCHANGED gateVars

Forward ==
  \/ \E src \in Sources, token \in {0, epoch} : Mint(src, token)
  \/ Check \/ Drop \/ Publish \/ PublishThenRaise

LiveNext == GateStep \/ Forward

LiveSpec == LiveInit /\ [][LiveNext]_liveVars

---------------------------------------------------------------------------
(* Properties.                                                             *)

(* A target the second check lets through was stamped under the authority  *)
(* it is published under: in a session after the grant of the present      *)
(* epoch, outside of one after the last revocation of the output.  A       *)
(* target of an earlier source, session, takeover or replay that spent     *)
(* any number of steps in the network or in the preparation is refused.    *)
FencedTargets ==
  Publishable => IF active THEN target.token = epoch /\ target.granted
                 ELSE target.minted = outputEpoch

(* The capture is promised every manual action HC finally sent             *)
(* (docs/DAGGER.md:72): the counter that numbers the evidence has counted  *)
(* each publication of the running manual epoch.                           *)
EvidenceForEveryOutput == manualOutputs = commandSeq
===========================================================================
