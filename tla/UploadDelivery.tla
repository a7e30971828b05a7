-------------------------- MODULE UploadDelivery --------------------------
(***************************************************************************)
(* What the upload client promises of a finished recording: it is bound to *)
(* one platform task, once and for good, and becomes at most one raw       *)
(* source there, whatever is retried, cancelled, repeated or interrupted.  *)
(***************************************************************************)
EXTENDS Integers

CONSTANTS Artifacts, Bindings, NoBinding

VARIABLES
  bound,       (* the task an artifact is frozen to         *)
  delivered    (* the tasks at which it became a raw source *)

delivery == <<bound, delivered>>

DeliveryInit ==
  /\ bound = [a \in Artifacts |-> NoBinding]
  /\ delivered = [a \in Artifacts |-> {}]

(* One client upload identity is given to the artifact.                    *)
Freeze(a) ==
  /\ bound[a] = NoBinding
  /\ \E b \in Bindings : bound' = [bound EXCEPT ![a] = b]
  /\ UNCHANGED delivered

Deliver(a) ==
  /\ bound[a] # NoBinding /\ delivered[a] = {}
  /\ delivered' = [delivered EXCEPT ![a] = {bound[a]}]
  /\ UNCHANGED bound

DeliveryNext == \E a \in Artifacts : Freeze(a) \/ Deliver(a)

DeliverySpec == DeliveryInit /\ [][DeliveryNext]_delivery
============================================================================
