----------------------------- MODULE MCEventOutbox -----------------------------
(* Small instances of the outbox, and its refinement of the delivery contract. *)
EXTENDS EventOutbox

Stage(e) == CASE status[e] = "PENDING" -> "owed"
              [] status[e] = "DELIVERED" -> "delivered"
              [] status[e] = "DEAD" -> "dead"
              [] status[e] = "PRUNED" -> "forgotten"
              [] OTHER -> "none"

Contract == INSTANCE EventDelivery WITH
                Durable <- TxEvents,
                stage <- [e \in Events |-> Stage(e)]

(* The outbox keeps the safety half of the delivery contract: a committed  *)
(* event is owed at once, a settled one is re-opened by a person only, and *)
(* what is forgotten was delivered.                                        *)
DeliveryContract == Contract!Safety

(* Every row is delivered or parked, or pruned. *)
AllSettled == \A e \in Events : status[e] # "PENDING"
================================================================================
