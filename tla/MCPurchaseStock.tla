---------------------------- MODULE MCPurchaseStock ----------------------------
(* The purchase orders and their refinement of the contract with suppliers. *)
EXTENDS PurchaseStock

(* A claim to send whose mail is not known to have gone, as it is under way,  *)
(* failed or was abandoned, does not show.                                    *)
StatusSeen == [o \in Orders |-> IF orderStatus[o] = "SENT" /\ mailed[o] = doubted[o]
                                THEN "APPROVED" ELSE orderStatus[o]]

Supplier == INSTANCE PurchaseContract WITH
                status <- StatusSeen,
                mails <- mailed,
                doubts <- doubted,
                delivered <- qtyReceived

(* Whoever sends an order beside others, fails, undoes the claim or dies, and *)
(* whatever arrives or is cancelled meanwhile, the suppliers see orders that  *)
(* are sent in one step, once but for mails that were wrongly told to have    *)
(* failed, and move on as their contract says.                                *)
SupplierContractKept == Supplier!Spec
================================================================================
