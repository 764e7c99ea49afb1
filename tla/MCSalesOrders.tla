----------------------------- MODULE MCSalesOrders -----------------------------
(* The sales order and its refinement of the contract with the customer. *)
EXTENDS SalesOrders

Carried == [l \in Items |-> InNotes(l, "DISPATCHED")]

Contract == INSTANCE OrderContract WITH
                Ordered <- ItemQty,
                quote <- [total |-> terms.total, byDelivery |-> PerDelivery],
                status <- order,
                billed <- Billed,
                carried <- Carried

(* The order keeps its contract at every step: nothing is billed beyond the   *)
(* total or shipped after the last unit, the last unit fulfils the order, it  *)
(* closes in full and stays cancelled, whatever invoices, notes and planning  *)
(* are under way.                                                             *)
OrderKeepsContract == Contract!Spec
================================================================================
