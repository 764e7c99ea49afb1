----------------------------- MODULE OrderContract -----------------------------
(***************************************************************************)
(* What a sales order promises the customer and whoever reads its status,  *)
(* without stages, invoices, delivery notes, work orders or locks.         *)
(*                                                                         *)
(* What has been billed never exceeds the quote, and goes down by a void   *)
(* only.  Goods leave for an order that is open, never more of a line than *)
(* was ordered, and the last unit fulfils it.  An order is closed when all *)
(* of it is billed, unless it is billed by delivery, and is cancelled only *)
(* while nothing is billed or out; nothing happens to it afterwards.       *)
(***************************************************************************)
EXTENDS Integers

CONSTANTS Items,     \* lines of the order
          Ordered    \* the quantity a line orders

VARIABLES quote,     \* the total, and whether it is billed by delivery
          status,    \* status of the order, none before it exists
          billed,    \* the amount of the invoices that stand
          carried    \* units of a line that left on delivery notes

vars == <<quote, status, billed, carried>>

Nothing == [l \in Items |-> 0]
Open == status \in {"OPEN", "IN_PRODUCTION"}
Exists == status \notin {"none", "CANCELLED"}

Init == /\ quote \in [total : Nat, byDelivery : BOOLEAN]
        /\ status = "none" /\ billed = 0 /\ carried = Nothing

(* The invoices that are due on approval come with the order. *)
Accept == /\ status = "none" /\ status' = "OPEN"
          /\ billed' \in 0..quote.total
          /\ UNCHANGED <<quote, carried>>

Bill == /\ Exists
        /\ billed' \in billed..quote.total
        /\ UNCHANGED <<quote, status, carried>>

Void == /\ billed' \in 0..billed
        /\ UNCHANGED <<quote, status, carried>>

Ship == /\ Open
        /\ carried' \in [Items -> Nat]
        /\ \A l \in Items : carried[l] <= carried'[l] /\ carried'[l] <= Ordered[l]
        /\ status' = IF carried' = Ordered THEN "FULFILLED" ELSE status
        /\ UNCHANGED <<quote, billed>>

(* By hand, for an order that nothing of leaves on a note. *)
Fulfil == /\ Open /\ carried = Nothing
          /\ status' = "FULFILLED"
          /\ UNCHANGED <<quote, billed, carried>>

StartProduction == /\ status = "OPEN" /\ status' = "IN_PRODUCTION"
                   /\ UNCHANGED <<quote, billed, carried>>

GiveUpProduction == /\ status = "IN_PRODUCTION" /\ status' = "OPEN"
                    /\ UNCHANGED <<quote, billed, carried>>

Close == /\ status = "FULFILLED" /\ status' = "CLOSED"
         /\ quote.byDelivery \/ billed = quote.total
         /\ UNCHANGED <<quote, billed, carried>>

Cancel == /\ Exists /\ billed = 0 /\ carried = Nothing
          /\ status' = "CANCELLED"
          /\ UNCHANGED <<quote, billed, carried>>

Next == \/ Accept \/ Bill \/ Void \/ Ship \/ Fulfil
        \/ StartProduction \/ GiveUpProduction \/ Close \/ Cancel

Spec == Init /\ [][Next]_vars
================================================================================
