--------------------------- MODULE PurchaseContract ---------------------------
(***************************************************************************)
(* What purchase orders are to their suppliers, without the requests that  *)
(* send them, the stock position or locks.                                 *)
(*                                                                         *)
(* An order is sent in one step, which mails it and makes it SENT, and is  *)
(* not mailed again.  Nothing that was mailed or committed goes back to    *)
(* a draft.  Goods arrive for a committed order only, within the tolerance *)
(* of each line, and the status tells whether all of them have come; an    *)
(* order is cancelled before any arrive, and nothing moves once it is      *)
(* cancelled or received.  Two weaknesses are part of it: an order may be  *)
(* mailed that was cancelled, received or closed a moment before; and a    *)
(* mail may reach the supplier of which the sender was told that it had    *)
(* failed, which leaves the order as it was, to be sent again.             *)
(***************************************************************************)
EXTENDS Integers

CONSTANTS Orders,
          Lines,
          OrderOf,    \* the order of a line
          Ordered,    \* the quantity a line orders
          Extra       \* units the tolerance lets a line receive above that

VARIABLES status,     \* status of an order, SENT from its mail on
          mails,      \* mails that told the supplier of it
          doubts,     \* those of them that the sender was told had failed
          delivered   \* units of a line that arrived

vars == <<status, mails, doubts, delivered>>

Over == {"RECEIVED", "CANCELLED"}
Arriving == {"APPROVED", "SENT", "PARTIALLY_RECEIVED"}
Become(o, to) == status' = [status EXCEPT ![o] = to]

Init == /\ status = [o \in Orders |-> "DRAFT"]
        /\ mails = [o \in Orders |-> 0]
        /\ doubts = [o \in Orders |-> 0]
        /\ delivered = [l \in Lines |-> 0]

(* Drafted, asked for, put back to the draft, approved. *)
Prepare(o) ==
    /\ \/ status[o] = "DRAFT" /\ Become(o, "AWAITING_APPROVAL")
       \/ status[o] = "AWAITING_APPROVAL" /\ (Become(o, "DRAFT") \/ Become(o, "APPROVED"))
    /\ UNCHANGED <<mails, doubts, delivered>>

(* Never once it is known to have been mailed. *)
Mail(o) == mails[o] = doubts[o] /\ mails' = [mails EXCEPT ![o] = @ + 1]

Send(o) == /\ status[o] = "APPROVED" /\ Become(o, "SENT")
           /\ Mail(o)
           /\ UNCHANGED <<doubts, delivered>>

(* The order moved on while its mail was under way. *)
SendLate(o) == /\ status[o] \in {"PARTIALLY_RECEIVED"} \cup Over
               /\ Mail(o)
               /\ UNCHANGED <<status, doubts, delivered>>

SendInDoubt(o) == /\ status[o] \in {"APPROVED", "PARTIALLY_RECEIVED"} \cup Over
                  /\ Mail(o) /\ doubts' = [doubts EXCEPT ![o] = @ + 1]
                  /\ UNCHANGED <<status, delivered>>

Deliver(o) ==
    /\ status[o] \in Arriving
    /\ delivered' \in [Lines -> Nat] /\ delivered' # delivered
    /\ \A l \in Lines :
           IF OrderOf[l] = o
           THEN delivered[l] <= delivered'[l] /\ delivered'[l] <= Ordered[l] + Extra
           ELSE delivered'[l] = delivered[l]
    /\ Become(o, IF \A l \in Lines : OrderOf[l] = o => delivered'[l] >= Ordered[l]
                 THEN "RECEIVED" ELSE "PARTIALLY_RECEIVED")
    /\ UNCHANGED <<mails, doubts>>

(* The rest is not coming. *)
CloseShort(o) == /\ status[o] \in Arriving /\ Become(o, "RECEIVED")
                 /\ UNCHANGED <<mails, doubts, delivered>>

Cancel(o) == /\ status[o] \notin Over /\ Become(o, "CANCELLED")
             /\ \A l \in Lines : OrderOf[l] = o => delivered[l] = 0
             /\ UNCHANGED <<mails, doubts, delivered>>

Next == \E o \in Orders : \/ Prepare(o) \/ Send(o) \/ SendLate(o) \/ SendInDoubt(o)
                          \/ Deliver(o) \/ CloseShort(o) \/ Cancel(o)

Spec == Init /\ [][Next]_vars
================================================================================
