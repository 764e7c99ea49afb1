---------------------------- MODULE PurchaseStock ----------------------------
(***************************************************************************)
(* Purchase orders from draft to receipt, and the stock position of the    *)
(* material they buy: what is on hand, what is on order, and the ledger of *)
(* movements the position is a projection of.                              *)
(*                                                                         *)
(* Every transition of an order, and every receipt, runs in a transaction  *)
(* that first locks the order, its lines and then the stock row: one       *)
(* action each.  Sending to the supplier, issuing stock and setting the    *)
(* reorder levels read before they lock, or never lock, and take several.  *)
(***************************************************************************)
EXTENDS Integers, FiniteSets, Functions, EntitySave

CONSTANTS
    Orders,      \* purchase orders, all for one material
    Lines,       \* their lines
    OrderOf,     \* the order of a line
    Ordered,     \* the quantity a line orders
    Extra,       \* units the tolerance lets a line receive above that
    Senders,     \* requests that may be sending an order at once
    Issuers,     \* requests that may be issuing stock at once
    Planners,    \* requests that may be setting the reorder levels at once
    Levels,      \* reorder points that may be set
    MaxSends,    \* bound: claims of a sending
    MaxChanges   \* bound: issues, corrections and settings of the levels

ASSUME StockAssumption ==
    /\ IsFiniteSet(Orders) /\ IsFiniteSet(Lines)
    /\ OrderOf \in [Lines -> Orders] /\ Ordered \in [Lines -> Nat \ {0}]
    /\ Extra \in Nat /\ MaxSends \in Nat /\ MaxChanges \in Nat

VARIABLES
    orderStatus,  \* status of a purchase order
    sentAt,       \* stamp of the sending in force, 0 when there is none
    claims,       \* stamps handed out so far
    mailed,       \* emails of an order that went out to the supplier
    doubted,      \* ghost: those of them whose sending was told it had failed
    send,         \* what a sending request is doing
    qtyReceived,  \* units received per line
    stock,        \* the stock row: on hand, on order, reorder point
    moved,        \* the sum of the stock movements
    issue,        \* the quantity an issue has found available, 0 when none
    changes,      \* issues, corrections and settings begun
    plan,         \* the stock row a planner has loaded
    trampled      \* ghost: a planner's save hit a stock row that had moved

orderVars == <<orderStatus, sentAt, claims, mailed, doubted, send, qtyReceived>>
positionVars == <<stock, moved, issue, changes, plan, trampled>>
purchaseVars == <<orderVars, positionVars>>

--------------------------------------------------------------------------------

OrderTransitions ==
    [DRAFT              |-> {"AWAITING_APPROVAL", "CANCELLED"},
     AWAITING_APPROVAL  |-> {"APPROVED", "DRAFT", "CANCELLED"},
     APPROVED           |-> {"SENT", "CANCELLED"},
     SENT               |-> {"PARTIALLY_RECEIVED", "RECEIVED", "CANCELLED"},
     PARTIALLY_RECEIVED |-> {"RECEIVED"},
     RECEIVED           |-> {},
     CANCELLED          |-> {}]
OrderStatuses == DOMAIN OrderTransitions
MayBecome(o, to) == to \in OrderTransitions[orderStatus[o]]
Become(o, to) == orderStatus' = [orderStatus EXCEPT ![o] = to]

Position == [onHand : Int, onOrder : Nat, reorderPoint : Levels \cup {0}]
NoPlan == [at |-> "none"]
Idle == [at |-> "idle"]

LinesOf(o) == {l \in Lines : OrderOf[l] = o}
StillDue(l) == IF qtyReceived[l] < Ordered[l] THEN Ordered[l] - qtyReceived[l] ELSE 0
StillDueOf(o) == SumFunction([l \in LinesOf(o) |-> StillDue(l)])

PurchaseInit ==
    /\ orderStatus = [o \in Orders |-> "DRAFT"]
    /\ sentAt = [o \in Orders |-> 0]
    /\ claims = 0
    /\ mailed = [o \in Orders |-> 0]
    /\ doubted = [o \in Orders |-> 0]
    /\ send = [s \in Senders |-> Idle]
    /\ qtyReceived = [l \in Lines |-> 0]
    /\ stock = [onHand |-> 0, onOrder |-> 0, reorderPoint |-> 0]
    /\ moved = 0
    /\ issue = [i \in Issuers |-> 0]
    /\ changes = 0
    /\ plan = [r \in Planners |-> NoPlan]
    /\ trampled = FALSE

--------------------------------------------------------------------------------
(* The stock row, under its lock. *)

(* The figure never falls below zero. *)
AdjustOnOrder(position, qty) ==
    [position EXCEPT !.onOrder = IF @ + qty < 0 THEN 0 ELSE @ + qty]

(* Variant: the position has the floor the figure on order has. *)
ApplyMovementAboveZero(position, qty) ==
    [position EXCEPT !.onHand = IF @ + qty < 0 THEN 0 ELSE @ + qty]

(* A movement and its effect on the row commit together. *)
ApplyMovement(position, qty) == [position EXCEPT !.onHand = @ + qty]

--------------------------------------------------------------------------------
(* The life of an order. *)

Submit(o) ==
    /\ MayBecome(o, "AWAITING_APPROVAL")
    /\ Become(o, "AWAITING_APPROVAL")
    /\ UNCHANGED <<sentAt, claims, mailed, doubted, send, qtyReceived, positionVars>>

Reopen(o) ==
    /\ MayBecome(o, "DRAFT")
    /\ Become(o, "DRAFT")
    /\ UNCHANGED <<sentAt, claims, mailed, doubted, send, qtyReceived, positionVars>>

(* From here on the shortage counts as dealt with. *)
ApproveOrder(o) ==
    /\ MayBecome(o, "APPROVED")
    /\ Become(o, "APPROVED")
    /\ stock' = AdjustOnOrder(stock, StillDueOf(o))
    /\ UNCHANGED <<sentAt, claims, mailed, doubted, send, qtyReceived, moved, issue, changes, plan, trampled>>

(* Variant: closing short only changes the status. *)
CloseShortUnreleased(o) ==
    /\ MayBecome(o, "RECEIVED")
    /\ Become(o, "RECEIVED")
    /\ UNCHANGED <<sentAt, claims, mailed, doubted, send, qtyReceived, positionVars>>

(* The rest of the delivery is not coming. *)
CloseShort(o) ==
    /\ MayBecome(o, "RECEIVED")
    /\ Become(o, "RECEIVED")
    /\ stock' = AdjustOnOrder(stock, -StillDueOf(o))
    /\ UNCHANGED <<sentAt, claims, mailed, doubted, send, qtyReceived, moved, issue, changes, plan, trampled>>

Committed == {"APPROVED", "SENT", "PARTIALLY_RECEIVED"}

(* Only what was committed is released. *)
CancelOrder(o) ==
    /\ MayBecome(o, "CANCELLED")
    /\ Become(o, "CANCELLED")
    /\ stock' = IF orderStatus[o] \in Committed
                THEN AdjustOnOrder(stock, -StillDueOf(o)) ELSE stock
    /\ UNCHANGED <<sentAt, claims, mailed, doubted, send, qtyReceived, moved, issue, changes, plan, trampled>>

(* One delivery: some of the lines, each within the tolerance.  The status *)
(* follows the lines.  What arrived is no longer on order, all of it.      *)
ReceiveGoods(o, qty) ==
    /\ orderStatus[o] \in {"SENT", "APPROVED", "PARTIALLY_RECEIVED"}
    /\ \E l \in LinesOf(o) : qty[l] > 0
    /\ \A l \in Lines : qty[l] > 0 => /\ OrderOf[l] = o
                                      /\ qtyReceived[l] + qty[l] <= Ordered[l] + Extra
    /\ qtyReceived' = [l \in Lines |-> qtyReceived[l] + qty[l]]
    /\ LET arrived == SumFunction([l \in LinesOf(o) |-> qty[l]])
       IN  /\ stock' = AdjustOnOrder(ApplyMovement(stock, arrived), -arrived)
           /\ moved' = moved + arrived
    /\ Become(o, IF \A l \in LinesOf(o) : qtyReceived'[l] >= Ordered[l]
                 THEN "RECEIVED" ELSE "PARTIALLY_RECEIVED")
    /\ UNCHANGED <<sentAt, claims, mailed, doubted, send, issue, changes, plan, trampled>>

--------------------------------------------------------------------------------
(* sendToSupplier: look, claim, email, and undo the claim if that failed. *)

Goto(s, place) == send' = [send EXCEPT ![s].at = place]

LookBeforeSend(s, o) ==
    /\ send[s] = Idle /\ orderStatus[o] = "APPROVED"
    /\ send' = [send EXCEPT ![s] = [at |-> "looked", order |-> o, stamp |-> 0]]
    /\ UNCHANGED <<orderStatus, sentAt, claims, mailed, doubted, qtyReceived, positionVars>>

(* Of two requests one moves the order to SENT. *)
MarkSent(s) ==
    LET o == send[s].order IN
    /\ send[s].at = "looked" /\ claims < MaxSends
    /\ MayBecome(o, "SENT")
    /\ Become(o, "SENT")
    /\ claims' = claims + 1
    /\ sentAt' = [sentAt EXCEPT ![o] = claims + 1]
    /\ send' = [send EXCEPT ![s].at = "claimed", ![s].stamp = claims + 1]
    /\ UNCHANGED <<mailed, doubted, qtyReceived, positionVars>>

(* The other one fails, and sends nothing. *)
LoseClaim(s) ==
    /\ send[s].at = "looked" /\ ~MayBecome(send[s].order, "SENT")
    /\ send' = [send EXCEPT ![s] = Idle]
    /\ UNCHANGED <<orderStatus, sentAt, claims, mailed, doubted, qtyReceived, positionVars>>

MailGoesOut(s) ==
    /\ send[s].at = "claimed"
    /\ mailed' = [mailed EXCEPT ![send[s].order] = @ + 1]
    /\ send' = [send EXCEPT ![s] = Idle]
    /\ UNCHANGED <<orderStatus, sentAt, claims, doubted, qtyReceived, positionVars>>

(* The call fails: before the email was accepted, or after it, when the reply *)
(* was lost or came too late.                                                 *)
MailFails(s) ==
    LET o == send[s].order IN
    /\ send[s].at = "claimed"
    /\ \/ UNCHANGED <<mailed, doubted>>
       \/ /\ mailed' = [mailed EXCEPT ![o] = @ + 1]
          /\ doubted' = [doubted EXCEPT ![o] = @ + 1]
    /\ Goto(s, "failed")
    /\ UNCHANGED <<orderStatus, sentAt, claims, qtyReceived, positionVars>>

(* Variant: the claim is undone whatever has become of the order. *)
RevertSentAnyway(s) ==
    LET o == send[s].order IN
    /\ send[s].at = "failed"
    /\ Become(o, "APPROVED") /\ sentAt' = [sentAt EXCEPT ![o] = 0]
    /\ send' = [send EXCEPT ![s] = Idle]
    /\ UNCHANGED <<claims, mailed, doubted, qtyReceived, positionVars>>

(* Only while the order is as this request left it. *)
RevertSent(s) ==
    LET o == send[s].order IN
    /\ send[s].at = "failed"
    /\ IF orderStatus[o] = "SENT" /\ sentAt[o] = send[s].stamp
       THEN Become(o, "APPROVED") /\ sentAt' = [sentAt EXCEPT ![o] = 0]
       ELSE UNCHANGED <<orderStatus, sentAt>>
    /\ send' = [send EXCEPT ![s] = Idle]
    /\ UNCHANGED <<claims, mailed, doubted, qtyReceived, positionVars>>

(* The process dies, or the revert fails: the claim stands. *)
SenderDies(s) ==
    /\ send[s] # Idle
    /\ send' = [send EXCEPT ![s] = Idle]
    /\ UNCHANGED <<orderStatus, sentAt, claims, mailed, doubted, qtyReceived, positionVars>>

--------------------------------------------------------------------------------
(* Issues, corrections and reorder levels. *)

(* What is available is read without the lock. *)
CheckAvailable(i, qty) ==
    /\ issue[i] = 0 /\ changes < MaxChanges
    /\ stock.onHand >= qty
    /\ issue' = [issue EXCEPT ![i] = qty]
    /\ changes' = changes + 1
    /\ UNCHANGED <<orderVars, stock, moved, plan, trampled>>

IssueStock(i) ==
    /\ issue[i] > 0
    /\ stock' = ApplyMovement(stock, -issue[i])
    /\ moved' = moved - issue[i]
    /\ issue' = [issue EXCEPT ![i] = 0]
    /\ UNCHANGED <<orderVars, changes, plan, trampled>>

(* A count is corrected; the position may go below zero. *)
AdjustStock(qty) ==
    /\ changes < MaxChanges
    /\ stock' = ApplyMovement(stock, qty)
    /\ moved' = moved + qty
    /\ changes' = changes + 1
    /\ UNCHANGED <<orderVars, issue, plan, trampled>>

(* setReorderLevels loads the row without a lock, sets two columns and saves. *)
LoadPosition(r, level) ==
    /\ plan[r] = NoPlan /\ changes < MaxChanges
    /\ plan' = [plan EXCEPT ![r] = [at |-> "loaded", dirty |-> {},
                                    copy |-> [stock EXCEPT !.reorderPoint = level]]]
    /\ changes' = changes + 1
    /\ UNCHANGED <<orderVars, stock, moved, issue, trampled>>

ComparePosition(r) ==
    /\ plan[r].at = "loaded"
    /\ plan' = [plan EXCEPT ![r].at = "compared", ![r].dirty = Dirty(plan[r].copy, stock)]
    /\ UNCHANGED <<orderVars, stock, moved, issue, changes, trampled>>

SavePosition(r) ==
    /\ plan[r].at = "compared"
    /\ stock' = Saved(plan[r].copy, stock, plan[r].dirty)
    /\ trampled' = (trampled \/ stock'.onHand # stock.onHand \/ stock'.onOrder # stock.onOrder)
    /\ plan' = [plan EXCEPT ![r] = NoPlan]
    /\ UNCHANGED <<orderVars, moved, issue, changes>>

--------------------------------------------------------------------------------

OrderStep(o) ==
    \/ Submit(o) \/ Reopen(o) \/ ApproveOrder(o) \/ CloseShort(o) \/ CancelOrder(o)
    \/ \E qty \in [Lines -> 0..1] : ReceiveGoods(o, qty)

SendStep(s) ==
    \/ \E o \in Orders : LookBeforeSend(s, o)
    \/ MarkSent(s) \/ LoseClaim(s) \/ MailGoesOut(s) \/ MailFails(s)
    \/ RevertSent(s) \/ SenderDies(s)

PositionStep ==
    \/ \E i \in Issuers : CheckAvailable(i, 1) \/ IssueStock(i)
    \/ \E qty \in {-1, 1} : AdjustStock(qty)
    \/ \E r \in Planners : \/ \E level \in Levels : LoadPosition(r, level)
                           \/ ComparePosition(r)
                           \/ SavePosition(r)

PurchaseNext ==
    \/ \E o \in Orders : OrderStep(o)
    \/ \E s \in Senders : SendStep(s)
    \/ PositionStep

PurchaseSpec == PurchaseInit /\ [][PurchaseNext]_purchaseVars

--------------------------------------------------------------------------------
(* Properties *)

(* Types of the orders, of the requests in progress and of the stock row. *)
PurchaseTypeOK ==
    /\ orderStatus \in [Orders -> OrderStatuses]
    /\ sentAt \in [Orders -> Nat] /\ claims \in Nat
    /\ mailed \in [Orders -> Nat] /\ doubted \in [Orders -> Nat]
    /\ send \in [Senders -> {Idle} \cup [at : {"looked", "claimed", "failed"},
                                         order : Orders, stamp : Nat]]
    /\ qtyReceived \in [Lines -> Nat]
    /\ stock \in Position /\ moved \in Int
    /\ issue \in [Issuers -> Nat] /\ changes \in Nat
    /\ plan \in [Planners -> {NoPlan} \cup [at : {"loaded", "compared"},
                                            copy : Position, dirty : SUBSET DOMAIN stock]]
    /\ trampled \in BOOLEAN

(* What reconcile looks for is never there: the quantity on hand is what    *)
(* the movements come to, unless setting the reorder levels wrote a stale   *)
(* position over one.                                                       *)
PositionFollowsLedger == ~trampled => stock.onHand = moved

(* An outstanding order is counted once, however approvals, receipts,       *)
(* cancellations and short closings interleave: what is on order is what    *)
(* the committed orders still expect, unless a line received more than it   *)
(* ordered or a stale position was saved.                                   *)
OnOrderTellsOpenOrders ==
    ~trampled /\ (\A l \in Lines : qtyReceived[l] <= Ordered[l]) =>
        stock.onOrder = SumFunction([o \in {p \in Orders : orderStatus[p] \in Committed} |-> StillDueOf(o)])

(* Goods of an order are never stranded: an order that can be cancelled, or *)
(* was, has received nothing.                                               *)
NothingStranded ==
    \A o \in Orders : orderStatus[o] \notin {"PARTIALLY_RECEIVED", "RECEIVED"} =>
                          \A l \in LinesOf(o) : qtyReceived[l] = 0

(* The supplier is emailed an order again only while every email of it so    *)
(* far came from a sending that was told it had failed; one that is known to *)
(* have gone out is the last, and the order does not become sendable again.  *)
MailedAgainOnlyInDoubt ==
    \A o \in Orders :
        \/ mailed[o] = doubted[o]
        \/ /\ mailed[o] = doubted[o] + 1
           /\ orderStatus[o] \notin {"DRAFT", "AWAITING_APPROVAL", "APPROVED"}
================================================================================
